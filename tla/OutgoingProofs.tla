-------------------------- MODULE OutgoingProofs ---------------------------
(***************************************************************************)
(* For any number of lines of any length, and for any other TLVs: that the *)
(* two threads lose no fragment between them (MailboxInv), that a queue    *)
(* and the packets made of it are a stream and that the neighbour is told  *)
(* goodbye (QueueInv).  What fits in a packet is a recursion on the queue: *)
(* it is reasoned about by Induction.                                      *)
(***************************************************************************)
EXTENDS Outgoing, Induction, SequenceTheorems, FiniteSetTheorems, TLAPS

(* Sequences of fragments. *)

\* An element appended to the last of three sequences is appended to all.
LEMMA AppendLast ==
  \A a, b, c \in Seq(Fragment), x \in Fragment :
    Append(a \o b \o c, x) = a \o b \o Append(c, x)
<1> SUFFICES ASSUME NEW a \in Seq(Fragment), NEW b \in Seq(Fragment),
                    NEW c \in Seq(Fragment), NEW x \in Fragment
             PROVE  Append(a \o b \o c, x) = a \o b \o Append(c, x)
  OBVIOUS
<1> QED
  OBVIOUS

\* Concatenation is associative.
LEMMA Regroup ==
  \A a, b, c \in Seq(Fragment) : a \o (b \o c) = (a \o b) \o c
<1> SUFFICES ASSUME NEW a \in Seq(Fragment), NEW b \in Seq(Fragment),
                    NEW c \in Seq(Fragment)
             PROVE  a \o (b \o c) = (a \o b) \o c
  OBVIOUS
<1> QED
  OBVIOUS

\* To move the first element that remains after i to the end of a.
LEMMA MoveOne ==
  \A a, c \in Seq(Fragment) : \A i \in 0..(Len(c) - 1) :
    a \o SubSeq(c, i + 1, Len(c))
      = Append(a, c[i + 1]) \o SubSeq(c, i + 2, Len(c))
<1> SUFFICES ASSUME NEW a \in Seq(Fragment), NEW c \in Seq(Fragment),
                    NEW i \in 0..(Len(c) - 1)
             PROVE  a \o SubSeq(c, i + 1, Len(c))
                      = Append(a, c[i + 1]) \o SubSeq(c, i + 2, Len(c))
  OBVIOUS
<1> DEFINE rest == SubSeq(c, i + 2, Len(c))
           one  == <<c[i + 1]>>
<1>1. c[i + 1] \in Fragment /\ Len(c) \in Nat
  OBVIOUS
<1>2. SubSeq(c, i + 1, Len(c)) = one \o rest
  <2>1. i + 1 \in 1..Len(c) /\ Len(c) \in (i + 1)..Len(c) /\ (i + 1) + 1 = i + 2
    BY <1>1
  <2> QED
    BY <2>1, SubSeqRecursiveFirst
<1>3. rest \in Seq(Fragment) /\ one \in Seq(Fragment)
  <2>1. \A k \in (i + 2)..Len(c) : c[k] \in Fragment
    BY <1>1
  <2> QED
    BY <1>1, <2>1, SubSeqProperties
<1>4. Append(a, c[i + 1]) = a \o one
  BY <1>1, AppendIsConcat
<1> HIDE DEF rest, one
<1>5. a \o (one \o rest) = (a \o one) \o rest
  BY <1>3, Regroup
<1> QED
  BY <1>2, <1>4, <1>5 DEF rest

\* All remains before the first element is taken, and nothing after the last.
LEMMA Ends ==
  ASSUME NEW S, NEW c \in Seq(S)
  PROVE  SubSeq(c, 1, Len(c)) = c /\ SubSeq(c, Len(c) + 1, Len(c)) = <<>>
BY SubSeqFull, SubSeqEmpty

\* The empty sequence adds nothing.
LEMMA NoneAdded ==
  ASSUME NEW S, NEW c \in Seq(S)
  PROVE  c \o <<>> = c /\ <<>> \o c = c
BY ConcatEmptySeq

-----------------------------------------------------------------------------
(* The invariant. *)

\* Nothing is typed yet.
LEMMA MailboxInit == Init => MailboxInv
<1>1. SubSeq(<<>>, 1, 0) = <<>> /\ <<>> \o <<>> = <<>> /\ Len(<<>>) = 0
  OBVIOUS
<1> QED
  BY <1>1 DEF Init, MailboxInv, Conserved

\* What MailboxInv depends on, bpc left aside.
box == <<line, part, left, mpc, typed, flooded, freed, pendingForFlood, moved,
         lock>>

\* Nothing that it depends on changes.
LEMMA Unchanged ==
  ASSUME MailboxInv, UNCHANGED <<box, bpc>>
  PROVE  MailboxInv'
BY DEF MailboxInv, Conserved, box

\* The background thread goes from one place where it has no lock to another.
LEMMA Elsewhere ==
  ASSUME MailboxInv, UNCHANGED box,
         {bpc, bpc'} \cap {"move", "clear", "unlock", "free", "done"} = {}
  PROVE  MailboxInv'
BY DEF MailboxInv, Conserved, box

\* The main thread, between two pushes.
LEMMA MainKeeps ==
  ASSUME OutgoingAssumption, MailboxInv,
         (\E n \in Lines : Type(n)) \/ LockMain \/ UnlockMain \/ Quit
  PROVE  MailboxInv'
<1> USE DEF MailboxInv, Conserved, NotMain, main
<1>1. CASE \E n \in Lines : Type(n)
  BY <1>1 DEF Type, OutgoingAssumption
<1>2. CASE LockMain
  BY <1>2 DEF LockMain
<1>3. CASE UnlockMain
  BY <1>3 DEF UnlockMain, Min2, FRAGMENT
<1>4. CASE Quit
  BY <1>4 DEF Quit
<1> QED
  BY <1>1, <1>2, <1>3, <1>4

\* A push: nothing has been moved, as the background thread has not the lock.
LEMMA PushKeeps ==
  ASSUME MailboxInv, PushBack
  PROVE  MailboxInv'
<1> DEFINE f == [line |-> line, part |-> part, size |-> Min2(left, FRAGMENT)]
           pending == Append(pendingForFlood, f)
<1>1. /\ typed' = Append(typed, f) /\ pendingForFlood' = pending
      /\ mpc = "push" /\ mpc' = "unlock" /\ freed' = freed
      /\ UNCHANGED <<left, line, part, lock, bpc, moved, flooded>>
  BY DEF PushBack, NotMain
<1>2. f \in Fragment
  BY <1>1 DEF MailboxInv, Fragment, Min2, FRAGMENT
<1>3. moved = 0
  BY <1>1 DEF MailboxInv
<1>4. typed' \in Seq(Fragment) /\ pending \in Seq(Fragment)
  BY <1>1, <1>2 DEF MailboxInv
<1>5. Conserved'
  <2> HIDE DEF f
  <2>1. typed = flooded \o freed \o pendingForFlood
    <3>1. SubSeq(pendingForFlood, 1, Len(pendingForFlood)) = pendingForFlood
      BY Ends DEF MailboxInv
    <3>2. moved + 1 = 1
      BY <1>3
    <3> QED
      BY <3>1, <3>2 DEF MailboxInv, Conserved
  <2>2. typed' = flooded \o freed \o pending
    <3>1. /\ flooded \in Seq(Fragment) /\ freed \in Seq(Fragment)
          /\ pendingForFlood \in Seq(Fragment)
      BY DEF MailboxInv
    <3>2. Append(flooded \o freed \o pendingForFlood, f)
            = flooded \o freed \o Append(pendingForFlood, f)
      BY <1>2, <3>1, AppendLast
    <3> QED
      BY <1>1, <2>1, <3>2
  <2>3. SubSeq(pending, 1, Len(pending)) = pending
    <3> HIDE DEF pending
    <3> QED
      BY <1>4, Ends
  <2>4. flooded' = flooded /\ freed' = freed /\ moved' + 1 = 1
        /\ pendingForFlood' = pending
    BY <1>1, <1>3
  <2> HIDE DEF pending
  <2> QED
    BY <2>2, <2>3, <2>4 DEF Conserved
<1> QED
  BY <1>1, <1>3, <1>4, <1>5 DEF MailboxInv

\* The background thread takes or gives back the lock.
LEMMA LocksKeep ==
  ASSUME MailboxInv, LockBack \/ UnlockBack \/ LockQuit
  PROVE  MailboxInv'
BY DEF MailboxInv, Conserved, LockBack, UnlockBack, LockQuit, NotBack, main

\* A fragment goes from pendingForFlood to RR.
LEMMA MoveKeeps ==
  ASSUME MailboxInv, Move
  PROVE  MailboxInv'
<1>1. /\ bpc = "move" /\ freed = <<>>
      /\ UNCHANGED <<main, typed, freed, lock, pendingForFlood>>
  BY DEF Move, NotBack, MailboxInv
<1>2. CASE moved < Len(pendingForFlood)
  <2>1. /\ flooded' = Append(flooded, pendingForFlood[moved + 1])
        /\ moved' = moved + 1 /\ bpc' = bpc
    BY <1>2 DEF Move
  <2>2. pendingForFlood[moved + 1] \in Fragment /\ moved' \in 0..Len(pendingForFlood)
    BY <1>2, <2>1 DEF MailboxInv
  <2>3. Conserved'
    <3>1. typed = flooded \o SubSeq(pendingForFlood, moved + 1, Len(pendingForFlood))
      BY <1>1, NoneAdded DEF MailboxInv, Conserved
    <3>2. typed = flooded'
                    \o SubSeq(pendingForFlood, moved + 2, Len(pendingForFlood))
      <4>1. /\ flooded \in Seq(Fragment) /\ pendingForFlood \in Seq(Fragment)
            /\ moved \in 0..(Len(pendingForFlood) - 1)
        BY <1>2 DEF MailboxInv
      <4>2. flooded \o SubSeq(pendingForFlood, moved + 1, Len(pendingForFlood))
              = Append(flooded, pendingForFlood[moved + 1])
                  \o SubSeq(pendingForFlood, moved + 2, Len(pendingForFlood))
        BY <4>1, MoveOne
      <4> QED
        BY <2>1, <3>1, <4>2
    <3>3. flooded' \o <<>> = flooded'
      BY <2>1, <2>2, NoneAdded DEF MailboxInv
    <3> QED
      <4>1. freed' = <<>> /\ pendingForFlood' = pendingForFlood /\ typed' = typed
            /\ moved' + 1 = moved + 2
        BY <1>1, <2>1 DEF MailboxInv
      <4> QED
        BY <3>2, <3>3, <4>1 DEF Conserved
  <2> QED
    BY <1>1, <2>1, <2>2, <2>3 DEF MailboxInv, main
<1>3. CASE ~(moved < Len(pendingForFlood))
  <2>1. bpc' = "clear" /\ UNCHANGED <<flooded, moved>>
    BY <1>3 DEF Move
  <2> QED
    BY <1>1, <1>3, <2>1 DEF MailboxInv, Conserved, main
<1> QED
  BY <1>2, <1>3

\* When pendingForFlood is cleared, all of it is in RR.
LEMMA ClearKeeps ==
  ASSUME MailboxInv, Clear
  PROVE  MailboxInv'
<1>1. /\ pendingForFlood' = <<>> /\ moved' = 0 /\ bpc' = "unlock"
      /\ bpc = "clear" /\ freed = <<>> /\ moved = Len(pendingForFlood)
      /\ UNCHANGED <<main, typed, freed, lock, flooded>>
  BY DEF Clear, NotBack, MailboxInv
<1>2. SubSeq(pendingForFlood, moved + 1, Len(pendingForFlood)) = <<>>
  BY <1>1, Ends DEF MailboxInv
<1>3. SubSeq(pendingForFlood', moved' + 1, Len(pendingForFlood')) = <<>>
  BY <1>1
<1>4. Conserved'
  BY <1>1, <1>2, <1>3 DEF MailboxInv, Conserved
<1> QED
  BY <1>1, <1>4 DEF MailboxInv, main

\* mircQuit frees what was not taken.
LEMMA FreeKeeps ==
  ASSUME MailboxInv, MircQuit
  PROVE  MailboxInv'
<1>1. /\ pendingForFlood' = <<>> /\ freed' = pendingForFlood
      /\ bpc = "free" /\ bpc' = "done" /\ lock' = "free" /\ freed = <<>>
      /\ moved = 0 /\ UNCHANGED <<main, typed, moved, flooded>>
  BY DEF MircQuit, NotBack, MailboxInv
<1>2. typed = flooded \o pendingForFlood
  BY <1>1, Ends, NoneAdded DEF MailboxInv, Conserved
<1>3. SubSeq(pendingForFlood', moved' + 1, Len(pendingForFlood')) = <<>>
  BY <1>1
<1>4. flooded \o pendingForFlood \o <<>> = flooded \o pendingForFlood
  BY NoneAdded DEF MailboxInv
<1>5. Conserved'
  BY <1>1, <1>2, <1>3, <1>4 DEF Conserved
<1> QED
  BY <1>1, <1>5 DEF MailboxInv, main

\* Every step keeps the invariant.
LEMMA MailboxNext ==
  ASSUME OutgoingAssumption, MailboxInv, [Next]_vars
  PROVE  MailboxInv'
<1> USE DEF NotBack, main, mailbox, box
<1>1. CASE Main
  BY <1>1, MainKeeps, PushKeeps DEF Main
<1>2. CASE Leave
  BY <1>2, Elsewhere DEF Leave
<1>3. CASE \E acked \in SUBSET {f \in DOMAIN toFlood : toFlood[f] > 0} :
             Receive(acked)
  BY <1>3, Elsewhere DEF Receive
<1>4. CASE TestEmpty
  BY <1>4, Elsewhere DEF TestEmpty
<1>5. CASE LockBack \/ UnlockBack \/ LockQuit
  BY <1>5, LocksKeep
<1>6. CASE Move
  BY <1>6, MoveKeeps
<1>7. CASE Clear
  BY <1>7, ClearKeeps
<1>8. CASE Send
  BY <1>8, Elsewhere DEF Send
<1>9. CASE Sleep
  BY <1>9, Elsewhere DEF Sleep
<1>10. CASE Bye
  BY <1>10, Elsewhere DEF Bye
<1>11. CASE MircQuit
  BY <1>11, FreeKeeps
<1>12. CASE Finished \/ UNCHANGED vars
  BY <1>12, Unchanged DEF Finished, vars
<1> QED
  BY <1>1, <1>2, <1>3, <1>4, <1>5, <1>6, <1>7, <1>8, <1>9, <1>10, <1>11, <1>12
  DEF Next, Background

-----------------------------------------------------------------------------
\* Each fragment typed is, at all times, in RR, in pendingForFlood or freed at
\* the end: pushPendingForFlood and sendMessage share the list safely.
THEOREM NothingLost == Spec => []Conserved
<1>1. Init => MailboxInv
  BY MailboxInit
<1>2. MailboxInv /\ [Next]_vars => MailboxInv'
  BY OutgoingAssumption, MailboxNext
<1>3. MailboxInv => Conserved
  BY DEF MailboxInv
<1> QED
  BY <1>1, <1>2, <1>3, PTL DEF Spec

-----------------------------------------------------------------------------
(* What a packet takes of a queue. *)

\* All that is queued has a length, the fragments too.
LEMMA QueuedTLVs ==
  ASSUME OutgoingAssumption
  PROVE  /\ \A t \in TLV : tlvLen(t) \in Nat
         /\ \A f \in Fragment : tlvData(f) \in TLV
         /\ Others \subseteq TLV /\ Goodbye \in TLV
<1>1. \A t \in TLV : t.length \in Nat
  <2>1. \A t \in Others : t.length \in Nat
    BY DEF OutgoingAssumption
  <2>2. Goodbye.length \in Nat
    BY DEF Goodbye, tlvGoAway
  <2> QED
    BY <2>1, <2>2 DEF TLV
<1>2. \A f \in Fragment : tlvData(f) \in TLV
  <2> TAKE f \in Fragment
  <2>1. f.size \in 1..254
    BY DEF Fragment, FRAGMENT
  <2>2. DataLength(f.size + 1) \in 14..267
    BY <2>1 DEF DataLength
  <2> QED
    BY <2>2 DEF tlvData, TLV
<1> QED
  BY <1>1, <1>2 DEF TLV, tlvLen

\* The recursion that BytesOf is defined by.
LEMMA BytesOfStep ==
  ASSUME OutgoingAssumption, NEW q \in Seq(TLV)
  PROVE  /\ BytesOf(q) \in [0..Len(q) -> Nat]
         /\ BytesOf(q)[0] = HEADER
         /\ \A n \in 1..Len(q) : BytesOf(q)[n] = BytesOf(q)[n - 1] + tlvLen(q[n])
<1> DEFINE N == Len(q)
           w == [n \in 1..N |-> tlvLen(q[n])]
<1>1. N \in Nat /\ HEADER \in Nat /\ \A n \in 1..N : tlvLen(q[n]) \in Nat
  <2>1. \A n \in 1..N : q[n] \in TLV
    OBVIOUS
  <2>2. N \in Nat
    OBVIOUS
  <2> QED
    BY <2>1, <2>2, QueuedTLVs DEF HEADER
<1> HIDE DEF N
<1>2. w \in Weights(N) /\ \A n \in 1..N : w[n] = tlvLen(q[n])
  BY <1>1 DEF Weights
<1> HIDE DEF w
<1>3. PICK g : Adds(g, HEADER, N, w)
  BY <1>1, <1>2, Sums, Zenon
<1>4. /\ g \in [0..N -> Nat] /\ g[0] = HEADER
      /\ \A n \in 1..N : g[n] = g[n - 1] + tlvLen(q[n])
  BY <1>2, <1>3 DEF Adds
<1>5. g = [n \in 0..N |-> IF n = 0 THEN HEADER ELSE g[n - 1] + tlvLen(q[n])]
  <2>1. \A n \in 0..N : g[n] = IF n = 0 THEN HEADER ELSE g[n - 1] + tlvLen(q[n])
    <3> TAKE n \in 0..N
    <3>1. n = 0 \/ n \in 1..N
      BY <1>1
    <3> QED
      BY <1>4, <3>1
  <2> QED
    BY <1>4, <2>1
<1>6. BytesOf(q) = [n \in 0..N |-> IF n = 0 THEN HEADER
                                   ELSE BytesOf(q)[n - 1] + tlvLen(q[n])]
  BY <1>5, Zenon DEF BytesOf, N
<1>7. /\ DOMAIN BytesOf(q) = 0..N /\ BytesOf(q)[0] = HEADER
      /\ \A n \in 1..N : BytesOf(q)[n] = BytesOf(q)[n - 1] + tlvLen(q[n])
  <2>1. 0 \in 0..N /\ \A n \in 1..N : n \in 0..N /\ n # 0
    BY <1>1
  <2> QED
    BY <1>6, <2>1, Zenon
<1>8. \A n \in 0..N : BytesOf(q)[n] \in Nat
  <2> DEFINE T == {n \in 0..N : BytesOf(q)[n] \in Nat}
  <2>1. 0 \in T
    BY <1>1, <1>7
  <2>2. \A n \in 1..N : n - 1 \in T => n \in T
    BY <1>1, <1>7
  <2> HIDE DEF T
  <2>3. \A n \in 0..N : n \in T
    BY <1>1, <2>1, <2>2, Climb
  <2> QED
    BY <2>3 DEF T
<1> QED
  BY <1>6, <1>7, <1>8, Zenon DEF N

\* A packet takes what fits, and there is always such a number of TLVs.
LEMMA TakenFits ==
  ASSUME OutgoingAssumption, NEW q \in Seq(TLV)
  PROVE  /\ Taken(q) \in 0..Len(q) /\ BytesOf(q)[Taken(q)] \in 0..PACKET_MAX
         /\ Taken(q) < Len(q) =>
              BytesOf(q)[Taken(q)] + tlvLen(q[Taken(q) + 1]) > PACKET_MAX
<1> DEFINE N == Len(q)
           B == BytesOf(q)
           Full(n) == n < N => B[n + 1] > PACKET_MAX
           T == {n \in 0..N : Full(n)}
<1>1. /\ N \in Nat /\ B \in [0..N -> Nat] /\ B[0] = HEADER
      /\ \A n \in 1..N : B[n] = B[n - 1] + tlvLen(q[n])
  BY BytesOfStep
<1>2. HEADER <= PACKET_MAX /\ PACKET_MAX \in Nat
  BY DEF HEADER, PACKET_MAX
<1> HIDE DEF N, B
<1>3. N \in T /\ T \subseteq Nat
  BY <1>1
<1>4. PICK m \in T : \A k \in T : m <= k
  <2> HIDE DEF T
  <2> QED
    BY <1>3, Least
<1>5. m \in 0..N /\ Full(m)
  BY <1>4
<1>6. B[m] <= PACKET_MAX
  <2>1. CASE m = 0
    BY <1>1, <1>2, <2>1
  <2>2. CASE m \in 1..N
    <3>1. m - 1 \notin T /\ m - 1 \in 0..N
      <4>1. m - 1 \in Int /\ ~(m <= m - 1) /\ m - 1 \in 0..N
        BY <1>1, <2>2
      <4> HIDE DEF T
      <4> QED
        BY <1>4, <4>1
    <3>2. ~(B[(m - 1) + 1] > PACKET_MAX)
      BY <3>1
    <3>3. (m - 1) + 1 = m /\ B[m] \in Nat
      BY <1>1, <2>2
    <3> QED
      BY <1>2, <3>2, <3>3
  <2> QED
    BY <1>1, <1>5, <2>1, <2>2
<1>7. /\ Taken(q) \in 0..N /\ B[Taken(q)] <= PACKET_MAX
      /\ Taken(q) < N => B[Taken(q) + 1] > PACKET_MAX
  <2>1. Taken(q) = CHOOSE n \in 0..N : B[n] <= PACKET_MAX /\ Full(n)
    BY Zenon DEF Taken, N, B
  <2> HIDE DEF Full
  <2>2. Taken(q) \in 0..N /\ B[Taken(q)] <= PACKET_MAX /\ Full(Taken(q))
    BY <1>5, <1>6, <2>1, Zenon
  <2> QED
    BY <2>2 DEF Full
<1> DEFINE n == Taken(q)
<1> HIDE DEF n
<1>8. /\ n \in 0..N /\ B[n] <= PACKET_MAX
      /\ n < N => B[n + 1] > PACKET_MAX
  BY <1>7 DEF n
<1>9. B[n] \in 0..PACKET_MAX
  <2>1. B[n] \in Nat
    BY <1>1, <1>8
  <2> QED
    BY <1>2, <1>8, <2>1
<1>10. ASSUME n < N
       PROVE  B[n] + tlvLen(q[n + 1]) > PACKET_MAX
  <2>1. n + 1 \in 1..N /\ (n + 1) - 1 = n
    BY <1>1, <1>8, <1>10
  <2>2. B[n + 1] = B[n] + tlvLen(q[n + 1])
    BY <1>1, <2>1
  <2> QED
    BY <1>8, <1>10, <2>2
<1> QED
  BY <1>8, <1>9, <1>10, Zenon DEF n, N, B

\* The packet and what is left make up the queue.
LEMMA Parted ==
  ASSUME NEW q \in Seq(TLV), NEW n \in 0..Len(q)
  PROVE  /\ SubSeq(q, 1, n) \in Seq(TLV) /\ SubSeq(q, n + 1, Len(q)) \in Seq(TLV)
         /\ q = SubSeq(q, 1, n) \o SubSeq(q, n + 1, Len(q))
         /\ n < Len(q) => /\ SubSeq(q, n + 1, Len(q)) # <<>>
                          /\ SubSeq(q, n + 1, Len(q))[1] = q[n + 1]
         /\ \A i \in 1..n : SubSeq(q, 1, n)[i] = q[i]
         /\ Len(SubSeq(q, 1, n)) = n
<1> DEFINE N == Len(q)
           a == SubSeq(q, 1, n)
           b == SubSeq(q, n + 1, N)
<1>1. N \in Nat /\ \A i \in 1..N : q[i] \in TLV
  OBVIOUS
<1>2. /\ a \in Seq(TLV) /\ Len(a) = n /\ \A i \in 1..n : a[i] = q[i]
  <2>1. 1 \in Int /\ n \in Int /\ \A i \in 1..n : q[i] \in TLV
    BY <1>1
  <2>2. /\ a \in Seq(TLV) /\ Len(a) = IF 1 <= n THEN n - 1 + 1 ELSE 0
        /\ \A i \in 1..(n - 1 + 1) : a[i] = q[1 + i - 1]
    BY <2>1, SubSeqProperties
  <2> HIDE DEF a
  <2> QED
    BY <1>1, <2>2
<1>3. /\ b \in Seq(TLV) /\ Len(b) = N - n
      /\ \A i \in 1..(N - n) : b[i] = q[n + i]
  <2>1. n + 1 \in Int /\ N \in Int /\ \A i \in (n + 1)..N : q[i] \in TLV
    BY <1>1
  <2>2. /\ b \in Seq(TLV) /\ Len(b) = IF n + 1 <= N THEN N - (n + 1) + 1 ELSE 0
        /\ \A i \in 1..(N - (n + 1) + 1) : b[i] = q[(n + 1) + i - 1]
    BY <2>1, SubSeqProperties
  <2> HIDE DEF b
  <2> QED
    BY <1>1, <2>2
<1>4. q = a \o b
  <2>1. 1 \in 1..(N + 1) /\ n \in (1 - 1)..N /\ N \in n..N
    BY <1>1
  <2>2. a \o b = SubSeq(q, 1, N)
    BY <2>1, ConcatAdjacentSubSeq
  <2> QED
    BY <2>2, SubSeqFull
<1>5. n < N => b # <<>> /\ b[1] = q[n + 1]
  <2> HIDE DEF b, N
  <2>1. n \in 0..N
    BY DEF N
  <2> QED
    BY <1>1, <1>3, <2>1
<1> QED
  BY <1>2, <1>3, <1>4, <1>5

-----------------------------------------------------------------------------
(* A sending. *)

\* A sequence begins what it is continued to.
LEMMA Begins == \A a, b \in Seq(TLV) : Queue!IsPrefix(a, a \o b)
<1> SUFFICES ASSUME NEW a \in Seq(TLV), NEW b \in Seq(TLV)
             PROVE  Queue!IsPrefix(a, a \o b)
  OBVIOUS
<1>1. Len(a) \in Nat /\ Len(b) \in Nat /\ Len(a \o b) = Len(a) + Len(b)
  BY ConcatProperties, LenProperties
<1>2. SubSeq(a, 1, Len(a)) = SubSeq(a \o b, 1, Len(a))
  <2>1. CASE Len(a) = 0
    <3>1. 0 < 1
      OBVIOUS
    <3> QED
      BY <2>1, <3>1, SubSeqEmpty
  <2>2. CASE Len(a) # 0
    <3>1. 1 \in 1..Len(a) /\ Len(a) \in 1..Len(a)
      BY <1>1, <2>2
    <3> QED
      BY <3>1, SubSeqOfConcat1
  <2> QED
    BY <2>1, <2>2
<1>3. Len(a) <= Len(a) + Len(b)
  BY <1>1
<1> QED
  BY <1>1, <1>2, <1>3, Zenon DEF Queue!IsPrefix

\* Where the second of two sequences is when they are put together.
LEMMA Second ==
  ASSUME NEW a \in Seq(TLV), NEW b \in Seq(TLV), NEW i \in 1..Len(b)
  PROVE  Len(a) + i \in DOMAIN (a \o b) /\ (a \o b)[Len(a) + i] = b[i]
<1>1. Len(a) \in Nat /\ Len(b) \in Nat
  BY LenProperties
<1>2. /\ Len(a) + i \in 1..(Len(a) + Len(b)) /\ ~(Len(a) + i <= Len(a))
      /\ (Len(a) + i) - Len(a) = i
  BY <1>1
<1>3. /\ a \o b \in Seq(TLV) /\ Len(a \o b) = Len(a) + Len(b)
      /\ \A k \in 1..(Len(a) + Len(b)) :
           (a \o b)[k] = IF k <= Len(a) THEN a[k] ELSE b[k - Len(a)]
  BY ConcatProperties
<1>4. DOMAIN (a \o b) = 1..Len(a \o b)
  BY <1>3, LenProperties
<1> QED
  BY <1>2, <1>3, <1>4, Zenon

\* It does not matter which two of three are put together first.
Grouped(a, b, c) == (a \o b) \o c = a \o (b \o c)

LEMMA Grouping ==
  ASSUME NEW a \in Seq(TLV), NEW b \in Seq(TLV), NEW c \in Seq(TLV)
  PROVE  Grouped(a, b, c)
BY ConcatAssociative DEF Grouped

\* What was sent and what waits, when c is pushed to b, and d sent of it.
Moves(a, b, c, d, e) == (a \o b) \o c = (a \o d) \o e

LEMMA Streaming ==
  ASSUME NEW a \in Seq(TLV), NEW b \in Seq(TLV), NEW c \in Seq(TLV),
         NEW d \in Seq(TLV), NEW e \in Seq(TLV), b \o c = d \o e
  PROVE  Moves(a, b, c, d, e)
<1>1. Grouped(a, b, c) /\ Grouped(a, d, e)
  BY Grouping, Zenon
<1> QED
  BY <1>1, Zenon DEF Grouped, Moves

\* What Flood pushes, and what it counts.
LEMMA FloodTypes ==
  ASSUME OutgoingAssumption, TypeOK, IsFiniteSet(DOMAIN toFlood),
         NEW due \in DueSets, NEW flood \in Injection(1..Cardinality(due), due)
  PROVE  /\ [i \in DOMAIN flood |-> tlvData(flood[i])] \in Seq(TLV)
         /\ IsMap([f \in DOMAIN toFlood |->
                     IF f \in due THEN toFlood[f] + 1 ELSE toFlood[f]],
                  Fragment, 0..MAX_SENDS)
<1> DEFINE N == Cardinality(due)
<1>1. /\ due \subseteq DOMAIN toFlood /\ DOMAIN toFlood \subseteq Fragment
      /\ \A f \in due : toFlood[f] < MAX_SENDS
      /\ \A f \in DOMAIN toFlood : toFlood[f] \in 0..MAX_SENDS
      /\ MAX_SENDS \in Nat
  BY DEF DueSets, MayBeDue, TypeOK, IsMap, OutgoingAssumption
<1>2. N \in Nat
  BY <1>1, FS_Subset, FS_CardinalityType
<1>3. flood \in [1..N -> due]
  BY DEF Injection
<1>4. [i \in DOMAIN flood |-> tlvData(flood[i])] \in Seq(TLV)
  <2>1. DOMAIN flood = 1..N /\ \A i \in 1..N : flood[i] \in Fragment
    BY <1>1, <1>3
  <2> HIDE DEF N
  <2>2. \A i \in 1..N : tlvData(flood[i]) \in TLV
    BY <2>1, QueuedTLVs
  <2>3. [i \in 1..N |-> tlvData(flood[i])] \in Seq(TLV)
    BY <1>2, <2>2, IsASeq
  <2> QED
    BY <2>1, <2>3
<1>5. \A f \in DOMAIN toFlood :
        (IF f \in due THEN toFlood[f] + 1 ELSE toFlood[f]) \in 0..MAX_SENDS
  BY <1>1
<1> QED
  BY <1>1, <1>4, <1>5 DEF IsMap

\* The padding exceeds the packet by two bytes at most.
LEMMA PaddedFits == \A n \in 0..PACKET_MAX : Padded(n) \in 0..(PACKET_MAX + 2)
<1> SUFFICES ASSUME NEW n \in 0..PACKET_MAX
             PROVE  Padded(n) \in 0..(PACKET_MAX + 2)
  OBVIOUS
<1>1. tlvLen(tlvPad1) = 1
  BY DEF tlvLen, tlvPad1
<1>2. \A k \in Nat : tlvLen(tlvPadN(k)) = 2 + k
  BY DEF tlvLen, tlvPadN, TLV_PAD1, TLV_PADN
<1> DEFINE room == PACKET_MAX - n
<1>3. room \in 0..PACKET_MAX /\ n = PACKET_MAX - room
  BY DEF PACKET_MAX
<1>4. CASE room = 0
  BY <1>3, <1>4 DEF Padded, PACKET_MAX
<1>5. CASE room = 1
  BY <1>1, <1>3, <1>5 DEF Padded, PACKET_MAX
<1>6. CASE room \notin {0, 1}
  <2>1. Padded(n) = n + tlvLen(tlvPadN(Min2(255, room)))
    BY <1>6 DEF Padded
  <2>2. Min2(255, room) \in Nat /\ Min2(255, room) <= room
    BY <1>3 DEF Min2, PACKET_MAX
  <2>3. Padded(n) = n + (2 + Min2(255, room))
    BY <1>2, <2>1, <2>2
  <2> DEFINE least == Min2(255, room)
  <2> HIDE DEF room, least
  <2>4. room \in 0..1024 /\ least \in 0..1024 /\ least <= room
    BY <1>3, <2>2 DEF PACKET_MAX, least
  <2>5. (1024 - room) + (2 + least) \in 0..1026
    BY <2>4
  <2>6. Padded(n) = (1024 - room) + (2 + least) /\ PACKET_MAX + 2 = 1026
    BY <1>3, <2>3 DEF PACKET_MAX, least
  <2> QED
    BY <2>5, <2>6
<1> QED
  BY <1>4, <1>5, <1>6

\* A sending takes the packet from the head of the queue, and what is left is
\* what did not fit.
LEMMA Sending ==
  ASSUME OutgoingAssumption, TypeOK, QueueInv, NEW new \in Seq(TLV),
         SendPendingTLVs(new)
  PROVE  /\ toSend' \in Seq(TLV) /\ pushed' \in Seq(TLV) /\ sent' \in Seq(TLV)
         /\ IsMap(toFlood', Fragment, 0..MAX_SENDS)
         /\ DOMAIN toFlood' = DOMAIN toFlood
         /\ used' \in 0..PACKET_MAX /\ size' \in 0..(PACKET_MAX + 2)
         /\ pushed' = sent' \o toSend'
         /\ Queue!Next
         /\ \A i \in DOMAIN new :
              \/ \E k \in DOMAIN sent' : sent'[k] = new[i]
              \/ toSend' # <<>> /\ used' + tlvLen(toSend'[1]) > PACKET_MAX
<1> DEFINE Sends(due, flood) ==
        LET more == new \o [i \in DOMAIN flood |-> tlvData(flood[i])]
            full == toSend \o more
        IN /\ toFlood' = [f \in DOMAIN toFlood |->
                            IF f \in due THEN toFlood[f] + 1 ELSE toFlood[f]]
           /\ toSend' = Rest(full) /\ pushed' = pushed \o more
           /\ sent' = sent \o SubSeq(full, 1, Taken(full))
           /\ IF full = <<>> THEN UNCHANGED <<used, size>>
              ELSE used' = BytesOf(full)[Taken(full)] /\ size' = Padded(used')
<1>0. PICK due \in DueSets :
        \E flood \in Injection(1..Cardinality(due), due) : Sends(due, flood)
  BY DEF SendPendingTLVs
<1>1. PICK flood \in Injection(1..Cardinality(due), due) : Sends(due, flood)
  BY <1>0
<1> DEFINE data == [i \in DOMAIN flood |-> tlvData(flood[i])]
           more == new \o data
           full == toSend \o more
           n    == Taken(full)
           head == SubSeq(full, 1, n)
           rest == SubSeq(full, n + 1, Len(full))
<1>2. /\ data \in Seq(TLV) /\ IsMap(toFlood', Fragment, 0..MAX_SENDS)
      /\ DOMAIN toFlood' = DOMAIN toFlood
  BY <1>1, FloodTypes DEF QueueInv
<1>3. /\ toSend' = rest /\ pushed' = pushed \o more /\ sent' = sent \o head
      /\ full = <<>> => UNCHANGED <<used, size>>
      /\ full # <<>> => used' = BytesOf(full)[n] /\ size' = Padded(used')
  BY <1>1 DEF Rest
<1>4. /\ toSend \in Seq(TLV) /\ pushed \in Seq(TLV) /\ sent \in Seq(TLV)
      /\ used \in 0..PACKET_MAX /\ size \in 0..(PACKET_MAX + 2)
      /\ pushed = sent \o toSend
  BY DEF TypeOK, QueueInv
<1> HIDE DEF data, Sends
<1>5. /\ more \in Seq(TLV) /\ Len(more) = Len(new) + Len(data)
      /\ \A i \in 1..Len(new) : more[i] = new[i]
      /\ Len(new) \in Nat /\ Len(data) \in Nat
  BY <1>2, ConcatProperties, LenProperties
<1> HIDE DEF more
<1>6. /\ full \in Seq(TLV) /\ Len(full) = Len(toSend) + Len(more)
      /\ \A i \in 1..Len(more) : /\ Len(toSend) + i \in DOMAIN full
                                 /\ full[Len(toSend) + i] = more[i]
      /\ DOMAIN full = 1..Len(full) /\ Len(full) \in Nat
  <2>1. \A i \in 1..Len(more) : /\ Len(toSend) + i \in DOMAIN full
                                /\ full[Len(toSend) + i] = more[i]
    BY <1>4, <1>5, Second
  <2> QED
    BY <1>4, <1>5, <2>1, ConcatProperties, LenProperties
<1> HIDE DEF full
<1>7. /\ n \in 0..Len(full) /\ BytesOf(full)[n] \in 0..PACKET_MAX
      /\ n < Len(full) => BytesOf(full)[n] + tlvLen(full[n + 1]) > PACKET_MAX
  BY <1>6, TakenFits
<1> HIDE DEF n
<1>8. /\ head \in Seq(TLV) /\ rest \in Seq(TLV) /\ full = head \o rest
      /\ n < Len(full) => rest # <<>> /\ rest[1] = full[n + 1]
      /\ Len(head) = n /\ \A i \in 1..n : head[i] = full[i]
  BY <1>6, <1>7, Parted
<1> HIDE DEF head, rest
<1>9. used' \in 0..PACKET_MAX /\ size' \in 0..(PACKET_MAX + 2)
  BY <1>3, <1>4, <1>7, PaddedFits
<1>10. sent' \in Seq(TLV) /\ pushed' \in Seq(TLV) /\ toSend' \in Seq(TLV)
  BY <1>3, <1>4, <1>5, <1>8, ConcatProperties
<1>11. pushed' = sent' \o toSend'
  <2>1. toSend \o more = head \o rest
    BY <1>8 DEF full
  <2>2. Moves(sent, toSend, more, head, rest)
    BY <1>4, <1>5, <1>8, <2>1, Streaming, Zenon
  <2> QED
    BY <1>3, <1>4, <2>2, Zenon DEF Moves
<1>12. Queue!Next
  <2>1. Queue!IsPrefix(pushed, pushed') /\ Queue!IsPrefix(sent, sent')
    BY <1>3, <1>4, <1>5, <1>8, Begins
  <2>2. Queue!IsPrefix(sent', pushed')
    BY <1>10, <1>11, Begins
  <2> QED
    BY <2>1, <2>2 DEF Queue!Next
<1>13. ASSUME NEW i \in DOMAIN new
       PROVE  \/ \E k \in DOMAIN sent' : sent'[k] = new[i]
              \/ toSend' # <<>> /\ used' + tlvLen(toSend'[1]) > PACKET_MAX
  <2> DEFINE j == Len(toSend) + i
  <2>1. i \in 1..Len(new) /\ i \in 1..Len(more)
    BY <1>5, LenProperties
  <2>2. j \in 1..Len(full) /\ full[j] = new[i]
    BY <1>5, <1>6, <2>1, Zenon
  <2> HIDE DEF j
  <2>3. full # <<>>
    BY <1>6, <2>2
  <2>4. CASE n < Len(full)
    BY <1>3, <1>7, <1>8, <2>3, <2>4
  <2>5. CASE ~(n < Len(full))
    <3>1. n = Len(full)
      BY <1>6, <1>7, <2>5
    <3>2. head[j] = new[i] /\ j \in 1..Len(head)
      BY <1>8, <2>2, <3>1
    <3>3. Len(sent) + j \in DOMAIN (sent \o head) /\ (sent \o head)[Len(sent) + j] = head[j]
      BY <1>4, <1>8, <3>2, Second
    <3> QED
      BY <1>3, <3>2, <3>3, Zenon
  <2> QED
    BY <2>4, <2>5
<1> QED
  BY <1>2, <1>9, <1>10, <1>11, <1>12, <1>13

-----------------------------------------------------------------------------
(* The types, and what was sent. *)

\* The types of the variables that MailboxInv says nothing of.
Kinds ==
  /\ mpc \in {"read", "lock", "push", "unlock"} /\ line \in 0..MaxLines
  /\ lock \in {"free", "main", "back"}
  /\ bpc \in {"receive", "pending", "lock", "move", "clear", "unlock", "send",
              "sleep", "bye", "quitlock", "free", "done"}
  /\ active \in BOOLEAN /\ quit \in BOOLEAN
  /\ idle \in 0..SEND_EVERY /\ others \in 0..MaxOthers

Tables ==
  IsMap(toFlood, Fragment, 0..MAX_SENDS) /\ fresh \subseteq DOMAIN toFlood

Queues ==
  /\ toSend \in Seq(TLV) /\ pushed \in Seq(TLV) /\ sent \in Seq(TLV)
  /\ used \in 0..PACKET_MAX /\ size \in 0..(PACKET_MAX + 2)

LEMMA TypeParts ==
  /\ TypeOK => Kinds /\ Tables /\ Queues
  /\ MailboxInv /\ Kinds /\ Tables /\ Queues => TypeOK
BY DEF TypeOK, MailboxInv, Kinds, Tables, Queues

LEMMA TypeInit == OutgoingAssumption /\ Init => TypeOK /\ QueueInv
<1> SUFFICES ASSUME OutgoingAssumption, Init
             PROVE  TypeOK /\ QueueInv
  OBVIOUS
<1>1. IsMap(EmptyMap, Fragment, 0..MAX_SENDS) /\ DOMAIN EmptyMap = {}
  BY DEF IsMap, EmptyMap
<1>2. Kinds
  <2>1. 0 \in 0..MaxLines /\ 0 \in 0..MaxOthers /\ 0 \in 0..SEND_EVERY
    BY DEF OutgoingAssumption
  <2> QED
    BY <2>1 DEF Init, Kinds
<1>3. Tables
  BY <1>1 DEF Init, Tables
<1>4. Queues
  <2>1. <<>> \in Seq(TLV) /\ 0 \in 0..PACKET_MAX /\ 0 \in 0..(PACKET_MAX + 2)
    BY DEF PACKET_MAX
  <2> QED
    BY <2>1 DEF Init, Queues
<1>5. QueueInv
  <2>1. IsFiniteSet({}) /\ <<>> \o <<>> = <<>>
    BY FS_EmptySet
  <2> QED
    BY <1>1, <2>1 DEF Init, QueueInv, Farewell
<1> QED
  BY <1>2, <1>3, <1>4, <1>5, MailboxInit, TypeParts

\* What only the tables and the queue tell.
LEMMA QueueStays ==
  ASSUME QueueInv, UNCHANGED <<table, wire>>,
         \/ bpc' = bpc
         \/ bpc' \notin {"receive", "quitlock", "free", "done"}
         \/ bpc \in {"quitlock", "free"} /\ bpc' # "receive"
  PROVE  QueueInv'
BY DEF QueueInv, Farewell, table, wire

LEMMA MainTypes ==
  ASSUME OutgoingAssumption, Kinds, Tables, Queues, QueueInv, Main
  PROVE  Kinds' /\ Tables' /\ Queues' /\ QueueInv' /\ UNCHANGED <<pushed, sent>>
<1>1. UNCHANGED <<table, wire, counts, bpc>>
  BY DEF Main, Type, LockMain, PushBack, UnlockMain, Quit, NotMain
<1>2. /\ mpc' \in {"read", "lock", "push", "unlock"} /\ line' \in 0..MaxLines
      /\ lock' \in {"free", "main", "back"} /\ quit' \in BOOLEAN
  <2> USE DEF Kinds, main
  <2>1. CASE \E n \in Lines : Type(n)
    BY <2>1 DEF Type, OutgoingAssumption
  <2>2. CASE LockMain
    BY <2>2 DEF LockMain
  <2>3. CASE PushBack
    BY <2>3 DEF PushBack
  <2>4. CASE UnlockMain
    BY <2>4 DEF UnlockMain
  <2>5. CASE Quit
    BY <2>5 DEF Quit
  <2> QED
    BY <2>1, <2>2, <2>3, <2>4, <2>5 DEF Main
<1>3. Kinds' /\ Tables' /\ Queues'
  BY <1>1, <1>2 DEF Kinds, Tables, Queues, table, wire, counts
<1>4. QueueInv'
  BY <1>1 DEF QueueInv, Farewell, table, wire
<1> QED
  BY <1>1, <1>3, <1>4 DEF wire

\* The steps of the background thread that only move it, and the lock.
LEMMA BackMoves ==
  ASSUME Kinds, Tables, Queues, QueueInv,
         Leave \/ TestEmpty \/ LockBack \/ Clear \/ UnlockBack \/ LockQuit
         \/ MircQuit
  PROVE  Kinds' /\ Tables' /\ Queues' /\ QueueInv' /\ UNCHANGED <<pushed, sent>>
<1> USE DEF Leave, TestEmpty, LockBack, Clear, UnlockBack, LockQuit, MircQuit,
            NotBack, main
<1>1. UNCHANGED <<table, wire, counts, mpc, line, quit>>
  OBVIOUS
<1>2. /\ lock' \in {"free", "main", "back"}
      /\ bpc' \in {"bye", "lock", "send", "move", "unlock", "free", "done"}
      /\ bpc' \in {"free", "done"} => bpc \in {"quitlock", "free"}
  BY DEF Kinds, mailbox
<1>3. Kinds' /\ Tables' /\ Queues'
  BY <1>1, <1>2 DEF Kinds, Tables, Queues, table, wire, counts
<1>4. QueueInv'
  BY <1>1, <1>2, QueueStays
<1> QED
  BY <1>1, <1>3, <1>4 DEF wire

\* Acks, Hellos, and other TLVs.
LEMMA ReceiveTypes ==
  ASSUME OutgoingAssumption, Kinds, Tables, Queues, QueueInv,
         NEW acked \in SUBSET DOMAIN toFlood, Receive(acked)
  PROVE  Kinds' /\ Tables' /\ Queues' /\ QueueInv' /\ [Queue!Next]_<<pushed, sent>>
<1>1. /\ fresh = {} /\ fresh' = {} /\ bpc' = "pending"
      /\ UNCHANGED <<main, mailbox, quit, idle, sent, used, size>>
      /\ toFlood' = Erase(toFlood, acked)
  BY DEF Receive, QueueInv, NotBack
<1>2. Tables' /\ IsFiniteSet(DOMAIN toFlood')
  <2>1. /\ IsMap(toFlood', Fragment, 0..MAX_SENDS)
        /\ DOMAIN toFlood' \subseteq DOMAIN toFlood
    BY <1>1 DEF Tables, IsMap, Erase, Restrict
  <2> QED
    BY <1>1, <2>1, FS_Subset DEF Tables, QueueInv
<1>3. Kinds'
  <2>1. others' \in 0..MaxOthers
    BY DEF Receive, Kinds, OutgoingAssumption
  <2>2. active' \in BOOLEAN
    BY DEF Receive, Kinds
  <2>3. UNCHANGED <<mpc, line, lock, quit, idle>>
    BY <1>1 DEF main, mailbox
  <2> QED
    BY <1>1, <2>1, <2>2, <2>3 DEF Kinds
<1>4. /\ Queues' /\ pushed' = sent' \o toSend' /\ [Queue!Next]_<<pushed, sent>>
  <2>1. CASE UNCHANGED <<toSend, pushed>>
    BY <1>1, <2>1 DEF Queues, QueueInv
  <2>2. CASE \E t \in Others :
               toSend' = Append(toSend, t) /\ pushed' = Append(pushed, t)
    <3>1. PICK t \in Others :
            toSend' = Append(toSend, t) /\ pushed' = Append(pushed, t)
      BY <2>2
    <3> DEFINE one == <<t>>
    <3>2. /\ toSend \in Seq(TLV) /\ pushed \in Seq(TLV) /\ sent \in Seq(TLV)
          /\ one \in Seq(TLV) /\ t \in TLV
      BY QueuedTLVs DEF Queues
    <3>3. toSend' = toSend \o one /\ pushed' = pushed \o one
      BY <3>1, <3>2, AppendIsConcat
    <3> HIDE DEF one
    <3>4. toSend \o one \in Seq(TLV) /\ pushed \o one \in Seq(TLV)
      BY <3>2, ConcatProperties
    <3>5. pushed' = sent' \o toSend'
      <4>1. Grouped(sent, toSend, one)
        BY <3>2, Grouping
      <4> QED
        BY <1>1, <3>3, <4>1, Zenon DEF Grouped, QueueInv
    <3>6. Queue!Next
      <4>1. Queue!IsPrefix(pushed, pushed')
        BY <3>2, <3>3, Begins
      <4>2. Queue!IsPrefix(sent, sent')
        <5>1. <<>> \in Seq(TLV) /\ sent \o <<>> = sent
          BY <3>2, ConcatEmptySeq
        <5>2. Queue!IsPrefix(sent, sent \o <<>>)
          BY <3>2, <5>1, Begins, Zenon
        <5> QED
          BY <1>1, <5>1, <5>2, Zenon
      <4>3. Queue!IsPrefix(sent', pushed')
        <5>1. sent' \in Seq(TLV) /\ toSend' \in Seq(TLV)
          BY <1>1, <3>2, <3>3, <3>4
        <5>2. Queue!IsPrefix(sent', sent' \o toSend')
          BY <5>1, Begins, Zenon
        <5> QED
          BY <3>5, <5>2, Zenon
      <4> QED
        BY <4>1, <4>2, <4>3 DEF Queue!Next
    <3> QED
      BY <1>1, <3>2, <3>3, <3>4, <3>5, <3>6 DEF Queues
  <2> QED
    BY <2>1, <2>2 DEF Receive
<1> QED
  BY <1>1, <1>2, <1>3, <1>4 DEF QueueInv, Farewell

\* A fragment goes to RR.
LEMMA MoveTypes ==
  ASSUME OutgoingAssumption, MailboxInv, Kinds, Tables, Queues, QueueInv, Move
  PROVE  Kinds' /\ Tables' /\ Queues' /\ QueueInv' /\ UNCHANGED <<pushed, sent>>
<1>1. /\ UNCHANGED <<main, quit, wire, counts, lock, active>>
      /\ bpc = "move" /\ bpc' \in {"move", "clear"}
  BY DEF Move, NotBack
<1>2. Tables' /\ IsFiniteSet(DOMAIN toFlood')
  <2>1. CASE moved < Len(pendingForFlood)
    <3> DEFINE f == pendingForFlood[moved + 1]
    <3>1. f \in Fragment
      BY <2>1 DEF MailboxInv
    <3>2. toFlood' = Put(toFlood, f, 0) /\ fresh' = fresh \cup {f}
      BY <2>1 DEF Move
    <3> HIDE DEF f
    <3>3. 0 \in 0..MAX_SENDS
      BY DEF OutgoingAssumption
    <3>4. /\ IsMap(toFlood', Fragment, 0..MAX_SENDS)
          /\ DOMAIN toFlood' = DOMAIN toFlood \cup {f}
      BY <3>1, <3>2, <3>3 DEF Tables, IsMap, Put
    <3>5. IsFiniteSet(DOMAIN toFlood \cup {f})
      BY FS_AddElement DEF QueueInv
    <3> QED
      BY <3>2, <3>4, <3>5 DEF Tables
  <2>2. CASE ~(moved < Len(pendingForFlood))
    BY <2>2 DEF Move, Tables, QueueInv
  <2> QED
    BY <2>1, <2>2
<1>3. Kinds' /\ Queues'
  BY <1>1 DEF Kinds, Queues, main, wire, counts
<1>4. QueueInv'
  BY <1>1, <1>2 DEF QueueInv, Farewell, wire
<1> QED
  BY <1>1, <1>2, <1>3, <1>4 DEF wire

\* The packets.
LEMMA SendTypes ==
  ASSUME OutgoingAssumption, TypeOK, Kinds, Tables, Queues, QueueInv, Send \/ Bye
  PROVE  Kinds' /\ Tables' /\ Queues' /\ QueueInv' /\ [Queue!Next]_<<pushed, sent>>
<1>1. /\ UNCHANGED <<main, quit, mailbox, active, fresh, others>>
      /\ bpc' \in {"sleep", "quitlock"} /\ idle' \in 0..SEND_EVERY
  BY DEF Send, Bye, NotBack, Kinds, counts, OutgoingAssumption
<1>2. Kinds'
  BY <1>1 DEF Kinds, main, mailbox
<1>3. CASE UNCHANGED <<wire, toFlood>> /\ (bpc' = "sleep" \/ ~active)
  BY <1>1, <1>2, <1>3 DEF Tables, Queues, QueueInv, Farewell, wire
<1>4. ASSUME NEW new \in Seq(TLV), SendPendingTLVs(new),
             bpc' = "sleep" \/ \E i \in DOMAIN new : new[i] = Goodbye
      PROVE  Tables' /\ Queues' /\ QueueInv' /\ Queue!Next
  <2>1. /\ toSend' \in Seq(TLV) /\ pushed' \in Seq(TLV) /\ sent' \in Seq(TLV)
        /\ IsMap(toFlood', Fragment, 0..MAX_SENDS)
        /\ DOMAIN toFlood' = DOMAIN toFlood
        /\ used' \in 0..PACKET_MAX /\ size' \in 0..(PACKET_MAX + 2)
        /\ pushed' = sent' \o toSend'
        /\ Queue!Next
        /\ \A i \in DOMAIN new :
             \/ \E k \in DOMAIN sent' : sent'[k] = new[i]
             \/ toSend' # <<>> /\ used' + tlvLen(toSend'[1]) > PACKET_MAX
    BY <1>4, Sending
  <2>2. Tables' /\ Queues'
    BY <1>1, <2>1 DEF Tables, Queues
  <2>3. Farewell'
    <3>1. bpc' = "sleep" \/ \/ \E k \in DOMAIN sent' : sent'[k] = Goodbye
                            \/ /\ toSend' # <<>>
                               /\ used' + tlvLen(toSend'[1]) > PACKET_MAX
      BY <1>4, <2>1, Zenon
    <3>2. (tlvLen(toSend[1]))' = tlvLen(toSend'[1]) /\ Goodbye' = Goodbye
      BY DEF tlvLen, Goodbye, tlvGoAway
    <3> QED
      BY <1>1, <3>1, <3>2 DEF Farewell
  <2> QED
    BY <1>1, <2>1, <2>2, <2>3 DEF QueueInv
<1>5. <<>> \in Seq(TLV) /\ <<Goodbye>> \in Seq(TLV)
      /\ \E i \in DOMAIN <<Goodbye>> : <<Goodbye>>[i] = Goodbye
  <2>1. Goodbye \in TLV
    BY QueuedTLVs
  <2>2. 1 \in DOMAIN <<Goodbye>> /\ <<Goodbye>>[1] = Goodbye
    OBVIOUS
  <2> QED
    BY <2>1, <2>2
<1>6. \/ UNCHANGED <<wire, toFlood>> /\ (bpc' = "sleep" \/ ~active)
      \/ SendPendingTLVs(<<>>) /\ bpc' = "sleep"
      \/ SendPendingTLVs(<<Goodbye>>)
  BY DEF Send, Bye
<1>7. CASE SendPendingTLVs(<<>>) /\ bpc' = "sleep"
  BY <1>2, <1>4, <1>5, <1>7
<1>8. CASE SendPendingTLVs(<<Goodbye>>)
  BY <1>2, <1>4, <1>5, <1>8
<1> QED
  BY <1>3, <1>6, <1>7, <1>8, <1>2 DEF wire

\* Every step keeps the types, and is a step of a stream.
LEMMA OutgoingNext ==
  ASSUME OutgoingAssumption, TypeOK, MailboxInv, MailboxInv', QueueInv, [Next]_vars
  PROVE  TypeOK' /\ QueueInv' /\ [Queue!Next]_<<pushed, sent>>
<1>1. Kinds /\ Tables /\ Queues
  BY TypeParts
<1> SUFFICES /\ Kinds' /\ Tables' /\ Queues' /\ QueueInv'
             /\ [Queue!Next]_<<pushed, sent>>
  BY DEF TypeOK, MailboxInv, Kinds, Tables, Queues
<1>2. CASE Main
  BY <1>1, <1>2, MainTypes
<1>3. CASE Leave \/ TestEmpty \/ LockBack \/ Clear \/ UnlockBack \/ LockQuit
           \/ MircQuit
  BY <1>1, <1>3, BackMoves
<1>4. CASE \E acked \in SUBSET {f \in DOMAIN toFlood : toFlood[f] > 0} :
             Receive(acked)
  BY <1>1, <1>4, ReceiveTypes
<1>5. CASE Move
  BY <1>1, <1>5, MoveTypes
<1>6. CASE Send \/ Bye
  BY <1>1, <1>6, SendTypes
<1>7. CASE Sleep
  BY <1>1, <1>7, FS_EmptySet DEF Sleep, NotBack, main, mailbox, wire, counts, Kinds,
     Tables, Queues, QueueInv, Farewell
<1>8. CASE Finished \/ UNCHANGED vars
  <2>1. UNCHANGED <<mpc, line, lock, bpc, active, toFlood, fresh, toSend, pushed,
                    sent, used, size, idle, others, quit>>
    BY <1>8 DEF Finished, vars, main, mailbox, table, wire, counts
  <2>2. Kinds'
    BY <1>1, <2>1 DEF Kinds
  <2>3. Tables'
    BY <1>1, <2>1 DEF Tables
  <2>4. Queues'
    BY <1>1, <2>1 DEF Queues
  <2>5. Farewell'
    <3>1. Farewell
      BY DEF QueueInv
    <3> QED
      BY <2>1, <3>1 DEF Farewell
  <2>6. QueueInv'
    BY <2>1, <2>5 DEF QueueInv
  <2> QED
    BY <2>1, <2>2, <2>3, <2>4, <2>6
<1> QED
  BY <1>2, <1>3, <1>4, <1>5, <1>6, <1>7, <1>8 DEF Next, Background

LEMMA OutgoingInvariant == Spec => [](TypeOK /\ MailboxInv /\ QueueInv)
<1>1. Init => TypeOK /\ MailboxInv /\ QueueInv
  BY OutgoingAssumption, MailboxInit, TypeInit
<1>2. TypeOK /\ MailboxInv /\ QueueInv /\ [Next]_vars
        => (TypeOK /\ MailboxInv /\ QueueInv)'
  BY OutgoingAssumption, MailboxNext, OutgoingNext
<1> QED
  BY <1>1, <1>2, PTL DEF Spec

\* The variables keep their types: no packet is longer than its buffer by more
\* than the two bytes of a PadN's header, and none is sent more than MAX_SENDS
\* times to a neighbour.
THEOREM OutgoingTypes == Spec => []TypeOK
<1> QED
  BY OutgoingInvariant, PTL

\* A neighbour that is left has been told so, unless its queue fills a packet.
THEOREM GoodbyeSaid == Spec => []Farewell
<1>1. QueueInv => Farewell
  BY DEF QueueInv
<1> QED
  BY <1>1, OutgoingInvariant, PTL

\* What is pushed for a neighbour leaves in packets as a stream: in its order,
\* each TLV once, whatever their lengths.
THEOREM QueueStreams == Spec => Streamed
<1>1. Init => Queue!Init
  BY DEF Init, Queue!Init
<1>2. TypeOK /\ MailboxInv /\ QueueInv /\ [Next]_vars => [Queue!Next]_<<pushed, sent>>
  BY OutgoingAssumption, MailboxNext, OutgoingNext
<1> QED
  BY <1>1, <1>2, OutgoingInvariant, PTL DEF Spec, Streamed, Queue!Spec
=============================================================================
