---------------------------- MODULE PacketProofs -----------------------------
(***************************************************************************)
(* What Parser makes of a whole datagram, for any TLVs in any number: by   *)
(* induction on them, the parser stands where one begins until it meets    *)
(* the first that is not legal.  The invariant is WholeInv of Parser.      *)
(***************************************************************************)
EXTENDS ParserProofs, Induction, SequenceTheorems, FiniteSetTheorems

(* The bytes of a packet. *)

\* Where the bytes of two sequences are when they are put together.
LEMMA Joined ==
  ASSUME NEW a \in Seq(Octet), NEW b \in Seq(Octet)
  PROVE  /\ Len(a) \in Nat /\ Len(b) \in Nat
         /\ a \o b \in Seq(Octet) /\ Len(a \o b) = Len(a) + Len(b)
         /\ \A i \in 1..Len(a) : (a \o b)[i] = a[i]
         /\ \A i \in 1..Len(b) : (a \o b)[Len(a) + i] = b[i]
<1>1. Len(a) \in Nat /\ Len(b) \in Nat
  BY LenProperties
<1>2. /\ a \o b \in Seq(Octet) /\ Len(a \o b) = Len(a) + Len(b)
      /\ \A i \in 1..(Len(a) + Len(b)) :
           (a \o b)[i] = IF i <= Len(a) THEN a[i] ELSE b[i - Len(a)]
  BY ConcatProperties
<1>3. ASSUME NEW i \in 1..Len(b)
      PROVE  (a \o b)[Len(a) + i] = b[i]
  <2>1. /\ Len(a) + i \in 1..(Len(a) + Len(b)) /\ ~(Len(a) + i <= Len(a))
        /\ (Len(a) + i) - Len(a) = i
    BY <1>1
  <2> QED
    BY <1>2, <2>1, Zenon
<1> QED
  BY <1>1, <1>2, <1>3

\* What is written of a TLV.
LEMMA BytesShape ==
  ASSUME NEW t \in WireTLV
  PROVE  /\ t.type \in 0..255 /\ t.length \in 0..255
         /\ Bytes(t) \in Seq(Octet) /\ Len(Bytes(t)) = tlvLen(t)
         /\ tlvLen(t) \in Nat \ {0} /\ Bytes(t)[1] = t.type
         /\ t.type # TLV_PAD1 =>
              /\ Bytes(t)[2] = t.length
              /\ \A i \in 1..t.length : Bytes(t)[2 + i] = Text(t)[i]
<1>1. /\ t.type \in 0..255 /\ t.length \in 0..255
      /\ t.fill \in Octet /\ t.last \in Octet
  BY DEF WireTLV, Octet
<1>2. CASE t.type = TLV_PAD1
  <2>1. Bytes(t) = <<0>> /\ tlvLen(t) = 1 /\ t.type = 0
    BY <1>2 DEF Bytes, tlvLen, TLV_PAD1
  <2>2. 0 \in Octet
    BY DEF Octet
  <2>3. <<0>> \in Seq(Octet) /\ Len(<<0>>) = 1 /\ <<0>>[1] = 0
    BY <2>2
  <2> QED
    BY <1>1, <1>2, <2>1, <2>3
<1>3. CASE t.type # TLV_PAD1
  <2> DEFINE head == <<t.type, t.length>>
  <2>1. Text(t) \in Seq(Octet) /\ Len(Text(t)) = t.length
    <3>1. Text(t) \in [1..t.length -> Octet]
      BY <1>1 DEF Text
    <3>2. t.length \in Nat
      BY <1>1
    <3> HIDE DEF Text
    <3> QED
      BY <3>1, <3>2, IsASeq, LenProperties
  <2>2. head \in Seq(Octet) /\ Len(head) = 2 /\ head[1] = t.type /\ head[2] = t.length
    <3>1. t.type \in Octet /\ t.length \in Octet
      BY <1>1 DEF Octet
    <3> QED
      BY <3>1
  <2>3. Bytes(t) = head \o Text(t) /\ tlvLen(t) = 2 + t.length
    BY <1>3 DEF Bytes, tlvLen
  <2> HIDE DEF head
  <2>4. /\ head \o Text(t) \in Seq(Octet)
        /\ Len(head \o Text(t)) = 2 + t.length
        /\ (head \o Text(t))[1] = t.type /\ (head \o Text(t))[2] = t.length
        /\ \A i \in 1..t.length : (head \o Text(t))[2 + i] = Text(t)[i]
    <3> DEFINE text == Text(t)
               both == head \o text
    <3>1. text \in Seq(Octet) /\ Len(text) = t.length /\ both = head \o text
      BY <2>1
    <3> HIDE DEF text, both
    <3>2. /\ both \in Seq(Octet) /\ Len(both) = Len(head) + Len(text)
          /\ \A i \in 1..Len(head) : both[i] = head[i]
          /\ \A i \in 1..Len(text) : both[Len(head) + i] = text[i]
      BY <2>2, <3>1, Joined DEF both
    <3>3. 1 \in 1..Len(head) /\ 2 \in 1..Len(head)
      BY <2>2
    <3> QED
      BY <2>2, <3>1, <3>2, <3>3, Zenon DEF text, both
  <2>5. 2 + t.length \in Nat \ {0}
    BY <1>1
  <2> QED
    BY <1>1, <1>3, <2>3, <2>4, <2>5, Zenon
<1> QED
  BY <1>2, <1>3

\* The recursion that Encoded is defined by.
LEMMA EncodedStep ==
  ASSUME NEW p \in Seq(WireTLV)
  PROVE  /\ Encoded(p) \in [0..Len(p) -> Seq(Octet)]
         /\ Encoded(p)[0] = <<>>
         /\ \A n \in 1..Len(p) : Encoded(p)[n] = Encoded(p)[n - 1] \o Bytes(p[n])
<1> DEFINE S == Seq(Octet)
           none == <<>>
           N == Len(p)
           d == [n \in 1..N |-> [s \in S |-> s \o Bytes(p[n])]]
<1>1. N \in Nat /\ none \in S
  OBVIOUS
<1>2. \A s \in S : \A n \in 1..N : s \o Bytes(p[n]) \in S
  <2>1. \A n \in 1..N : p[n] \in WireTLV
    OBVIOUS
  <2>2. \A n \in 1..N : Bytes(p[n]) \in S
    BY <2>1, BytesShape
  <2> QED
    BY <2>2, ConcatProperties
<1> HIDE DEF S, none, N
<1>3. d \in Steps(S, N)
  BY <1>2 DEF Steps
<1> HIDE DEF d
<1>4. PICK g \in [0..N -> S] :
        g[0] = none /\ \A n \in 1..N : g[n] = d[n][g[n - 1]]
  <2>1. PICK g : Follows(g, S, none, N, d)
    BY <1>1, <1>3, Recursion, Zenon
  <2> QED
    BY <2>1 DEF Follows
<1>5. \A n \in 1..N : g[n] = g[n - 1] \o Bytes(p[n])
  <2> TAKE n \in 1..N
  <2>1. g[n - 1] \in S
    BY <1>1
  <2> QED
    BY <1>4, <2>1 DEF d
<1>6. g = [n \in 0..N |-> IF n = 0 THEN none ELSE g[n - 1] \o Bytes(p[n])]
  <2>1. \A n \in 0..N : g[n] = IF n = 0 THEN none ELSE g[n - 1] \o Bytes(p[n])
    <3> TAKE n \in 0..N
    <3>1. CASE n = 0
      BY <1>4, <3>1
    <3>2. CASE n \in 1..N
      BY <1>1, <1>5, <3>2
    <3> QED
      BY <1>1, <3>1, <3>2
  <2> QED
    BY <2>1
<1>7. Encoded(p) = [n \in 0..N |-> IF n = 0 THEN none
                                   ELSE Encoded(p)[n - 1] \o Bytes(p[n])]
  BY <1>6, Zenon DEF Encoded, N, none
<1>8. /\ DOMAIN Encoded(p) = 0..N /\ Encoded(p)[0] = none
      /\ \A n \in 1..N : Encoded(p)[n] = Encoded(p)[n - 1] \o Bytes(p[n])
  <2>1. 0 \in 0..N /\ \A n \in 1..N : n \in 0..N /\ n # 0
    BY <1>1
  <2> QED
    BY <1>7, <2>1, Zenon
<1>9. \A n \in 0..N : Encoded(p)[n] \in S
  <2> DEFINE T == {n \in 0..N : Encoded(p)[n] \in S}
  <2>1. 0 \in T
    BY <1>1, <1>8
  <2>2. ASSUME NEW n \in 1..N, n - 1 \in T
        PROVE  n \in T
    <3>1. Encoded(p)[n - 1] \o Bytes(p[n]) \in S
      BY <1>2, <2>2
    <3> QED
      BY <1>1, <1>8, <3>1
  <2> HIDE DEF T
  <2>3. \A n \in 1..N : n - 1 \in T => n \in T
    BY <2>2
  <2>4. \A n \in 0..N : n \in T
    BY <1>1, <2>1, <2>3, Climb
  <2> QED
    BY <2>4 DEF T
<1> QED
  BY <1>7, <1>8, <1>9, Zenon DEF S, N, none

\* What one TLV adds to what is written.
LEMMA Grown ==
  ASSUME NEW p \in Seq(WireTLV), NEW n \in 1..Len(p)
  PROVE  LET e == Encoded(p)[n - 1]
             f == Encoded(p)[n]
         IN /\ p[n] \in WireTLV /\ Len(e) \in Nat /\ Len(f) = Len(e) + tlvLen(p[n])
            /\ \A k \in 1..Len(e) : f[k] = e[k]
            /\ \A j \in 1..tlvLen(p[n]) : f[Len(e) + j] = Bytes(p[n])[j]
<1> DEFINE e == Encoded(p)[n - 1]
           f == Encoded(p)[n]
           b == Bytes(p[n])
<1>1. p[n] \in WireTLV /\ n - 1 \in 0..Len(p)
  OBVIOUS
<1>2. b \in Seq(Octet) /\ Len(b) = tlvLen(p[n])
  BY <1>1, BytesShape
<1>3. e \in Seq(Octet) /\ f = e \o b
  BY <1>1, EncodedStep
<1> HIDE DEF e, f, b
<1>4. /\ Len(e) \in Nat /\ Len(f) = Len(e) + Len(b)
      /\ \A k \in 1..Len(e) : f[k] = e[k]
      /\ \A j \in 1..Len(b) : f[Len(e) + j] = b[j]
  BY <1>2, <1>3, Joined, Zenon
<1> QED
  BY <1>1, <1>2, <1>4, Zenon DEF e, f, b

\* What is written of n TLVs begins what is written of them all.
LEMMA Prefixes ==
  ASSUME NEW p \in Seq(WireTLV), NEW n \in 0..Len(p)
  PROVE  /\ Len(Encoded(p)[n]) \in Nat /\ Len(Written(p)) \in Nat
         /\ Len(Encoded(p)[n]) <= Len(Written(p))
         /\ \A k \in 1..Len(Encoded(p)[n]) : Written(p)[k] = Encoded(p)[n][k]
<1> DEFINE N == Len(p)
           E(m) == Encoded(p)[m]
           W == Written(p)
           Begins(m) == /\ Len(E(m)) <= Len(W)
                        /\ \A k \in 1..Len(E(m)) : W[k] = E(m)[k]
           T == {j \in 0..N : Begins(N - j)}
<1>1. N \in Nat /\ \A m \in 0..N : E(m) \in Seq(Octet)
  <2>1. Encoded(p) \in [0..Len(p) -> Seq(Octet)]
    BY EncodedStep
  <2> QED
    BY <2>1
<1>2. (\A m \in 0..N : Len(E(m)) \in Nat) /\ Len(W) \in Nat /\ W = E(N)
  BY <1>1, LenProperties DEF Written
<1>3. \A m \in 1..N : /\ Len(E(m - 1)) <= Len(E(m))
                      /\ \A k \in 1..Len(E(m - 1)) : E(m)[k] = E(m - 1)[k]
  <2> TAKE m \in 1..N
  <2>1. p[m] \in WireTLV
    OBVIOUS
  <2>2. tlvLen(p[m]) \in Nat
    BY <2>1, BytesShape
  <2>3. /\ Len(E(m - 1)) \in Nat /\ Len(E(m)) = Len(E(m - 1)) + tlvLen(p[m])
        /\ \A k \in 1..Len(E(m - 1)) : E(m)[k] = E(m - 1)[k]
    BY Grown
  <2> HIDE DEF E
  <2> QED
    BY <2>2, <2>3
<1> HIDE DEF N, E, W
<1>4. 0 \in T
  <2>1. Begins(N) /\ N - 0 = N /\ 0 \in 0..N
    BY <1>1, <1>2
  <2> HIDE DEF Begins
  <2> QED
    BY <2>1
<1>5. ASSUME NEW j \in 1..N, j - 1 \in T
      PROVE  j \in T
  <2> DEFINE m == N - (j - 1)
  <2>1. m \in 1..N /\ m - 1 \in 0..N /\ m \in 0..N /\ m - 1 = N - j /\ j \in 0..N
    BY <1>1
  <2>2. Begins(m)
    <3> HIDE DEF Begins
    <3> QED
      BY <1>5
  <2> HIDE DEF m
  <2>3. Begins(m - 1)
    <3>1. Len(E(m - 1)) \in Nat /\ Len(E(m)) \in Nat /\ Len(W) \in Nat
      BY <1>2, <2>1
    <3>2. /\ Len(E(m - 1)) <= Len(E(m))
          /\ \A k \in 1..Len(E(m - 1)) : E(m)[k] = E(m - 1)[k]
      BY <1>3, <2>1
    <3>3. \A k \in 1..Len(E(m - 1)) : k \in 1..Len(E(m))
      BY <3>1, <3>2
    <3> QED
      BY <2>2, <3>1, <3>2, <3>3
  <2>4. Begins(N - j)
    <3> HIDE DEF Begins
    <3> QED
      BY <2>1, <2>3
  <2> HIDE DEF Begins
  <2> QED
    BY <2>1, <2>4
<1>6. \A j \in 0..N : j \in T
  <2> HIDE DEF T
  <2>1. \A j \in 1..N : j - 1 \in T => j \in T
    BY <1>5
  <2> QED
    BY <1>1, <1>4, <2>1, Climb
<1>7. Begins(n)
  <2> HIDE DEF Begins
  <2>1. N - n \in 0..N /\ N - (N - n) = n
    BY <1>1 DEF N
  <2> QED
    BY <1>6, <2>1
<1> QED
  BY <1>2, <1>7, Zenon DEF E, N, W

\* Where the bytes of the TLV after the first n are.
LEMMA Laid ==
  ASSUME NEW p \in Seq(WireTLV), NEW n \in 0..(Len(p) - 1)
  PROVE  LET e == Len(Encoded(p)[n])
             t == p[n + 1]
         IN /\ t \in WireTLV /\ e \in Nat /\ Len(Written(p)) \in Nat
            /\ Len(Encoded(p)[n + 1]) = e + tlvLen(t)
            /\ e + tlvLen(t) <= Len(Written(p))
            /\ \A j \in 1..tlvLen(t) : Written(p)[e + j] = Bytes(t)[j]
<1> DEFINE e == Len(Encoded(p)[n])
           t == p[n + 1]
           m == n + 1
<1>1. m \in 1..Len(p) /\ m \in 0..Len(p) /\ m - 1 = n
  OBVIOUS
<1> HIDE DEF m
<1>2. /\ t \in WireTLV /\ e \in Nat /\ Len(Encoded(p)[m]) = e + tlvLen(t)
      /\ \A j \in 1..tlvLen(t) : Encoded(p)[m][e + j] = Bytes(t)[j]
  <2>1. t = p[m]
    BY DEF m
  <2> QED
    BY <1>1, <2>1, Grown
<1>3. /\ Len(Written(p)) \in Nat /\ Len(Encoded(p)[m]) <= Len(Written(p))
      /\ \A k \in 1..Len(Encoded(p)[m]) : Written(p)[k] = Encoded(p)[m][k]
  BY <1>1, Prefixes
<1> HIDE DEF e, t
<1>4. tlvLen(t) \in Nat
  BY <1>2, BytesShape
<1>5. \A j \in 1..tlvLen(t) : Written(p)[e + j] = Bytes(t)[j]
  <2> TAKE j \in 1..tlvLen(t)
  <2>1. e + j \in 1..Len(Encoded(p)[m])
    BY <1>2, <1>4
  <2> QED
    BY <1>2, <1>3, <2>1, Zenon
<1>6. e + tlvLen(t) <= Len(Written(p))
  BY <1>2, <1>3
<1> QED
  BY <1>2, <1>3, <1>5, <1>6 DEF e, t, m

-----------------------------------------------------------------------------
(* Where the parser stands. *)

\* How many TLVs of those read are known.
LEMMA Ranks ==
  /\ Rank(0) = 0
  /\ \A n \in Nat : /\ Rank(n) \in Nat
                    /\ Rank(n + 1) = IF Known(packet[n + 1]) THEN Rank(n) + 1
                                                             ELSE Rank(n)
<1> DEFINE known(n) == {i \in 1..n : Known(packet[i])}
<1>1. \A n \in Nat : IsFiniteSet(known(n)) /\ Cardinality(known(n)) \in Nat
  <2> TAKE n \in Nat
  <2>1. IsFiniteSet(1..n) /\ known(n) \subseteq 1..n
    BY FS_Interval
  <2> HIDE DEF known
  <2> QED
    BY <2>1, FS_Subset, FS_CardinalityType
<1>2. known(0) = {}
  OBVIOUS
<1>3. \A n \in Nat :
        /\ Known(packet[n + 1]) => known(n + 1) = known(n) \cup {n + 1}
        /\ ~Known(packet[n + 1]) => known(n + 1) = known(n)
        /\ n + 1 \notin known(n)
  OBVIOUS
<1>4. \A n \in Nat : Rank(n) = Cardinality(known(n))
  BY DEF Rank
<1>5. Rank(0) = Cardinality(known(0))
  BY DEF Rank
<1> HIDE DEF known
<1>6. Rank(0) = 0
  BY <1>2, <1>5, FS_EmptySet
<1>7. ASSUME NEW n \in Nat, Known(packet[n + 1])
      PROVE  Rank(n + 1) = Rank(n) + 1
  <2>1. Cardinality(known(n) \cup {n + 1}) = Cardinality(known(n)) + 1
    BY <1>1, <1>3, FS_AddElement
  <2>2. n + 1 \in Nat
    OBVIOUS
  <2> QED
    BY <1>3, <1>4, <1>7, <2>1, <2>2
<1>8. ASSUME NEW n \in Nat, ~Known(packet[n + 1])
      PROVE  Rank(n + 1) = Rank(n)
  <2>1. n + 1 \in Nat
    OBVIOUS
  <2> QED
    BY <1>3, <1>4, <1>8, <2>1
<1> QED
  BY <1>1, <1>4, <1>6, <1>7, <1>8

\* The TLV the parser stands before, and its bytes.
LEMMA Before ==
  ASSUME ParserAssumption, TypeOK, Whole, pc = "loop", sz > 0,
         NEW n \in 0..Len(packet), Reading(n)
  PROVE  LET t == packet[n + 1] IN
         /\ n + 1 \in 1..Len(packet) /\ t \in WireTLV /\ type = t.type
         /\ tlvLen(t) \in Nat \ {0} /\ tlvLen(t) <= sz
         /\ pos + tlvLen(t) <= Len(body) + 1
         /\ Len(Encoded(packet)[n + 1]) = Len(Encoded(packet)[n]) + tlvLen(t)
         /\ t.type # TLV_PAD1 =>
              /\ lgt = t.length /\ Value(0) = t.length
              /\ \A i \in 1..t.length : Value(i) = Text(t)[i]
<1> DEFINE t == packet[n + 1]
           e == Len(Encoded(packet)[n])
<1>1. packet \in Seq(WireTLV) /\ body \in Seq(Octet) /\ sz \in Nat /\ pos \in Nat
  BY Shorts DEF TypeOK, ParserAssumption
<1>2. pos = 1 + e /\ pos + sz = Len(body) + 1 /\ body = Written(packet)
  BY DEF Reading, Whole
<1>3. e \in Nat /\ Len(body) \in Nat
  BY <1>1, <1>2, Prefixes
<1>4. n \in 0..(Len(packet) - 1)
  <2>1. n # Len(packet)
    <3>1. n = Len(packet) => e = Len(body)
      BY <1>2 DEF Written
    <3> HIDE DEF e
    <3> QED
      BY <1>1, <1>2, <1>3, <3>1
  <2>2. Len(packet) \in Nat
    BY <1>1
  <2> QED
    BY <2>1, <2>2
<1>5. /\ t \in WireTLV /\ Len(Encoded(packet)[n + 1]) = e + tlvLen(t)
      /\ e + tlvLen(t) <= Len(body)
      /\ \A j \in 1..tlvLen(t) : body[e + j] = Bytes(t)[j]
  BY <1>1, <1>2, <1>4, Laid
<1> HIDE DEF e, t
<1>6. /\ tlvLen(t) \in Nat \ {0} /\ Bytes(t)[1] = t.type
      /\ t.length \in 0..255
      /\ t.type # TLV_PAD1 =>
           /\ Bytes(t)[2] = t.length
           /\ \A i \in 1..t.length : Bytes(t)[2 + i] = Text(t)[i]
  BY <1>5, BytesShape
<1>7. \A j \in 1..tlvLen(t) : Byte(pos - 1 + j) = Bytes(t)[j]
  <2> TAKE j \in 1..tlvLen(t)
  <2>1. e + j \in 1..Len(body) /\ pos - 1 + j = e + j
    BY <1>2, <1>3, <1>5, <1>6
  <2>2. DOMAIN body = 1..Len(body)
    BY <1>1
  <2>3. Byte(e + j) = body[e + j]
    BY <2>1, <2>2, Zenon DEF Byte
  <2> QED
    BY <1>5, <2>1, <2>3
<1>8. type = t.type
  <2>1. 1 \in 1..tlvLen(t) /\ pos - 1 + 1 = pos
    BY <1>1, <1>6
  <2>2. Byte(pos - 1 + 1) = Bytes(t)[1]
    BY <1>7, <2>1
  <2> QED
    BY <1>6, <2>1, <2>2 DEF type
<1>9. ASSUME t.type # TLV_PAD1
      PROVE  /\ lgt = t.length /\ Value(0) = t.length
             /\ \A i \in 1..t.length : Value(i) = Text(t)[i]
  <2> DEFINE k == t.length
  <2>1. tlvLen(t) = 2 + k /\ k \in 0..255
    BY <1>6, <1>9 DEF tlvLen
  <2> HIDE DEF k
  <2>2. 2 \in 1..tlvLen(t) /\ pos - 1 + 2 = pos + 1 /\ pos + 1 + 0 = pos + 1
    BY <1>1, <2>1
  <2>3. Byte(pos + 1) = t.length
    <3>1. Byte(pos - 1 + 2) = Bytes(t)[2]
      BY <1>7, <2>2
    <3> QED
      BY <1>6, <1>9, <2>2, <3>1
  <2>4. ASSUME NEW i \in 1..t.length
        PROVE  Value(i) = Text(t)[i]
    <3>1. 2 + i \in 1..tlvLen(t) /\ pos - 1 + (2 + i) = pos + 1 + i
      <4>1. i \in 1..k
        BY DEF k
      <4> QED
        BY <1>1, <2>1, <4>1
    <3>2. Byte(pos - 1 + (2 + i)) = Bytes(t)[2 + i]
      BY <1>7, <3>1
    <3> QED
      BY <1>6, <1>9, <3>1, <3>2 DEF Value
  <2> QED
    BY <2>2, <2>3, <2>4 DEF lgt, Value
<1>10. n + 1 \in 1..Len(packet) /\ tlvLen(t) <= sz /\ pos + tlvLen(t) <= Len(body) + 1
  BY <1>1, <1>2, <1>3, <1>4, <1>5, <1>6
<1> QED
  BY <1>5, <1>6, <1>8, <1>9, <1>10 DEF e, t

\* What a TLV that was parsed with result r does, unless the parser goes
\* astray: what was taken stays, and a violation is not forgotten.
LEMMA ConsumeEffect ==
  ASSUME TypeOK, NEW r \in Results, NEW l, NEW m, Consume(r, l, m), pc' # "astray"
  PROVE  /\ UNCHANGED <<packet, body, declared, pc>>
         /\ globRet' = Verdict(r)
         /\ pos' = pos + Step(l) /\ sz' = (sz - Step(l)) % 65536 /\ ret' = r
         /\ content' = IF Taken(r)
                       THEN Append(content, [type |-> type, length |-> lgt,
                                             last |-> Value(lgt)])
                       ELSE content
         /\ Len(content) \in Nat /\ Len(content') \in Nat
         /\ Len(content) <= Len(content')
         /\ \A i \in 1..Len(content) : content'[i] = content[i]
<1> DEFINE t == [type |-> type, length |-> lgt, last |-> Value(lgt)]
<1>1. /\ UNCHANGED <<packet, body, declared, pc>>
      /\ globRet' = Verdict(r)
      /\ pos' = pos + Step(l) /\ sz' = (sz - Step(l)) % 65536 /\ ret' = r
      /\ content' = IF Taken(r) THEN Append(content, t) ELSE content
  BY DEF Consume, Astray, input
<1>2. content \in Seq(Content)
  BY DEF TypeOK
<1>3. t \in Content \/ ~Taken(r)
  <2>1. Taken(r) => /\ type \in 2..127 /\ lgt \in 0..255
                    /\ Value(lgt) \in Octet
    BY HeadTypes DEF Taken, Signed, TLV_PADN
  <2> QED
    BY <2>1 DEF Content, Octet
<1> HIDE DEF t
<1>4. /\ Len(content) \in Nat /\ Len(content') \in Nat
      /\ Len(content) <= Len(content')
      /\ \A i \in 1..Len(content) : content'[i] = content[i]
  <2>1. CASE Taken(r)
    <3>1. /\ Len(Append(content, t)) = Len(content) + 1
          /\ \A i \in 1..Len(content) : Append(content, t)[i] = content[i]
          /\ Len(content) \in Nat
      BY <1>2, <1>3, <2>1, AppendProperties, LenProperties
    <3>2. content' = Append(content, t)
      BY <1>1, <2>1
    <3> QED
      BY <3>1, <3>2
  <2>2. CASE ~Taken(r)
    BY <1>1, <1>2, <2>2, LenProperties
  <2> QED
    BY <2>1, <2>2
<1> QED
  BY <1>1, <1>4 DEF t

\* What is legal, and what was taken of it, stays so.
LEMMA FetchedStays ==
  ASSUME NEW n \in Nat, packet' = packet, Fetched(n),
         Len(content) \in Nat, Len(content') \in Nat, content \in Seq(Content),
         content' \in Seq(Content), Len(content) <= Len(content'),
         \A i \in 1..Len(content) : content'[i] = content[i]
  PROVE  Fetched(n)'
<1>1. \A i \in 1..n : Known(packet[i])' <=> Known(packet[i])
  BY DEF Known
<1>2. \A i \in Nat : Rank(i)' = Rank(i)
  BY DEF Rank, Known
<1>3. DOMAIN content = 1..Len(content) /\ DOMAIN content' = 1..Len(content')
  BY LenProperties
<1>4. ASSUME NEW i \in 1..n, Known(packet[i])
      PROVE  Rank(i) \in DOMAIN content' /\ content'[Rank(i)] = Parsed(packet[i])
  <2>1. Rank(i) \in DOMAIN content /\ content[Rank(i)] = Parsed(packet[i])
    BY <1>4 DEF Fetched
  <2> QED
    BY <1>3, <2>1
<1>5. \A i \in 1..n : i \in Nat /\ Parsed(packet[i])' = Parsed(packet[i])
  BY DEF Parsed
<1> QED
  BY <1>1, <1>2, <1>4, <1>5 DEF Fetched

\* The lengths that the protocol gives to each type.
LEMMA LengthsOf ==
  /\ Lengths(TLV_HELLO) = {8, 16} /\ Lengths(TLV_NEIGHBOUR) = {18}
  /\ Lengths(TLV_DATA) = 12..255 /\ Lengths(TLV_ACK) = 12..255
  /\ Lengths(TLV_GOAWAY) = 1..255 /\ Lengths(TLV_PAD1) = {0}
  /\ \A k \in 0..255 : k \notin TLV_HELLO..TLV_GOAWAY /\ k # TLV_PAD1
                         => Lengths(k) = 0..255
<1> USE DEF TLV_PAD1, TLV_HELLO, TLV_NEIGHBOUR, TLV_DATA, TLV_ACK, TLV_GOAWAY
<1>1. Lengths(0) = {0} /\ Lengths(2) = {8, 16} /\ Lengths(3) = {18}
  BY DEF Lengths
<1>2. Lengths(4) = 12..255 /\ Lengths(5) = 12..255 /\ Lengths(6) = 1..255
  BY DEF Lengths
<1>3. \A k \in 0..255 : k \notin 2..6 /\ k # 0 => Lengths(k) = 0..255
  BY DEF Lengths
<1> QED
  BY <1>1, <1>2, <1>3

\* A TLV of a minimal length, when it is all there.
LEMMA SizedPasses ==
  ASSUME NEW least \in Nat, NEW r, lgt \in 0..255, lgt >= least, avail \in Int,
         lgt + 1 <= avail, Sized(least, r, length)
  PROVE  Consume("ok", lgt + 1, lgt + 1)
BY DEF Sized

\* A legal TLV is passed: the functions store the length that it has.
LEMMA Pass ==
  ASSUME ParserAssumption, TypeOK, Whole, pc = "loop", sz > 0,
         NEW n \in 0..Len(packet), Reading(n), Legal(packet[n + 1]),
         parseTLVCollection
  PROVE  \E l \in Nat, m \in Nat :
           /\ Consume("ok", l, m)
           /\ Step(l) = tlvLen(packet[n + 1]) /\ m < tlvLen(packet[n + 1])
<1> DEFINE t == packet[n + 1]
<1>1. /\ t \in WireTLV /\ type = t.type /\ tlvLen(t) <= sz
      /\ t.type # TLV_PAD1 => lgt = t.length
      /\ t.type # TLV_PAD1 => \A i \in 1..t.length : Value(i) = Text(t)[i]
  BY Before
<1>2. type \in 0..7 /\ lgt \in 0..255 /\ sz \in Nat /\ avail = sz - 1
  <2>1. type <= TLV_WARNING
    BY <1>1 DEF Legal
  <2>2. sz \in Nat
    BY Shorts DEF TypeOK
  <2> QED
    <3>1. type \in 0..255 /\ lgt \in 0..255
      BY HeadTypes
    <3> QED
      BY <2>1, <2>2, <3>1 DEF TLV_WARNING, avail
<1>3. type # TLV_PAD1 => tlvLen(t) = 2 + lgt /\ avail >= lgt + 1 /\ Step(lgt + 1) = lgt + 2
  <2> HIDE DEF t
  <2>1. type # TLV_PAD1 => tlvLen(t) = 2 + lgt /\ Step(lgt + 1) = (lgt + 1) + 1
    BY <1>1, Zenon DEF tlvLen, Step
  <2> QED
    BY <1>1, <1>2, <2>1
<1>4. type # TLV_PAD1 => lgt \in Lengths(type)
  BY <1>1 DEF Legal, Readable
<1>5. type = TLV_DATA => lgt > 12
  BY <1>1 DEF Legal, TLV_DATA, TLV_PAD1
<1>6. type = TLV_PADN => \A i \in 1..lgt : Value(i) = 0
  BY <1>1 DEF Legal, Zeroes, TLV_PADN, TLV_PAD1
<1>7. \/ type = TLV_PAD1 /\ Consume("ok", 1, 0)
      \/ type # TLV_PAD1 /\ Consume("ok", lgt + 1, lgt + 1)
  <2> HIDE DEF t
  <2> USE DEF At, TLV_PAD1, TLV_PADN, TLV_HELLO, TLV_NEIGHBOUR, TLV_DATA, TLV_ACK,
              TLV_GOAWAY, TLV_WARNING
  <2>1. CASE Pad1
    BY <2>1 DEF Pad1, Reading
  <2>2. CASE parseTLV_PADN
    BY <1>2, <1>3, <1>6, <2>2 DEF parseTLV_PADN
  <2>3. CASE parseTLV_Hello
    <3>1. type = TLV_HELLO /\ lgt \in {8, 16}
      BY <1>4, <2>3, LengthsOf DEF parseTLV_Hello
    <3>2. Signed(lgt) = lgt /\ avail >= 9
      BY <1>2, <1>3, <3>1 DEF Signed
    <3> QED
      BY <1>2, <2>3, <3>1, <3>2 DEF parseTLV_Hello
  <2>4. CASE parseTLV_Neighbour
    <3>1. type = TLV_NEIGHBOUR /\ lgt = 18
      BY <1>4, <2>4, LengthsOf DEF parseTLV_Neighbour
    <3> QED
      BY <1>2, <1>3, <2>4, <3>1 DEF parseTLV_Neighbour
  <2>5. CASE parseTLV_Data
    <3>1. type = TLV_DATA /\ lgt > 12 /\ Sized(12, "invalid", length)
      BY <1>2, <1>5, <2>5 DEF parseTLV_Data
    <3> QED
      BY <1>2, <1>3, <3>1, SizedPasses
  <2>6. CASE parseTLV_ACK
    <3>1. type = TLV_ACK /\ lgt \in 12..255 /\ Sized(12, "invalid", length)
      BY <1>4, <2>6, LengthsOf DEF parseTLV_ACK
    <3> QED
      BY <1>2, <1>3, <3>1, SizedPasses
  <2>7. CASE parseTLV_GoAway
    <3>1. type = TLV_GOAWAY /\ lgt \in 1..255 /\ Sized(1, "invalid", length)
      <4>1. type = TLV_GOAWAY /\ Sized(1, "invalid", length)
        BY <2>7 DEF parseTLV_GoAway
      <4> QED
        BY <1>4, <4>1, LengthsOf
    <3> QED
      BY <1>2, <1>3, <3>1, SizedPasses
  <2>8. CASE parseTLV_Warning
    <3>1. type = TLV_WARNING /\ Sized(0, "error", length)
      BY <2>8 DEF parseTLV_Warning
    <3> QED
      BY <1>2, <1>3, <3>1, SizedPasses
  <2>9. ~Unknown /\ ~EndOfLoop
    BY <1>2 DEF Unknown, EndOfLoop
  <2> QED
    BY <2>1, <2>2, <2>3, <2>4, <2>5, <2>6, <2>7, <2>8, <2>9 DEF parseTLVCollection
<1> HIDE DEF t
<1>8. CASE type = TLV_PAD1 /\ Consume("ok", 1, 0)
  <2>1. tlvLen(t) = 1 /\ Step(1) = 1
    BY <1>1, <1>8 DEF tlvLen, Step
  <2>2. 1 \in Nat /\ 0 \in Nat /\ 0 < 1
    OBVIOUS
  <2> QED
    BY <1>8, <2>1, <2>2 DEF t
<1>9. CASE type # TLV_PAD1 /\ Consume("ok", lgt + 1, lgt + 1)
  <2>1. lgt + 1 \in Nat /\ tlvLen(t) = 2 + lgt /\ Step(lgt + 1) = lgt + 2 /\ lgt + 1 < 2 + lgt
        /\ 2 + lgt = lgt + 2
    BY <1>2, <1>3, <1>9
  <2> QED
    BY <1>9, <2>1 DEF t
<1> QED
  BY <1>7, <1>8, <1>9

\* What is left does not wrap while it is enough.
LEMMA NoWrap == \A s \in UShort, k \in Nat : k <= s => (s - k) % 65536 = s - k
<1>1. \A s \in UShort, k \in Nat :
        k <= s => 0 <= s - k /\ s - k < 65536 /\ s - k \in Int
  BY SMT DEF UShort
<1>2. \A i \in Int : 0 <= i /\ i < 65536 => i % 65536 = i
  BY SMT
<1> QED
  BY <1>1, <1>2, SMT

\* A TLV that is passed is read, and taken when it is known.
LEMMA PassKeeps ==
  ASSUME ParserAssumption, TypeOK, TypeOK', Whole, pc = "loop", sz > 0,
         NEW n \in 0..Len(packet), Reading(n), Legal(packet[n + 1]),
         parseTLVCollection
  PROVE  pc' = "loop" /\ n + 1 \in 1..Len(packet) /\ Reading(n + 1)'
<1> DEFINE t == packet[n + 1]
<1>1. /\ n + 1 \in 1..Len(packet) /\ t \in WireTLV /\ type = t.type
      /\ tlvLen(t) \in Nat \ {0} /\ tlvLen(t) <= sz
      /\ pos + tlvLen(t) <= Len(body) + 1
      /\ Len(Encoded(packet)[n + 1]) = Len(Encoded(packet)[n]) + tlvLen(t)
      /\ t.type # TLV_PAD1 => lgt = t.length /\ Value(0) = t.length
      /\ t.type # TLV_PAD1 => \A i \in 1..t.length : Value(i) = Text(t)[i]
  BY Before
<1>2. PICK l \in Nat, m \in Nat :
        Consume("ok", l, m) /\ Step(l) = tlvLen(t) /\ m < tlvLen(t)
  BY Pass
<1>3. sz \in UShort /\ sz \in Nat /\ pos \in Nat /\ body \in Seq(Octet)
      /\ packet \in Seq(WireTLV)
  BY Shorts DEF TypeOK, ParserAssumption
<1>4. pc' # "astray"
  <2>1. ~(pos + m > Len(body) \/ Step(l) < 0)
    <3>1. Len(body) \in Nat
      BY <1>3
    <3> HIDE DEF t
    <3> QED
      BY <1>1, <1>2, <1>3, <3>1
  <2> QED
    BY <1>2, <2>1 DEF Consume
<1>5. "ok" \in Results
  BY DEF Results
<1>6. /\ UNCHANGED <<packet, body, declared, pc>>
      /\ globRet' = Verdict("ok") /\ ret' = "ok"
      /\ pos' = pos + Step(l) /\ sz' = (sz - Step(l)) % 65536
      /\ content' = IF Taken("ok")
                    THEN Append(content, [type |-> type, length |-> lgt,
                                          last |-> Value(lgt)])
                    ELSE content
      /\ Len(content) \in Nat /\ Len(content') \in Nat
      /\ Len(content) <= Len(content')
      /\ \A i \in 1..Len(content) : content'[i] = content[i]
  BY <1>2, <1>4, <1>5, ConsumeEffect
<1>7. sz' = sz - tlvLen(t) /\ pos' = pos + tlvLen(t)
  <2> DEFINE k == tlvLen(t)
  <2>1. k \in Nat /\ k <= sz /\ Step(l) = k
    BY <1>1, <1>2, SMT
  <2> HIDE DEF k, t
  <2>2. sz' = sz - k /\ pos' = pos + k
    <3>1. (sz - k) % 65536 = sz - k
      BY <1>3, <2>1, NoWrap, SMT
    <3>2. sz' = (sz - Step(l)) % 65536 /\ pos' = pos + Step(l)
      BY <1>6, SMT
    <3> QED
      BY <2>1, <3>1, <3>2, SMT
  <2> QED
    BY <2>2 DEF k
<1>8. LegalUpTo(n + 1)'
  <2>1. \A i \in 1..(n + 1) : i \in 1..n \/ i = n + 1
    OBVIOUS
  <2>2. \A i \in 1..(n + 1) : Legal(packet[i])
    BY <2>1 DEF Reading, LegalUpTo
  <2> QED
    BY <1>6, <2>2 DEF LegalUpTo
<1>9. Taken("ok") <=> Known(t)
  <2>1. type \in 0..7
    <3>1. type <= TLV_WARNING /\ type \in 0..255
      BY <1>1, HeadTypes DEF Legal
    <3> QED
      BY <3>1 DEF TLV_WARNING
  <2>2. Taken("ok") <=> type \in 2..7
    BY <2>1 DEF Taken, Signed, TLV_PADN
  <2> QED
    BY <1>1, <2>2 DEF Known, TLV_HELLO, TLV_WARNING
<1>10. Fetched(n)'
  <2>1. content \in Seq(Content) /\ content' \in Seq(Content) /\ n \in Nat
    BY DEF TypeOK
  <2>2. Fetched(n) /\ packet' = packet
    BY <1>6 DEF Reading
  <2> QED
    BY <1>6, <2>1, <2>2, FetchedStays
<1>11. \A i \in Nat : Rank(i)' = Rank(i)
  BY <1>6 DEF Rank, Known
<1>12. Rank(n) \in Nat /\ Len(content) = Rank(n)
       /\ Rank(n + 1) = IF Known(t) THEN Rank(n) + 1 ELSE Rank(n)
  BY Ranks DEF Reading
<1>13. ASSUME Known(t)
       PROVE  Len(content') = Rank(n + 1) /\ content'[Rank(n + 1)] = Parsed(t)
  <2> DEFINE c == [type |-> type, length |-> lgt, last |-> Value(lgt)]
  <2>1. c = Parsed(t)
    <3>1. t.type # TLV_PAD1 /\ t.length \in 0..255
      <4>1. t.length \in 0..255
        BY <1>1, BytesShape
      <4>2. t.type # TLV_PAD1
        BY <1>13 DEF Known, TLV_PAD1, TLV_HELLO, TLV_WARNING
      <4> QED
        BY <4>1, <4>2
    <3>2. CASE t.length = 0
      <4>1. lgt = 0 /\ Value(0) = 0
        BY <1>1, <3>1, <3>2
      <4> QED
        BY <1>1, <3>2, <4>1 DEF Parsed
    <3>3. CASE t.length \in 1..255
      <4> DEFINE k == t.length
      <4>1. k \in 1..k /\ k # 0
        <5>1. k \in 1..255
          BY <3>3
        <5> HIDE DEF k
        <5> QED
          BY <5>1
      <4>2. lgt = t.length /\ Value(lgt) = t.last /\ t.length # 0
        <5>1. Text(t)[k] = t.last
          BY <4>1, Zenon DEF Text
        <5>2. lgt = k /\ Value(k) = Text(t)[k]
          BY <1>1, <3>1, <4>1, Zenon
        <5> QED
          BY <4>1, <5>1, <5>2, Zenon
      <4> QED
        BY <1>1, <4>2 DEF Parsed
    <3>4. \A k \in 0..255 : k = 0 \/ k \in 1..255
      OBVIOUS
    <3> HIDE DEF t, c
    <3> QED
      BY <3>1, <3>2, <3>3, <3>4
  <2>2. content' = Append(content, c) /\ content \in Seq(Content) /\ content' \in Seq(Content)
    BY <1>6, <1>9, <1>13 DEF TypeOK
  <2> HIDE DEF c
  <2>3. Len(content') = Rank(n + 1) /\ content'[Rank(n + 1)] = Parsed(t)
    <3>1. Len(Append(content, c)) = Len(content) + 1
          /\ Append(content, c)[Len(content) + 1] = c
      BY <2>2
    <3> QED
      BY <1>12, <1>13, <2>1, <2>2, <3>1
  <2> QED
    BY <2>3
<1>14. ~Known(t) => Len(content') = Rank(n + 1)
  BY <1>6, <1>9, <1>12
<1>15. Fetched(n + 1)'
  <2>1. DOMAIN content' = 1..Len(content') /\ n \in Nat
    BY LenProperties DEF TypeOK
  <2>2. ASSUME NEW i \in 1..(n + 1), Known(packet'[i])
        PROVE  Rank(i)' \in DOMAIN content' /\ content'[Rank(i)'] = Parsed(packet'[i])
    <3>1. CASE i \in 1..n
      BY <1>10, <2>2, <3>1 DEF Fetched
    <3>2. CASE i = n + 1
      <4>1. Known(t) /\ packet'[i] = t
        BY <1>6, <2>2, <3>2
      <4>2. Rank(i)' = Rank(n + 1) /\ Rank(n + 1) = Rank(n) + 1
        BY <1>1, <1>11, <1>12, <3>2, <4>1
      <4>3. Rank(n + 1) \in 1..Len(content')
        BY <1>12, <1>13, <4>1, <4>2
      <4> QED
        BY <1>13, <2>1, <4>1, <4>2, <4>3
    <3> QED
      BY <3>1, <3>2
  <2> QED
    BY <2>2 DEF Fetched
<1>16. /\ pos' = 1 + Len(Encoded(packet)[n + 1])
       /\ pos' + sz' = Len(body) + 1
  <2>1. pos = 1 + Len(Encoded(packet)[n]) /\ pos + sz = Len(body) + 1
    BY DEF Reading
  <2>2. Len(Encoded(packet)[n]) \in Nat /\ Len(body) \in Nat
    BY <1>3, Prefixes
  <2> DEFINE k == tlvLen(t)
             e == Len(Encoded(packet)[n])
             b == Len(body)
  <2>3. /\ k \in Nat /\ e \in Nat /\ b \in Nat /\ pos \in Nat /\ sz \in Nat
        /\ pos' = pos + k /\ sz' = sz - k /\ pos = 1 + e /\ pos + sz = b + 1
        /\ Len(Encoded(packet)[n + 1]) = e + k
    BY <1>1, <1>3, <1>7, <2>1, <2>2
  <2> HIDE DEF t, k, e, b
  <2>4. pos' = 1 + (e + k) /\ pos' + sz' = b + 1
    BY <2>3
  <2> QED
    BY <2>3, <2>4, Zenon DEF b
<1>17. globRet' = "ok"
  BY <1>6 DEF Verdict, Reading
<1>18. Len(content') = Rank(n + 1)'
  <2>1. Rank(n + 1)' = Rank(n + 1)
    BY <1>1, <1>11
  <2> QED
    BY <1>13, <1>14, <2>1
<1>19. pc' = "loop" /\ ret' = "ok" /\ packet' = packet /\ body' = body
  BY <1>6
<1>20. (pos = 1 + Len(Encoded(packet)[n + 1]))' /\ (pos + sz = Len(body) + 1)'
  BY <1>16, <1>19, Zenon
<1> HIDE DEF t
<1>21. Reading(n + 1)'
  <2>1. ~(pc' = "done")
    BY <1>19
  <2> QED
    BY <1>8, <1>15, <1>17, <1>18, <1>19, <1>20, <2>1, Zenon DEF Reading
<1> QED
  BY <1>1, <1>19, <1>21, Zenon

\* An iteration parses a TLV, or goes astray; there is one while bytes remain.
LEMMA StepKinds ==
  ASSUME TypeOK, parseTLVCollection
  PROVE  \/ sz = 0 /\ Return(globRet)
         \/ Astray
         \/ \E r \in Results : \E l, m : Consume(r, l, m)
<1>1. /\ "ok" \in Results /\ "error" \in Results /\ "invalid" \in Results
      /\ ret \in Results
  BY DEF Results, TypeOK
<1>2. ASSUME NEW least, NEW r \in Results, NEW l, Sized(least, r, l)
      PROVE  \E q \in Results : \E k, m : Consume(q, k, m)
  BY <1>1, <1>2, Zenon DEF Sized
<1>3. CASE Pad1 \/ Unknown
  BY <1>1, <1>3, Zenon DEF Pad1, Unknown
<1>4. CASE parseTLV_PADN
  BY <1>1, <1>4, Zenon DEF parseTLV_PADN
<1>5. CASE parseTLV_Hello \/ parseTLV_Neighbour
  BY <1>1, <1>5, Zenon DEF parseTLV_Hello, parseTLV_Neighbour
<1>6. CASE parseTLV_Data \/ parseTLV_ACK \/ parseTLV_GoAway \/ parseTLV_Warning
  BY <1>1, <1>2, <1>6, Zenon DEF parseTLV_Data, parseTLV_ACK, parseTLV_GoAway,
     parseTLV_Warning
<1> QED
  BY <1>3, <1>4, <1>5, <1>6 DEF parseTLVCollection, EndOfLoop

\* A TLV that the protocol forbids is found to be invalid.
LEMMA Refused ==
  ASSUME ParserAssumption, TypeOK, Whole, pc = "loop", sz > 0,
         NEW n \in 0..Len(packet), Reading(n), Forbidden(packet[n + 1]),
         parseTLVCollection
  PROVE  \E l, m : Consume("invalid", l, m)
<1> DEFINE t == packet[n + 1]
<1>1. /\ t \in WireTLV /\ type = t.type /\ tlvLen(t) <= sz
      /\ t.type # TLV_PAD1 => lgt = t.length
      /\ t.type # TLV_PAD1 => \A i \in 1..t.length : Value(i) = Text(t)[i]
  BY Before
<1>2. type \in 0..255 /\ lgt \in 0..255 /\ sz \in Nat /\ avail = sz - 1
  <2>1. sz \in Nat
    BY Shorts DEF TypeOK
  <2> QED
    BY <2>1, HeadTypes DEF avail
<1>3. type # TLV_PAD1
  <2>1. t.type = TLV_PAD1 => t.length = 0
    BY <1>1 DEF WireTLV
  <2>2. t.type = TLV_PAD1 => Readable(t) /\ t.type # TLV_PADN
    BY <2>1, LengthsOf DEF Readable, TLV_PAD1, TLV_PADN
  <2> QED
    BY <1>1, <2>2 DEF Forbidden
<1>4. avail >= lgt + 1
  <2> HIDE DEF t
  <2>1. tlvLen(t) = 2 + lgt
    BY <1>1, <1>3, Zenon DEF tlvLen
  <2> QED
    BY <1>1, <1>2, <2>1
<1>5. \/ lgt \notin Lengths(type) /\ (type = TLV_HELLO => lgt > 8)
      \/ type = TLV_PADN /\ ~(\A i \in 1..lgt : Value(i) = 0)
  BY <1>1, <1>3 DEF Forbidden, Readable, Zeroes
<1>6. lgt \notin Lengths(type) => type \in TLV_HELLO..TLV_GOAWAY
  BY <1>2, <1>3, LengthsOf
<1> USE DEF At, TLV_PAD1, TLV_PADN, TLV_HELLO, TLV_NEIGHBOUR, TLV_DATA, TLV_ACK,
            TLV_GOAWAY, TLV_WARNING
<1> HIDE DEF t
<1>7. CASE parseTLV_PADN
  BY <1>2, <1>4, <1>5, <1>6, <1>7 DEF parseTLV_PADN
<1>8. CASE parseTLV_Hello
  <2>1. type = TLV_HELLO
    BY <1>8 DEF parseTLV_Hello
  <2>2. lgt \notin {8, 16} /\ lgt > 8
    BY <1>5, <2>1, LengthsOf
  <2> QED
    BY <1>2, <1>4, <1>8, <2>2 DEF parseTLV_Hello
<1>9. CASE parseTLV_Neighbour
  <2>1. type = TLV_NEIGHBOUR
    BY <1>9 DEF parseTLV_Neighbour
  <2>2. lgt # 18
    BY <1>5, <2>1, LengthsOf
  <2> QED
    BY <1>2, <1>4, <1>9, <2>2 DEF parseTLV_Neighbour
<1>10. CASE parseTLV_Data
  <2>1. type = TLV_DATA
    BY <1>10 DEF parseTLV_Data
  <2>2. lgt < 12
    <3>1. lgt \notin 12..255
      BY <1>5, <2>1, LengthsOf
    <3> QED
      BY <1>2, <3>1
  <2> QED
    BY <1>2, <1>4, <1>10, <2>2 DEF parseTLV_Data, Sized
<1>11. CASE parseTLV_ACK
  <2>1. type = TLV_ACK
    BY <1>11 DEF parseTLV_ACK
  <2>2. lgt < 12
    <3>1. lgt \notin 12..255
      BY <1>5, <2>1, LengthsOf
    <3> QED
      BY <1>2, <3>1
  <2> QED
    BY <1>2, <1>4, <1>11, <2>2 DEF parseTLV_ACK, Sized
<1>12. CASE parseTLV_GoAway
  <2>1. type = TLV_GOAWAY
    BY <1>12 DEF parseTLV_GoAway
  <2>2. lgt < 1
    <3>1. lgt \notin 1..255
      BY <1>5, <2>1, LengthsOf
    <3> QED
      BY <1>2, <3>1
  <2> QED
    BY <1>2, <1>4, <1>12, <2>2 DEF parseTLV_GoAway, Sized
<1>13. ~Pad1 /\ ~parseTLV_Warning /\ ~Unknown /\ ~EndOfLoop
  BY <1>2, <1>3, <1>5, <1>6 DEF Pad1, parseTLV_Warning, Unknown, EndOfLoop
<1> QED
  BY <1>7, <1>8, <1>9, <1>10, <1>11, <1>12, <1>13 DEF parseTLVCollection

\* Past the first TLV that is not legal, what came before it stays taken, and
\* its violation is not forgotten.
LEMMA LostKeeps ==
  ASSUME TypeOK, TypeOK', NEW n \in Nat \ {0}, LegalUpTo(n - 1), Fetched(n - 1),
         ~Legal(packet[n]), NEW r \in Results, NEW l, NEW m, Consume(r, l, m),
         Forbidden(packet[n]) => globRet = "invalid" \/ r = "invalid",
         pc' # "astray"
  PROVE  Lost(n)'
<1>1. packet' = packet /\ globRet' = Verdict(r)
      /\ Len(content) \in Nat /\ Len(content') \in Nat
      /\ Len(content) <= Len(content')
      /\ \A i \in 1..Len(content) : content'[i] = content[i]
  BY ConsumeEffect
<1>2. Fetched(n - 1)'
  <2>1. content \in Seq(Content) /\ content' \in Seq(Content) /\ n - 1 \in Nat
    BY DEF TypeOK
  <2> QED
    BY <1>1, <2>1, FetchedStays
<1>3. LegalUpTo(n - 1)'
  BY <1>1 DEF LegalUpTo
<1>4. Forbidden(packet[n]) => globRet' = "invalid"
  BY <1>1 DEF Verdict, Taken
<1> QED
  BY <1>1, <1>2, <1>3, <1>4 DEF Lost

-----------------------------------------------------------------------------
(* The invariant. *)

\* A step from where the parser stands: the end, the next TLV, or a TLV that
\* is not legal.
LEMMA ReadingStep ==
  ASSUME ParserAssumption, TypeOK, TypeOK', Whole, pc = "loop",
         NEW n \in 0..Len(packet), Reading(n), parseTLVCollection
  PROVE  \/ pc' = "done" /\ Reading(n)'
         \/ /\ n + 1 \in 1..Len(packet)
            /\ pc' = "loop" /\ Reading(n + 1)'
         \/ /\ n + 1 \in 1..Len(packet) /\ ~Legal(packet[n + 1])
            /\ pc' = "astray" \/ Lost(n + 1)'
<1>1. CASE sz = 0
  <2>1. Return(globRet)
    BY <1>1 DEF parseTLVCollection, Pad1, parseTLV_PADN, parseTLV_Hello,
       parseTLV_Neighbour, parseTLV_Data, parseTLV_ACK, parseTLV_GoAway,
       parseTLV_Warning, Unknown, EndOfLoop, At
  <2>2. /\ UNCHANGED <<packet, body, pos, sz, ret, globRet, content>>
        /\ pc' = "done"
    BY <2>1 DEF Return, input
  <2>3. /\ Fetched(n)' <=> Fetched(n)
        /\ LegalUpTo(n)' <=> LegalUpTo(n)
        /\ Rank(n)' = Rank(n)
    BY <2>2 DEF Fetched, LegalUpTo, Rank, Known, Parsed
  <2> QED
    BY <1>1, <2>2, <2>3 DEF Reading
<1>2. CASE sz > 0 /\ Legal(packet[n + 1])
  BY <1>2, PassKeeps
<1>3. CASE sz > 0 /\ ~Legal(packet[n + 1])
  <2>1. n + 1 \in 1..Len(packet) /\ n + 1 \in Nat \ {0} /\ (n + 1) - 1 = n
    BY <1>3, Before
  <2>2. PICK r \in Results : \E l, m :
          \/ pc' = "astray"
          \/ /\ Consume(r, l, m)
             /\ Forbidden(packet[n + 1]) => r = "invalid"
    <3>1. CASE Forbidden(packet[n + 1])
      <4>1. "invalid" \in Results
        BY DEF Results
      <4> QED
        BY <1>3, <3>1, <4>1, Refused
    <3>2. CASE ~Forbidden(packet[n + 1])
      <4>1. ~(sz = 0)
        BY <1>3
      <4>2. \/ pc' = "astray"
            \/ \E r \in Results : \E l, m : Consume(r, l, m)
        BY <4>1, StepKinds DEF Astray
      <4>3. ret \in Results
        BY DEF TypeOK
      <4> QED
        BY <3>2, <4>2, <4>3, Zenon
    <3> QED
      BY <3>1, <3>2
  <2>3. LegalUpTo(n) /\ Fetched(n)
    BY DEF Reading
  <2> DEFINE k == n + 1
  <2>4. LegalUpTo(k - 1) /\ Fetched(k - 1) /\ k \in Nat \ {0} /\ ~Legal(packet[k])
        /\ (Forbidden(packet[k]) => r = "invalid" \/ pc' = "astray")
    BY <1>3, <2>1, <2>2, <2>3
  <2> HIDE DEF k
  <2>5. pc' = "astray" \/ Lost(k)'
    BY <2>2, <2>4, LostKeeps
  <2> QED
    BY <1>3, <2>1, <2>5 DEF k
<1>4. sz = 0 \/ sz > 0
  <2>1. sz \in Nat
    BY Shorts DEF TypeOK
  <2> QED
    BY <2>1
<1> QED
  BY <1>1, <1>2, <1>3, <1>4

\* A step once a TLV that is not legal was met.
LEMMA LostStep ==
  ASSUME TypeOK, TypeOK', NEW n \in Nat \ {0}, Lost(n), parseTLVCollection
  PROVE  pc' = "astray" \/ Lost(n)'
<1>1. LegalUpTo(n - 1) /\ Fetched(n - 1) /\ ~Legal(packet[n])
      /\ (Forbidden(packet[n]) => globRet = "invalid")
  BY DEF Lost
<1>2. CASE Return(globRet)
  <2>1. UNCHANGED <<packet, body, globRet, content>>
    BY <1>2 DEF Return, input
  <2>2. /\ Fetched(n - 1)' <=> Fetched(n - 1)
        /\ LegalUpTo(n - 1)' <=> LegalUpTo(n - 1)
    BY <2>1 DEF Fetched, LegalUpTo, Rank, Known, Parsed
  <2> QED
    BY <1>1, <2>1, <2>2 DEF Lost
<1>3. ASSUME NEW r \in Results, NEW l, NEW m, Consume(r, l, m), pc' # "astray"
      PROVE  Lost(n)'
  BY <1>1, <1>3, LostKeeps
<1> QED
  BY <1>2, <1>3, StepKinds DEF Astray

\* The empty datagram, and the others.
LEMMA Empty ==
  ASSUME ParserAssumption, TypeOK, Whole
  PROVE  /\ packet \in Seq(WireTLV) /\ Len(packet) \in Nat
         /\ Encoded(packet)[0] = <<>>
         /\ packet = <<>> => declared = 0
         /\ packet # <<>> => declared > 0
         /\ declared = Len(body) /\ Len(body) \in Nat
<1>1. packet \in Seq(WireTLV) /\ Len(packet) \in Nat /\ body \in Seq(Octet)
  BY DEF TypeOK, ParserAssumption
<1>2. Encoded(packet)[0] = <<>>
  BY <1>1, EncodedStep
<1>3. declared = Len(body) /\ body = Written(packet) /\ Len(body) \in Nat
  BY <1>1 DEF Whole
<1>4. ASSUME packet = <<>>
      PROVE  declared = 0
  <2>1. Len(packet) = 0
    BY <1>4
  <2>2. body = <<>>
    BY <1>2, <1>3, <2>1 DEF Written
  <2> QED
    BY <1>3, <2>2
<1>5. ASSUME packet # <<>>
      PROVE  declared > 0
  <2>1. Len(packet) # 0
    BY <1>1, <1>5
  <2>2. 0 \in 0..(Len(packet) - 1)
    BY <1>1, <2>1
  <2> DEFINE t == packet[0 + 1]
             e == Len(Encoded(packet)[0])
  <2>3. /\ t \in WireTLV /\ e \in Nat
        /\ e + tlvLen(t) <= Len(body)
    BY <1>1, <1>3, <2>2, Laid
  <2> HIDE DEF t, e
  <2>4. tlvLen(t) \in Nat \ {0}
    BY <2>3, BytesShape
  <2> QED
    BY <1>3, <2>3, <2>4
<1> QED
  BY <1>1, <1>2, <1>3, <1>4, <1>5

\* The header of a whole datagram: the first TLV is next, when there is one.
LEMMA HeaderStep ==
  ASSUME ParserAssumption, TypeOK, Whole, WholeInv, pc = "header", Header
  PROVE  /\ packet = <<>> => pc' = "done" /\ UNCHANGED <<pos, sz>>
         /\ packet # <<>> => pc' = "loop" /\ Reading(0)'
<1>1. /\ pos = 1 /\ sz = 0 /\ content = <<>> /\ ret = "ok" /\ globRet = "ok"
  BY DEF WholeInv
<1>2. CASE packet = <<>>
  <2>1. Return("error")
    BY <1>2, Empty DEF Header
  <2> QED
    BY <1>2, <2>1 DEF Return
<1>3. CASE packet # <<>>
  <2>1. /\ pc' = "loop" /\ sz' = declared
        /\ UNCHANGED <<input, pos, length, ret, globRet, content>>
    <3>1. ~(Len(body) > declared) /\ ~(declared = 0)
      BY <1>3, Empty
    <3> QED
      BY <3>1 DEF Header
  <2>2. UNCHANGED <<packet, body>>
    BY <2>1 DEF input
  <2>3. LegalUpTo(0)' /\ Fetched(0)'
    BY DEF LegalUpTo, Fetched
  <2>4. Len(content') = Rank(0)'
    <3>1. Rank(0)' = Rank(0)
      BY <2>2 DEF Rank, Known
    <3>2. Len(content') = 0
      BY <1>1, <2>1
    <3> QED
      BY <3>1, <3>2, Ranks
  <2>5. pos' = 1 + Len(Encoded(packet)[0])' /\ pos' + sz' = Len(body)' + 1
    <3>1. Encoded(packet)[0] = <<>> /\ declared = Len(body) /\ Len(body) \in Nat
      BY Empty
    <3>2. Len(<<>>) = 0 /\ Encoded(packet)'[0] = Encoded(packet)[0]
      BY <2>2
    <3> QED
      BY <1>1, <2>1, <2>2, <3>1, <3>2
  <2> QED
    BY <1>1, <1>3, <2>1, <2>3, <2>4, <2>5 DEF Reading
<1> QED
  BY <1>2, <1>3

\* The datagram stays as it came.
LEMMA SameInput ==
  ASSUME TypeOK, [Next]_vars
  PROVE  UNCHANGED <<packet, body, declared>>
<1>1. ASSUME NEW r, NEW l, NEW m, Consume(r, l, m)
      PROVE  UNCHANGED <<packet, body, declared>>
  BY <1>1 DEF Consume, Astray, input
<1>2. ASSUME NEW r, Return(r)
      PROVE  UNCHANGED <<packet, body, declared>>
  BY <1>2 DEF Return, input
<1>3. CASE Header
  BY <1>2, <1>3 DEF Header, input
<1>4. CASE parseTLVCollection
  <2>1. CASE Return(globRet)
    BY <1>2, <2>1
  <2>2. CASE Astray
    BY <2>2 DEF Astray, input
  <2> QED
    BY <1>1, <1>4, <2>1, <2>2, StepKinds
<1>5. CASE Finished \/ UNCHANGED vars
  BY <1>5 DEF Finished, vars, input
<1> QED
  BY <1>3, <1>4, <1>5 DEF Next

\* Every step keeps the invariant.
LEMMA WholeNext ==
  ASSUME ParserAssumption, TypeOK, TypeOK', WholeInv, [Next]_vars
  PROVE  WholeInv'
<1> SUFFICES ASSUME Whole'
             PROVE  WholeInv'
  BY DEF WholeInv
<1>1. UNCHANGED <<packet, body, declared>>
  BY SameInput
<1>2. Whole
  BY <1>1 DEF Whole
<1>3. LegalUpTo(Len(packet))' <=> LegalUpTo(Len(packet))
  BY <1>1 DEF LegalUpTo
<1>4. packet \in Seq(WireTLV) /\ Len(packet) \in Nat
  BY <1>2, Empty
<1>5. CASE Header
  <2>1. /\ packet = <<>> => pc' = "done" /\ UNCHANGED <<pos, sz>>
        /\ packet # <<>> => pc' = "loop" /\ Reading(0)'
    BY <1>2, <1>5, HeaderStep DEF Header
  <2>2. 0 \in 0..Len(packet)
    BY <1>4
  <2>3. pos = 1 /\ sz = 0
    BY <1>2, <1>5 DEF WholeInv, Header
  <2> QED
    BY <1>1, <2>1, <2>2, <2>3 DEF WholeInv
<1>6. CASE parseTLVCollection
  <2>1. pc = "loop"
    BY <1>6 DEF parseTLVCollection, Pad1, parseTLV_PADN, parseTLV_Hello,
       parseTLV_Neighbour, parseTLV_Data, parseTLV_ACK, parseTLV_GoAway,
       parseTLV_Warning, Unknown, EndOfLoop, At
  <2>2. packet # <<>>
    BY <1>2, <2>1 DEF WholeInv
  <2>3. ASSUME NEW n \in 0..Len(packet), Reading(n)
        PROVE  \/ pc' = "done" /\ Reading(n)'
               \/ /\ n + 1 \in 1..Len(packet)
                  /\ pc' = "loop" /\ Reading(n + 1)'
               \/ /\ n + 1 \in 1..Len(packet) /\ ~Legal(packet[n + 1])
                  /\ pc' = "astray" \/ Lost(n + 1)'
    BY <1>2, <1>6, <2>1, <2>3, ReadingStep
  <2>4. ASSUME NEW n \in 1..Len(packet), Lost(n)
        PROVE  ~Legal(packet[n]) /\ (pc' = "astray" \/ Lost(n)')
    <3>1. n \in Nat \ {0}
      OBVIOUS
    <3> QED
      BY <1>6, <2>4, <3>1, LostStep DEF Lost
  <2>5. ASSUME NEW n \in 1..Len(packet), ~Legal(packet[n])
        PROVE  ~LegalUpTo(Len(packet))
    BY <2>5 DEF LegalUpTo
  <2>6. pc' \in {"loop", "done", "astray"}
    BY <1>6, <2>1, StepKinds DEF Consume, Astray, Return
  <2>7. ASSUME NEW n \in 0..Len(packet), n + 1 \in 1..Len(packet)
        PROVE  n + 1 \in 0..Len(packet)
    BY <1>4, <2>7
  <2>8. \/ \E n \in 0..Len(packet) : Reading(n)
        \/ \E n \in 1..Len(packet) : Lost(n)
    BY <1>2, <2>1, <2>2 DEF WholeInv
  <2>9. \/ pc' = "astray" /\ ~LegalUpTo(Len(packet))
        \/ pc' # "astray" /\ \E n \in 0..Len(packet) : Reading(n)'
        \/ pc' # "astray" /\ \E n \in 1..Len(packet) : Lost(n)'
    BY <2>3, <2>4, <2>5, <2>7, <2>8
  <2> QED
    BY <1>1, <1>3, <2>2, <2>6, <2>9 DEF WholeInv
<1>7. CASE Finished \/ UNCHANGED vars
  <2>1. UNCHANGED <<packet, body, pc, pos, sz, ret, globRet, content>>
    BY <1>7 DEF Finished, vars, input
  <2>2. \A n : Reading(n)' <=> Reading(n)
    BY <2>1 DEF Reading, LegalUpTo, Fetched, Rank, Known, Parsed
  <2>3. \A n : Lost(n)' <=> Lost(n)
    BY <2>1 DEF Lost, LegalUpTo, Fetched, Rank, Known, Parsed
  <2> QED
    BY <1>2, <1>3, <2>1, <2>2, <2>3 DEF WholeInv
<1> QED
  BY <1>5, <1>6, <1>7 DEF Next

\* The invariant, of a behaviour.
LEMMA WholeInvariant == AnySpec => [](TypeOK /\ WholeInv)
<1>1. ParserAssumption
  BY ParserAssumption
<1>2. AnyInit => WholeInv
  BY DEF AnyInit, WholeInv
<1>3. TypeOK /\ TypeOK' /\ WholeInv /\ [Next]_vars => WholeInv'
  BY <1>1, WholeNext
<1>4. AnySpec => []TypeOK
  BY ParserTypes
<1> QED
  BY <1>2, <1>3, <1>4, PTL DEF AnySpec

-----------------------------------------------------------------------------
(* What follows. *)

\* In the end, the parser that never lost its way has passed all the TLVs.
LEMMA ReadToTheEnd ==
  ASSUME ParserAssumption, TypeOK, Whole, pc = "done",
         NEW n \in 0..Len(packet), Reading(n)
  PROVE  n = Len(packet)
<1>1. /\ packet \in Seq(WireTLV) /\ Len(packet) \in Nat
      /\ declared = Len(body) /\ Len(body) \in Nat /\ body = Written(packet)
  BY Empty DEF Whole
<1>2. 1 + Len(Encoded(packet)[n]) = Len(body) + 1
  <2>1. sz = 0 /\ pos = 1 + Len(Encoded(packet)[n]) /\ pos + sz = Len(body) + 1
        /\ pos \in Nat
    BY DEF Reading, TypeOK
  <2> QED
    BY <1>1, <2>1
<1>3. ASSUME n \in 0..(Len(packet) - 1)
      PROVE  FALSE
  <2> DEFINE t == packet[n + 1]
             e == Len(Encoded(packet)[n])
  <2>1. t \in WireTLV /\ e \in Nat /\ e + tlvLen(t) <= Len(body)
    BY <1>1, <1>3, Laid
  <2> HIDE DEF t
  <2>2. tlvLen(t) \in Nat \ {0}
    BY <2>1, BytesShape
  <2>3. 1 + e = Len(body) + 1
    BY <1>2
  <2> HIDE DEF e
  <2> QED
    BY <1>1, <2>1, <2>2, <2>3
<1> QED
  BY <1>1, <1>3

\* The invariant says where the parser is in a legal packet.
LEMMA WholeContained ==
  ASSUME ParserAssumption, TypeOK, WholeInv
  PROVE  Contained
<1> SUFFICES ASSUME Whole, LegalUpTo(Len(packet)), pc # "header"
             PROVE  /\ pc # "astray"
                    /\ pos \in Boundaries /\ pos + sz = Len(body) + 1
  BY DEF Contained
<1>1. pc \in {"loop", "done"}
  BY DEF WholeInv, TypeOK
<1>2. CASE packet = <<>>
  <2>1. pos = 1 /\ sz = 0 /\ Len(body) = 0 /\ Encoded(packet)[0] = <<>>
    BY <1>2, Empty DEF WholeInv, Whole
  <2>2. 0 \in 0..Len(packet) /\ pos = 1 + Len(Encoded(packet)[0])
    BY <2>1, Empty
  <2> QED
    BY <1>1, <2>1, <2>2 DEF Boundaries
<1>3. CASE packet # <<>>
  <2>1. \A n \in 1..Len(packet) : ~Lost(n)
    BY DEF Lost, LegalUpTo
  <2>2. PICK n \in 0..Len(packet) : Reading(n)
    BY <1>1, <1>3, <2>1 DEF WholeInv
  <2> QED
    BY <1>1, <2>2 DEF Reading, Boundaries
<1> QED
  BY <1>2, <1>3

\* The invariant says what was taken, at the end.
LEMMA WholeDecoded ==
  ASSUME ParserAssumption, TypeOK, WholeInv
  PROVE  Decoded
<1> SUFFICES ASSUME pc = "done", Whole
             PROVE  /\ \A i \in DOMAIN packet : LegalUpTo(i) /\ Known(packet[i]) =>
                         /\ Rank(i) \in DOMAIN content
                         /\ content[Rank(i)] = Parsed(packet[i])
                    /\ LegalUpTo(Len(packet)) /\ packet # <<>> =>
                         Len(content) = Rank(Len(packet)) /\ globRet = "ok"
  BY DEF Decoded
<1>1. packet \in Seq(WireTLV) /\ Len(packet) \in Nat /\ DOMAIN packet = 1..Len(packet)
  BY Empty
<1>2. CASE packet = <<>>
  BY <1>1, <1>2
<1>3. ASSUME NEW n \in 0..Len(packet), Reading(n)
      PROVE  Fetched(Len(packet)) /\ Len(content) = Rank(Len(packet)) /\ globRet = "ok"
  BY <1>3, ReadToTheEnd DEF Reading
<1>4. ASSUME NEW n \in 1..Len(packet), Lost(n)
      PROVE  /\ ~LegalUpTo(Len(packet))
             /\ \A i \in DOMAIN packet : LegalUpTo(i) => i \in 1..(n - 1)
  BY <1>1, <1>4 DEF Lost, LegalUpTo
<1>5. CASE packet # <<>>
  <2>1. \/ \E n \in 0..Len(packet) : Reading(n)
        \/ \E n \in 1..Len(packet) : Lost(n)
    BY <1>5 DEF WholeInv
  <2>2. CASE \E n \in 0..Len(packet) : Reading(n)
    BY <1>1, <1>3, <2>2 DEF Fetched
  <2>3. CASE \E n \in 1..Len(packet) : Lost(n)
    BY <1>4, <2>3 DEF Lost, Fetched
  <2> QED
    BY <2>1, <2>2, <2>3
<1> QED
  BY <1>2, <1>5

\* The invariant says what was reported, at the end.
LEMMA WholeReported ==
  ASSUME ParserAssumption, TypeOK, WholeInv
  PROVE  Reported
<1> SUFFICES ASSUME pc = "done", Whole, NEW i \in DOMAIN packet,
                    Forbidden(packet[i]), LegalUpTo(i - 1)
             PROVE  globRet = "invalid"
  BY DEF Reported
<1>1. /\ packet \in Seq(WireTLV) /\ Len(packet) \in Nat
      /\ DOMAIN packet = 1..Len(packet) /\ packet # <<>>
  BY Empty
<1>2. ~Legal(packet[i])
  BY DEF Forbidden, Legal
<1>3. ASSUME NEW n \in 0..Len(packet), Reading(n)
      PROVE  FALSE
  BY <1>1, <1>2, <1>3, ReadToTheEnd DEF Reading, LegalUpTo
<1>4. ASSUME NEW n \in 1..Len(packet), Lost(n)
      PROVE  n = i
  <2>1. ~(i < n)
    BY <1>1, <1>2, <1>4 DEF Lost, LegalUpTo
  <2>2. ~(n < i)
    BY <1>1, <1>4 DEF Lost, LegalUpTo
  <2> QED
    BY <1>1, <2>1, <2>2
<1> QED
  BY <1>1, <1>3, <1>4 DEF WholeInv, Lost

\* The datagrams of Init are some of those of AnyInit.
LEMMA InitIsAny ==
  ASSUME ParserAssumption, Init
  PROVE  AnyInit
<1>1. packet \in Seq(WireTLV) /\ Len(packet) \in Nat
  BY DEF Init, ParserAssumption
<1>2. Written(packet) \in Seq(Octet)
  <2>1. Encoded(packet) \in [0..Len(packet) -> Seq(Octet)]
    BY <1>1, EncodedStep
  <2>2. Len(packet) \in 0..Len(packet)
    BY <1>1
  <2> QED
    BY <2>1, <2>2 DEF Written
<1>3. PICK cut \in Cuts : /\ cut <= Len(Written(packet))
                          /\ body = SubSeq(Written(packet), 1, Len(Written(packet)) - cut)
  BY DEF Init
<1> DEFINE w == Written(packet)
           m == Len(w) - cut
<1>4. cut \in Nat /\ Len(w) \in Nat /\ m \in 0..Len(w)
  <2>1. cut \in Nat /\ Len(w) \in Nat
    BY <1>2, LenProperties DEF ParserAssumption
  <2> HIDE DEF w
  <2> QED
    BY <1>3, <2>1 DEF w
<1>5. body \in Seq(Octet)
  <2>1. \A j \in 1..m : j \in 1..Len(w)
    BY <1>4
  <2>2. w \in Seq(Octet) /\ body = SubSeq(w, 1, m)
    BY <1>2, <1>3
  <2> HIDE DEF w, m
  <2> QED
    BY <1>4, <2>1, <2>2, SubSeqProperties
<1> QED
  BY <1>5 DEF Init, AnyInit

\* Whatever the cuts and the lengths declared, TLC's datagrams are covered by
\* what is proved for any.
THEOREM SpecIsAny == Spec => AnySpec
<1>1. Init => AnyInit
  BY ParserAssumption, InitIsAny
<1> QED
  BY <1>1, PTL DEF Spec, AnySpec

\* Of legal TLVs of any lengths, in any number, the parser always stands where
\* one begins, and never reads what is not the datagram's.
THEOREM LegalContained == AnySpec => []Contained
<1>1. TypeOK /\ WholeInv => Contained
  BY ParserAssumption, WholeContained
<1> QED
  BY <1>1, WholeInvariant, PTL

\* All the TLVs that come before the first fault are taken as they were sent.
THEOREM LegalDecoded == AnySpec => []Decoded
<1>1. TypeOK /\ WholeInv => Decoded
  BY ParserAssumption, WholeDecoded
<1> QED
  BY <1>1, WholeInvariant, PTL

\* The first TLV that is forbidden is reported, whatever comes after it.
THEOREM ForbiddenReported == AnySpec => []Reported
<1>1. TypeOK /\ WholeInv => Reported
  BY ParserAssumption, WholeReported
<1> QED
  BY <1>1, WholeInvariant, PTL
=============================================================================
