------------------------------ MODULE Outgoing ------------------------------
(***************************************************************************)
(* The way of a typed line to the network: sendMessage cuts it in Data     *)
(* TLVs, in the main thread; pushPendingForFlood, Flood and                *)
(* sendPendingTLVs take them on, in the background thread.  The two meet   *)
(* in pendingForFlood, under pendingForFloodLock.  Steps are those that    *)
(* the other thread can see.                                               *)
(*                                                                         *)
(* There is one neighbour; it answers before it is given up (Peer has what *)
(* happens otherwise).  A line is its number of characters, and two        *)
(* fragments never have the same nonce.                                    *)
(***************************************************************************)
EXTENDS Integers, Sequences, FiniteSets, Wire, Maps

CONSTANTS
  Lines,              \* the lengths of the lines typed
  MaxLines,           \* bound on their number
  Others,             \* TLVs that the rest of the program pushes
  MaxOthers,          \* bound on their number
  MAX_SENDS,          \* 5 in the code
  SEND_EVERY          \* iterations between two sendings: 6 in the code

FRAGMENT   == 254
PACKET_MAX == 1024
HEADER     == 4

\* A line k cut in parts j of n characters.
Fragment == [line : Nat, part : Nat, size : 1..FRAGMENT]

Min2(a, b) == IF a <= b THEN a ELSE b

\* tlvData(myId, cur, curSz + 1, ...)
tlvData(f) == [type |-> TLV_DATA, length |-> DataLength(f.size + 1), of |-> f]

\* tlvGoAway(TLV_GOAWAY_QUIT, 22, ...)
Goodbye == tlvGoAway(22)

\* What may be in the queue.
TLV == Others \cup {Goodbye}
         \cup [type : {TLV_DATA}, length : 14..267, of : Fragment]

ASSUME OutgoingAssumption ==
  /\ Lines \subseteq Nat \ {0}
  /\ Others \subseteq [type : TLV_HELLO..TLV_GOAWAY, length : 0..255] \ {Goodbye}
  /\ {MaxLines, MaxOthers} \subseteq Nat
  /\ MAX_SENDS \in Nat \ {0} /\ SEND_EVERY \in Nat \ {0}

VARIABLES
  mpc,                \* main: "read", "lock", "push", or "unlock"
  left, line, part,   \* characters left of the line, and what came before
  lock,               \* pendingForFloodLock: "free", "main", or "back"
  pendingForFlood,
  bpc,                \* phase of the background thread
  moved,              \* elements of pendingForFlood that are in RR
  active,             \* the neighbour is in TVA
  toFlood,            \* fragments in RR that it has to be sent: how often sent
  fresh,              \* those moved to RR in this iteration
  idle,               \* iterations since the last sending
  toSend,             \* the queue of the neighbour
  quit,
  others              \* how many of Others were pushed

\* History: the fragments typed, moved to RR, and freed by mircQuit; the TLVs
\* pushed to the queue, and sent; the last packet, before and after padding.
VARIABLES typed, flooded, freed, pushed, sent, used, size

main    == <<mpc, left, line, part>>
mailbox == <<lock, pendingForFlood, moved>>
table   == <<active, toFlood, fresh>>
wire    == <<toSend, pushed, sent, used, size>>
counts  == <<idle, others>>
vars    == <<main, mailbox, bpc, table, wire, counts, quit, typed, flooded,
             freed>>

TypeOK ==
  /\ mpc \in {"read", "lock", "push", "unlock"}
  /\ left \in Nat /\ line \in 0..MaxLines /\ part \in Nat
  /\ lock \in {"free", "main", "back"}
  /\ pendingForFlood \in Seq(Fragment)
  /\ bpc \in {"receive", "pending", "lock", "move", "clear", "unlock", "send",
              "sleep", "bye", "quitlock", "free", "done"}
  /\ moved \in 0..Len(pendingForFlood)
  /\ active \in BOOLEAN /\ quit \in BOOLEAN
  /\ IsMap(toFlood, Fragment, 0..MAX_SENDS)
  /\ fresh \subseteq DOMAIN toFlood
  /\ idle \in 0..SEND_EVERY /\ others \in 0..MaxOthers
  /\ typed \in Seq(Fragment) /\ flooded \in Seq(Fragment)
  /\ freed \in Seq(Fragment)
  /\ toSend \in Seq(TLV) /\ pushed \in Seq(TLV) /\ sent \in Seq(TLV)
  /\ used \in 0..PACKET_MAX /\ size \in 0..(PACKET_MAX + 2)

Init ==
  /\ mpc = "read" /\ left = 0 /\ line = 0 /\ part = 0
  /\ lock = "free" /\ pendingForFlood = <<>>
  /\ bpc = "receive" /\ moved = 0 /\ active = FALSE
  /\ toFlood = EmptyMap /\ fresh = {} /\ idle = 0 /\ toSend = <<>>
  /\ quit = FALSE /\ others = 0
  /\ typed = <<>> /\ flooded = <<>> /\ freed = <<>>
  /\ pushed = <<>> /\ sent = <<>> /\ used = 0 /\ size = 0

-----------------------------------------------------------------------------
(* The main thread. *)

NotMain == UNCHANGED <<table, wire, counts, bpc, moved, flooded, freed>>

\* readLine returns a line, and sendMessage begins.
Type(n) ==
  /\ mpc = "read" /\ ~quit /\ line < MaxLines
  /\ mpc' = "lock" /\ left' = n /\ line' = line + 1 /\ part' = 1
  /\ UNCHANGED <<lock, pendingForFlood, quit, typed>> /\ NotMain

\* Faulty variant: the lock is not waited for.
LockMain_Ignored ==
  /\ mpc = "lock" /\ mpc' = "push"
  /\ UNCHANGED <<left, line, part, lock, pendingForFlood, quit, typed>>
  /\ NotMain

LockMain ==
  /\ mpc = "lock" /\ lock = "free"
  /\ mpc' = "push" /\ lock' = "main"
  /\ UNCHANGED <<left, line, part, pendingForFlood, quit, typed>> /\ NotMain

\* pendingForFlood.push_back(tlv)
PushBack ==
  /\ mpc = "push"
  /\ LET f == [line |-> line, part |-> part, size |-> Min2(left, FRAGMENT)] IN
       /\ pendingForFlood' = Append(pendingForFlood, f)
       /\ typed' = Append(typed, f)
  /\ mpc' = "unlock"
  /\ UNCHANGED <<left, line, part, lock, quit>> /\ NotMain

\* The lock is given back, and the next fragment begins.
UnlockMain ==
  /\ mpc = "unlock" /\ lock' = "free"
  /\ LET rest == left - Min2(left, FRAGMENT) IN
       /\ left' = rest
       /\ IF rest > 0 THEN mpc' = "lock" /\ part' = part + 1
                      ELSE mpc' = "read" /\ part' = part
  /\ UNCHANGED <<line, pendingForFlood, quit, typed>> /\ NotMain

\* The line /quit; or SIGINT, at any time.
Quit ==
  /\ ~quit /\ quit' = TRUE
  /\ UNCHANGED <<main, lock, pendingForFlood, typed>> /\ NotMain

Main ==
  \/ \E n \in Lines : Type(n)
  \/ LockMain \/ PushBack \/ UnlockMain \/ Quit

-----------------------------------------------------------------------------
(* The background thread: receiving, and the tables. *)

NotBack == UNCHANGED <<main, quit, typed>>

\* The head of the loop.
Leave ==
  /\ bpc = "receive" /\ quit /\ bpc' = "bye"
  /\ NotBack
  /\ UNCHANGED <<mailbox, table, wire, counts, flooded, freed>>

\* What the iteration does before it comes to our messages: a Hello makes the
\* neighbour active, Acks remove it from toFlood, and TLVs are pushed for it.
Receive(acked) ==
  /\ bpc = "receive" /\ ~quit /\ bpc' = "pending"
  /\ toFlood' = Erase(toFlood, acked)
  /\ \/ active' = TRUE /\ UNCHANGED <<toSend, pushed, others>>
     \/ UNCHANGED <<active, toSend, pushed, others>>
     \/ /\ active /\ others < MaxOthers
        /\ \E t \in Others :
             toSend' = Append(toSend, t) /\ pushed' = Append(pushed, t)
        /\ others' = others + 1 /\ UNCHANGED active
  /\ NotBack
  /\ UNCHANGED <<mailbox, fresh, idle, sent, used, size, flooded, freed>>

-----------------------------------------------------------------------------
(* pushPendingForFlood. *)

\* TVA.empty(), without the lock.
TestEmpty ==
  /\ bpc = "pending" /\ bpc' = IF active THEN "lock" ELSE "send"
  /\ NotBack
  /\ UNCHANGED <<mailbox, table, wire, counts, flooded, freed>>

LockBack ==
  /\ bpc = "lock" /\ lock = "free" /\ lock' = "back" /\ bpc' = "move"
  /\ NotBack
  /\ UNCHANGED <<table, wire, counts, pendingForFlood, moved, flooded, freed>>

\* RR[id] is set, with the neighbour to be sent it.
Move ==
  /\ bpc = "move"
  /\ IF moved < Len(pendingForFlood)
     THEN LET f == pendingForFlood[moved + 1] IN
          /\ toFlood' = Put(toFlood, f, 0) /\ fresh' = fresh \cup {f}
          /\ flooded' = Append(flooded, f)
          /\ moved' = moved + 1 /\ UNCHANGED bpc
     ELSE bpc' = "clear" /\ UNCHANGED <<toFlood, fresh, flooded, moved>>
  /\ NotBack
  /\ UNCHANGED <<wire, counts, lock, pendingForFlood, active, freed>>

Clear ==
  /\ bpc = "clear" /\ pendingForFlood' = <<>> /\ moved' = 0 /\ bpc' = "unlock"
  /\ NotBack
  /\ UNCHANGED <<table, wire, counts, lock, flooded, freed>>

UnlockBack ==
  /\ bpc = "unlock" /\ lock' = "free" /\ bpc' = "send"
  /\ NotBack
  /\ UNCHANGED <<table, wire, counts, pendingForFlood, moved, flooded, freed>>

-----------------------------------------------------------------------------
(* Flood and sendPendingTLVs, with no step of the main thread to see. *)

\* Faulty variant: what was moved just now is what is due.
MayBeDue_Fresh(f) == f \in fresh

\* Faulty variant: nobody is ever given up.
MayBeDue_Always(f) == TRUE

\* A first sending is due within a second of the move, the others when the
\* delay has gone by.  Of what was sent MAX_SENDS times the Ack has come.
MayBeDue(f)  == toFlood[f] < MAX_SENDS
MustBeDue(f) == toFlood[f] = 0 /\ f \notin fresh

DueSets ==
  LET may  == {f \in DOMAIN toFlood : MayBeDue(f)}
      must == {f \in may : MustBeDue(f)}
  IN {due \in SUBSET may : must \subseteq due}

\* BytesOf(queue)[n] is the length of a packet of the first n TLVs of a queue.
BytesOf(queue) ==
  LET upTo[n \in 0..Len(queue)] == IF n = 0 THEN HEADER
                                   ELSE upTo[n - 1] + tlvLen(queue[n])
  IN upTo

\* How many TLVs of a queue are put in a packet.
Taken(queue) ==
  CHOOSE n \in 0..Len(queue) :
    /\ BytesOf(queue)[n] <= PACKET_MAX
    /\ n < Len(queue) => BytesOf(queue)[n + 1] > PACKET_MAX

\* The packet, once filled with a Pad1 or a PadN of 255 bytes at most.
Padded(n) ==
  LET room == PACKET_MAX - n IN
  CASE room = 0 -> n
    [] room = 1 -> n + tlvLen(tlvPad1)
    [] OTHER    -> n + tlvLen(tlvPadN(Min2(255, room)))

\* Faulty variant: a TLV that does not fit is popped before its length is
\* compared.
Rest_Popped(queue) == SubSeq(queue, Taken(queue) + 2, Len(queue))

\* What stays in the queue.
Rest(queue) == SubSeq(queue, Taken(queue) + 1, Len(queue))

\* sendPendingTLVs once new was pushed: Flood pushes the fragments due, in any
\* order, and one packet leaves, unless the queue is empty.
SendPendingTLVs(new) ==
  \E due \in DueSets : \E flood \in Injection(1..Cardinality(due), due) :
    LET more == new \o [i \in DOMAIN flood |-> tlvData(flood[i])]
        full == toSend \o more
    IN /\ toFlood' = [f \in DOMAIN toFlood |->
                        IF f \in due THEN toFlood[f] + 1 ELSE toFlood[f]]
       /\ toSend' = Rest(full) /\ pushed' = pushed \o more
       /\ sent' = sent \o SubSeq(full, 1, Taken(full))
       /\ IF full = <<>> THEN UNCHANGED <<used, size>>
          ELSE used' = BytesOf(full)[Taken(full)] /\ size' = Padded(used')

Send ==
  /\ bpc = "send" /\ bpc' = "sleep"
  /\ IF idle < SEND_EVERY - 1
     THEN idle' = idle + 1 /\ UNCHANGED <<wire, toFlood>>
     ELSE /\ idle' = 0
          /\ IF active THEN SendPendingTLVs(<<>>)
                       ELSE UNCHANGED <<wire, toFlood>>
  /\ NotBack
  /\ UNCHANGED <<mailbox, active, fresh, others, flooded, freed>>

\* sleep(1)
Sleep ==
  /\ bpc = "sleep" /\ bpc' = "receive" /\ fresh' = {}
  /\ NotBack
  /\ UNCHANGED <<mailbox, wire, counts, active, toFlood, flooded, freed>>

-----------------------------------------------------------------------------
(* The end of background(). *)

\* Faulty variant: the goodbye is queued once the last packet has left.
Bye_Late ==
  /\ bpc = "bye" /\ bpc' = "quitlock"
  /\ IF active THEN SendPendingTLVs(<<>>)
               ELSE UNCHANGED <<wire, toFlood>>
  /\ NotBack
  /\ UNCHANGED <<mailbox, counts, active, fresh, flooded, freed>>

\* A GoAway is queued, and one packet is sent.
Bye ==
  /\ bpc = "bye" /\ bpc' = "quitlock"
  /\ IF active THEN SendPendingTLVs(<<Goodbye>>)
               ELSE UNCHANGED <<wire, toFlood>>
  /\ NotBack
  /\ UNCHANGED <<mailbox, counts, active, fresh, flooded, freed>>

\* mircQuit
LockQuit ==
  /\ bpc = "quitlock" /\ lock = "free" /\ lock' = "back" /\ bpc' = "free"
  /\ NotBack
  /\ UNCHANGED <<table, wire, counts, pendingForFlood, moved, flooded, freed>>

MircQuit ==
  /\ bpc = "free" /\ bpc' = "done" /\ lock' = "free"
  /\ freed' = pendingForFlood /\ pendingForFlood' = <<>>
  /\ NotBack
  /\ UNCHANGED <<table, wire, counts, moved, flooded>>

Background ==
  \/ Leave
  \/ \E acked \in SUBSET {f \in DOMAIN toFlood : toFlood[f] > 0} : Receive(acked)
  \/ TestEmpty \/ LockBack \/ Move \/ Clear \/ UnlockBack \/ Send \/ Sleep
  \/ Bye \/ LockQuit \/ MircQuit

\* main has come to back.join(), and the background thread has ended.
Finished == quit /\ mpc = "read" /\ bpc = "done" /\ UNCHANGED vars

Next == Main \/ Background \/ Finished

Spec == Init /\ [][Next]_vars

\* Both threads run; a user need not type, and the lock may be given to either
\* of those that wait for it.
FairSpec ==
  /\ Spec
  /\ WF_vars(Background)
  /\ WF_vars(PushBack \/ UnlockMain)

-----------------------------------------------------------------------------
(* Properties. *)

\* No fragment is lost between the two threads, none is taken twice, and they
\* go to RR in the order they were typed: at all times each is in RR, or in
\* pendingForFlood where the background thread has yet to come to it, or was
\* freed when the program ended.
Conserved ==
  typed = flooded \o freed
            \o SubSeq(pendingForFlood, moved + 1, Len(pendingForFlood))

\* Why it is so: the thread that is between lock() and unlock() holds the lock,
\* and moved only counts while the background thread does.
MailboxInv ==
  /\ line \in Nat /\ part \in Nat /\ left \in Nat
  /\ mpc # "read" => left > 0
  /\ typed \in Seq(Fragment) /\ flooded \in Seq(Fragment)
  /\ freed \in Seq(Fragment) /\ pendingForFlood \in Seq(Fragment)
  /\ moved \in 0..Len(pendingForFlood)
  /\ mpc \in {"push", "unlock"} <=> lock = "main"
  /\ bpc \in {"move", "clear", "unlock", "free"} <=> lock = "back"
  /\ bpc # "done" => freed = <<>>
  /\ bpc \notin {"move", "clear"} => moved = 0
  /\ bpc = "clear" => moved = Len(pendingForFlood)
  /\ Conserved

\* The queue of a neighbour and the packets made of it are a stream: nothing
\* is skipped, repeated or overtaken when a packet is full.
Queue == INSTANCE Stream WITH queued <- pushed
Streamed == Queue!Spec

Transmitted(f) == \E i \in DOMAIN sent : sent[i] = tlvData(f)

\* What the user types while there is a neighbour is sent, unless the user
\* quits first.
TypedIsSent == active ~> (quit \/ \A i \in DOMAIN typed : Transmitted(typed[i]))

\* A neighbour is told that we leave, unless what already waited for it fills
\* the last packet (only one is sent).
Farewell ==
  bpc \in {"quitlock", "free", "done"} /\ active =>
    \/ \E i \in DOMAIN sent : sent[i] = Goodbye
    \/ toSend # <<>> /\ used + tlvLen(toSend[1]) > PACKET_MAX

\* Why these hold: what was pushed is what left and what waits, and what was
\* moved to RR in this iteration is forgotten when the next begins.
QueueInv ==
  /\ IsFiniteSet(DOMAIN toFlood)
  /\ bpc = "receive" => fresh = {}
  /\ pushed = sent \o toSend
  /\ Farewell

\* Messages of more than 254 characters can be sent, says the report: every
\* fragment can be read by the others.  Checked to fail, as the length of a
\* Data of 254 characters does not fit its length byte.
LongMessages == \A i \in DOMAIN sent : Readable(sent[i])
=============================================================================
