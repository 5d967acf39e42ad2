----------------------------- MODULE PeerSafety -----------------------------
(***************************************************************************)
(* Proofs about Peer: what it remembers, whom it floods, and when it gives *)
(* a neighbour up.  Each property follows from an inductive invariant of   *)
(* Peer, and from the types proved in PeerProofs.                          *)
(***************************************************************************)
EXTENDS PeerProofs, FiniteSetTheorems

\* The steps that concern RR, the display, the clock or own messages.
LEMMA DataSteps ==
  ASSUME [Next]_vars
  PROVE  \/ manageDatas \/ manageAcks \/ CleanRR \/ PushPendingForFlood
         \/ \E a \in round, next \in Phases : SendPendingTLVs(a, next)
         \/ Sleep \/ Close \/ (\E id \in DataId : SendMessage(id))
         \/ UNCHANGED <<RR, now, pendingForFlood, shown, knows>>
<1>1. CASE Reception
  BY <1>1 DEF Reception, Deliver, ParseForever, NothingReceived, ReceptionDone,
     manageHellos, Table_HelloFrom, manageNeighbours, manageGoAways,
     EraseFromTVA, Managing, tables, main, history
<1>2. CASE FloodNeighbours \/ RefreshTVA \/ BeginSend \/ Bye
  BY <1>2 DEF FloodNeighbours, RefreshTVA, BeginSend, Bye, tables, main, history
<1>3. CASE Send \/ ByeSend
  BY <1>3 DEF Send, ByeSend, Phases
<1>4. CASE Quit \/ Finished \/ UNCHANGED vars
  BY <1>4 DEF Quit, Finished, vars, tables, main, history
<1> QED
  BY <1>1, <1>2, <1>3, <1>4 DEF Next, Background

\* A Data TLV of a, as the code handles it, changes RR and the display in one
\* of two ways, if any: a new entry, or one neighbour less to serve.
NewEntry(a, id) ==
  /\ id \notin DOMAIN RR /\ id.sender # myId
  /\ \E wait \in [FloodTargets(a) -> 0..1] :
       RR' = Put(RR, id, [toFlood |-> Fresh(FloodTargets(a), wait),
                          receptionTime |-> now])
  /\ DOMAIN shown' = DOMAIN shown \cup {id}
  /\ shown'[id].last = now
  /\ \A i \in DOMAIN shown \ {id} : shown'[i] = shown[i]
  /\ knows' = {k \in knows : k[2] # id} \cup {<<a, id>>}

Copy(a, id) ==
  /\ id \in DOMAIN RR /\ RR' = Served(id, a) /\ shown' = shown
  /\ knows' = knows \cup {<<a, id>>}

LEMMA DataFromCases ==
  ASSUME TypeOK, manageDatas
  PROVE  \E a \in Addr, id \in DataId :
           /\ a = Head(inbox).from
           /\ \/ UNCHANGED <<RR, shown, knows>>
              \/ a \in Symmetric /\ NewEntry(a, id)
              \/ Copy(a, id)
<1> DEFINE a  == Head(inbox).from
           id == Head(inbox).tlv.id
<1>1. a \in Addr /\ id \in DataId
  BY HeadType, TlvFields DEF manageDatas
<1>2. Table_DataFrom(a, id)
  BY DEF manageDatas
<1>3. a = Head(inbox).from
  OBVIOUS
<1> HIDE DEF a, id
<1>4. \/ UNCHANGED <<RR, shown, knows>>
      \/ a \in Symmetric /\ NewEntry(a, id)
      \/ Copy(a, id)
  <2>1. CASE id \in DOMAIN RR
    BY <1>2, <2>1 DEF Table_DataFrom, tables, history, Copy
  <2>2. CASE id \notin DOMAIN RR
    <3> DEFINE entry == [times |-> IF id \in DOMAIN shown
                                   THEN shown[id].times + 1 ELSE 1,
                         last |-> now]
    <3>1. entry.last = now
      OBVIOUS
    <3> HIDE DEF entry
    <3>2. shown' = Put(shown, id, entry) =>
            /\ DOMAIN shown' = DOMAIN shown \cup {id}
            /\ shown'[id].last = now
            /\ \A i \in DOMAIN shown \ {id} : shown'[i] = shown[i]
      BY <3>1 DEF Put
    <3>3. \/ UNCHANGED <<RR, shown, knows>>
          \/ /\ a \in Symmetric /\ id.sender # myId
             /\ \E wait \in [FloodTargets(a) -> 0..1] :
                  RR' = Put(RR, id, [toFlood |-> Fresh(FloodTargets(a), wait),
                                     receptionTime |-> now])
             /\ shown' = Put(shown, id, entry)
             /\ knows' = {k \in knows : k[2] # id} \cup {<<a, id>>}
      BY <1>2, <2>2 DEF Table_DataFrom, tables, history, entry
    <3> QED
      BY <2>2, <3>2, <3>3 DEF NewEntry
  <2> QED
    BY <2>1, <2>2
<1> QED
  BY <1>1, <1>3, <1>4

-----------------------------------------------------------------------------
(* The memory of what was displayed. *)

LEMMA MemoryNext ==
  ASSUME TypeOK, MemoryInv, [Next]_vars
  PROVE  MemoryInv'
<1>0. /\ now \in Nat /\ DATA_LIFETIME \in Nat
      /\ \A id \in DOMAIN shown : shown[id].last \in Nat
  BY ConstantsAssumption DEF TypeOK, IsMap
<1>1. CASE manageDatas
  <2>1. UNCHANGED <<now, pendingForFlood>>
    BY <1>1 DEF manageDatas, Managing, main
  <2>2. PICK a \in Addr, id \in DataId :
          \/ UNCHANGED <<RR, shown, knows>>
          \/ NewEntry(a, id)
          \/ Copy(a, id)
    BY <1>1, DataFromCases
  <2>3. CASE UNCHANGED <<RR, shown, knows>>
    BY <2>1, <2>3 DEF MemoryInv, Elapsed
  <2>4. CASE NewEntry(a, id)
    <3>1. /\ DOMAIN RR' = DOMAIN RR \cup {id} /\ RR'[id].receptionTime = now
          /\ \A i \in DOMAIN RR : RR'[i] = RR[i]
      BY <2>4 DEF NewEntry, Put
    <3> QED
      BY <1>0, <2>1, <2>4, <3>1 DEF NewEntry, MemoryInv, Elapsed
  <2>5. CASE Copy(a, id)
    <3>1. /\ DOMAIN RR' = DOMAIN RR
          /\ \A i \in DOMAIN RR : RR'[i].receptionTime = RR[i].receptionTime
      BY <2>5, ServedRR DEF TypeOK, Copy
    <3> QED
      BY <2>1, <2>5, <3>1 DEF Copy, MemoryInv, Elapsed
  <2> QED
    BY <2>2, <2>3, <2>4, <2>5
<1>2. CASE manageAcks
  <2>1. /\ UNCHANGED <<now, pendingForFlood, shown>>
        /\ \/ RR' = RR
           \/ \E a \in Addr, id \in DOMAIN RR : RR' = Served(id, a)
    BY <1>2, HeadType
    DEF manageAcks, Managing, main, Table_ACKFrom
  <2>2. /\ DOMAIN RR' = DOMAIN RR
        /\ \A i \in DOMAIN RR : RR'[i].receptionTime = RR[i].receptionTime
    BY <2>1, ServedRR DEF TypeOK
  <2> QED
    BY <2>1, <2>2 DEF MemoryInv, Elapsed
<1>3. CASE CleanRR
  <2>1. UNCHANGED <<now, pendingForFlood, shown>>
    BY <1>3 DEF CleanRR, main, history
  <2>2. /\ DOMAIN RR \ Expired \subseteq DOMAIN RR'
        /\ \A i \in DOMAIN RR \ Expired : RR'[i] = RR[i]
    BY <1>3 DEF CleanRR, Erase, Restrict
  <2> QED
    BY <2>1, <2>2 DEF MemoryInv, Elapsed, Expired
<1>4. CASE PushPendingForFlood
  <2>1. /\ UNCHANGED <<now, shown>> /\ pendingForFlood' \subseteq pendingForFlood
        /\ DOMAIN RR \subseteq DOMAIN RR'
        /\ \A i \in DOMAIN RR \ pendingForFlood : RR'[i] = RR[i]
    BY <1>4 DEF PushPendingForFlood
  <2> QED
    BY <2>1 DEF MemoryInv, Elapsed
<1>5. ASSUME NEW a \in round, NEW next \in Phases, SendPendingTLVs(a, next)
      PROVE  MemoryInv'
  <2>1. PICK wait \in [DueNow -> 0..Pow2[MAX_SENDS]] : RR' = FloodedRR(wait)
    BY <1>5 DEF SendPendingTLVs
  <2>2. UNCHANGED <<now, pendingForFlood, shown>>
    BY <1>5 DEF SendPendingTLVs, main, history
  <2>3. /\ DOMAIN RR' = DOMAIN RR
        /\ \A i \in DOMAIN RR : RR'[i].receptionTime = RR[i].receptionTime
    BY <2>1, FloodRR
  <2> QED
    BY <2>2, <2>3 DEF MemoryInv, Elapsed
<1>6. CASE Sleep
  <2>1. now' = now + 1 /\ UNCHANGED <<RR, shown, pendingForFlood>>
    BY <1>6 DEF Sleep, tables, main, history
  <2> QED
    BY <1>0, <2>1 DEF MemoryInv, Elapsed
<1>7. CASE Close
  <2>1. /\ UNCHANGED <<now, shown>> /\ pendingForFlood' \subseteq pendingForFlood
        /\ DOMAIN RR' = DOMAIN RR
    BY <1>7 DEF Close, history
  <2>2. \A i \in DOMAIN RR : RR'[i].receptionTime = RR[i].receptionTime
    <3>1. \A i \in DOMAIN RR : \E A \in SUBSET Addr : RR[i] \in DATAINFO(A)
      BY DEF TypeOK, IsRR
    <3> QED
      BY <1>7, <3>1 DEF Close, DATAINFO
  <2> QED
    BY <2>1, <2>2 DEF MemoryInv, Elapsed
<1>8. ASSUME NEW id \in DataId, SendMessage(id) PROVE MemoryInv'
  BY <1>8 DEF SendMessage, MemoryInv, tables, history, Elapsed
<1>9. CASE UNCHANGED <<RR, now, pendingForFlood, shown, knows>>
  BY <1>9 DEF MemoryInv, Elapsed
<1> QED
  BY <1>1, <1>2, <1>3, <1>4, <1>5, <1>6, <1>7, <1>8, <1>9, DataSteps

\* What has been displayed is dated by RR, or too old to be a copy.
THEOREM MemoryInvariant == Spec => []MemoryInv
<1>1. Init => MemoryInv
  BY DEF Init, MemoryInv, EmptyMap
<1>2. TypeOK /\ MemoryInv /\ [Next]_vars => MemoryInv'
  BY MemoryNext
<1> QED
  BY <1>1, <1>2, TypeCorrect, PTL DEF Spec

\* A displayed message stays in RR for its lifetime.
THEOREM Remembered == Spec => []RememberedWhileFresh
<1>1. MemoryInv => RememberedWhileFresh
  BY DEF MemoryInv, RememberedWhileFresh
<1> QED
  BY <1>1, MemoryInvariant, PTL

LEMMA DisplayStep ==
  ASSUME TypeOK, [Next]_vars, shown' # shown
  PROVE  \E a \in Symmetric, id \in DataId :
           /\ pc = "receive" /\ a = Head(inbox).from /\ NewEntry(a, id)
           /\ UNCHANGED <<now, pendingForFlood>>
<1>1. CASE manageDatas
  <2>1. pc = "receive" /\ UNCHANGED <<now, pendingForFlood>>
    BY <1>1 DEF manageDatas, Managing, main
  <2> QED
    BY <1>1, <2>1, DataFromCases DEF Copy
<1>2. ~(\E a \in round, next \in Phases : SendPendingTLVs(a, next))
  BY DEF SendPendingTLVs, history
<1> QED
  BY <1>1, <1>2, DataSteps
  DEF manageAcks, Table_ACKFrom, CleanRR, PushPendingForFlood, Sleep, Close,
      SendMessage, history

\* Two displays of a message are more than a data lifetime apart.
THEOREM NoDoubleDisplayHolds == Spec => NoDoubleDisplay
<1>1. ASSUME TypeOK, MemoryInv, [Next]_vars
      PROVE  [\A id \in DOMAIN shown : shown'[id] # shown[id] =>
                Elapsed(shown[id].last, DATA_LIFETIME)]_vars
  <2> SUFFICES ASSUME NEW id \in DOMAIN shown, shown'[id] # shown[id]
               PROVE  Elapsed(shown[id].last, DATA_LIFETIME)
    OBVIOUS
  <2>1. PICK a \in Symmetric, new \in DataId : NewEntry(a, new)
    BY <1>1, DisplayStep
  <2>2. id = new /\ new \notin DOMAIN RR
    BY <2>1 DEF NewEntry
  <2> QED
    BY <1>1, <2>2 DEF MemoryInv
<1> QED
  BY <1>1, TypeCorrect, MemoryInvariant, PTL DEF Spec, NoDoubleDisplay

-----------------------------------------------------------------------------
(* Flooding: whom, and for how long. *)

LEMMA NoEchoNext ==
  ASSUME TypeOK, NoEcho, [Next]_vars
  PROVE  NoEcho'
<1>1. CASE manageDatas
  <2>1. PICK a \in Addr, id \in DataId :
          UNCHANGED <<RR, shown, knows>> \/ NewEntry(a, id) \/ Copy(a, id)
    BY <1>1, DataFromCases
  <2>2. CASE UNCHANGED <<RR, shown, knows>>
    BY <2>2 DEF NoEcho
  <2>3. CASE NewEntry(a, id)
    <3>1. /\ DOMAIN RR' = DOMAIN RR \cup {id}
          /\ DOMAIN RR'[id].toFlood = FloodTargets(a)
          /\ \A i \in DOMAIN RR : RR'[i] = RR[i]
      BY <2>3 DEF NewEntry, Put, Fresh
    <3>2. a \notin FloodTargets(a)
      BY DEF FloodTargets
    <3>3. knows' = {k \in knows : k[2] # id} \cup {<<a, id>>}
      BY <2>3 DEF NewEntry
    <3> QED
      BY <3>1, <3>2, <3>3 DEF NoEcho
  <2>4. CASE Copy(a, id)
    <3>1. /\ DOMAIN RR' = DOMAIN RR
          /\ \A i \in DOMAIN RR \ {id} : RR'[i] = RR[i]
          /\ DOMAIN RR'[id].toFlood = DOMAIN RR[id].toFlood \ {a}
      BY <2>4, ServedRR DEF TypeOK, Copy
    <3>2. knows' = knows \cup {<<a, id>>}
      BY <2>4 DEF Copy
    <3> QED
      BY <3>1, <3>2 DEF NoEcho
  <2> QED
    BY <2>1, <2>2, <2>3, <2>4
<1>2. CASE manageAcks
  <2>1. PICK a, id : Table_ACKFrom(a, id)
    BY <1>2 DEF manageAcks
  <2>2. CASE id \in DOMAIN RR
    <3>1. /\ DOMAIN RR' = DOMAIN RR
          /\ \A i \in DOMAIN RR \ {id} : RR'[i] = RR[i]
          /\ DOMAIN RR'[id].toFlood = DOMAIN RR[id].toFlood \ {a}
      BY <2>1, <2>2, ServedRR DEF TypeOK, Table_ACKFrom
    <3>2. knows' = knows \cup {<<a, id>>}
      BY <2>1, <2>2 DEF Table_ACKFrom
    <3> QED
      BY <3>1, <3>2 DEF NoEcho
  <2>3. CASE id \notin DOMAIN RR
    BY <2>1, <2>3 DEF Table_ACKFrom, NoEcho
  <2> QED
    BY <2>2, <2>3
<1>3. CASE CleanRR
  <2>1. knows' = knows
    BY <1>3 DEF CleanRR, history
  <2>2. /\ DOMAIN RR' \subseteq DOMAIN RR
        /\ \A i \in DOMAIN RR' : RR'[i] = RR[i]
    BY <1>3 DEF CleanRR, Erase, Restrict
  <2> QED
    BY <2>1, <2>2 DEF NoEcho
<1>4. CASE PushPendingForFlood
  <2>1. CASE Active = {}
    BY <1>4, <2>1 DEF PushPendingForFlood, NoEcho
  <2>2. CASE Active # {}
    <3>1. /\ knows' = {k \in knows : k[2] \notin pendingForFlood}
          /\ DOMAIN RR' = DOMAIN RR \cup pendingForFlood
          /\ \A i \in DOMAIN RR \ pendingForFlood : RR'[i] = RR[i]
      BY <1>4, <2>2 DEF PushPendingForFlood
    <3> QED
      BY <3>1 DEF NoEcho
  <2> QED
    BY <2>1, <2>2
<1>5. ASSUME NEW a \in round, NEW next \in Phases, SendPendingTLVs(a, next)
      PROVE  NoEcho'
  <2>1. PICK wait \in [DueNow -> 0..Pow2[MAX_SENDS]] : RR' = FloodedRR(wait)
    BY <1>5 DEF SendPendingTLVs
  <2>2. knows' = knows
    BY <1>5 DEF SendPendingTLVs, history
  <2>3. /\ DOMAIN RR' = DOMAIN RR
        /\ \A i \in DOMAIN RR : DOMAIN RR'[i].toFlood = DOMAIN RR[i].toFlood
    BY <2>1, FloodRR
  <2> QED
    BY <2>2, <2>3 DEF NoEcho
<1>6. CASE Close
  <2>1. knows' = knows
    BY <1>6 DEF Close, history
  <2>2. CASE RR' = RR
    BY <2>1, <2>2 DEF NoEcho
  <2>3. CASE RR' = [id \in DOMAIN RR |-> [RR[id] EXCEPT !.toFlood = EmptyMap]]
    <3>1. \A i \in DOMAIN RR : \E A \in SUBSET Addr : RR[i] \in DATAINFO(A)
      BY DEF TypeOK, IsRR
    <3>2. DOMAIN EmptyMap = {}
      BY DEF EmptyMap
    <3>3. /\ DOMAIN RR' = DOMAIN RR
          /\ \A i \in DOMAIN RR : RR'[i].toFlood = EmptyMap
      BY <2>3, <3>1 DEF DATAINFO
    <3> QED
      BY <2>1, <3>2, <3>3 DEF NoEcho
  <2> QED
    BY <1>6, <2>2, <2>3 DEF Close
<1>7. CASE Sleep \/ (\E id \in DataId : SendMessage(id))
  BY <1>7 DEF Sleep, SendMessage, tables, history, NoEcho
<1>8. CASE UNCHANGED <<RR, now, pendingForFlood, shown, knows>>
  BY <1>8 DEF NoEcho
<1> QED
  BY <1>1, <1>2, <1>3, <1>4, <1>5, <1>6, <1>7, <1>8, DataSteps

\* Data is not flooded to a neighbour that has sent or acknowledged it.
THEOREM NoEchoHolds == Spec => []NoEcho
<1>1. Init => NoEcho
  BY DEF Init, NoEcho
<1>2. TypeOK /\ NoEcho /\ [Next]_vars => NoEcho'
  BY NoEchoNext
<1> QED
  BY <1>1, <1>2, TypeCorrect, PTL DEF Spec

\* The delays double, and a longer sequence of them lasts longer.
LEMMA Pow2Facts ==
  /\ \A n \in 0..MAX_SENDS : Pow2[n] \in Nat
  /\ Pow2[0] = 1
  /\ \A n \in 0..(MAX_SENDS - 1) :
       n + 1 \in 0..MAX_SENDS /\ Pow2[n + 1] = 2 * Pow2[n]
BY Pow2Assumption, ConstantsAssumption

LEMMA Pow2Step ==
  ASSUME NEW n \in 0..(MAX_SENDS - 1)
  PROVE  /\ Pow2[n] \in Nat /\ Pow2[n + 1] = 2 * Pow2[n]
         /\ Pow2[n + 1] \in Nat
<1>1. n \in 0..MAX_SENDS /\ n + 1 \in 0..MAX_SENDS
  BY ConstantsAssumption
<1> QED
  BY <1>1, Pow2Facts

\* BackoffInv, for the transmissions of one message to one neighbour.
Waited(start, at, time) ==
  /\ start <= time
  /\ at.sent > 0 => time >= start + Pow2[at.sent - 1] - 1
  /\ at.due >= start + Pow2[at.sent] - 1

LEMMA FreshWaited ==
  ASSUME now \in Nat, NEW A, NEW wait \in [A -> 0..1]
  PROVE  \A a \in A : Waited(now, Fresh(A, wait)[a], now)
BY Pow2Facts DEF Waited, Fresh

LEMMA AttemptFacts ==
  ASSUME TypeOK, NEW id \in DOMAIN RR
  PROVE  /\ RR[id].receptionTime \in Nat
         /\ DOMAIN RR[id].toFlood \subseteq Addr
         /\ \A a \in DOMAIN RR[id].toFlood : RR[id].toFlood[a] \in Attempt
<1>1. PICK A \in SUBSET Addr : RR[id] \in DATAINFO(A)
  BY DEF TypeOK, IsRR
<1> QED
  BY <1>1 DEF DATAINFO

LEMMA BackoffNext ==
  ASSUME TypeOK, BackoffInv, [Next]_vars
  PROVE  BackoffInv'
<1> DEFINE Inv(rr, time) == \A id \in DOMAIN rr : \A a \in DOMAIN rr[id].toFlood :
                              Waited(rr[id].receptionTime, rr[id].toFlood[a], time)
<1>0. (BackoffInv <=> Inv(RR, now)) /\ (BackoffInv' <=> Inv(RR', now'))
  BY DEF BackoffInv, Waited
<1> SUFFICES ASSUME Inv(RR, now) PROVE Inv(RR', now')
  BY <1>0
<1>n. now \in Nat
  BY DEF TypeOK
<1>1. CASE manageDatas
  <2>1. now' = now
    BY <1>1 DEF manageDatas, Managing
  <2>2. PICK a \in Addr, id \in DataId :
          UNCHANGED <<RR, shown, knows>> \/ NewEntry(a, id) \/ Copy(a, id)
    BY <1>1, DataFromCases
  <2>3. CASE UNCHANGED <<RR, shown, knows>>
    BY <2>1, <2>3
  <2>4. CASE NewEntry(a, id)
    <3>1. PICK wait \in [FloodTargets(a) -> 0..1] :
            RR' = Put(RR, id, [toFlood |-> Fresh(FloodTargets(a), wait),
                               receptionTime |-> now])
      BY <2>4 DEF NewEntry
    <3>2. /\ DOMAIN RR' = DOMAIN RR \cup {id}
          /\ RR'[id].toFlood = Fresh(FloodTargets(a), wait)
          /\ RR'[id].receptionTime = now
          /\ \A i \in DOMAIN RR \ {id} : RR'[i] = RR[i]
      BY <3>1 DEF Put
    <3>3. DOMAIN Fresh(FloodTargets(a), wait) = FloodTargets(a)
      BY DEF Fresh
    <3> QED
      BY <1>n, <2>1, <3>2, <3>3, FreshWaited
  <2>5. CASE Copy(a, id)
    <3>1. /\ DOMAIN RR' = DOMAIN RR
          /\ \A i \in DOMAIN RR : RR'[i].receptionTime = RR[i].receptionTime
          /\ \A i \in DOMAIN RR \ {id} : RR'[i] = RR[i]
          /\ DOMAIN RR'[id].toFlood = DOMAIN RR[id].toFlood \ {a}
          /\ \A b \in DOMAIN RR[id].toFlood \ {a} :
               RR'[id].toFlood[b] = RR[id].toFlood[b]
      BY <2>5, ServedRR DEF TypeOK, Copy
    <3> QED
      BY <2>1, <3>1
  <2> QED
    BY <2>2, <2>3, <2>4, <2>5
<1>2. CASE manageAcks
  <2>1. PICK a, id : Table_ACKFrom(a, id)
    BY <1>2 DEF manageAcks
  <2>2. now' = now
    BY <1>2 DEF manageAcks, Managing
  <2>3. CASE id \in DOMAIN RR
    <3>1. /\ DOMAIN RR' = DOMAIN RR
          /\ \A i \in DOMAIN RR : RR'[i].receptionTime = RR[i].receptionTime
          /\ \A i \in DOMAIN RR \ {id} : RR'[i] = RR[i]
          /\ DOMAIN RR'[id].toFlood = DOMAIN RR[id].toFlood \ {a}
          /\ \A b \in DOMAIN RR[id].toFlood \ {a} :
               RR'[id].toFlood[b] = RR[id].toFlood[b]
      BY <2>1, <2>3, ServedRR DEF TypeOK, Table_ACKFrom
    <3> QED
      BY <2>2, <3>1
  <2>4. CASE id \notin DOMAIN RR
    BY <2>1, <2>2, <2>4 DEF Table_ACKFrom
  <2> QED
    BY <2>3, <2>4
<1>3. CASE CleanRR
  <2>1. now' = now
    BY <1>3 DEF CleanRR
  <2>2. /\ DOMAIN RR' \subseteq DOMAIN RR
        /\ \A i \in DOMAIN RR' : RR'[i] = RR[i]
    BY <1>3 DEF CleanRR, Erase, Restrict
  <2> QED
    BY <2>1, <2>2
<1>4. CASE PushPendingForFlood
  <2>1. now' = now
    BY <1>4 DEF PushPendingForFlood
  <2>2. CASE Active = {}
    BY <1>4, <2>1, <2>2 DEF PushPendingForFlood
  <2>3. CASE Active # {}
    <3>1. PICK wait \in [pendingForFlood -> [Active -> 0..1]] :
            RR' = [id \in DOMAIN RR \cup pendingForFlood |->
                     IF id \in pendingForFlood
                     THEN [toFlood |-> Fresh(Active, wait[id]),
                           receptionTime |-> now]
                     ELSE RR[id]]
      BY <1>4, <2>3 DEF PushPendingForFlood
    <3>2. ASSUME NEW id \in DOMAIN RR', NEW a \in DOMAIN RR'[id].toFlood
          PROVE  Waited(RR'[id].receptionTime, RR'[id].toFlood[a], now)
      <4>1. CASE id \in pendingForFlood
        <5>1. /\ RR'[id].toFlood = Fresh(Active, wait[id])
              /\ RR'[id].receptionTime = now
          BY <3>1, <4>1
        <5>2. a \in Active /\ wait[id] \in [Active -> 0..1]
          BY <3>1, <4>1, <5>1, <3>2 DEF Fresh
        <5> QED
          BY <1>n, <5>1, <5>2, FreshWaited
      <4>2. CASE id \notin pendingForFlood
        BY <3>1, <3>2, <4>2
      <4> QED
        BY <4>1, <4>2
    <3> QED
      BY <2>1, <3>2
  <2> QED
    BY <2>2, <2>3
<1>5. ASSUME NEW b \in round, NEW next \in Phases, SendPendingTLVs(b, next)
      PROVE  Inv(RR', now')
  <2>1. PICK wait \in [DueNow -> 0..Pow2[MAX_SENDS]] :
          /\ \A p \in DueNow : wait[p] \in Backoff(Sent(p))
          /\ RR' = FloodedRR(wait)
    BY <1>5 DEF SendPendingTLVs
  <2>2. now' = now
    BY <1>5 DEF SendPendingTLVs
  <2>3. ASSUME NEW id \in DOMAIN RR', NEW a \in DOMAIN RR'[id].toFlood
        PROVE  Waited(RR'[id].receptionTime, RR'[id].toFlood[a], now)
    <3> DEFINE at    == RR[id].toFlood[a]
               start == RR[id].receptionTime
    <3>1. /\ id \in DOMAIN RR /\ a \in DOMAIN RR[id].toFlood
          /\ RR'[id].receptionTime = start
          /\ RR'[id].toFlood[a] = IF <<id, a>> \in DueNow
                                  THEN Attempted(<<id, a>>, wait[<<id, a>>])
                                  ELSE at
      BY <2>1, <2>3, FloodRR
    <3>2. Waited(start, at, now)
      BY <3>1
    <3>3. start \in Nat /\ at \in Attempt
      BY <3>1, AttemptFacts
    <3>4. CASE <<id, a>> \in DueNow
      <4> DEFINE w == wait[<<id, a>>]
      <4>1. ~(at.sent >= MAX_SENDS) /\ now >= at.due
        BY <3>4 DEF DueNow, GivenUp, Sent, Due
      <4>2. w \in Pow2[at.sent] .. Pow2[at.sent + 1]
        BY <2>1, <3>4 DEF Backoff, Sent
      <4>3. at.sent \in 0..(MAX_SENDS - 1) /\ at.due \in Nat
        BY <3>3, <4>1, ConstantsAssumption DEF Attempt
      <4>4. /\ Pow2[at.sent] \in Nat /\ Pow2[at.sent + 1] = 2 * Pow2[at.sent]
            /\ Pow2[at.sent + 1] \in Nat
        BY <4>3, Pow2Step
      <4>5. RR'[id].toFlood[a] = [sent |-> at.sent + 1, due |-> now + w]
        BY <3>1, <3>4 DEF Attempted, Sent
      <4> HIDE DEF at, start, w
      <4>6. start + Pow2[at.sent] - 1 <= at.due /\ start <= now
        BY <3>2 DEF Waited
      <4>7. /\ now >= start + Pow2[at.sent] - 1
            /\ now + w >= start + Pow2[at.sent + 1] - 1
        BY <1>n, <3>3, <4>1, <4>2, <4>3, <4>4, <4>6
      <4>8. Waited(start, [sent |-> at.sent + 1, due |-> now + w], now)
        <5> DEFINE again == [sent |-> at.sent + 1, due |-> now + w]
        <5>1. /\ again.sent = at.sent + 1 /\ again.due = now + w
              /\ again.sent - 1 = at.sent
          BY <4>3
        <5> HIDE DEF again
        <5>2. Waited(start, again, now)
          BY <4>6, <4>7, <5>1 DEF Waited
        <5> QED
          BY <5>2 DEF again
      <4> QED
        BY <3>1, <4>5, <4>8
    <3>5. CASE <<id, a>> \notin DueNow
      BY <3>1, <3>2, <3>5
    <3> QED
      BY <3>4, <3>5
  <2> QED
    BY <2>2, <2>3
<1>6. CASE Close
  <2>1. now' = now
    BY <1>6 DEF Close
  <2>2. CASE RR' = RR
    BY <2>1, <2>2
  <2>3. CASE RR' = [id \in DOMAIN RR |-> [RR[id] EXCEPT !.toFlood = EmptyMap]]
    <3>1. \A i \in DOMAIN RR : \E A \in SUBSET Addr : RR[i] \in DATAINFO(A)
      BY DEF TypeOK, IsRR
    <3>2. DOMAIN EmptyMap = {}
      BY DEF EmptyMap
    <3>3. /\ DOMAIN RR' = DOMAIN RR
          /\ \A i \in DOMAIN RR : RR'[i].toFlood = EmptyMap
      BY <2>3, <3>1 DEF DATAINFO
    <3> QED
      BY <3>2, <3>3
  <2> QED
    BY <1>6, <2>2, <2>3 DEF Close
<1>7. CASE Sleep
  <2>1. now' = now + 1 /\ RR' = RR
    BY <1>7 DEF Sleep, tables
  <2>2. ASSUME NEW id \in DOMAIN RR, NEW a \in DOMAIN RR[id].toFlood
        PROVE  Waited(RR[id].receptionTime, RR[id].toFlood[a], now + 1)
    <3>1. RR[id].receptionTime \in Nat /\ RR[id].toFlood[a].sent \in 0..MAX_SENDS
      BY AttemptFacts DEF Attempt
    <3>2. RR[id].toFlood[a].sent > 0 => Pow2[RR[id].toFlood[a].sent - 1] \in Nat
      BY <3>1, Pow2Facts, ConstantsAssumption
    <3>3. Waited(RR[id].receptionTime, RR[id].toFlood[a], now)
      OBVIOUS
    <3> QED
      BY <1>n, <3>1, <3>2, <3>3 DEF Waited
  <2> QED
    BY <2>1, <2>2
<1>8. CASE \E id \in DataId : SendMessage(id)
  BY <1>8 DEF SendMessage, tables
<1>9. CASE UNCHANGED <<RR, now, pendingForFlood, shown, knows>>
  BY <1>9
<1> QED
  BY <1>1, <1>2, <1>3, <1>4, <1>5, <1>6, <1>7, <1>8, <1>9, DataSteps

\* The n-th transmission comes at least 2^(n-1) - 1 seconds after reception.
THEOREM BackoffInvariant == Spec => []BackoffInv
<1>1. Init => BackoffInv
  BY DEF Init, BackoffInv, EmptyMap
<1>2. TypeOK /\ BackoffInv /\ [Next]_vars => BackoffInv'
  BY BackoffNext
<1> QED
  BY <1>1, <1>2, TypeCorrect, PTL DEF Spec

\* A neighbour is given up only after the first MAX_SENDS - 1 delays.
THEOREM PatienceHolds == Spec => Patience
<1>1. ASSUME TypeOK, BackoffInv, [Next]_vars
      PROVE  [(pc = "send" \/ pc = "byesend") =>
                \A a \in Active \ Active' :
                  \E id \in DOMAIN RR :
                    /\ a \in DOMAIN RR[id].toFlood
                    /\ now - RR[id].receptionTime >= Pow2[MAX_SENDS - 1] - 1]_vars
  <2> SUFFICES ASSUME pc = "send" \/ pc = "byesend", NEW a \in Active \ Active'
               PROVE  \E id \in DOMAIN RR :
                        /\ a \in DOMAIN RR[id].toFlood
                        /\ now - RR[id].receptionTime >= Pow2[MAX_SENDS - 1] - 1
    OBVIOUS
  <2>1. TVA' = Erase(TVA, Slow)
    <3>1. TVA' # TVA
      BY DEF Active
    <3> QED
      BY <1>1, <3>1
      DEF Next, Background, Reception, Deliver, ParseForever, NothingReceived,
          ReceptionDone, manageHellos, manageNeighbours, manageDatas, manageAcks,
          manageGoAways, Managing, FloodNeighbours, CleanRR, RefreshTVA, PushPendingForFlood,
          BeginSend, Send, ByeSend, SendPendingTLVs, Sleep, Bye, Close,
          SendMessage, Quit, Finished, vars, tables
  <2>2. a \in Slow
    BY <2>1 DEF Active, Erase, Restrict
  <2>3. PICK id \in DOMAIN RR :
          a \in DOMAIN RR[id].toFlood /\ RR[id].toFlood[a].sent >= MAX_SENDS
    BY <2>2 DEF Slow, GivenUp, ToServe, Sent
  <2>4. /\ RR[id].toFlood[a].sent = MAX_SENDS /\ RR[id].receptionTime \in Nat
        /\ now \in Nat /\ MAX_SENDS > 0
    BY <1>1, <2>3, AttemptFacts, ConstantsAssumption DEF Attempt, TypeOK
  <2>5. now >= RR[id].receptionTime + Pow2[MAX_SENDS - 1] - 1
    BY <1>1, <2>3, <2>4 DEF BackoffInv
  <2>6. Pow2[MAX_SENDS - 1] \in Nat
    BY Pow2Facts, ConstantsAssumption
  <2> QED
    BY <2>3, <2>4, <2>5, <2>6
<1> QED
  BY <1>1, TypeCorrect, BackoffInvariant, PTL DEF Spec, Patience
-----------------------------------------------------------------------------
(* Neighbours: who is in TVA, and who is symmetric. *)

\* HelloInv survives when TVA only loses neighbours, and the phase does not
\* make it promise more.
LEMMA HelloShrink ==
  ASSUME HelloInv, NEW A, TVA' = Erase(TVA, A), UNCHANGED <<now, helloAt, longAt>>,
         pc' \in {"pending", "checksend", "send", "sleep"} =>
           pc \in {"pending", "checksend", "send", "sleep"},
         pc' = "receive" => pc = "receive"
  PROVE  HelloInv'
<1>1. /\ DOMAIN TVA' \subseteq DOMAIN TVA
      /\ \A a \in DOMAIN TVA' : TVA'[a] = TVA[a]
  BY DEF Erase, Restrict
<1> QED
  BY <1>1 DEF HelloInv, Active, Elapsed

LEMMA HelloSame ==
  ASSUME HelloInv, TVA' = TVA, UNCHANGED <<now, helloAt, longAt>>,
         pc' \in {"pending", "checksend", "send", "sleep"} =>
           pc \in {"pending", "checksend", "send", "sleep"},
         pc' = "receive" => pc = "receive"
  PROVE  HelloInv'
BY DEF HelloInv, Active, Elapsed

LEMMA HelloNext ==
  ASSUME TypeOK, HelloInv, [Next]_vars
  PROVE  HelloInv'
<1>0. /\ now \in Nat /\ MINUTE \in Nat
      /\ \A a \in Active : /\ TVA[a].lastHelloDate \in Nat
                           /\ TVA[a].lastHello16Date \in Nat
                           /\ TVA[a] \in INFOPAIR
      /\ \A a \in DOMAIN longAt : longAt[a] \in Nat
  BY ConstantsAssumption DEF TypeOK, IsMap, INFOPAIR, Active
<1>1. CASE manageHellos
  <2> DEFINE a == Head(inbox).from
             h == Head(inbox).tlv
  <2>1. pc = "receive" /\ UNCHANGED <<pc, now>> /\ Table_HelloFrom(a, h)
    BY <1>1 DEF manageHellos, Managing
  <2>t. a \in Addr
    BY <1>1, HeadType DEF manageHellos
  <2> HIDE DEF a, h
  <2>2. CASE h.src = myId
    BY <2>1, <2>2, HelloSame DEF Table_HelloFrom, tables, history
  <2>3. CASE h.src # myId
    <3>1. /\ TVA' = Put(TVA, a, AfterHello(a, h))
          /\ helloAt' = Put(helloAt, a, now)
          /\ longAt' = IF ToMe(h) THEN Put(longAt, a, now) ELSE longAt
      BY <2>1, <2>3 DEF Table_HelloFrom
    <3>2. /\ DOMAIN TVA' = Active \cup {a} /\ TVA'[a] = AfterHello(a, h)
          /\ \A b \in Active \ {a} : TVA'[b] = TVA[b]
          /\ DOMAIN helloAt' = DOMAIN helloAt \cup {a} /\ helloAt'[a] = now
          /\ \A b \in DOMAIN helloAt \ {a} : helloAt'[b] = helloAt[b]
          /\ DOMAIN longAt \subseteq DOMAIN longAt'
          /\ \A b \in DOMAIN longAt \ {a} : longAt'[b] = longAt[b]
          /\ IF ToMe(h) THEN a \in DOMAIN longAt' /\ longAt'[a] = now
                        ELSE longAt' = longAt
      BY <3>1 DEF Put, Active
    <3>3. CASE a \notin Active
      <4>1. AfterHello(a, h) = [id |-> h.src, lastHelloDate |-> now,
                                lastHello16Date |-> 0, symmetrical |-> ToMe(h)]
        BY <3>3 DEF AfterHello
      <4>2. /\ AfterHello(a, h).lastHelloDate = now
            /\ AfterHello(a, h).lastHello16Date = 0
            /\ AfterHello(a, h).symmetrical = ToMe(h)
        BY <4>1
      <4> QED
        BY <1>0, <2>1, <3>2, <3>3, <4>2 DEF HelloInv, Active, Elapsed
    <3>4. CASE a \in Active
      <4>1. /\ AfterHello(a, h).lastHelloDate = now
            /\ AfterHello(a, h).lastHello16Date =
                 IF ~TVA[a].symmetrical /\ ToMe(h) THEN now
                 ELSE TVA[a].lastHello16Date
            /\ AfterHello(a, h).symmetrical = (TVA[a].symmetrical \/ ToMe(h))
        BY <1>0, <3>4 DEF AfterHello, INFOPAIR
      <4>2. ASSUME NEW b \in Active
            PROVE  /\ b \in DOMAIN helloAt' /\ helloAt'[b] = TVA'[b].lastHelloDate
                   /\ TVA'[b].lastHello16Date <= now
                   /\ TVA'[b].symmetrical =>
                        /\ b \in DOMAIN longAt'
                        /\ longAt'[b] >= TVA'[b].lastHello16Date
                        /\ ~(now - longAt'[b] > 2 * MINUTE + 1)
        <5>1. /\ b \in DOMAIN helloAt /\ helloAt[b] = TVA[b].lastHelloDate
              /\ TVA[b].lastHello16Date <= now
              /\ TVA[b].symmetrical =>
                   /\ b \in DOMAIN longAt
                   /\ longAt[b] >= TVA[b].lastHello16Date
                   /\ ~(now - longAt[b] > 2 * MINUTE + 1)
          BY <2>1 DEF HelloInv, Elapsed
        <5>2. CASE b # a
          BY <3>2, <5>1, <5>2
        <5>3. CASE b = a /\ ToMe(h)
          <6>1. /\ helloAt'[b] = now /\ TVA'[b].lastHelloDate = now
                /\ b \in DOMAIN helloAt' /\ b \in DOMAIN longAt'
                /\ longAt'[b] = now
            BY <3>2, <4>1, <5>3
          <6>2. TVA'[b].lastHello16Date = now
                  \/ TVA'[b].lastHello16Date = TVA[b].lastHello16Date
            BY <3>2, <4>1, <5>3
          <6> QED
            BY <1>0, <5>1, <6>1, <6>2
        <5>4. CASE b = a /\ ~ToMe(h)
          <6>1. /\ helloAt'[b] = now /\ TVA'[b].lastHelloDate = now
                /\ b \in DOMAIN helloAt' /\ longAt' = longAt
                /\ TVA'[b].lastHello16Date = TVA[b].lastHello16Date
                /\ TVA'[b].symmetrical => TVA[b].symmetrical
            BY <3>2, <4>1, <5>4, <3>4
          <6> QED
            BY <5>1, <6>1
        <5> QED
          BY <5>2, <5>3, <5>4
      <4>3. DOMAIN TVA' = Active
        BY <3>2, <3>4
      <4> QED
        BY <2>1, <4>2, <4>3 DEF HelloInv, Active, Elapsed
    <3> QED
      BY <3>3, <3>4
  <2> QED
    BY <2>2, <2>3
<1>2. CASE manageGoAways
  <2>1. \E A : TVA' = Erase(TVA, A)
    BY <1>2 DEF manageGoAways, EraseFromTVA
  <2> QED
    BY <1>2, <2>1, HelloShrink DEF manageGoAways, Managing, history
<1>3. CASE Reception /\ ~manageHellos /\ ~manageGoAways
  <2>1. UNCHANGED <<TVA, now, helloAt, longAt>>
    BY <1>3 DEF Reception, Deliver, ParseForever, NothingReceived, ReceptionDone,
       manageNeighbours, manageDatas, Table_DataFrom, manageAcks, Table_ACKFrom,
       Managing, tables, history
  <2>2. pc = "receive" /\ pc' \in {"receive", "neighbours", "parsing"}
    BY <1>3 DEF Reception, Deliver, ParseForever, NothingReceived, ReceptionDone,
       manageNeighbours, manageDatas, manageAcks, Managing
  <2> QED
    BY <2>1, <2>2, HelloSame
<1>4. CASE FloodNeighbours \/ CleanRR
  BY <1>4, HelloSame DEF FloodNeighbours, CleanRR, history
<1>5. CASE RefreshTVA
  <2>1. pc' = "pending" /\ TVA' = Refreshed /\ UNCHANGED <<now, helloAt, longAt>>
    BY <1>5 DEF RefreshTVA, history
  <2>2. /\ DOMAIN TVA' = Active \ Inactive
        /\ \A a \in DOMAIN TVA' :
             /\ TVA'[a].lastHelloDate = TVA[a].lastHelloDate
             /\ TVA'[a].lastHello16Date = TVA[a].lastHello16Date
             /\ TVA'[a].symmetrical => TVA[a].symmetrical /\ a \notin LongExpired
    BY <1>0, <2>1 DEF Refreshed, INFOPAIR
  <2> QED
    BY <2>1, <2>2 DEF HelloInv, Active, Inactive, LongExpired, Elapsed
<1>6. CASE PushPendingForFlood \/ BeginSend
  <2>1. /\ UNCHANGED <<TVA, now, helloAt, longAt>> /\ pc' # "receive"
        /\ pc \in {"pending", "checksend", "send", "sleep"}
    BY <1>6 DEF PushPendingForFlood, BeginSend, tables, history
  <2> QED
    BY <2>1, HelloSame
<1>7. CASE Send \/ ByeSend
  <2>1. /\ \E A : TVA' = Erase(TVA, A)
        /\ UNCHANGED <<now, helloAt, longAt>>
    BY <1>7 DEF Send, ByeSend, SendPendingTLVs, history
  <2>2. /\ pc' # "receive"
        /\ pc' \in {"pending", "checksend", "send", "sleep"} => pc = "send"
    BY <1>7 DEF Send, ByeSend, SendPendingTLVs, ContinueLoop
  <2> QED
    BY <2>1, <2>2, HelloShrink
<1>8. CASE Sleep
  <2>1. /\ pc = "sleep" /\ pc' \in {"receive", "bye"} /\ now' = now + 1
        /\ UNCHANGED <<TVA, helloAt, longAt>>
    BY <1>8 DEF Sleep, tables, history
  <2>2. ASSUME NEW a \in Active
        PROVE  /\ a \in DOMAIN helloAt /\ helloAt[a] = TVA[a].lastHelloDate
               /\ TVA[a].lastHello16Date <= now'
               /\ TVA[a].symmetrical =>
                    /\ a \in DOMAIN longAt
                    /\ longAt[a] >= TVA[a].lastHello16Date
                    /\ ~(now' - longAt[a] > 2 * MINUTE + 1)
    <3>1. /\ a \in DOMAIN helloAt /\ helloAt[a] = TVA[a].lastHelloDate
          /\ TVA[a].lastHello16Date <= now
          /\ TVA[a].symmetrical =>
               /\ a \in DOMAIN longAt
               /\ longAt[a] >= TVA[a].lastHello16Date
               /\ ~(now - TVA[a].lastHello16Date > 2 * MINUTE)
      BY <2>1 DEF HelloInv, Elapsed
    <3>2. /\ now \in Nat /\ now' = now + 1 /\ MINUTE \in Nat /\ TVA[a].lastHello16Date \in Nat
          /\ a \in DOMAIN longAt => longAt[a] \in Nat
      BY <1>0, <2>1
    <3>3. TVA[a].lastHello16Date <= now'
      BY <3>1, <3>2
    <3>4. ASSUME TVA[a].symmetrical
          PROVE  ~(now' - longAt[a] > 2 * MINUTE + 1)
      BY <3>1, <3>2, <3>4
    <3> QED
      BY <3>1, <3>3, <3>4
  <2>3. /\ Active' = Active /\ TVA' = TVA /\ helloAt' = helloAt
        /\ longAt' = longAt /\ now' = now + 1
        /\ pc' \notin {"pending", "checksend", "send", "sleep"}
    BY <2>1 DEF Active
  <2> SUFFICES ASSUME NEW a \in Active
               PROVE  /\ a \in DOMAIN helloAt /\ helloAt[a] = TVA[a].lastHelloDate
                      /\ TVA[a].lastHello16Date <= now'
                      /\ TVA[a].symmetrical =>
                           /\ a \in DOMAIN longAt
                           /\ longAt[a] >= TVA[a].lastHello16Date
                           /\ ~(now' - longAt[a] > 2 * MINUTE + 1)
    BY <2>3 DEF HelloInv, Elapsed
  <2> QED
    BY <2>2
<1>9. CASE Bye \/ Close
  <2>1. /\ TVA' = TVA \/ TVA' = EmptyMap
        /\ UNCHANGED <<now, helloAt, longAt>>
        /\ pc' \in {"closing", "byesend", "done", "crashed"}
    BY <1>9 DEF Bye, Close, history
  <2> QED
    BY <2>1 DEF HelloInv, Active, EmptyMap
<1>10. CASE (\E id \in DataId : SendMessage(id)) \/ Quit \/ Finished
            \/ UNCHANGED vars
  BY <1>10, HelloSame DEF SendMessage, Quit, Finished, vars, tables, history
<1> QED
  BY <1>1, <1>2, <1>3, <1>4, <1>5, <1>6, <1>7, <1>8, <1>9, <1>10
  DEF Next, Background

\* TVA is never ahead of the hellos received, nor too far behind.
THEOREM HelloInvariant == Spec => []HelloInv
<1>1. Init => HelloInv
  BY DEF Init, HelloInv, Active, EmptyMap
<1>2. TypeOK /\ HelloInv /\ [Next]_vars => HelloInv'
  BY HelloNext
<1> QED
  BY <1>1, <1>2, TypeCorrect, PTL DEF Spec

\* After the refresh, no neighbour has been silent for two minutes, and none
\* is symmetric without having named us in that time.
THEOREM NeighboursFreshHolds == Spec => []NeighboursFresh
<1>1. TypeOK /\ HelloInv => NeighboursFresh
  <2> SUFFICES ASSUME TypeOK, HelloInv,
                      pc \in {"pending", "checksend", "send", "sleep"},
                      NEW a \in Active
               PROVE  /\ a \in DOMAIN helloAt /\ ~Elapsed(helloAt[a], 2 * MINUTE)
                      /\ TVA[a].symmetrical =>
                           a \in DOMAIN longAt /\ ~Elapsed(longAt[a], 2 * MINUTE)
    BY DEF NeighboursFresh
  <2>1. /\ now \in Nat /\ MINUTE \in Nat /\ TVA[a].lastHello16Date \in Nat
        /\ \A b \in DOMAIN longAt : longAt[b] \in Nat
    BY ConstantsAssumption DEF TypeOK, IsMap, INFOPAIR, Active
  <2> QED
    BY <2>1 DEF HelloInv, Elapsed
<1> QED
  BY <1>1, TypeCorrect, HelloInvariant, PTL

\* What is displayed comes from a peer that has recently named us.
THEOREM DisplayFromSymmetricHolds == Spec => DisplayFromSymmetric
<1>1. ASSUME TypeOK, HelloInv, [Next]_vars
      PROVE  [shown' # shown =>
                LET a == Head(inbox).from IN
                  /\ a \in DOMAIN longAt
                  /\ ~Elapsed(longAt[a], 2 * MINUTE + 1)]_vars
  <2> SUFFICES ASSUME shown' # shown
               PROVE  /\ Head(inbox).from \in DOMAIN longAt
                      /\ ~Elapsed(longAt[Head(inbox).from], 2 * MINUTE + 1)
    OBVIOUS
  <2>1. PICK a \in Symmetric : pc = "receive" /\ a = Head(inbox).from
    BY <1>1, DisplayStep
  <2> QED
    BY <1>1, <2>1 DEF HelloInv, Symmetric
<1> QED
  BY <1>1, TypeCorrect, HelloInvariant, PTL DEF Spec, DisplayFromSymmetric

-----------------------------------------------------------------------------
(* The bound on RR. *)

\* The ids of T that are not ours.
Foreign(T) == {id \in T : id.sender # myId}

\* The bound holds of whatever set of ids adds nothing foreign to RR.
LEMMA NothingForeign ==
  ASSUME BoundInv, NEW T, IsFiniteSet(T), Foreign(T) \subseteq Foreign(DOMAIN RR)
  PROVE  Cardinality(Foreign(T)) <= MAX_RR + 1
<1> DEFINE F == Foreign(DOMAIN RR)
           G == Foreign(T)
<1>1. IsFiniteSet(F)
  BY FS_Subset DEF BoundInv, Foreign
<1>2. Cardinality(F) <= MAX_RR + 1
  BY DEF BoundInv, RRBound, Foreign
<1>3. G \in SUBSET F
  OBVIOUS
<1> HIDE DEF F, G
<1>4. IsFiniteSet(G) /\ Cardinality(G) <= Cardinality(F)
  BY <1>1, <1>3, FS_Subset
<1>5. Cardinality(F) \in Nat /\ Cardinality(G) \in Nat /\ MAX_RR \in Nat
  BY <1>1, <1>4, FS_CardinalityType, ConstantsAssumption
<1>6. Cardinality(G) <= MAX_RR + 1
  BY <1>2, <1>4, <1>5
<1> QED
  BY <1>6 DEF G

\* A Data adds one id at most, and only while RR is not full.
LEMMA DataAddsOne ==
  ASSUME TypeOK, manageDatas
  PROVE  \/ DOMAIN RR' = DOMAIN RR
         \/ ~Full /\ \E id \in DataId : DOMAIN RR' = DOMAIN RR \cup {id}
<1>1. PICK a \in Addr, id \in DataId : Table_DataFrom(a, id)
  BY HeadType, TlvFields DEF manageDatas
<1>2. CASE id \in DOMAIN RR
  <2>1. RR' = RR \/ RR' = Served(id, a)
    BY <1>1, <1>2 DEF Table_DataFrom, tables
  <2> QED
    BY <1>2, <2>1, ServedRR DEF TypeOK
<1>3. CASE id \notin DOMAIN RR
  <2>1. \/ RR' = RR
        \/ ~Full /\ \E entry : RR' = Put(RR, id, entry)
    BY <1>1, <1>3 DEF Table_DataFrom, tables
  <2> QED
    BY <2>1 DEF Put
<1> QED
  BY <1>2, <1>3

\* One id more, when RR is not full, is within the bound.
LEMMA OneMore ==
  ASSUME BoundInv, ~Full, NEW id
  PROVE  /\ IsFiniteSet(DOMAIN RR \cup {id})
         /\ Cardinality(Foreign(DOMAIN RR \cup {id})) <= MAX_RR + 1
<1> DEFINE T == DOMAIN RR \cup {id}
           F == Foreign(T)
<1>1. IsFiniteSet(DOMAIN RR) /\ Cardinality(DOMAIN RR) \in Nat /\ MAX_RR \in Nat
  BY FS_CardinalityType, ConstantsAssumption DEF BoundInv
<1>2. Cardinality(DOMAIN RR) <= MAX_RR
  BY <1>1 DEF Full
<1>3. IsFiniteSet(T) /\ Cardinality(T) <= MAX_RR + 1 /\ Cardinality(T) \in Nat
  BY <1>1, <1>2, FS_AddElement
<1>4. F \in SUBSET T
  BY DEF Foreign
<1> HIDE DEF T, F
<1>5. IsFiniteSet(F) /\ Cardinality(F) <= Cardinality(T)
  BY <1>3, <1>4, FS_Subset
<1>6. Cardinality(F) \in Nat
  BY <1>5, FS_CardinalityType
<1>7. Cardinality(F) <= MAX_RR + 1
  BY <1>1, <1>3, <1>5, <1>6
<1> QED
  BY <1>3, <1>7 DEF F, T

\* Every step keeps the bound.
LEMMA BoundNext ==
  ASSUME TypeOK, BoundInv, [Next]_vars
  PROVE  BoundInv'
<1>1. IsFiniteSet(DOMAIN RR) /\ IsFiniteSet(pendingForFlood)
  BY DEF BoundInv
<1>2. SUFFICES /\ IsFiniteSet(DOMAIN RR')
               /\ IsFiniteSet(pendingForFlood')
               /\ \A id \in pendingForFlood' : id.sender = myId
               /\ Cardinality(Foreign(DOMAIN RR')) <= MAX_RR + 1
  BY DEF BoundInv, RRBound, Foreign
<1>3. /\ IsFiniteSet(pendingForFlood')
      /\ \A id \in pendingForFlood' : id.sender = myId
  <2>1. \/ pendingForFlood' \subseteq pendingForFlood
        \/ \E id \in DataId : SendMessage(id)
    BY DataSteps DEF manageDatas, manageAcks, Managing, main, CleanRR,
       PushPendingForFlood, SendPendingTLVs, Sleep, Close
  <2>2. ASSUME NEW id \in DataId, SendMessage(id)
        PROVE  /\ pendingForFlood' = pendingForFlood \cup {id}
               /\ id.sender = myId
    BY <2>2 DEF SendMessage
  <2>3. CASE pendingForFlood' \subseteq pendingForFlood
    BY <1>1, <2>3, FS_Subset DEF BoundInv
  <2>4. CASE \E id \in DataId : SendMessage(id)
    BY <1>1, <2>2, <2>4, FS_AddElement DEF BoundInv
  <2> QED
    BY <2>1, <2>3, <2>4
<1>4. /\ IsFiniteSet(DOMAIN RR')
      /\ Cardinality(Foreign(DOMAIN RR')) <= MAX_RR + 1
  <2>1. CASE DOMAIN RR' \subseteq DOMAIN RR
    <3>1. IsFiniteSet(DOMAIN RR')
      BY <1>1, <2>1, FS_Subset
    <3>2. Foreign(DOMAIN RR') \subseteq Foreign(DOMAIN RR)
      BY <2>1 DEF Foreign
    <3> QED
      BY <3>1, <3>2, NothingForeign
  <2>2. CASE DOMAIN RR' = DOMAIN RR \cup pendingForFlood
    <3>1. IsFiniteSet(DOMAIN RR')
      BY <1>1, <2>2, FS_Union
    <3>2. Foreign(DOMAIN RR') \subseteq Foreign(DOMAIN RR)
      BY <2>2 DEF Foreign, BoundInv
    <3> QED
      BY <3>1, <3>2, NothingForeign
  <2>3. CASE ~Full /\ \E id \in DataId : DOMAIN RR' = DOMAIN RR \cup {id}
    BY <2>3, OneMore
  <2>4. CASE manageDatas
    BY <2>1, <2>3, <2>4, DataAddsOne
  <2>5. CASE manageAcks
    <3>1. RR' = RR \/ \E a \in Addr, id \in DOMAIN RR : RR' = Served(id, a)
      BY <2>5, HeadType DEF manageAcks, Table_ACKFrom
    <3> QED
      BY <2>1, <3>1, ServedRR DEF TypeOK
  <2>6. CASE CleanRR
    BY <2>1, <2>6 DEF CleanRR, Erase, Restrict
  <2>7. CASE PushPendingForFlood
    BY <2>1, <2>2, <2>7 DEF PushPendingForFlood
  <2>8. ASSUME NEW a \in round, NEW next \in Phases, SendPendingTLVs(a, next)
        PROVE  DOMAIN RR' = DOMAIN RR
    BY <2>8 DEF SendPendingTLVs, FloodedRR
  <2>9. CASE Close
    BY <2>1, <2>9 DEF Close
  <2>10. CASE Sleep \/ (\E id \in DataId : SendMessage(id)) \/ UNCHANGED RR
    BY <2>1, <2>10 DEF Sleep, SendMessage, tables
  <2> QED
    BY <2>1, <2>4, <2>5, <2>6, <2>7, <2>8, <2>9, <2>10, DataSteps
<1> QED
  BY <1>3, <1>4

\* RR never holds more than MAX_RR + 1 messages of others.
THEOREM RRBoundHolds == Spec => []RRBound
<1>1. Init => BoundInv
  <2> SUFFICES ASSUME Init PROVE BoundInv
    OBVIOUS
  <2>1. DOMAIN RR = {} /\ pendingForFlood = {}
    BY DEF Init, EmptyMap
  <2>2. {id \in DOMAIN RR : id.sender # myId} = {}
    BY <2>1
  <2> QED
    BY <2>1, <2>2, FS_EmptySet, ConstantsAssumption
    DEF BoundInv, RRBound
<1>2. TypeOK /\ BoundInv /\ [Next]_vars => BoundInv'
  BY BoundNext
<1>3. BoundInv => RRBound
  BY DEF BoundInv
<1> QED
  BY <1>1, <1>2, <1>3, TypeCorrect, PTL DEF Spec
=============================================================================
