----------------------------- MODULE PeerProofs -----------------------------
(***************************************************************************)
(* Proofs about Peer, for every value of its constants: its types, and the *)
(* safety properties of its tables.                                        *)
(***************************************************************************)
EXTENDS Peer, TLAPS

SeqFacts == INSTANCE SequenceTheorems

-----------------------------------------------------------------------------
(* Tables. *)

\* An assignment m[k] = v keeps a table a table.
LEMMA PutMap ==
  ASSUME NEW K, NEW V, NEW m, IsMap(m, K, V), NEW k \in K, NEW v \in V
  PROVE  IsMap(Put(m, k, v), K, V)
BY DEF IsMap, Put

\* So does an erasure, and what is left is unchanged.
LEMMA EraseMap ==
  ASSUME NEW K, NEW V, NEW m, IsMap(m, K, V), NEW D
  PROVE  /\ IsMap(Erase(m, D), K, V)
         /\ DOMAIN Erase(m, D) = DOMAIN m \ D
         /\ \A k \in DOMAIN m \ D : Erase(m, D)[k] = m[k]
BY DEF IsMap, Erase, Restrict

LEMMA EmptyIsMap ==
  ASSUME NEW K, NEW V
  PROVE  IsMap(EmptyMap, K, V)
BY DEF IsMap, EmptyMap

\* RR[id].toFlood.erase(a), seen from the table it is part of.
LEMMA ServedRR ==
  ASSUME IsRR(RR), NEW id \in DOMAIN RR, NEW a
  PROVE  /\ IsRR(Served(id, a))
         /\ DOMAIN Served(id, a) = DOMAIN RR
         /\ \A i \in DOMAIN RR :
              Served(id, a)[i].receptionTime = RR[i].receptionTime
         /\ \A i \in DOMAIN RR \ {id} : Served(id, a)[i] = RR[i]
         /\ DOMAIN Served(id, a)[id].toFlood = DOMAIN RR[id].toFlood \ {a}
         /\ \A b \in DOMAIN RR[id].toFlood \ {a} :
              Served(id, a)[id].toFlood[b] = RR[id].toFlood[b]
<1>1. PICK A \in SUBSET Addr : RR[id] \in DATAINFO(A)
  BY DEF IsRR
<1>2. RR[id].toFlood \in [A -> Attempt] /\ DOMAIN RR[id].toFlood = A
  BY <1>1 DEF DATAINFO
<1> DEFINE left == Erase(RR[id].toFlood, {a})
<1>3. left \in [A \ {a} -> Attempt] /\ \A b \in A \ {a} : left[b] = RR[id].toFlood[b]
  BY <1>2 DEF Erase, Restrict
<1>4. Served(id, a) = [RR EXCEPT ![id] = [RR[id] EXCEPT !.toFlood = left]]
  BY DEF Served
<1>5. [RR[id] EXCEPT !.toFlood = left] \in DATAINFO(A \ {a})
  BY <1>1, <1>3 DEF DATAINFO
<1> HIDE DEF left
<1>6. /\ DOMAIN Served(id, a) = DOMAIN RR
      /\ \A i \in DOMAIN RR \ {id} : Served(id, a)[i] = RR[i]
      /\ Served(id, a)[id] = [RR[id] EXCEPT !.toFlood = left]
      /\ Served(id, a) = [i \in DOMAIN RR |-> Served(id, a)[i]]
  BY <1>4 DEF IsRR
<1>7. /\ Served(id, a)[id].toFlood = left
      /\ Served(id, a)[id].receptionTime = RR[id].receptionTime
  BY <1>1, <1>6 DEF DATAINFO
<1>8. \A i \in DOMAIN RR : \E B \in SUBSET Addr : Served(id, a)[i] \in DATAINFO(B)
  BY <1>5, <1>6 DEF IsRR
<1> QED
  BY <1>2, <1>3, <1>6, <1>7, <1>8 DEF IsRR

-----------------------------------------------------------------------------
(* Types. *)

LEMMA TlvTypes ==
  /\ \A u \in Uuid, v \in Uuid \cup {NoId} : Hello(u, v) \in TLV
  /\ \A a \in Addr \cup {myAddr} : Neighbour(a) \in TLV
  /\ \A id \in DataId : Data(id) \in TLV /\ Ack(id) \in TLV
  /\ \A code \in {"QUIT", "IDLE", "VIOLATION"} : GoAway(code) \in TLV
BY DEF TLV, Hello, Neighbour, Data, Ack, GoAway

LEMMA TlvFields ==
  ASSUME NEW t \in TLV
  PROVE  /\ t.type = "Hello" => t.src \in Uuid /\ t.dst \in Uuid \cup {NoId}
         /\ t.type = "Neighbour" => t.addr \in Addr \cup {myAddr}
         /\ t.type \in {"Data", "Ack"} => t.id \in DataId
BY DEF TLV

\* The sending queues stay what they are under every way the code fills or
\* empties them.
LEMMA QueueTypes ==
  ASSUME NEW queues \in [Addr -> SUBSET TLV], NEW A, NEW tlvs \in SUBSET TLV
  PROVE  /\ PushTo(queues, A, tlvs) \in [Addr -> SUBSET TLV]
         /\ EraseFromSendList(queues, A) \in [Addr -> SUBSET TLV]
BY DEF PushTo, EraseFromSendList

LEMMA FreshType ==
  ASSUME NEW A, now \in Nat, NEW wait \in [A -> 0..1]
  PROVE  Fresh(A, wait) \in [A -> Attempt]
<1>1. 0 \in 0..MAX_SENDS
  BY ConstantsAssumption
<1> QED
  BY <1>1 DEF Fresh, Attempt

LEMMA SeqIntro ==
  ASSUME NEW S, NEW n \in Nat, NEW f \in [1..n -> S]
  PROVE  f \in Seq(S)
<1>1. f \in UNION {[1..m -> S] : m \in Nat}
  OBVIOUS
<1>2. Seq(S) = UNION {[1..m -> S] : m \in Nat}
  BY SeqFacts!SeqDef
<1> QED
  BY <1>1, <1>2, Zenon

LEMMA TypeDeliver ==
  ASSUME TypeOK, NEW d \in Datagrams, Deliver(d)
  PROVE  TypeOK'
<1> USE DEF TypeOK, Deliver
<1>1. d \in DatagramType
  BY ConstantsAssumption
<1>2. d.tlvs \in Seq(TLV) /\ d.from \in Addr
  BY <1>1 DEF DatagramType
<1>3. inbox' \in Seq([from : Addr, tlv : TLV])
  <2>1. d.tlvs \in [1..Len(d.tlvs) -> TLV] /\ Len(d.tlvs) \in Nat
    BY <1>2
  <2>2. inbox' \in [1..Len(d.tlvs) -> [from : Addr, tlv : TLV]]
    BY <1>2, <2>1
  <2> QED
    BY <2>1, <2>2, SeqIntro
<1>4. polls' \in 0..Sockets
  BY ConstantsAssumption
<1>5. toSend' \in [Addr -> SUBSET TLV]
  BY TlvTypes, QueueTypes
<1> QED
  BY <1>3, <1>4, <1>5 DEF timers, main, history

\* The TLV being managed, and its sender.
LEMMA HeadType ==
  ASSUME TypeOK, NEW type, Managing(type)
  PROVE  /\ Head(inbox).from \in Addr /\ Head(inbox).tlv \in TLV
         /\ Head(inbox).tlv.type = type
         /\ inbox' \in Seq([from : Addr, tlv : TLV])
<1>1. inbox \in Seq([from : Addr, tlv : TLV]) /\ inbox # <<>>
  BY DEF TypeOK, Managing
<1>2. /\ Head(inbox) \in [from : Addr, tlv : TLV]
      /\ Tail(inbox) \in Seq([from : Addr, tlv : TLV])
  BY <1>1, SeqFacts!HeadTailProperties
<1> QED
  BY <1>2 DEF Managing

LEMMA TypeHello ==
  ASSUME TypeOK, manageHellos
  PROVE  TypeOK'
<1> DEFINE a == Head(inbox).from
           h == Head(inbox).tlv
<1>1. /\ a \in Addr /\ h \in TLV /\ h.type = "Hello"
      /\ inbox' \in Seq([from : Addr, tlv : TLV])
  BY HeadType DEF manageHellos
<1>2. h.src \in Uuid /\ h.dst \in Uuid \cup {NoId}
  BY <1>1, TlvFields
<1> HIDE DEF a, h
<1>3. Table_HelloFrom(a, h) /\ Managing("Hello")
  BY DEF manageHellos, a, h
<1>4. AfterHello(a, h) \in INFOPAIR
  BY <1>1, <1>2 DEF TypeOK, AfterHello, INFOPAIR, IsMap, ToMe, Active
<1>5. IsMap(TVP', Addr \cup {myAddr}, Uuid \cup {NoId})
  <2>1. IsMap(Put(TVP, a, h.src), Addr \cup {myAddr}, Uuid \cup {NoId})
    BY <1>1, <1>2, PutMap DEF TypeOK
  <2> QED
    BY <1>3, <2>1 DEF TypeOK, Table_HelloFrom, tables
<1>6. IsMap(TVA', Addr, INFOPAIR)
  BY <1>1, <1>3, <1>4, PutMap DEF TypeOK, Table_HelloFrom, tables
<1>7. toSend' \in [Addr -> SUBSET TLV]
  <2>1. Hello(myId, h.src) \in TLV
    BY <1>2, TlvTypes, ConstantsAssumption
  <2> QED
    BY <1>3, <2>1, QueueTypes DEF TypeOK, Table_HelloFrom, tables
<1>8. IsMap(helloAt', Addr, Nat) /\ IsMap(longAt', Addr, Nat)
  BY <1>1, <1>3, PutMap DEF TypeOK, Table_HelloFrom, history
<1> QED
  BY <1>1, <1>3, <1>5, <1>6, <1>7, <1>8
  DEF TypeOK, Managing, Table_HelloFrom, tables, timers, main, history

LEMMA TypeNeighbour ==
  ASSUME TypeOK, manageNeighbours
  PROVE  TypeOK'
<1>1. /\ Head(inbox).tlv \in TLV /\ Head(inbox).tlv.type = "Neighbour"
      /\ inbox' \in Seq([from : Addr, tlv : TLV])
  BY HeadType DEF manageNeighbours
<1>2. Head(inbox).tlv.addr \in Addr \cup {myAddr}
  BY <1>1, TlvFields
<1>3. IsMap(TVP', Addr \cup {myAddr}, Uuid \cup {NoId})
  BY <1>2, PutMap DEF TypeOK, manageNeighbours
<1> QED
  BY <1>1, <1>3 DEF TypeOK, manageNeighbours, Managing, timers, main, history

LEMMA RRTypes ==
  ASSUME IsRR(RR)
  PROVE  /\ \A id \in DataId, A \in SUBSET Addr : \A info \in DATAINFO(A) :
              IsRR(Put(RR, id, info))
         /\ \A D : IsRR(Erase(RR, D))
BY DEF IsRR, Put, Erase, Restrict

LEMMA TypeDataFrom ==
  ASSUME TypeOK, NEW a \in Addr, NEW id \in DataId, Table_DataFrom(a, id)
  PROVE  /\ IsRR(RR') /\ toSend' \in [Addr -> SUBSET TLV]
         /\ IsMap(shown', DataId, [times : Nat, last : Nat])
         /\ knows' \in SUBSET (Addr \X DataId)
         /\ UNCHANGED <<TVP, TVA, helloAt, longAt>>
<1>1. PushTo(toSend, {a}, {Ack(id)}) \in [Addr -> SUBSET TLV]
  BY TlvTypes, QueueTypes DEF TypeOK
<1>2. FloodTargets(a) \in SUBSET Addr
  BY DEF TypeOK, FloodTargets, Active, IsMap
<1>3. ASSUME NEW wait \in [FloodTargets(a) -> 0..1]
      PROVE  IsRR(Put(RR, id, [toFlood |-> Fresh(FloodTargets(a), wait),
                               receptionTime |-> now]))
  <2>1. Fresh(FloodTargets(a), wait) \in [FloodTargets(a) -> Attempt]
    BY FreshType DEF TypeOK
  <2>2. [toFlood |-> Fresh(FloodTargets(a), wait), receptionTime |-> now]
          \in DATAINFO(FloodTargets(a))
    BY <2>1 DEF DATAINFO, TypeOK
  <2> QED
    BY <1>2, <2>2, RRTypes DEF TypeOK
<1>4. IsMap(Put(shown, id, [times |-> IF id \in DOMAIN shown
                                      THEN shown[id].times + 1 ELSE 1,
                            last |-> now]),
            DataId, [times : Nat, last : Nat])
  <2>1. [times |-> IF id \in DOMAIN shown THEN shown[id].times + 1 ELSE 1,
         last |-> now] \in [times : Nat, last : Nat]
    BY DEF TypeOK, IsMap
  <2> QED
    BY <2>1, PutMap DEF TypeOK
<1>5. id \in DOMAIN RR => IsRR(Served(id, a))
  BY ServedRR DEF TypeOK
<1>6. UNCHANGED <<TVP, TVA, helloAt, longAt>>
  BY DEF Table_DataFrom, tables, history
<1>7. toSend' \in [Addr -> SUBSET TLV]
  BY <1>1 DEF TypeOK, Table_DataFrom, tables
<1>8. IsRR(RR')
  BY <1>3, <1>5 DEF TypeOK, Table_DataFrom, tables
<1>9. IsMap(shown', DataId, [times : Nat, last : Nat])
  BY <1>4 DEF TypeOK, Table_DataFrom, history
<1>10. knows' \in SUBSET (Addr \X DataId)
  BY DEF TypeOK, Table_DataFrom, history
<1> QED
  BY <1>6, <1>7, <1>8, <1>9, <1>10

LEMMA TypeData ==
  ASSUME TypeOK, manageDatas
  PROVE  TypeOK'
<1> DEFINE a  == Head(inbox).from
           id == Head(inbox).tlv.id
<1>1. /\ a \in Addr /\ id \in DataId
      /\ inbox' \in Seq([from : Addr, tlv : TLV])
  BY HeadType, TlvFields DEF manageDatas
<1>2. Table_DataFrom(a, id) /\ Managing("Data")
  BY DEF manageDatas
<1> HIDE DEF a, id
<1> QED
  BY <1>1, <1>2, TypeDataFrom DEF TypeOK, Managing, timers, main

LEMMA TypeAck ==
  ASSUME TypeOK, manageAcks
  PROVE  TypeOK'
<1> DEFINE a  == Head(inbox).from
           id == Head(inbox).tlv.id
<1>1. /\ a \in Addr /\ id \in DataId
      /\ inbox' \in Seq([from : Addr, tlv : TLV])
  BY HeadType, TlvFields DEF manageAcks
<1>2. Table_ACKFrom(a, id) /\ Managing("Ack")
  BY DEF manageAcks
<1> HIDE DEF a, id
<1>3. id \in DOMAIN RR => IsRR(Served(id, a))
  BY ServedRR DEF TypeOK
<1> QED
  BY <1>1, <1>2, <1>3 DEF TypeOK, Table_ACKFrom, Managing, timers, main

LEMMA TypeGoAway ==
  ASSUME TypeOK, manageGoAways
  PROVE  TypeOK'
<1>1. inbox' \in Seq([from : Addr, tlv : TLV])
  BY HeadType DEF manageGoAways
<1>2. toSend' \in [Addr -> SUBSET TLV]
  BY DEF TypeOK, manageGoAways, EraseFromTVA, EraseFromSendList
<1>3. IsMap(TVA', Addr, INFOPAIR)
  BY EraseMap DEF TypeOK, manageGoAways, EraseFromTVA
<1> QED
  BY <1>1, <1>2, <1>3
  DEF TypeOK, manageGoAways, EraseFromTVA, Managing, timers, main, history

LEMMA TypeFloodNeighbours ==
  ASSUME TypeOK, FloodNeighbours
  PROVE  TypeOK'
<1>1. {Neighbour(b) : b \in Symmetric \cup {myAddr}} \in SUBSET TLV
  BY TlvTypes DEF TypeOK, IsMap, Symmetric, Active
<1>2. toSend' \in [Addr -> SUBSET TLV]
  BY <1>1, QueueTypes DEF TypeOK, FloodNeighbours
<1> QED
  BY <1>2 DEF TypeOK, FloodNeighbours, Phases, received, main, history

LEMMA TypeCleanRR ==
  ASSUME TypeOK, CleanRR
  PROVE  TypeOK'
<1>1. IsRR(RR')
  BY RRTypes DEF TypeOK, CleanRR
<1> QED
  BY <1>1 DEF TypeOK, CleanRR, Phases, received, main, history

LEMMA TypeRefreshed ==
  ASSUME TypeOK
  PROVE  IsMap(Refreshed, Addr, INFOPAIR)
BY DEF TypeOK, IsMap, Refreshed, INFOPAIR, Active

LEMMA TypeRefreshTVA ==
  ASSUME TypeOK, RefreshTVA
  PROVE  TypeOK'
<1>1. IsMap(TVA', Addr, INFOPAIR)
  BY TypeRefreshed DEF RefreshTVA
<1>2. ASSUME NEW queues \in [Addr -> SUBSET TLV], NEW A
      PROVE  SendHello(queues, A) \in [Addr -> SUBSET TLV]
  BY TlvTypes, QueueTypes, ConstantsAssumption DEF SendHello
<1>3. ASSUME NEW queues \in [Addr -> SUBSET TLV]
      PROVE  LongHellos(queues, DOMAIN Refreshed) \in [Addr -> SUBSET TLV]
  <2>1. ASSUME NEW a \in DOMAIN Refreshed
        PROVE  Hello(myId, TVA[a].id) \in TLV
    BY TlvTypes, ConstantsAssumption
    DEF Refreshed, TypeOK, IsMap, INFOPAIR, Active
  <2> QED
    BY <2>1 DEF LongHellos
<1>4. EraseFromSendList(PushTo(toSend, Inactive, {GoAway("IDLE")}), Inactive)
        \in [Addr -> SUBSET TLV]
  BY TlvTypes, QueueTypes DEF TypeOK
<1> DEFINE erased == EraseFromSendList(
                       PushTo(toSend, Inactive, {GoAway("IDLE")}), Inactive)
           nonSym == {a \in DOMAIN Refreshed : ~Refreshed[a].symmetrical}
<1>5. /\ toSend' \in {erased, SendHello(erased, nonSym),
                     LongHellos(erased, DOMAIN Refreshed),
                     LongHellos(SendHello(erased, nonSym), DOMAIN Refreshed)}
      /\ lastHelloSent' \in {now, lastHelloSent}
      /\ lastLongHelloSent' \in {now, lastLongHelloSent}
      /\ pc' = "pending"
      /\ UNCHANGED <<now, received, round, TVP, RR, lastNeighbourSentTime,
                     lastCleanedTime, lastSendTime, main, history>>
  BY DEF RefreshTVA
<1>6. toSend' \in [Addr -> SUBSET TLV]
  BY <1>2, <1>3, <1>4, <1>5
<1> QED
  BY <1>1, <1>5, <1>6 DEF TypeOK, Phases, received, main, history

LEMMA TypePushPending ==
  ASSUME TypeOK, PushPendingForFlood
  PROVE  TypeOK'
<1>1. ASSUME NEW wait \in [pendingForFlood -> [Active -> 0..1]],
             RR' = [id \in DOMAIN RR \cup pendingForFlood |->
                      IF id \in pendingForFlood
                      THEN [toFlood |-> Fresh(Active, wait[id]),
                            receptionTime |-> now]
                      ELSE RR[id]]
      PROVE  IsRR(RR')
  <2>1. ASSUME NEW id \in pendingForFlood
        PROVE  RR'[id] \in DATAINFO(Active)
    <3>1. Fresh(Active, wait[id]) \in [Active -> Attempt]
      BY FreshType DEF TypeOK
    <3>2. RR'[id] = [toFlood |-> Fresh(Active, wait[id]), receptionTime |-> now]
      BY <1>1
    <3> QED
      BY <3>1, <3>2 DEF DATAINFO, TypeOK
  <2>2. /\ DOMAIN RR' = DOMAIN RR \cup pendingForFlood
        /\ RR' = [id \in DOMAIN RR' |-> RR'[id]]
        /\ \A id \in DOMAIN RR \ pendingForFlood : RR'[id] = RR[id]
    BY <1>1
  <2>3. Active \in SUBSET Addr /\ DOMAIN RR' \in SUBSET DataId
    BY <2>2 DEF TypeOK, Active, IsMap, IsRR
  <2> QED
    BY <2>1, <2>2, <2>3 DEF TypeOK, IsRR
<1>2. IsRR(RR')
  BY <1>1 DEF TypeOK, PushPendingForFlood
<1> QED
  BY <1>2 DEF TypeOK, PushPendingForFlood, Phases, received, timers

LEMMA TypeBeginSend ==
  ASSUME TypeOK, BeginSend
  PROVE  TypeOK'
BY DEF TypeOK, BeginSend, Phases, received, tables, main, history, Active, IsMap

\* Flood keeps every entry of RR and every neighbour it is still to serve; a
\* pair that is due counts one more transmission, and the others are as before.
LEMMA FloodRR ==
  ASSUME TypeOK, NEW wait \in [DueNow -> 0..Pow2[MAX_SENDS]]
  PROVE  /\ IsRR(FloodedRR(wait))
         /\ DOMAIN FloodedRR(wait) = DOMAIN RR
         /\ \A id \in DOMAIN RR :
              LET info == FloodedRR(wait)[id] IN
              /\ info.receptionTime = RR[id].receptionTime
              /\ DOMAIN info.toFlood = DOMAIN RR[id].toFlood
              /\ \A a \in DOMAIN RR[id].toFlood :
                   info.toFlood[a] =
                     IF <<id, a>> \in DueNow
                     THEN Attempted(<<id, a>>, wait[<<id, a>>])
                     ELSE RR[id].toFlood[a]
<1> DEFINE tf(id) == [a \in DOMAIN RR[id].toFlood |->
                        IF <<id, a>> \in DueNow
                        THEN Attempted(<<id, a>>, wait[<<id, a>>])
                        ELSE RR[id].toFlood[a]]
<1>1. ASSUME NEW id \in DOMAIN RR
      PROVE  \E A \in SUBSET Addr : /\ RR[id] \in DATAINFO(A)
                                    /\ tf(id) \in [A -> Attempt]
  <2>1. PICK A \in SUBSET Addr : RR[id] \in DATAINFO(A)
    BY DEF TypeOK, IsRR
  <2>2. DOMAIN RR[id].toFlood = A /\ RR[id].toFlood \in [A -> Attempt]
    BY <2>1 DEF DATAINFO
  <2>3. ASSUME NEW a \in A, <<id, a>> \in DueNow
        PROVE  Attempted(<<id, a>>, wait[<<id, a>>]) \in Attempt
    <3>1. RR[id].toFlood[a] \in Attempt
      BY <2>2
    <3>2. /\ RR[id].toFlood[a].sent \in 0..MAX_SENDS
          /\ ~(RR[id].toFlood[a].sent >= MAX_SENDS)
      BY <2>3, <3>1 DEF DueNow, GivenUp, Sent, Attempt
    <3>3. wait[<<id, a>>] \in Nat
      <4>1. wait[<<id, a>>] \in 0..Pow2[MAX_SENDS]
        BY <2>3
      <4>2. Pow2[MAX_SENDS] \in Nat
        BY Pow2Assumption, ConstantsAssumption
      <4> QED
        BY <4>1, <4>2
    <3>4. RR[id].toFlood[a].sent + 1 \in 0..MAX_SENDS
      BY <3>2, ConstantsAssumption
    <3>5. now + wait[<<id, a>>] \in Nat
      BY <3>3 DEF TypeOK
    <3> QED
      BY <3>4, <3>5 DEF Attempted, Attempt, Sent
  <2> QED
    BY <2>1, <2>2, <2>3
<1>2. FloodedRR(wait) = [id \in DOMAIN RR |-> [RR[id] EXCEPT !.toFlood = tf(id)]]
  BY DEF FloodedRR
<1>3. ASSUME NEW id \in DOMAIN RR
      PROVE  /\ FloodedRR(wait)[id].receptionTime = RR[id].receptionTime
             /\ FloodedRR(wait)[id].toFlood = tf(id)
             /\ \E A \in SUBSET Addr : FloodedRR(wait)[id] \in DATAINFO(A)
  <2>1. PICK A \in SUBSET Addr : /\ RR[id] \in DATAINFO(A)
                                 /\ tf(id) \in [A -> Attempt]
    BY <1>1
  <2> HIDE DEF tf
  <2>2. FloodedRR(wait)[id] = [RR[id] EXCEPT !.toFlood = tf(id)]
    BY <1>2
  <2> QED
    BY <2>1, <2>2 DEF DATAINFO
<1>4. /\ DOMAIN FloodedRR(wait) = DOMAIN RR
      /\ FloodedRR(wait) = [id \in DOMAIN RR |-> FloodedRR(wait)[id]]
  BY <1>2
<1>5. IsRR(FloodedRR(wait))
  <2> HIDE DEF tf
  <2> QED
    BY <1>3, <1>4 DEF TypeOK, IsRR
<1> QED
  BY <1>3, <1>4, <1>5

LEMMA SlowType ==
  ASSUME TypeOK
  PROVE  Slow \in SUBSET Addr
BY DEF Slow, GivenUp, ToServe

LEMMA DataDueType ==
  ASSUME TypeOK, NEW a
  PROVE  DataDue(a) \in SUBSET TLV
BY TlvTypes DEF TypeOK, IsRR, DataDue, DueNow, ToServe

LEMMA TypeSend ==
  ASSUME TypeOK, NEW a \in round, NEW next \in Phases, SendPendingTLVs(a, next)
  PROVE  TypeOK'
<1>1. PICK wait \in [DueNow -> 0..Pow2[MAX_SENDS]],
           late \in [Slow -> SUBSET UNION {DataDue(b) : b \in Slow}] :
        /\ \A b \in Slow : late[b] \subseteq DataDue(b)
        /\ RR' = FloodedRR(wait)
        /\ TVA' = Erase(TVA, Slow)
        /\ \E packet \in SUBSET FloodedQueues(late)[a] :
             toSend' = [FloodedQueues(late) EXCEPT ![a] = @ \ packet]
        /\ ContinueLoop(a, next)
        /\ UNCHANGED <<now, received, TVP, timers, main, history>>
  BY DEF SendPendingTLVs
<1>2. IsRR(RR')
  BY <1>1, FloodRR
<1>3. IsMap(TVA', Addr, INFOPAIR)
  BY <1>1, EraseMap DEF TypeOK
<1>4. toSend' \in [Addr -> SUBSET TLV]
  <2>1. \A b \in Slow : late[b] \in SUBSET TLV
    BY <1>1, DataDueType
  <2>2. GoAway("IDLE") \in TLV
    BY TlvTypes
  <2>3. FloodedQueues(late) \in [Addr -> SUBSET TLV]
    BY <2>1, <2>2, DataDueType DEF TypeOK, FloodedQueues
  <2> QED
    BY <1>1, <2>3 DEF TypeOK
<1>5. round' \in SUBSET Addr /\ pc' \in Phases
  BY <1>1 DEF ContinueLoop, TypeOK, Phases
<1> QED
  BY <1>1, <1>2, <1>3, <1>4, <1>5 DEF TypeOK, received, timers, main, history

LEMMA TypeClose ==
  ASSUME TypeOK, Close
  PROVE  TypeOK'
<1>1. IsRR(RR')
  <2>1. CASE RR' = [id \in DOMAIN RR |-> [RR[id] EXCEPT !.toFlood = EmptyMap]]
    <3>1. ASSUME NEW id \in DOMAIN RR
          PROVE  RR'[id] \in DATAINFO({})
      <4>1. PICK A \in SUBSET Addr : RR[id] \in DATAINFO(A)
        BY DEF TypeOK, IsRR
      <4>2. EmptyMap \in [{} -> Attempt]
        BY DEF EmptyMap
      <4> QED
        BY <2>1, <4>1, <4>2 DEF DATAINFO
    <3> QED
      BY <2>1, <3>1 DEF TypeOK, IsRR
  <2>2. CASE RR' = RR
    BY <2>2 DEF TypeOK
  <2> QED
    BY <2>1, <2>2 DEF Close
<1>2. /\ IsMap(TVA', Addr, INFOPAIR)
      /\ IsMap(TVP', Addr \cup {myAddr}, Uuid \cup {NoId})
      /\ pc' \in Phases /\ pendingForFlood' \in SUBSET DataId
  BY EmptyIsMap DEF TypeOK, Close, Phases
<1> QED
  BY <1>1, <1>2 DEF TypeOK, Close, received, timers, history

LEMMA TypeNext ==
  ASSUME TypeOK, [Next]_vars
  PROVE  TypeOK'
<1>1. CASE Reception
  <2>1. ASSUME NEW d \in Datagrams, Deliver(d) PROVE TypeOK'
    BY <2>1, TypeDeliver
  <2>2. CASE NothingReceived
    <3>1. polls' \in 0..Sockets
      BY <2>2, ConstantsAssumption DEF TypeOK, NothingReceived
    <3> QED
      BY <2>2, <3>1 DEF TypeOK, NothingReceived, tables, timers, main, history
  <2>4. CASE ParseForever
    BY <2>4 DEF TypeOK, ParseForever, Phases, received, tables, timers, main,
                history
  <2>3. CASE ReceptionDone
    BY <2>3 DEF TypeOK, ReceptionDone, Phases, received, tables, timers, main,
                history
  <2> QED
    BY <1>1, <2>1, <2>2, <2>3, <2>4, TypeHello, TypeNeighbour, TypeData, TypeAck,
       TypeGoAway DEF Reception
<1>2. CASE Send
  BY <1>2, TypeSend DEF Send, Phases
<1>3. CASE ByeSend
  BY <1>3, TypeSend DEF ByeSend, Phases
<1>4. CASE Sleep
  BY <1>4, ConstantsAssumption
  DEF TypeOK, Sleep, Phases, tables, timers, main, history
<1>5. CASE Bye
  <2>1. {GoAway("QUIT")} \in SUBSET TLV
    BY TlvTypes
  <2>2. toSend' \in [Addr -> SUBSET TLV]
    BY <1>5, <2>1, QueueTypes DEF TypeOK, Bye
  <2> QED
    BY <1>5, <2>2
    DEF TypeOK, Bye, Phases, Active, IsMap, received, timers, main, history
<1>6. ASSUME NEW id \in DataId, SendMessage(id) PROVE TypeOK'
  BY <1>6 DEF TypeOK, SendMessage, received, tables, timers, history
<1>7. CASE Quit
  BY <1>7 DEF TypeOK, Quit, received, tables, timers, history
<1>8. CASE Finished \/ UNCHANGED vars
  BY <1>8 DEF TypeOK, Finished, vars, received, tables, timers, main, history
<1> QED
  BY <1>1, <1>2, <1>3, <1>4, <1>5, <1>6, <1>7, <1>8, TypeFloodNeighbours,
     TypeCleanRR, TypeRefreshTVA, TypePushPending, TypeBeginSend, TypeClose
  DEF Next, Background

LEMMA TypeInit ==
  ASSUME Init
  PROVE  TypeOK
<1>1. IsRR(RR)
  BY DEF Init, IsRR, EmptyMap
<1>2. -HELLO_DELAY \in Int
  BY ConstantsAssumption
<1>3. inbox \in Seq([from : Addr, tlv : TLV])
  BY DEF Init
<1>4. polls \in 0..Sockets
  BY ConstantsAssumption DEF Init
<1>5. /\ IsMap(TVP, Addr \cup {myAddr}, Uuid \cup {NoId})
      /\ IsMap(TVA, Addr, INFOPAIR)
      /\ IsMap(shown, DataId, [times : Nat, last : Nat])
      /\ IsMap(helloAt, Addr, Nat) /\ IsMap(longAt, Addr, Nat)
  BY EmptyIsMap DEF Init
<1> QED
  BY <1>1, <1>2, <1>3, <1>4, <1>5 DEF Init, TypeOK, Phases

\* The peer's state always has its type, whatever datagrams arrive.
THEOREM TypeCorrect == Spec => []TypeOK
BY TypeInit, TypeNext, PTL DEF Spec
=============================================================================
