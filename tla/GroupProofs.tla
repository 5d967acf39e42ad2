---------------------------- MODULE GroupProofs ----------------------------
(***************************************************************************)
(* Group, for any peers, links and messages: its types, and that it        *)
(* implements Broadcast.                                                   *)
(***************************************************************************)
EXTENDS Group, TLAPS

-----------------------------------------------------------------------------
(* Facts on TLVs and tables. *)

\* Every TLV is made by a constructor.
LEMMA TLVs ==
  ASSUME NEW t \in TLV
  PROVE  /\ t.type \in {"Data", "Ack", "Hello", "LongHello", "GoAway"}
         /\ t.type = "Data" => t.m \in Messages /\ t = Data(t.m)
         /\ t.type = "Ack" => t.m \in Messages /\ t = Ack(t.m)
         /\ t.type = "LongHello" => t.dst \in Peers
BY DEF TLV, Data, Ack, Hello, LongHello, GoAway

\* The constructors make TLVs.
LEMMA Constructors ==
  /\ \A m \in Messages : /\ Data(m) \in TLV /\ Ack(m) \in TLV
                         /\ Data(m).m = m /\ Ack(m).m = m
                         /\ Data(m).type = "Data" /\ Ack(m).type = "Ack"
  /\ {Hello, GoAway} \subseteq TLV /\ \A d \in Peers : LongHello(d) \in TLV
  /\ \A t \in {Hello, GoAway} : t.type \notin {"Data", "Ack"}
  /\ \A d \in Peers : LongHello(d).type \notin {"Data", "Ack"}
<1>1. \A m \in Messages : Data(m) \in TLV /\ Ack(m) \in TLV
  BY DEF TLV
<1>2. {Hello, GoAway} \subseteq TLV /\ \A d \in Peers : LongHello(d) \in TLV
  BY DEF TLV
<1>3. \A m \in Messages : /\ Data(m).m = m /\ Ack(m).m = m
                          /\ Data(m).type = "Data" /\ Ack(m).type = "Ack"
  BY DEF Data, Ack
<1>4. /\ Hello.type \notin {"Data", "Ack"}
      /\ \A d \in Peers : LongHello(d).type \notin {"Data", "Ack"}
      /\ GoAway.type \notin {"Data", "Ack"}
  BY DEF Hello, LongHello, GoAway
<1> QED BY <1>1, <1>2, <1>3, <1>4

\* Writing a key of a table, or erasing keys, gives a table.
LEMMA Tables ==
  ASSUME NEW K, NEW V, NEW t, IsMap(t, K, V)
  PROVE  /\ \A k \in K, v \in V : /\ IsMap(Put(t, k, v), K, V)
                                  /\ DOMAIN Put(t, k, v) = DOMAIN t \cup {k}
         /\ \A D : IsMap(Erase(t, D), K, V)
BY DEF IsMap, Put, Erase, Restrict

\* toFlood entries are tables too.
LEMMA ToFloodIsMap ==
  ASSUME NEW p
  PROVE  \A f : f \in ToFlood(p) <=> IsMap(f, Linked(p), 0..MAX_SENDS)
<1>1. ASSUME NEW f, f \in ToFlood(p) PROVE IsMap(f, Linked(p), 0..MAX_SENDS)
  <2>1. PICK A \in SUBSET Linked(p) : f \in [A -> 0..MAX_SENDS]
    BY <1>1 DEF ToFlood
  <2> QED BY <2>1 DEF IsMap
<1>2. ASSUME NEW f, IsMap(f, Linked(p), 0..MAX_SENDS) PROVE f \in ToFlood(p)
  BY <1>2 DEF ToFlood, IsMap
<1> QED BY <1>1, <1>2

\* The empty table is a table.
LEMMA EmptyIsMap == \A K, V : IsMap(EmptyMap, K, V) /\ DOMAIN EmptyMap = {}
BY DEF IsMap, EmptyMap

-----------------------------------------------------------------------------
(* Types. *)

LEMMA TypeInit == Init => TypeOK
<1> SUFFICES ASSUME Init PROVE TypeOK
  OBVIOUS
<1> USE DEF Init
<1>1. /\ TVA = [p \in Peers |-> TVA[p]] /\ RR = [p \in Peers |-> RR[p]]
      /\ \A p \in Peers : IsMap(TVA[p], Linked(p), {"heard", "symmetrical"})
      /\ \A p \in Peers : IsMap(RR[p], Messages, ToFlood(p))
  BY EmptyIsMap DEF IsMap
<1>2. toSend \in [Peers -> [Peers -> SUBSET TLV]]
  OBVIOUS
<1>3. net \subseteq Travelling /\ up \subseteq Peers /\ cut \subseteq Peers \X Peers
  OBVIOUS
<1>4. said \subseteq Messages /\ shown \in [Peers -> Seq(Messages)]
  OBVIOUS
<1>5. faults \in 0..Faults
  BY GroupAssumption
<1> QED BY <1>1, <1>2, <1>3, <1>4, <1>5 DEF TypeOK

\* Pushing a TLV, to many or to one.
LEMMA PushToType ==
  ASSUME TypeOK, NEW p \in Peers, NEW A, NEW t \in TLV, PushTo(p, A, t)
  PROVE  toSend' \in [Peers -> [Peers -> SUBSET TLV]]
BY DEF PushTo, TypeOK

LEMMA PushType ==
  ASSUME TypeOK, NEW p \in Peers, NEW q \in Peers, NEW t \in TLV, Push(p, q, t)
  PROVE  toSend' \in [Peers -> [Peers -> SUBSET TLV]]
BY DEF TypeOK, Push

\* TVA, with a key written or erased.
LEMMA TVAType ==
  ASSUME TypeOK, NEW p \in Peers, NEW q \in Linked(p)
  PROVE  /\ \A v \in {"heard", "symmetrical"} :
              LET T == [TVA EXCEPT ![p] = Put(@, q, v)] IN
              /\ T = [r \in Peers |-> T[r]]
              /\ \A r \in Peers : IsMap(T[r], Linked(r), {"heard", "symmetrical"})
         /\ \A D : LET T == [TVA EXCEPT ![p] = Erase(@, D)] IN
              /\ T = [r \in Peers |-> T[r]]
              /\ \A r \in Peers : IsMap(T[r], Linked(r), {"heard", "symmetrical"})
<1>1. /\ TVA = [r \in Peers |-> TVA[r]]
      /\ \A r \in Peers : IsMap(TVA[r], Linked(r), {"heard", "symmetrical"})
  BY DEF TypeOK
<1>2. /\ \A v \in {"heard", "symmetrical"} :
           IsMap(Put(TVA[p], q, v), Linked(p), {"heard", "symmetrical"})
      /\ \A D : IsMap(Erase(TVA[p], D), Linked(p), {"heard", "symmetrical"})
  BY <1>1, Tables
<1> QED BY <1>1, <1>2

\* RR, with an entry written.
LEMMA RRType ==
  ASSUME TypeOK, NEW p \in Peers, NEW m \in Messages, NEW f \in ToFlood(p),
         NEW R, R = [RR EXCEPT ![p] = Put(@, m, f)]
  PROVE  /\ R = [r \in Peers |-> R[r]]
         /\ \A r \in Peers : IsMap(R[r], Messages, ToFlood(r))
<1>1. /\ RR = [r \in Peers |-> RR[r]]
      /\ \A r \in Peers : IsMap(RR[r], Messages, ToFlood(r))
  BY DEF TypeOK
<1>2. IsMap(Put(RR[p], m, f), Messages, ToFlood(p))
  BY <1>1, Tables
<1> QED BY <1>1, <1>2

\* The two ways that RR has to change for a message.
LEMMA OfferedType ==
  ASSUME TypeOK, NEW p \in Peers, NEW m \in Messages, NEW F, RR' = Offered(p, m, F)
  PROVE  /\ RR' = [r \in Peers |-> RR'[r]]
         /\ \A r \in Peers : IsMap(RR'[r], Messages, ToFlood(r))
<1> DEFINE f == [q \in Active(p) \ F |-> 0]
<1>1. Active(p) \subseteq Linked(p)
  BY DEF TypeOK, IsMap, Active
<1>2. f \in ToFlood(p)
  <2>1. f \in [Active(p) \ F -> 0..MAX_SENDS]
    BY GroupAssumption
  <2> QED BY <1>1, <2>1 DEF ToFlood
<1>3. RR' = [RR EXCEPT ![p] = Put(@, m, f)]
  BY DEF Offered
<1> HIDE DEF f
<1> QED BY <1>2, <1>3, RRType

LEMMA ServedType ==
  ASSUME TypeOK, NEW p \in Peers, NEW m \in DOMAIN RR[p], NEW q, RR' = Served(p, m, q)
  PROVE  /\ RR' = [r \in Peers |-> RR'[r]]
         /\ \A r \in Peers : IsMap(RR'[r], Messages, ToFlood(r))
<1>1. /\ RR = [r \in Peers |-> RR[r]]
      /\ \A r \in Peers : IsMap(RR[r], Messages, ToFlood(r))
  BY DEF TypeOK
<1>2. RR[p][m] \in ToFlood(p)
  BY <1>1 DEF IsMap
<1>3. Erase(RR[p][m], {q}) \in ToFlood(p)
  BY <1>2, ToFloodIsMap, Tables
<1>4. /\ RR' = [RR EXCEPT ![p] = [@ EXCEPT ![m] = Erase(RR[p][m], {q})]]
  BY DEF Served
<1>5. IsMap([RR[p] EXCEPT ![m] = Erase(RR[p][m], {q})], Messages, ToFlood(p))
  BY <1>1, <1>3 DEF IsMap
<1> QED BY <1>1, <1>4, <1>5

\* What is on its way is between linked peers.
LEMMA OnItsWay ==
  ASSUME TypeOK, NEW w \in net
  PROVE  w.from \in Peers /\ w.to \in Peers /\ w.tlv \in TLV /\ w.from \in Linked(w.to)
BY DEF TypeOK, Travelling, Linked

LEMMA ReceiveType ==
  ASSUME TypeOK, NEW w \in net, Receive(w)
  PROVE  TypeOK'
<1> DEFINE p == w.to
           q == w.from
           t == w.tlv
<1>1. p \in Peers /\ q \in Peers /\ t \in TLV /\ q \in Linked(p)
  BY OnItsWay
<1>2. UNCHANGED <<net, up, said, faults>>
  BY DEF Receive
<1> DEFINE TVAOK == /\ TVA' = [r \in Peers |-> TVA'[r]]
                    /\ \A r \in Peers :
                         IsMap(TVA'[r], Linked(r), {"heard", "symmetrical"})
           RROK  == /\ RR' = [r \in Peers |-> RR'[r]]
                    /\ \A r \in Peers : IsMap(RR'[r], Messages, ToFlood(r))
           SendOK == toSend' \in [Peers -> [Peers -> SUBSET TLV]]
           ShownOK == shown' \in [Peers -> Seq(Messages)]
           CutOK  == cut' \subseteq Peers \X Peers
<1>3. /\ UNCHANGED TVA => TVAOK
      /\ UNCHANGED RR => RROK
      /\ UNCHANGED toSend => SendOK
      /\ UNCHANGED shown => ShownOK
      /\ UNCHANGED cut => CutOK
  BY DEF TypeOK
<1>4. SUFFICES TVAOK /\ RROK /\ SendOK /\ ShownOK /\ CutOK
  BY <1>2 DEF TypeOK, ToFlood, Travelling, Linked
<1>5. CASE t.type = "Hello" /\ HelloFrom(p, q)
  <2>1. TVAOK
    BY <1>1, <1>3, <1>5, TVAType DEF HelloFrom
  <2>2. SendOK
    BY <1>1, <1>3, <1>5, PushToType, Constructors DEF HelloFrom
  <2> QED BY <1>3, <1>5, <2>1, <2>2 DEF HelloFrom
<1>6. CASE t.type = "LongHello" /\ LongHelloFrom(p, q, t.dst)
  <2>1. TVAOK
    BY <1>1, <1>3, <1>6, TVAType DEF LongHelloFrom
  <2> QED BY <1>3, <1>6, <2>1 DEF LongHelloFrom
<1>7. CASE t.type = "Data" /\ DataFrom(p, q, t.m)
  <2>1. t.m \in Messages
    BY <1>1, <1>7, TLVs
  <2>2. CASE Ignored(p, q, t.m)
    BY <1>3, <1>7, <2>2 DEF DataFrom, Ignored
  <2>3. CASE /\ Push(p, q, Ack(t.m)) /\ shown' = Shown(p, t.m)
             /\ RR' = IF t.m \in DOMAIN RR[p] THEN Served(p, t.m, q)
                                              ELSE Offered(p, t.m, {q})
    <3>1. SendOK
      BY <1>1, <2>1, <2>3, PushType, Constructors
    <3>2. RROK
      BY <1>1, <2>1, <2>3, ServedType, OfferedType
    <3>3. ShownOK
      BY <1>1, <2>1, <2>3 DEF Shown, TypeOK
    <3> QED BY <1>3, <1>7, <3>1, <3>2, <3>3 DEF DataFrom
  <2> QED BY <1>7, <2>2, <2>3 DEF DataFrom
<1>8. CASE t.type = "Ack" /\ AckFrom(p, q, t.m)
  <2>1. t.m \in Messages
    BY <1>1, <1>8, TLVs
  <2>2. RROK
    BY <1>1, <1>3, <1>8, <2>1, ServedType DEF AckFrom
  <2> QED BY <1>3, <1>8, <2>2 DEF AckFrom
<1>9. CASE t.type = "GoAway" /\ GoAwayFrom(p, q)
  <2>1. TVAOK
    BY <1>1, <1>9, TVAType DEF GoAwayFrom
  <2>2. SendOK /\ CutOK
    BY <1>1, <1>9 DEF GoAwayFrom, TypeOK
  <2> QED BY <1>3, <1>9, <2>1, <2>2 DEF GoAwayFrom
<1> QED BY <1>5, <1>6, <1>7, <1>8, <1>9 DEF Receive

LEMMA SayType ==
  ASSUME TypeOK, NEW m \in Messages, Say(m)
  PROVE  TypeOK'
<1>1. author[m] \in Peers
  BY GroupAssumption
<1>2. /\ RR' = [r \in Peers |-> RR'[r]]
      /\ \A r \in Peers : IsMap(RR'[r], Messages, ToFlood(r))
  BY <1>1, OfferedType DEF Say
<1>3. said' \subseteq Messages
  BY DEF Say, TypeOK
<1> QED BY <1>2, <1>3 DEF Say, TypeOK, ToFlood, Travelling, Linked

\* What Flood leaves in the queues: TLVs.
LEMMA FloodedType ==
  ASSUME TypeOK, NEW p \in Peers, NEW due, due \subseteq Waiting(p),
         NEW late \in SUBSET due, NEW q \in Peers
  PROVE  Flooded(p, due, late, q) \in SUBSET TLV
<1>1. \A S \in SUBSET due :
        {Data(s[1]) : s \in {d \in S : d[2] = q}} \subseteq TLV
  BY Constructors DEF Waiting, ToServe
<1>2. toSend[p][q] \subseteq TLV /\ GoAway \in TLV
  BY Constructors DEF TypeOK
<1> QED BY <1>1, <1>2 DEF Flooded

\* A count that Flood increments was below its bound.
LEMMA CountsType ==
  ASSUME TypeOK, NEW p \in Peers, NEW due, due \subseteq Waiting(p),
         RR' = [RR EXCEPT ![p] =
                 [m \in DOMAIN @ |->
                   [q \in DOMAIN @[m] |->
                     IF <<m, q>> \in due THEN @[m][q] + 1 ELSE @[m][q]]]]
  PROVE  /\ RR' = [r \in Peers |-> RR'[r]]
         /\ \A r \in Peers : IsMap(RR'[r], Messages, ToFlood(r))
<1> DEFINE g(m) == [q \in DOMAIN RR[p][m] |->
                     IF <<m, q>> \in due THEN RR[p][m][q] + 1 ELSE RR[p][m][q]]
           f == [m \in DOMAIN RR[p] |-> g(m)]
<1>1. /\ RR = [r \in Peers |-> RR[r]]
      /\ \A r \in Peers : IsMap(RR[r], Messages, ToFlood(r))
  BY DEF TypeOK
<1>2. ASSUME NEW m \in DOMAIN RR[p] PROVE g(m) \in ToFlood(p)
  <2>1. RR[p][m] \in ToFlood(p)
    BY <1>1 DEF IsMap
  <2>2. PICK A \in SUBSET Linked(p) : RR[p][m] \in [A -> 0..MAX_SENDS]
    BY <2>1 DEF ToFlood
  <2>3. ASSUME NEW q \in A PROVE g(m)[q] \in 0..MAX_SENDS
    <3>1. RR[p][m][q] \in 0..MAX_SENDS
      BY <2>2
    <3>2. CASE <<m, q>> \in due
      <4>1. ~(RR[p][m][q] >= MAX_SENDS)
        BY <3>2 DEF Waiting, GivenUp
      <4> QED BY <2>2, <3>1, <3>2, <4>1, GroupAssumption
    <3>3. CASE <<m, q>> \notin due
      BY <2>2, <3>1, <3>3
    <3> QED BY <3>2, <3>3
  <2>4. g(m) \in [A -> 0..MAX_SENDS]
    BY <2>2, <2>3
  <2> QED BY <2>4 DEF ToFlood
<1>3. IsMap(f, Messages, ToFlood(p))
  BY <1>1, <1>2 DEF IsMap
<1>4. RR' = [RR EXCEPT ![p] = f]
  OBVIOUS
<1> HIDE DEF f
<1> QED BY <1>1, <1>3, <1>4

LEMMA ServeType ==
  ASSUME TypeOK, NEW p \in Peers, NEW n \in Active(p),
         NEW due \in SUBSET Waiting(p), Serve(p, n, due)
  PROVE  TypeOK'
<1>1. PICK late \in SUBSET due :
        /\ toSend' = [toSend EXCEPT ![p] =
             [q \in Peers |-> IF q \in {n} \ Slow(p)
                              THEN {} ELSE Flooded(p, due, late, q)]]
        /\ net' = net \cup
             {[from |-> p, to |-> n, tlv |-> t] :
                t \in IF n \in Slow(p) THEN {} ELSE Flooded(p, due, late, n)}
  BY DEF Serve
<1>2. \A q \in Peers : Flooded(p, due, late, q) \in SUBSET TLV
  BY FloodedType
<1>3. n \in Linked(p)
  BY DEF TypeOK, IsMap, Active
<1>4. toSend' \in [Peers -> [Peers -> SUBSET TLV]]
  <2>1. [q \in Peers |-> IF q \in {n} \ Slow(p)
                         THEN {} ELSE Flooded(p, due, late, q)]
          \in [Peers -> SUBSET TLV]
    BY <1>2
  <2> QED BY <1>1, <2>1 DEF TypeOK
<1>5. net' \subseteq Travelling
  <2>1. ASSUME NEW t \in Flooded(p, due, late, n)
        PROVE  [from |-> p, to |-> n, tlv |-> t] \in Travelling
    BY <1>2, <1>3 DEF Travelling, Linked
  <2>2. net \subseteq Travelling
    BY DEF TypeOK
  <2> QED BY <1>1, <2>1, <2>2
<1>6. /\ RR' = [r \in Peers |-> RR'[r]]
      /\ \A r \in Peers : IsMap(RR'[r], Messages, ToFlood(r))
  BY CountsType DEF Serve
<1>7. /\ TVA' = [r \in Peers |-> TVA'[r]]
      /\ \A r \in Peers : IsMap(TVA'[r], Linked(r), {"heard", "symmetrical"})
  <2>1. /\ TVA = [r \in Peers |-> TVA[r]]
        /\ \A r \in Peers : IsMap(TVA[r], Linked(r), {"heard", "symmetrical"})
    BY DEF TypeOK
  <2>2. IsMap(Erase(TVA[p], Slow(p)), Linked(p), {"heard", "symmetrical"})
    BY <2>1, Tables
  <2> QED BY <2>1, <2>2 DEF Serve
<1>8. cut' \subseteq Peers \X Peers
  <2>1. Slow(p) \subseteq Peers
    BY DEF Slow, GivenUp, ToServe
  <2> QED BY <2>1 DEF Serve, TypeOK
<1>9. /\ up' \subseteq Peers /\ said' \subseteq Messages
      /\ shown' \in [Peers -> Seq(Messages)] /\ faults' \in 0..Faults
  BY DEF Serve, TypeOK
<1> QED BY <1>4, <1>5, <1>6, <1>7, <1>8, <1>9
    DEF TypeOK, ToFlood, Travelling, Linked

LEMMA FaultType ==
  ASSUME TypeOK, NEW p \in Peers,
         Quit(p) \/ Crash(p) \/ \E q \in Active(p) : Silence(p, q)
  PROVE  TypeOK'
<1>1. Fault /\ UNCHANGED <<RR, said, shown>>
  BY DEF Quit, Crash, Silence, tables
<1>2. faults' \in 0..Faults
  BY <1>1, GroupAssumption DEF Fault, TypeOK
<1>3. CASE Quit(p)
  <2>1. \A q \in Active(p) : q \in Linked(p)
    BY DEF TypeOK, IsMap, Active
  <2>2. ASSUME NEW q \in Active(p), NEW t \in toSend[p][q] \cup {GoAway}
        PROVE  [from |-> p, to |-> q, tlv |-> t] \in Travelling
    <3>1. q \in Linked(p) /\ q \in Peers
      BY <2>1 DEF Linked
    <3>2. t \in TLV
      BY <3>1, Constructors DEF TypeOK
    <3> QED BY <3>1, <3>2 DEF Travelling, Linked
  <2>3. net' \subseteq Travelling
    BY <1>3, <2>2 DEF Quit, TypeOK
  <2> QED BY <1>1, <1>2, <1>3, <2>3
      DEF Quit, TypeOK, tables, ToFlood, Travelling, Linked
<1>4. CASE Crash(p)
  BY <1>1, <1>2, <1>4 DEF Crash, TypeOK, tables, ToFlood, Travelling, Linked
<1>5. CASE \E q \in Active(p) : Silence(p, q)
  <2>1. PICK q \in Active(p) : Silence(p, q)
    BY <1>5
  <2>2. q \in Linked(p) /\ q \in Peers
    BY DEF TypeOK, IsMap, Active, Linked
  <2>3. /\ TVA' = [r \in Peers |-> TVA'[r]]
        /\ \A r \in Peers : IsMap(TVA'[r], Linked(r), {"heard", "symmetrical"})
    <3>1. CASE TVA' = [TVA EXCEPT ![p] = Erase(@, {q})]
      BY <2>2, <3>1, TVAType
    <3>2. CASE TVA' = [TVA EXCEPT ![p][q] = "heard"]
      <4>1. /\ TVA = [r \in Peers |-> TVA[r]]
            /\ \A r \in Peers : IsMap(TVA[r], Linked(r), {"heard", "symmetrical"})
        BY DEF TypeOK
      <4>2. IsMap([TVA[p] EXCEPT ![q] = "heard"], Linked(p), {"heard", "symmetrical"})
        BY <4>1 DEF IsMap
      <4>3. TVA' = [TVA EXCEPT ![p] = [TVA[p] EXCEPT ![q] = "heard"]]
        BY <3>2
      <4> QED BY <4>1, <4>2, <4>3
    <3> QED BY <2>1, <3>1, <3>2 DEF Silence
  <2>4. toSend' \in [Peers -> [Peers -> SUBSET TLV]]
    <3>1. toSend' = [toSend EXCEPT ![p][q] = {}] \/ UNCHANGED toSend
      BY <2>1 DEF Silence
    <3>2. toSend \in [Peers -> [Peers -> SUBSET TLV]]
      BY DEF TypeOK
    <3> QED BY <2>2, <3>1, <3>2
  <2>5. cut' \subseteq Peers \X Peers /\ UNCHANGED <<net, up>>
    BY <2>1, <2>2 DEF Silence, TypeOK
  <2> QED BY <1>1, <1>2, <2>3, <2>4, <2>5
      DEF TypeOK, ToFlood, Travelling, Linked
<1> QED BY <1>3, <1>4, <1>5

LEMMA TypeNext == TypeOK /\ [Next]_vars => TypeOK'
<1> SUFFICES ASSUME TypeOK, [Next]_vars PROVE TypeOK'
  OBVIOUS
<1>1. CASE \E m \in Messages : Say(m)
  BY <1>1, SayType
<1>2. CASE \E w \in net : Receive(w)
  BY <1>2, ReceiveType
<1>3. CASE \E p \in Peers : \E n \in Active(p) :
             \E due \in SUBSET Waiting(p) : Serve(p, n, due)
  BY <1>3, ServeType
<1>4. CASE \E p \in Peers : Quit(p) \/ Crash(p)
  BY <1>4, FaultType
<1>5. CASE \E p \in Peers : \E q \in Active(p) : Silence(p, q)
  BY <1>5, FaultType
<1>6. CASE UNCHANGED vars
  BY <1>6 DEF vars, tables, TypeOK, ToFlood, Travelling, Linked
<1> QED BY <1>1, <1>2, <1>3, <1>4, <1>5, <1>6 DEF Next

\* The tables of every peer, the queues and the network have their types.
THEOREM GroupTypes == Spec => []TypeOK
BY TypeInit, TypeNext, PTL DEF Spec

-----------------------------------------------------------------------------
(* A peer only speaks of what it has. *)

LEMMA InvInit == Init => GroupInv
<1> SUFFICES ASSUME Init PROVE GroupInv
  OBVIOUS
<1>1. NoFalseAck
  BY Constructors DEF Init, NoFalseAck, Travelling
<1>2. \A p \in Peers : DOMAIN RR[p] \subseteq said
  BY EmptyIsMap DEF Init
<1>3. \A p \in Peers : Range(shown[p]) \subseteq DOMAIN RR[p]
  BY DEF Init, Range
<1> QED BY <1>1, <1>2, <1>3 DEF Init, GroupInv

\* What a step has to respect for GroupInv to be kept: RR only grows, and only
\* with what is said, and whatever is new speaks of what RR holds.
LEMMA InvStep ==
  ASSUME GroupInv,
         \A p \in Peers : DOMAIN RR[p] \subseteq DOMAIN RR'[p],
         \A p \in Peers : DOMAIN RR'[p] \subseteq DOMAIN RR[p] \cup said',
         said \subseteq said',
         \A m \in said' \ said : m \in DOMAIN RR'[author[m]],
         \A m \in said : author[m] \in Peers,
         \A p \in Peers : Range(shown'[p]) \subseteq Range(shown[p]) \cup DOMAIN RR'[p],
         \A p, q \in Peers : \A t \in toSend'[p][q] :
           \/ t \in toSend[p][q]
           \/ t.type \in {"Data", "Ack"} => t.m \in DOMAIN RR'[p],
         \A w \in net : w.from \in Peers,
         \A w \in net' :
           \/ w \in net
           \/ w.tlv.type \in {"Data", "Ack"} => w.tlv.m \in DOMAIN RR'[w.from]
  PROVE  GroupInv'
<1>1. NoFalseAck'
  BY DEF GroupInv, NoFalseAck, Has
<1>2. (\A p, q \in Peers : \A t \in toSend[p][q] :
         t.type \in {"Data", "Ack"} => Has(p, t.m))'
  BY DEF GroupInv, Has
<1>3. (\A p \in Peers : DOMAIN RR[p] \subseteq said)'
  BY DEF GroupInv
<1>4. (\A m \in said : Has(author[m], m))'
  BY DEF GroupInv, Has
<1>5. (\A p \in Peers : Range(shown[p]) \subseteq DOMAIN RR[p])'
  BY DEF GroupInv
<1> QED BY <1>1, <1>2, <1>3, <1>4, <1>5 DEF GroupInv

\* Facts that all the steps below need.
LEMMA Basics ==
  ASSUME TypeOK
  PROVE  /\ \A m \in said : author[m] \in Peers
         /\ \A w \in net : w.from \in Peers /\ w.to \in Peers
         /\ \A p \in Peers : RR[p] = [m \in DOMAIN RR[p] |-> RR[p][m]]
         /\ RR = [p \in Peers |-> RR[p]]
         /\ toSend \in [Peers -> [Peers -> SUBSET TLV]]
         /\ shown \in [Peers -> Seq(Messages)]
<1>1. \A p \in Peers : RR[p] = [m \in DOMAIN RR[p] |-> RR[p][m]]
  BY DEF TypeOK, IsMap
<1>2. \A m \in said : author[m] \in Peers
  BY GroupAssumption DEF TypeOK
<1> QED BY <1>1, <1>2 DEF TypeOK, Travelling

\* Which messages RR holds, once one is offered or served.
LEMMA Domains ==
  ASSUME TypeOK, NEW p \in Peers, NEW m
  PROVE  /\ \A F : RR' = Offered(p, m, F) =>
              \A r \in Peers :
                DOMAIN RR'[r] = IF r = p THEN DOMAIN RR[r] \cup {m} ELSE DOMAIN RR[r]
         /\ \A q : RR' = Served(p, m, q) =>
              \A r \in Peers : DOMAIN RR'[r] = DOMAIN RR[r]
<1>1. RR = [r \in Peers |-> RR[r]]
  BY Basics
<1>2. ASSUME NEW F, RR' = Offered(p, m, F)
      PROVE  \A r \in Peers :
               DOMAIN RR'[r] = IF r = p THEN DOMAIN RR[r] \cup {m} ELSE DOMAIN RR[r]
  <2> DEFINE f == [q \in Active(p) \ F |-> 0]
  <2>1. RR' = [RR EXCEPT ![p] = Put(@, m, f)]
    BY <1>2 DEF Offered
  <2>2. DOMAIN Put(RR[p], m, f) = DOMAIN RR[p] \cup {m}
    BY DEF Put
  <2> HIDE DEF f
  <2> QED BY <1>1, <2>1, <2>2
<1>3. ASSUME NEW q, RR' = Served(p, m, q)
      PROVE  \A r \in Peers : DOMAIN RR'[r] = DOMAIN RR[r]
  <2> DEFINE g == [RR[p] EXCEPT ![m] = Erase(RR[p][m], {q})]
  <2>1. RR' = [RR EXCEPT ![p] = g]
    BY <1>3 DEF Served
  <2>2. DOMAIN g = DOMAIN RR[p]
    OBVIOUS
  <2> HIDE DEF g
  <2> QED BY <1>1, <2>1, <2>2
<1> QED BY <1>2, <1>3

\* What is displayed once m may be.
LEMMA ShownRange ==
  ASSUME TypeOK, NEW p \in Peers, NEW m, shown' = Shown(p, m)
  PROVE  \A r \in Peers : Range(shown'[r]) \subseteq
                            Range(shown[r]) \cup (IF r = p THEN {m} ELSE {})
<1>1. shown \in [Peers -> Seq(Messages)]
  BY DEF TypeOK
<1>2. CASE shown' = shown
  BY <1>2
<1>3. CASE shown' = [shown EXCEPT ![p] = Append(@, m)]
  <2>1. ASSUME NEW s \in Seq(Messages) PROVE Range(Append(s, m)) \subseteq Range(s) \cup {m}
    BY <2>1 DEF Range
  <2> QED BY <1>1, <1>3, <2>1
<1> QED BY <1>2, <1>3 DEF Shown

LEMMA ReceiveInv ==
  ASSUME TypeOK, GroupInv, NEW w \in net, Receive(w)
  PROVE  GroupInv'
<1> DEFINE p == w.to
           q == w.from
           t == w.tlv
<1>1. p \in Peers /\ q \in Peers /\ t \in TLV
  BY OnItsWay
<1>2. UNCHANGED <<net, said>>
  BY DEF Receive
<1>3. t.type \in {"Data", "Ack"} => t.m \in DOMAIN RR[q]
  BY DEF GroupInv, NoFalseAck, Has
\* Hellos and GoAways change neither RR nor what is displayed.
<1>4. ASSUME UNCHANGED <<RR, shown>>,
             \A r, s \in Peers : \A u \in toSend'[r][s] :
               u \in toSend[r][s] \/ u = LongHello(q)
      PROVE  GroupInv'
  <2>1. LongHello(q).type \notin {"Data", "Ack"}
    BY <1>1, Constructors
  <2>2. \A r, s \in Peers : \A u \in toSend'[r][s] :
          u \in toSend[r][s] \/ (u.type \in {"Data", "Ack"} => u.m \in DOMAIN RR'[r])
    BY <1>4, <2>1
  <2> QED BY <1>2, <1>4, <2>2, InvStep, Basics
<1>5. CASE HelloFrom(p, q)
  <2>1. PushTo(p, Active(p) \cup {q}, LongHello(q)) \/ UNCHANGED toSend
    BY <1>5 DEF HelloFrom
  <2>2. \A r, s \in Peers : \A u \in toSend'[r][s] :
          u \in toSend[r][s] \/ u = LongHello(q)
    <3> TAKE r, s \in Peers
    <3>1. CASE r = p /\ PushTo(p, Active(p) \cup {q}, LongHello(q))
      BY <3>1, Basics DEF PushTo
    <3>2. CASE r # p \/ UNCHANGED toSend
      BY <2>1, <3>2, Basics DEF PushTo
    <3> QED BY <2>1, <3>1, <3>2
  <2> QED BY <1>4, <1>5, <2>2 DEF HelloFrom
<1>6. CASE t.type = "LongHello" /\ LongHelloFrom(p, q, t.dst)
  BY <1>4, <1>6 DEF LongHelloFrom
<1>7. CASE GoAwayFrom(p, q)
  BY <1>1, <1>4, <1>7, Basics DEF GoAwayFrom
<1>8. CASE t.type = "Ack" /\ AckFrom(p, q, t.m)
  <2>1. \A r \in Peers : DOMAIN RR'[r] = DOMAIN RR[r]
    BY <1>1, <1>8, Domains DEF AckFrom
  <2> QED BY <1>2, <1>8, <2>1, InvStep, Basics DEF AckFrom
<1>9. CASE t.type = "Data" /\ DataFrom(p, q, t.m)
  <2>1. CASE Ignored(p, q, t.m)
    BY <1>4, <2>1 DEF Ignored
  <2>2. CASE /\ Push(p, q, Ack(t.m)) /\ shown' = Shown(p, t.m)
             /\ RR' = IF t.m \in DOMAIN RR[p] THEN Served(p, t.m, q)
                                              ELSE Offered(p, t.m, {q})
    <3>1. /\ \A r \in Peers : DOMAIN RR[r] \subseteq DOMAIN RR'[r]
          /\ \A r \in Peers : DOMAIN RR'[r] \subseteq DOMAIN RR[r] \cup {t.m}
          /\ t.m \in DOMAIN RR'[p]
      <4>1. CASE t.m \in DOMAIN RR[p] /\ RR' = Served(p, t.m, q)
        <5>1. \A r \in Peers : DOMAIN RR'[r] = DOMAIN RR[r]
          BY <1>1, <4>1, Domains
        <5> QED BY <1>1, <4>1, <5>1
      <4>2. CASE RR' = Offered(p, t.m, {q})
        <5>1. \A r \in Peers : DOMAIN RR'[r] = IF r = p THEN DOMAIN RR[r] \cup {t.m}
                                                        ELSE DOMAIN RR[r]
          BY <1>1, <4>2, Domains
        <5> QED BY <1>1, <5>1
      <4> QED BY <2>2, <4>1, <4>2
    <3>2. t.m \in said
      BY <1>1, <1>3, <1>9 DEF GroupInv
    <3>3. \A r \in Peers : Range(shown'[r]) \subseteq Range(shown[r]) \cup DOMAIN RR'[r]
      BY <1>1, <2>2, <3>1, ShownRange
    <3>4. \A r, s \in Peers : \A u \in toSend'[r][s] :
            u \in toSend[r][s] \/ (r = p /\ u = Ack(t.m))
      BY <1>1, <2>2, Basics DEF Push
    <3>5. Ack(t.m).m = t.m
      BY DEF Ack
    <3> QED BY <1>2, <3>1, <3>2, <3>3, <3>4, <3>5, InvStep, Basics
  <2> QED BY <1>9, <2>1, <2>2 DEF DataFrom
<1> QED BY <1>5, <1>6, <1>7, <1>8, <1>9 DEF Receive

LEMMA SayInv ==
  ASSUME TypeOK, GroupInv, NEW m \in Messages, Say(m)
  PROVE  GroupInv'
<1>1. author[m] \in Peers
  BY GroupAssumption
<1>2. /\ \A r \in Peers : DOMAIN RR[r] \subseteq DOMAIN RR'[r]
      /\ \A r \in Peers : DOMAIN RR'[r] \subseteq DOMAIN RR[r] \cup {m}
      /\ m \in DOMAIN RR'[author[m]]
  <2> DEFINE a == author[m]
  <2>1. RR' = Offered(a, m, {})
    BY DEF Say
  <2> HIDE DEF a
  <2>2. a \in Peers
    BY <1>1 DEF a
  <2>3. \A r \in Peers : DOMAIN RR'[r] = IF r = a THEN DOMAIN RR[r] \cup {m}
                                                  ELSE DOMAIN RR[r]
    BY <2>1, <2>2, Domains
  <2> QED BY <2>2, <2>3 DEF a
<1> QED BY <1>2, InvStep, Basics DEF Say

LEMMA ServeInv ==
  ASSUME TypeOK, GroupInv, NEW p \in Peers, NEW n \in Active(p),
         NEW due \in SUBSET Waiting(p), Serve(p, n, due)
  PROVE  GroupInv'
<1>1. PICK late \in SUBSET due :
        /\ toSend' = [toSend EXCEPT ![p] =
             [q \in Peers |-> IF q \in {n} \ Slow(p)
                              THEN {} ELSE Flooded(p, due, late, q)]]
        /\ net' = net \cup
             {[from |-> p, to |-> n, tlv |-> t] :
                t \in IF n \in Slow(p) THEN {} ELSE Flooded(p, due, late, n)}
  BY DEF Serve
<1>2. n \in Peers
  BY DEF TypeOK, IsMap, Active, Linked
<1>3. \A r \in Peers : DOMAIN RR'[r] = DOMAIN RR[r]
  <2> DEFINE f == [m \in DOMAIN RR[p] |->
                    [q \in DOMAIN RR[p][m] |->
                      IF <<m, q>> \in due THEN RR[p][m][q] + 1 ELSE RR[p][m][q]]]
  <2>1. RR' = [RR EXCEPT ![p] = f]
    BY DEF Serve
  <2>2. DOMAIN f = DOMAIN RR[p]
    OBVIOUS
  <2> HIDE DEF f
  <2> QED BY <2>1, <2>2, Basics
<1>4. ASSUME NEW q \in Peers, NEW t \in Flooded(p, due, late, q)
      PROVE  t.type \in {"Data", "Ack"} => t.m \in DOMAIN RR[p]
  <2>1. ASSUME NEW s \in due PROVE Data(s[1]).m \in DOMAIN RR[p]
    BY DEF Waiting, ToServe, Data
  <2>2. CASE \/ t \in {Data(s[1]) : s \in {d \in due : d[2] = q}}
             \/ t \in {Data(s[1]) : s \in {d \in late : d[2] = q}}
    BY <2>1, <2>2
  <2>3. CASE t \in toSend[p][q]
    BY <2>3 DEF GroupInv, Has
  <2>4. CASE t = GoAway
    BY <2>4, Constructors
  <2> QED BY <2>2, <2>3, <2>4 DEF Flooded
<1>5. \A r, q \in Peers : \A t \in toSend'[r][q] :
        \/ t \in toSend[r][q]
        \/ t.type \in {"Data", "Ack"} => t.m \in DOMAIN RR'[r]
  <2>1. TAKE r, q \in Peers
  <2>2. CASE r = p
    <3>1. toSend'[p][q] \subseteq Flooded(p, due, late, q)
      BY <1>1, Basics
    <3> QED BY <1>3, <1>4, <2>2, <3>1
  <2>3. CASE r # p
    BY <1>1, <2>3, Basics
  <2> QED BY <2>2, <2>3
<1>6. \A w \in net' :
        \/ w \in net
        \/ w.tlv.type \in {"Data", "Ack"} => w.tlv.m \in DOMAIN RR'[w.from]
  BY <1>1, <1>2, <1>3, <1>4
<1> QED BY <1>3, <1>5, <1>6, InvStep, Basics DEF Serve

LEMMA FaultInv ==
  ASSUME TypeOK, GroupInv, NEW p \in Peers,
         Quit(p) \/ Crash(p) \/ \E q \in Active(p) : Silence(p, q)
  PROVE  GroupInv'
<1>1. UNCHANGED <<RR, said, shown>>
  BY DEF Quit, Crash, Silence, tables
<1>2. CASE Quit(p)
  <2>1. ASSUME NEW q \in Active(p), NEW t \in toSend[p][q] \cup {GoAway}
        PROVE  t.type \in {"Data", "Ack"} => t.m \in DOMAIN RR[p]
    <3>1. q \in Peers
      BY DEF TypeOK, IsMap, Active, Linked
    <3> QED BY <3>1, Constructors DEF GroupInv, Has
  <2>2. \A w \in net' :
          \/ w \in net
          \/ w.tlv.type \in {"Data", "Ack"} => w.tlv.m \in DOMAIN RR'[w.from]
    BY <1>1, <1>2, <2>1 DEF Quit
  <2> QED BY <1>1, <1>2, <2>2, InvStep, Basics DEF Quit, tables
<1>3. CASE Crash(p)
  BY <1>1, <1>3, InvStep, Basics DEF Crash, tables
<1>4. CASE \E q \in Active(p) : Silence(p, q)
  <2>1. PICK q \in Active(p) : Silence(p, q)
    BY <1>4
  <2>2. q \in Peers
    BY DEF TypeOK, IsMap, Active, Linked
  <2>3. \A r, s \in Peers : toSend'[r][s] \subseteq toSend[r][s]
    <3>1. toSend' = [toSend EXCEPT ![p][q] = {}] \/ UNCHANGED toSend
      BY <2>1 DEF Silence
    <3>2. CASE toSend' = [toSend EXCEPT ![p] = [toSend[p] EXCEPT ![q] = {}]]
      BY <2>2, <3>2, Basics
    <3>3. CASE UNCHANGED toSend
      BY <3>3
    <3> QED BY <3>1, <3>2, <3>3
  <2> QED BY <1>1, <2>1, <2>3, InvStep, Basics DEF Silence
<1> QED BY <1>2, <1>3, <1>4

LEMMA InvNext == TypeOK /\ GroupInv /\ [Next]_vars => GroupInv'
<1> SUFFICES ASSUME TypeOK, GroupInv, [Next]_vars PROVE GroupInv'
  OBVIOUS
<1>1. CASE \E m \in Messages : Say(m)
  BY <1>1, SayInv
<1>2. CASE \E w \in net : Receive(w)
  BY <1>2, ReceiveInv
<1>3. CASE \E p \in Peers : \E n \in Active(p) :
             \E due \in SUBSET Waiting(p) : Serve(p, n, due)
  BY <1>3, ServeInv
<1>4. CASE \E p \in Peers : Quit(p) \/ Crash(p)
  BY <1>4, FaultInv
<1>5. CASE \E p \in Peers : \E q \in Active(p) : Silence(p, q)
  BY <1>5, FaultInv
<1>6. CASE UNCHANGED vars
  BY <1>6 DEF vars, tables, GroupInv, NoFalseAck, Has
<1> QED BY <1>1, <1>2, <1>3, <1>4, <1>5, <1>6 DEF Next

\* GroupInv, in every group and whatever the network does.
THEOREM GroupInvariant == Spec => [](TypeOK /\ GroupInv)
BY TypeInit, TypeNext, InvInit, InvNext, PTL DEF Spec

\* An Ack or a Data on its way always proves that its sender has the message.
THEOREM AcksAreTrue == Spec => []NoFalseAck
BY GroupInvariant, PTL DEF GroupInv

-----------------------------------------------------------------------------
(* The group implements Broadcast. *)

\* To take a Data is to hear it, or to do nothing that shows.
LEMMA DataHeard ==
  ASSUME TypeOK, GroupInv, NEW w \in net, Receive(w)
  PROVE  [B!Next]_<<said, shown>>
<1> DEFINE p == w.to
           q == w.from
           t == w.tlv
<1>1. p \in Peers /\ q \in Peers /\ t \in TLV
  BY OnItsWay
<1>2. UNCHANGED said
  BY DEF Receive
<1>3. CASE UNCHANGED shown
  BY <1>2, <1>3
<1>4. CASE /\ t.type = "Data" /\ t.m \notin DOMAIN RR[p]
           /\ shown' = [shown EXCEPT ![p] = Append(@, t.m)]
  <2>1. t.m \in Messages
    BY <1>1, <1>4, TLVs
  <2>2. t.m \in said
    BY <1>1, <1>4 DEF GroupInv, NoFalseAck, Has
  <2>3. author[t.m] # p
    BY <1>4, <2>2 DEF GroupInv, Has
  <2>4. t.m \notin Range(shown[p])
    BY <1>1, <1>4 DEF GroupInv
  <2>5. t.m \notin B!Range(shown[p])
    BY <2>4 DEF B!Range, Range
  <2>6. B!Hear(p, t.m)
    BY <1>2, <1>4, <2>2, <2>3, <2>5 DEF B!Hear
  <2> QED BY <1>1, <2>1, <2>6 DEF B!Next
<1>5. \/ UNCHANGED shown
      \/ /\ t.type = "Data" /\ t.m \notin DOMAIN RR[p]
         /\ shown' = [shown EXCEPT ![p] = Append(@, t.m)]
  BY DEF Receive, HelloFrom, LongHelloFrom, DataFrom, AckFrom, GoAwayFrom,
         Ignored, Shown
<1> QED BY <1>3, <1>4, <1>5

\* Every group of peers is a broadcast, whatever its links, and whatever the
\* network loses, repeats or reorders and whoever leaves: what is heard was
\* said, and is heard once.
THEOREM GroupBroadcasts == Spec => Broadcasts
<1>1. Init => B!Init
  BY DEF Init, B!Init
<1>2. TypeOK /\ GroupInv /\ [Next]_vars => [B!Next]_<<said, shown>>
  <2> SUFFICES ASSUME TypeOK, GroupInv, [Next]_vars
               PROVE  [B!Next]_<<said, shown>>
    OBVIOUS
  <2>1. ASSUME NEW m \in Messages, Say(m) PROVE B!Next
    BY <2>1 DEF Say, B!Next, B!Say
  <2>2. ASSUME NEW w \in net, Receive(w) PROVE [B!Next]_<<said, shown>>
    BY <2>2, DataHeard
  <2>3. ASSUME NEW p \in Peers, NEW n \in Active(p),
               NEW due \in SUBSET Waiting(p), Serve(p, n, due)
        PROVE  UNCHANGED <<said, shown>>
    BY <2>3 DEF Serve
  <2>4. ASSUME NEW p \in Peers,
               Quit(p) \/ Crash(p) \/ \E q \in Active(p) : Silence(p, q)
        PROVE  UNCHANGED <<said, shown>>
    BY <2>4 DEF Quit, Crash, Silence
  <2>5. CASE UNCHANGED vars
    BY <2>5 DEF vars
  <2> QED BY <2>1, <2>2, <2>3, <2>4, <2>5 DEF Next
<1> QED BY <1>1, <1>2, GroupInvariant, PTL DEF Spec, Broadcasts, B!Spec
=============================================================================
