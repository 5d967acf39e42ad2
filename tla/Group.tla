------------------------------- MODULE Group --------------------------------
(***************************************************************************)
(* Several peers and the network between them, within the lifetime of      *)
(* their messages (RR forgets nothing yet).  The network loses, repeats    *)
(* and reorders: net holds every TLV that was ever sent, and delivers any  *)
(* of them at any time, or never.  TLVs travel one by one, which allows    *)
(* all that packets allow; what fits a packet is Outgoing's.               *)
(*                                                                         *)
(* A peer is as in Peer, with the time taken away: that a delay has gone   *)
(* by is a choice, and so is the neighbour served next.                    *)
(***************************************************************************)
EXTENDS Integers, Sequences, FiniteSets, Maps

CONSTANTS
  Peers,
  Links,              \* pairs of peers that reach each other
  Messages, author,   \* author[m] types m
  MAX_SENDS,          \* 5 in the code
  Faults              \* bound on the silences, crashes and departures

Linked(p) == {q \in Peers : {p, q} \in Links}

Data(m)   == [type |-> "Data", m |-> m]
Ack(m)    == [type |-> "Ack", m |-> m]
Hello     == [type |-> "Hello"]
GoAway    == [type |-> "GoAway"]

\* A long Hello, that names d.
LongHello(d) == [type |-> "LongHello", dst |-> d]

TLV == {Data(m) : m \in Messages} \cup {Ack(m) : m \in Messages}
         \cup {LongHello(d) : d \in Peers} \cup {Hello, GoAway}

ASSUME GroupAssumption ==
  /\ IsFiniteSet(Peers)
  /\ Links \subseteq SUBSET Peers
  /\ \A l \in Links : Cardinality(l) = 2
  /\ author \in [Messages -> Peers]
  /\ MAX_SENDS \in Nat \ {0} /\ Faults \in Nat

VARIABLES
  TVA,                \* TVA[p][q]: whether p has heard q, or is symmetric with it
  RR,                 \* RR[p][m][q]: how often p sent m to q, still to be served
  toSend,             \* toSend[p][q]: TLVs that wait
  net,                \* every TLV sent, with its sender and its destination
  up                  \* the peers that run

\* History.
VARIABLES
  said, shown,        \* messages typed, and what each peer displayed
  cut,                \* <<p, q>>: p has removed q from TVA, or doubted it
  faults

tables == <<TVA, RR, toSend>>
vars   == <<tables, net, up, said, shown, cut, faults>>

Travelling ==
  {w \in [from : Peers, to : Peers, tlv : TLV] : {w.from, w.to} \in Links}

\* What p may have left to do for a message.
ToFlood(p) == UNION {[A -> 0..MAX_SENDS] : A \in SUBSET Linked(p)}

TypeOK ==
  /\ TVA = [p \in Peers |-> TVA[p]] /\ RR = [p \in Peers |-> RR[p]]
  /\ \A p \in Peers :
       /\ IsMap(TVA[p], Linked(p), {"heard", "symmetrical"})
       /\ IsMap(RR[p], Messages, ToFlood(p))
  /\ toSend \in [Peers -> [Peers -> SUBSET TLV]]
  /\ net \subseteq Travelling
  /\ up \subseteq Peers
  /\ said \subseteq Messages /\ shown \in [Peers -> Seq(Messages)]
  /\ cut \subseteq Peers \X Peers
  /\ faults \in 0..Faults

\* Neighbours that have met: each has had a long Hello of the other.
Init ==
  /\ TVA = [p \in Peers |-> [q \in Linked(p) |-> "symmetrical"]]
  /\ RR = [p \in Peers |-> EmptyMap]
  /\ toSend = [p \in Peers |-> [q \in Peers |-> {}]]
  /\ net = {w \in Travelling : w.tlv \in {Hello, LongHello(w.to)}}
  /\ up = Peers /\ said = {} /\ shown = [p \in Peers |-> <<>>]
  /\ cut = {} /\ faults = 0

Active(p) == DOMAIN TVA[p]

-----------------------------------------------------------------------------
(* Handlers; w is the TLV that p = w.to receives from q = w.from. *)

\* pushTLVToSend(tlv, q)
Push(p, q, tlv) == toSend' = [toSend EXCEPT ![p][q] = @ \cup {tlv}]

\* pushTLVToSend, to the peers of A.
PushTo(p, A, tlv) ==
  toSend' = [toSend EXCEPT ![p] =
               [q \in Peers |-> IF q \in A THEN @[q] \cup {tlv} ELSE @[q]]]

\* Table_HelloFrom, for a short Hello and for a long one.  The answer to the
\* former goes to all of TVA.
HelloFrom(p, q) ==
  /\ IF q \in Active(p) THEN UNCHANGED <<TVA, toSend>>
     ELSE /\ TVA' = [TVA EXCEPT ![p] = Put(@, q, "heard")]
          /\ PushTo(p, Active(p) \cup {q}, LongHello(q))
  /\ UNCHANGED <<RR, shown, cut>>

\* q is symmetric if it names p, and otherwise as a short Hello leaves it.
LongHelloFrom(p, q, d) ==
  /\ TVA' = IF d # p /\ q \in Active(p) THEN TVA
            ELSE [TVA EXCEPT ![p] =
                    Put(@, q, IF d = p THEN "symmetrical" ELSE "heard")]
  /\ UNCHANGED <<RR, toSend, shown, cut>>

\* Faulty variants of the handler of a Data: the one who is not heard in both
\* directions gets its Ack; a message known is displayed all the same; and
\* whoever has the message stands for all.
Ignored_Acked(p, q, m) == Push(p, q, Ack(m)) /\ UNCHANGED <<RR, shown>>

Ignored(p, q, m) == UNCHANGED <<RR, toSend, shown>>

Shown_Again(p, m) == [shown EXCEPT ![p] = Append(@, m)]

\* writeLine(data.data), the first time.
Shown(p, m) ==
  IF m \in DOMAIN RR[p] THEN shown ELSE [shown EXCEPT ![p] = Append(@, m)]

Served_All(p, m, q) == [RR EXCEPT ![p][m] = EmptyMap]

\* RR[m].toFlood.erase(q)
Served(p, m, q) == [RR EXCEPT ![p][m] = Erase(@, {q})]

\* toFlood, for a message that comes from the peers of F.
Offered(p, m, F) ==
  [RR EXCEPT ![p] = Put(@, m, [q \in Active(p) \ F |-> 0])]

\* Table_DataFrom
DataFrom(p, q, m) ==
  /\ IF q \in Active(p) /\ TVA[p][q] = "symmetrical"
     THEN /\ Push(p, q, Ack(m)) /\ shown' = Shown(p, m)
          /\ RR' = IF m \in DOMAIN RR[p] THEN Served(p, m, q)
                                         ELSE Offered(p, m, {q})
     ELSE Ignored(p, q, m)
  /\ UNCHANGED <<TVA, cut>>

\* Table_ACKFrom
AckFrom(p, q, m) ==
  /\ RR' = IF m \in DOMAIN RR[p] THEN Served(p, m, q) ELSE RR
  /\ UNCHANGED <<TVA, toSend, shown, cut>>

\* eraseFromTVA: toFlood is left as it is, its loop being on a copy.
GoAwayFrom(p, q) ==
  /\ TVA' = [TVA EXCEPT ![p] = Erase(@, {q})]
  /\ toSend' = [toSend EXCEPT ![p][q] = {}]
  /\ cut' = cut \cup {<<p, q>>}
  /\ UNCHANGED <<RR, shown>>

Receive(w) ==
  LET p == w.to  q == w.from  t == w.tlv IN
  /\ p \in up
  /\ \/ t.type = "Hello"     /\ HelloFrom(p, q)
     \/ t.type = "LongHello" /\ LongHelloFrom(p, q, t.dst)
     \/ t.type = "Data"      /\ DataFrom(p, q, t.m)
     \/ t.type = "Ack"       /\ AckFrom(p, q, t.m)
     \/ t.type = "GoAway"    /\ GoAwayFrom(p, q)
  /\ UNCHANGED <<net, up, said, faults>>

\* pushPendingForFlood, with neighbours.
Say(m) ==
  LET p == author[m] IN
  /\ p \in up /\ m \notin said /\ Active(p) # {}
  /\ RR' = Offered(p, m, {}) /\ said' = said \cup {m}
  /\ UNCHANGED <<TVA, toSend, net, up, shown, cut, faults>>

-----------------------------------------------------------------------------
(* Flood and sendPendingTLVs. *)

\* <<m, q>>: q is to be served with m.
ToServe(p) == {s \in Messages \X Peers :
                 s[1] \in DOMAIN RR[p] /\ s[2] \in DOMAIN RR[p][s[1]]}

\* Faulty variant: one sending more.
GivenUp_Late(p) == {s \in ToServe(p) : RR[p][s[1]][s[2]] > MAX_SENDS}

\* q is given up, or not yet.
GivenUp(p) == {s \in ToServe(p) : RR[p][s[1]][s[2]] >= MAX_SENDS}
Waiting(p) == ToServe(p) \ GivenUp(p)
Slow(p)    == {s[2] : s \in GivenUp(p)}

\* What waits for q once Flood has run.  GoAways go to all of TVA but those
\* that are erased from it, whose queues are emptied, and then hold what is
\* pushed late.
Flooded(p, due, late, q) ==
  LET datas(S) == {Data(s[1]) : s \in {d \in S : d[2] = q}} IN
  IF q \in Slow(p) THEN datas(late)
  ELSE toSend[p][q] \cup datas(due)
         \cup (IF q \in Active(p) /\ Slow(p) # {} THEN {GoAway} ELSE {})

\* sendPendingTLVs, for a neighbour r.  The loop that calls it may end anywhere
\* once Flood has removed r from TVA, and r is then not served (nothing is said
\* of a program that crashes there: see Peer).
Serve(p, r, due) ==
  /\ p \in up /\ r \in Active(p) /\ due \subseteq Waiting(p)
  /\ RR' = [RR EXCEPT ![p] =
             [m \in DOMAIN @ |->
               [q \in DOMAIN @[m] |->
                 IF <<m, q>> \in due THEN @[m][q] + 1 ELSE @[m][q]]]]
  /\ TVA' = [TVA EXCEPT ![p] = Erase(@, Slow(p))]
  /\ \E late \in SUBSET {d \in due : d[2] \in Slow(p)} :
       /\ toSend' = [toSend EXCEPT ![p] =
            [q \in Peers |-> IF q \in {r} \ Slow(p)
                             THEN {} ELSE Flooded(p, due, late, q)]]
       /\ net' = net \cup
            {[from |-> p, to |-> r, tlv |-> t] :
               t \in IF r \in Slow(p) THEN {} ELSE Flooded(p, due, late, r)}
  /\ cut' = cut \cup ({p} \X Slow(p))
  /\ UNCHANGED <<up, said, shown, faults>>

-----------------------------------------------------------------------------
(* Silence, departures and crashes. *)

Fault == faults < Faults /\ faults' = faults + 1

\* Table_RefreshTVA: no Hello of q for two minutes, or no long one.
Silence(p, q) ==
  /\ p \in up /\ q \in Active(p) /\ Fault
  /\ \/ /\ TVA' = [TVA EXCEPT ![p] = Erase(@, {q})]
        /\ toSend' = [toSend EXCEPT ![p][q] = {}]
     \/ /\ TVA' = [TVA EXCEPT ![p][q] = "heard"]
        /\ UNCHANGED toSend
  /\ cut' = cut \cup {<<p, q>>}
  /\ UNCHANGED <<RR, net, up, said, shown>>

\* The goodbye of background(), which goes with all that waits.
Quit(p) ==
  /\ p \in up /\ Fault /\ up' = up \ {p}
  /\ net' = net \cup
       UNION {{[from |-> p, to |-> q, tlv |-> t] :
                 t \in toSend[p][q] \cup {GoAway}} : q \in Active(p)}
  /\ UNCHANGED <<tables, said, shown, cut>>

Crash(p) ==
  /\ p \in up /\ Fault /\ up' = up \ {p}
  /\ UNCHANGED <<tables, net, said, shown, cut>>

Next ==
  \/ \E m \in Messages : Say(m)
  \/ \E w \in net : Receive(w)
  \/ \E p \in Peers : \E r \in Active(p) :
       \E due \in SUBSET Waiting(p) : Serve(p, r, due)
  \/ \E p \in Peers : Quit(p) \/ Crash(p)
  \/ \E p \in Peers : \E q \in Active(p) : Silence(p, q)

Spec == Init /\ [][Next]_vars

\* Every delay ends: while a peer has neighbours, what is to be served comes to
\* be due, or given up.  Of the network nothing is asked.
FairSpec ==
  /\ Spec
  /\ \A p \in Peers : \A m \in Messages : \A q \in Linked(p) :
       WF_vars(/\ <<m, q>> \in ToServe(p)
               /\ \E r \in Active(p) : \E due \in SUBSET Waiting(p) :
                    <<m, q>> \in due \cup GivenUp(p) /\ Serve(p, r, due))

-----------------------------------------------------------------------------
(* Properties. *)

\* The group is a broadcast: nobody hears what was not said, nor anything
\* twice, whatever the network does to what travels.
B == INSTANCE Broadcast WITH heard <- shown
Broadcasts == B!Spec

Has(p, m) == m \in DOMAIN RR[p]

\* An Ack, or a Data, on its way proves that its sender has the message: a
\* peer is never taken off toFlood for a message that it has not got, though
\* TLVs may be late, and those of peers not symmetric are ignored.
NoFalseAck ==
  \A w \in net :
    w.tlv.type \in {"Data", "Ack"} => Has(w.from, w.tlv.m)

\* What makes the group a broadcast, and keeps it one: a peer speaks only of
\* messages that it has, has only what was said, displays only what it has,
\* and authors have what they said.
GroupInv ==
  /\ NoFalseAck
  /\ \A p, q \in Peers : \A t \in toSend[p][q] :
       t.type \in {"Data", "Ack"} => Has(p, t.m)
  /\ \A p \in Peers : DOMAIN RR[p] \subseteq said
  /\ \A m \in said : Has(author[m], m)
  /\ \A p \in Peers : Range(shown[p]) \subseteq DOMAIN RR[p]

\* q has m too; or one of the two has left, or has cut the other off.
Settled(p, q, m) ==
  Has(q, m) \/ <<p, q>> \in cut \/ <<q, p>> \in cut \/ ~({p, q} \subseteq up)

\* Flooding is reliable, hop by hop: what a peer has comes to each of its
\* neighbours, unless one of the two has left or has cut the other off.  Who
\* else leaves, and what is lost, does not matter.  (Both sides only grow, so
\* that this says as much as one ~> for each hop.)
HopReliable ==
  []<>(\A p \in Peers : \A q \in Linked(p) : \A m \in Messages :
         Has(p, m) => Settled(p, q, m))
=============================================================================
