-------------------------------- MODULE Peer --------------------------------
(***************************************************************************)
(* One NetGDIF peer, as its background thread runs it: the tables of       *)
(* tables.cpp and mirc.cpp, one action per handler, and the phases of the  *)
(* loop of background() in the order the code runs them.  The other peers  *)
(* are the environment: any datagram of Datagrams may arrive at any poll.  *)
(* The main thread appears as UserMessage (sendMessage) and Quit.          *)
(*                                                                         *)
(* One tick of now is one second, the sleep(1) that ends an iteration.     *)
(***************************************************************************)
EXTENDS Integers, FiniteSets, Sequences, Maps

CONSTANTS
  Addr,               \* ADDRESS of every other peer
  myAddr,             \* our own ADDRESS, told to others in Neighbour TLVs
  Uuid, myId,         \* peer identities, and ours
  NoId,               \* an all-zero UUID, and the destination of a short Hello
  Nonce,              \* nonces of Data TLVs
  Datagrams,          \* what the sockets may deliver: see DatagramType
  Sockets,            \* sockets polled in an iteration: 2 in the code
  Multicast,          \* multifd > 0: short Hellos go to the multicast group
  MINUTE, HELLO_DELAY, HELLO_LONG_DELAY, SEND_PENDING_DELAY, DATA_LIFETIME,
  minSymNeighbours,
  MAX_RR,             \* 1000 in the code
  MAX_SENDS,          \* 5 in the code: transmissions before giving up
  Pow2,               \* Pow2[n] is 1 << n
  PACKET_MAX,         \* TLVs that fit in one packet of 1024 bytes
  MaxTime             \* bound on now, for model checking

-----------------------------------------------------------------------------
(* TLVs and tables. *)

DataId == [sender : Uuid, nonce : Nonce]

Hello(src, dst) == [type |-> "Hello", src |-> src, dst |-> dst]
Neighbour(a)    == [type |-> "Neighbour", addr |-> a]
Data(id)        == [type |-> "Data", id |-> id]
Ack(id)         == [type |-> "Ack", id |-> id]
GoAway(code)    == [type |-> "GoAway", code |-> code]

TLV ==
  [type : {"Hello"}, src : Uuid, dst : Uuid \cup {NoId}]
    \cup [type : {"Neighbour"}, addr : Addr \cup {myAddr}]
    \cup [type : {"Data", "Ack"}, id : DataId]
    \cup [type : {"GoAway"}, code : {"QUIT", "IDLE", "VIOLATION"}]

\* What parseDatagram makes of a packet: its TLVs grouped by type in
\* increasing order (MIRC_DGRAM is a std::map), and whether a TLV was
\* malformed.  Pad and Warning TLVs change no state and are left out.
DatagramType == [from : Addr, tlvs : Seq(TLV), valid : BOOLEAN]

INFOPAIR == [id : Uuid, lastHelloDate : Nat, lastHello16Date : Nat,
             symmetrical : BOOLEAN]

\* DATAINFO: for each neighbour of A still to be served, how many times the
\* data was sent to it and the next instant at which to send it.
Attempt  == [sent : 0..MAX_SENDS, due : Nat]
DATAINFO(A) == [toFlood : [A -> Attempt], receptionTime : Nat]

IsRR(rr) ==
  /\ DOMAIN rr \in SUBSET DataId
  /\ rr = [id \in DOMAIN rr |-> rr[id]]
  /\ \A id \in DOMAIN rr : \E A \in SUBSET Addr : rr[id] \in DATAINFO(A)

ASSUME ConstantsAssumption ==
  /\ myId \in Uuid /\ NoId \notin Uuid /\ myAddr \notin Addr
  /\ Datagrams \subseteq DatagramType
  /\ IsFiniteSet(Addr)
  /\ Multicast \in BOOLEAN
  /\ {MINUTE, HELLO_DELAY, HELLO_LONG_DELAY, SEND_PENDING_DELAY,
      DATA_LIFETIME, minSymNeighbours, MAX_RR, PACKET_MAX, Sockets,
      MaxTime} \subseteq Nat
  /\ MAX_SENDS \in Nat \ {0}

ASSUME Pow2Assumption ==
  /\ Pow2 \in [0..MAX_SENDS -> Nat]
  /\ Pow2[0] = 1
  /\ \A n \in 0..(MAX_SENDS - 1) : Pow2[n + 1] = 2 * Pow2[n]

VARIABLES
  pc,                 \* phase of background()
  now,                \* GetTime(), in seconds
  quit,               \* the flag main and the signal handler set
  polls,              \* sockets not yet polled in this iteration
  inbox,              \* TLVs of the datagram being handled, with its sender
  round,              \* neighbours the current send loop has not reached
  TVP, TVA, RR,       \* potential neighbours, active neighbours, recent data
  toSend,             \* TLVs waiting for each address
  pendingForFlood,    \* own messages not yet in RR
  lastNeighbourSentTime, lastCleanedTime, lastSendTime,
  lastHelloSent, lastLongHelloSent

\* History variables: what happened, for the properties to refer to.
VARIABLES
  authored,           \* own messages typed so far
  shown,              \* id -> how often it was displayed, and when last
  helloAt, longAt,    \* date of the last Hello, and of the last naming us
  knows               \* <<a, id>>: a has proved it holds the id now in RR

received == <<polls, inbox>>
timers   == <<lastNeighbourSentTime, lastCleanedTime, lastSendTime,
              lastHelloSent, lastLongHelloSent>>
tables   == <<TVP, TVA, RR, toSend>>
main     == <<quit, pendingForFlood, authored>>
history  == <<shown, helloAt, longAt, knows>>
vars     == <<pc, now, received, round, tables, timers, main, history>>

Phases == {"receive", "neighbours", "clean", "refresh", "pending", "checksend",
           "send", "sleep", "bye", "byesend", "closing", "done", "crashed",
           "parsing"}

TypeOK ==
  /\ pc \in Phases
  /\ now \in Nat
  /\ quit \in BOOLEAN
  /\ polls \in 0..Sockets
  /\ inbox \in Seq([from : Addr, tlv : TLV])
  /\ round \in SUBSET Addr
  /\ IsMap(TVP, Addr \cup {myAddr}, Uuid \cup {NoId})
  /\ IsMap(TVA, Addr, INFOPAIR)
  /\ IsRR(RR)
  /\ toSend \in [Addr -> SUBSET TLV]
  /\ pendingForFlood \in SUBSET DataId
  /\ lastNeighbourSentTime \in Nat /\ lastCleanedTime \in Nat
  /\ lastSendTime \in Nat /\ lastHelloSent \in Int /\ lastLongHelloSent \in Nat
  /\ authored \in SUBSET DataId
  /\ IsMap(shown, DataId, [times : Nat, last : Nat])
  /\ IsMap(helloAt, Addr, Nat) /\ IsMap(longAt, Addr, Nat)
  /\ knows \in SUBSET (Addr \X DataId)

Init ==
  /\ pc = "receive" /\ now = 0 /\ quit = FALSE
  /\ polls = Sockets /\ inbox = <<>> /\ round = {}
  /\ TVP = EmptyMap /\ TVA = EmptyMap /\ RR = EmptyMap
  /\ toSend = [a \in Addr |-> {}]
  /\ pendingForFlood = {} /\ authored = {}
  /\ lastNeighbourSentTime = 0 /\ lastCleanedTime = 0 /\ lastSendTime = 0
  /\ lastHelloSent = -HELLO_DELAY /\ lastLongHelloSent = 0
  /\ shown = EmptyMap /\ helloAt = EmptyMap /\ longAt = EmptyMap /\ knows = {}

-----------------------------------------------------------------------------
(* Helpers shared by the handlers. *)

\* Every delay of the code is tested with a strict inequality.
Elapsed(since, delay) == now - since > delay

Active      == DOMAIN TVA
\* Faulty variant: any active neighbour passes for symmetric.
Symmetric_Any == Active

Symmetric   == {a \in Active : TVA[a].symmetrical}

\* pushTLVToSend, to the addresses of A; the one-argument form takes Active.
PushTo(queues, A, tlvs) ==
  [a \in Addr |-> IF a \in A THEN queues[a] \cup tlvs ELSE queues[a]]

EraseFromSendList(queues, A) ==
  [a \in Addr |-> IF a \in A THEN {} ELSE queues[a]]

\* The pairs of toFlood the code creates: not sent yet, due within a second.
Fresh(A, wait) == [a \in A |-> [sent |-> 0, due |-> now + wait[a]]]

-----------------------------------------------------------------------------
(* Reception: doReceive, once for each socket. *)

\* A datagram is taken from a socket and parsed.
Deliver(d) ==
  /\ pc = "receive" /\ inbox = <<>> /\ polls > 0
  /\ polls' = polls - 1
  /\ inbox' = [i \in DOMAIN d.tlvs |-> [from |-> d.from, tlv |-> d.tlvs[i]]]
  /\ toSend' = IF d.valid THEN toSend
               ELSE PushTo(toSend, {d.from}, {GoAway("VIOLATION")})
  /\ UNCHANGED <<pc, now, round, TVP, TVA, RR, timers, main, history>>

\* A datagram is taken, and parseDatagram never returns: see Endless in Parser.
ParseForever ==
  /\ pc = "receive" /\ inbox = <<>> /\ polls > 0
  /\ pc' = "parsing"
  /\ UNCHANGED <<now, received, round, tables, timers, main, history>>

\* The receiver thread of this socket is still blocked in recvfrom.
NothingReceived ==
  /\ pc = "receive" /\ inbox = <<>> /\ polls > 0
  /\ polls' = polls - 1
  /\ UNCHANGED <<pc, now, inbox, round, tables, timers, main, history>>

\* manageDatagram: the next TLV goes to the handler of its type.
Managing(type) ==
  /\ pc = "receive" /\ inbox # <<>> /\ Head(inbox).tlv.type = type
  /\ inbox' = Tail(inbox)
  /\ UNCHANGED <<pc, now, polls, round, timers, main>>

ToMe(h) == h.dst = myId

\* The neighbour's entry once its Hello has been handled.
AfterHello(a, h) ==
  IF a \notin Active
  THEN [id |-> h.src, lastHelloDate |-> now, lastHello16Date |-> 0,
        symmetrical |-> ToMe(h)]
  ELSE [TVA[a] EXCEPT
          !.lastHelloDate = now,
          !.lastHello16Date = IF ~TVA[a].symmetrical /\ ToMe(h) THEN now ELSE @,
          !.symmetrical = @ \/ ToMe(h)]

\* Table_HelloFrom.  A short Hello of an unknown peer is answered by a long
\* one, which the code pushes to every active neighbour.
Table_HelloFrom(a, h) ==
  \/ /\ h.src = myId
     /\ UNCHANGED <<tables, history>>
  \/ /\ h.src # myId
     /\ TVP' = Put(TVP, a, h.src)
     /\ TVA' = Put(TVA, a, AfterHello(a, h))
     /\ toSend' = IF a \notin Active /\ h.dst = NoId
                  THEN PushTo(toSend, Active \cup {a}, {Hello(myId, h.src)})
                  ELSE toSend
     /\ helloAt' = Put(helloAt, a, now)
     /\ longAt' = IF ToMe(h) THEN Put(longAt, a, now) ELSE longAt
     /\ UNCHANGED <<RR, shown, knows>>

manageHellos ==
  /\ Managing("Hello")
  /\ Table_HelloFrom(Head(inbox).from, Head(inbox).tlv)

manageNeighbours ==
  /\ Managing("Neighbour")
  /\ LET toAdd == Head(inbox).tlv.addr IN
       TVP' = IF toAdd \in DOMAIN TVP THEN TVP ELSE Put(TVP, toAdd, NoId)
  /\ UNCHANGED <<TVA, RR, toSend, history>>

\* Faulty variant: one more entry let in.
Full_OneMore == Cardinality(DOMAIN RR) > MAX_RR + 1

\* RR.size() > MAX_RR
Full == Cardinality(DOMAIN RR) > MAX_RR

\* Faulty variant: the sender is flooded too.
FloodTargets_Sender(a) == Active

\* Whom a Data TLV received from a is flooded to.
FloodTargets(a) == Active \ {a}

\* RR[id].toFlood.erase(a)
Served(id, a) == [RR EXCEPT ![id].toFlood = Erase(@, {a})]

\* Table_DataFrom, by the cases of the code in their order.
Table_DataFrom(a, id) ==
  \/ /\ a \notin Symmetric                  \* not from a symmetric neighbour
     /\ UNCHANGED <<tables, history>>
  \/ /\ a \in Symmetric /\ id \notin DOMAIN RR
     /\ id.sender = myId                    \* one of ours comes back
     /\ toSend' = PushTo(toSend, {a}, {Ack(id)})
     /\ UNCHANGED <<TVP, TVA, RR, history>>
  \/ /\ a \in Symmetric /\ id \notin DOMAIN RR
     /\ id.sender # myId /\ Full            \* no room: dropped, no Ack
     /\ UNCHANGED <<tables, history>>
  \/ /\ a \in Symmetric /\ id \notin DOMAIN RR
     /\ id.sender # myId /\ ~Full           \* new: Ack, display, remember
     /\ toSend' = PushTo(toSend, {a}, {Ack(id)})
     /\ \E wait \in [FloodTargets(a) -> 0..1] :
          RR' = Put(RR, id, [toFlood |-> Fresh(FloodTargets(a), wait),
                             receptionTime |-> now])
     /\ shown' = Put(shown, id,
                     [times |-> IF id \in DOMAIN shown
                                THEN shown[id].times + 1 ELSE 1,
                      last |-> now])
     /\ knows' = {k \in knows : k[2] # id} \cup {<<a, id>>}
     /\ UNCHANGED <<TVP, TVA, helloAt, longAt>>
  \/ /\ a \in Symmetric /\ id \in DOMAIN RR \* seen: counts as an Ack
     /\ RR' = Served(id, a)
     /\ toSend' = PushTo(toSend, {a}, {Ack(id)})
     /\ knows' = knows \cup {<<a, id>>}
     /\ UNCHANGED <<TVP, TVA, shown, helloAt, longAt>>

manageDatas ==
  /\ Managing("Data")
  /\ Table_DataFrom(Head(inbox).from, Head(inbox).tlv.id)

Table_ACKFrom(a, id) ==
  /\ IF id \in DOMAIN RR
     THEN RR' = Served(id, a) /\ knows' = knows \cup {<<a, id>>}
     ELSE UNCHANGED <<RR, knows>>
  /\ UNCHANGED <<TVP, TVA, toSend, shown, helloAt, longAt>>

manageAcks ==
  /\ Managing("Ack")
  /\ Table_ACKFrom(Head(inbox).from, Head(inbox).tlv.id)

\* eraseFromTVA, for the addresses of A.  Its loop over RR erases from a copy
\* of each entry, so RR keeps its toFlood.
EraseFromTVA(A, queues) ==
  /\ TVA' = Erase(TVA, A)
  /\ RR' = RR
  /\ toSend' = EraseFromSendList(queues, A)

manageGoAways ==
  /\ Managing("GoAway")
  /\ EraseFromTVA({Head(inbox).from}, toSend)
  /\ UNCHANGED <<TVP, history>>

\* Every socket has been polled.
ReceptionDone ==
  /\ pc = "receive" /\ inbox = <<>> /\ polls = 0
  /\ pc' = "neighbours"
  /\ UNCHANGED <<now, received, round, tables, timers, main, history>>

-----------------------------------------------------------------------------
(* The periodic work of an iteration, in the order of the loop. *)

FloodNeighbours ==
  /\ pc = "neighbours" /\ pc' = "clean"
  /\ IF Elapsed(lastNeighbourSentTime, MINUTE)
     THEN /\ toSend' = PushTo(toSend, Active,
                              {Neighbour(b) : b \in Symmetric \cup {myAddr}})
          /\ lastNeighbourSentTime' = now
     ELSE UNCHANGED <<toSend, lastNeighbourSentTime>>
  /\ UNCHANGED <<now, received, round, TVP, TVA, RR, lastCleanedTime,
                 lastSendTime, lastHelloSent, lastLongHelloSent, main, history>>

\* Faulty variants: an age equal to the lifetime, and the age of the table.
Expired_Early == {id \in DOMAIN RR : now - RR[id].receptionTime >= DATA_LIFETIME}
Expired_All   == {id \in DOMAIN RR : Elapsed(lastCleanedTime, DATA_LIFETIME)}

Expired == {id \in DOMAIN RR : Elapsed(RR[id].receptionTime, DATA_LIFETIME)}

\* Table_CleanRR, when its turn has come.
CleanRR ==
  /\ pc = "clean" /\ pc' = "refresh"
  /\ IF Elapsed(lastCleanedTime, 2 * MINUTE)
     THEN RR' = Erase(RR, Expired) /\ lastCleanedTime' = now
     ELSE UNCHANGED <<RR, lastCleanedTime>>
  /\ UNCHANGED <<now, received, round, TVP, TVA, toSend, lastNeighbourSentTime,
                 lastSendTime, lastHelloSent, lastLongHelloSent, main, history>>

\* Faulty variant: short Hellos keep the symmetry.
LongExpired_AnyHello == {a \in Active : Elapsed(TVA[a].lastHelloDate, 2 * MINUTE)}

\* Neighbours whose last Hello is too old, and those whose last long Hello is.
Inactive    == {a \in Active : Elapsed(TVA[a].lastHelloDate, 2 * MINUTE)}
LongExpired == {a \in Active : Elapsed(TVA[a].lastHello16Date, 2 * MINUTE)}

\* TVA once inactive neighbours are gone and symmetry is brought up to date.
Refreshed ==
  [a \in Active \ Inactive |->
     [TVA[a] EXCEPT !.symmetrical = @ /\ a \notin LongExpired]]

\* sendHello: straight to the multicast group, or else queued for nonSym.
SendHello(queues, nonSym) ==
  IF Multicast THEN queues ELSE PushTo(queues, nonSym, {Hello(myId, NoId)})

LongHellos(queues, A) ==
  [a \in Addr |-> IF a \in A THEN queues[a] \cup {Hello(myId, TVA[a].id)}
                  ELSE queues[a]]

\* Table_RefreshTVA.
RefreshTVA ==
  LET nonSym == {a \in DOMAIN Refreshed : ~Refreshed[a].symmetrical}
      short  == /\ Cardinality(DOMAIN Refreshed \ nonSym) < minSymNeighbours
                /\ Elapsed(lastHelloSent, HELLO_DELAY)
      long   == Elapsed(lastLongHelloSent, HELLO_LONG_DELAY)
      \* GoAway code 2 is queued, then eraseFromTVA empties the queue.
      erased == EraseFromSendList(PushTo(toSend, Inactive, {GoAway("IDLE")}),
                                  Inactive)
      hello  == IF short THEN SendHello(erased, nonSym) ELSE erased
  IN /\ pc = "refresh" /\ pc' = "pending"
     /\ TVA' = Refreshed
     /\ toSend' = IF long THEN LongHellos(hello, DOMAIN Refreshed) ELSE hello
     /\ lastHelloSent' = IF short THEN now ELSE lastHelloSent
     /\ lastLongHelloSent' = IF long THEN now ELSE lastLongHelloSent
     /\ UNCHANGED <<now, received, round, TVP, RR, lastNeighbourSentTime,
                    lastCleanedTime, lastSendTime, main, history>>

\* pushPendingForFlood: own messages enter RR, for every active neighbour.
PushPendingForFlood ==
  /\ pc = "pending" /\ pc' = "checksend"
  /\ IF Active = {}
     THEN UNCHANGED <<RR, pendingForFlood, knows>>
     ELSE /\ \E wait \in [pendingForFlood -> [Active -> 0..1]] :
               RR' = [id \in DOMAIN RR \cup pendingForFlood |->
                        IF id \in pendingForFlood
                        THEN [toFlood |-> Fresh(Active, wait[id]),
                              receptionTime |-> now]
                        ELSE RR[id]]
          /\ pendingForFlood' = {}
          /\ knows' = {k \in knows : k[2] \notin pendingForFlood}
  /\ UNCHANGED <<now, received, round, TVP, TVA, toSend, timers, quit, authored,
                 shown, helloAt, longAt>>

-----------------------------------------------------------------------------
(* Sending: Flood and sendPendingTLVs, for each active neighbour in turn. *)

BeginSend ==
  /\ pc = "checksend"
  /\ IF Elapsed(lastSendTime, SEND_PENDING_DELAY)
     THEN /\ lastSendTime' = now /\ round' = Active
          /\ pc' = IF Active = {} THEN "sleep" ELSE "send"
     ELSE pc' = "sleep" /\ UNCHANGED <<lastSendTime, round>>
  /\ UNCHANGED <<now, received, tables, lastNeighbourSentTime, lastCleanedTime,
                 lastHelloSent, lastLongHelloSent, main, history>>

\* <<id, a>>: a is still to be served with id.
ToServe == {p \in (DOMAIN RR) \X Addr : p[2] \in DOMAIN RR[p[1]].toFlood}
Sent(p) == RR[p[1]].toFlood[p[2]].sent
Due(p)  == RR[p[1]].toFlood[p[2]].due

\* Faulty variant: one transmission less.
GivenUp_Early == {p \in ToServe : Sent(p) >= MAX_SENDS - 1}

GivenUp == {p \in ToServe : Sent(p) >= MAX_SENDS}
DueNow  == {p \in ToServe \ GivenUp : now >= Due(p)}

\* Whoever made Flood give up: out of TVA, in whatever order RR is traversed.
Slow == {p[2] : p \in GivenUp}

\* Faulty variant: the delay is counted backwards.
Attempted_Past(p, w) == [sent |-> Sent(p) + 1, due |-> now - w]

\* The next transmission, 2^n to 2^(n+1) seconds later.
Backoff(n)       == Pow2[n] .. Pow2[n + 1]
Attempted(p, w)  == [sent |-> Sent(p) + 1, due |-> now + w]

FloodedRR(wait) ==
  [id \in DOMAIN RR |->
    [RR[id] EXCEPT !.toFlood =
      [a \in DOMAIN @ |-> IF <<id, a>> \in DueNow
                          THEN Attempted(<<id, a>>, wait[<<id, a>>])
                          ELSE @[a]]]]

DataDue(a) == {Data(p[1]) : p \in {q \in DueNow : q[2] = a}}

\* GoAway code 2 goes to all of TVA, the slow neighbour included, whose queue
\* eraseFromTVA then empties; late is the Data queued for it after that.
FloodedQueues(late) ==
  [a \in Addr |->
    IF a \in Slow THEN late[a]
    ELSE toSend[a] \cup DataDue(a)
           \cup (IF a \in Active /\ Slow # {} THEN {GoAway("IDLE")} ELSE {})]

\* The loop over TVA, once a is served.  If Flood has just erased a, then the
\* loop's reference and iterator dangle: it may go anywhere, or crash.
ContinueLoop(a, next) ==
  \/ /\ a \notin Slow
     /\ round' = (round \ {a}) \ Slow
     /\ pc' = IF round' = {} THEN next ELSE pc
  \/ /\ a \in Slow
     /\ round' \in SUBSET ((round \ {a}) \ Slow)
     /\ pc' = IF round' = {} THEN next ELSE pc
  \/ /\ a \in Slow
     /\ round' = {} /\ pc' = "crashed"

\* sendPendingTLVs(fd, a): Flood, then one packet of what waits for a.
SendPendingTLVs(a, next) ==
  \E wait \in [DueNow -> 0..Pow2[MAX_SENDS]],
     late \in [Slow -> SUBSET UNION {DataDue(b) : b \in Slow}] :
    /\ \A p \in DueNow : wait[p] \in Backoff(Sent(p))
    /\ \A b \in Slow : late[b] \subseteq DataDue(b)
    /\ RR' = FloodedRR(wait)
    /\ TVA' = Erase(TVA, Slow)
    /\ LET queues == FloodedQueues(late) IN
         \E packet \in SUBSET queues[a] :
           /\ Cardinality(packet) <= PACKET_MAX
           /\ Cardinality(packet) = PACKET_MAX \/ packet = queues[a]
           /\ toSend' = [queues EXCEPT ![a] = @ \ packet]
    /\ ContinueLoop(a, next)
    /\ UNCHANGED <<now, received, TVP, timers, main, history>>

Send    == pc = "send"    /\ \E a \in round : SendPendingTLVs(a, "sleep")
ByeSend == pc = "byesend" /\ \E a \in round : SendPendingTLVs(a, "closing")

\* Faulty variant: the loop does not test quit.
Sleep_Forever ==
  /\ pc = "sleep" /\ now < MaxTime
  /\ now' = now + 1 /\ pc' = "receive" /\ polls' = Sockets
  /\ UNCHANGED <<inbox, round, tables, timers, main, history>>

\* sleep(1), then the test of the loop.
Sleep ==
  /\ pc = "sleep" /\ now < MaxTime
  /\ now' = now + 1
  /\ pc' = IF quit THEN "bye" ELSE "receive"
  /\ polls' = IF quit THEN polls ELSE Sockets
  /\ UNCHANGED <<inbox, round, tables, timers, main, history>>

-----------------------------------------------------------------------------
(* The end of background(), and the main thread. *)

Bye ==
  /\ pc = "bye"
  /\ toSend' = PushTo(toSend, Active, {GoAway("QUIT")})
  /\ round' = Active
  /\ pc' = IF Active = {} THEN "closing" ELSE "byesend"
  /\ UNCHANGED <<now, received, TVP, TVA, RR, timers, main, history>>

\* A block that mircQuit or freeAllTables frees although it was freed before:
\* a queued Data shares its block with RR, and a GoAway pushed to every
\* neighbour is one block in several queues.
FreedTwice ==
  \/ \E a \in Addr, id \in DataId : Data(id) \in toSend[a]
  \/ \E a, b \in Addr, code \in {"QUIT", "IDLE"} :
       a # b /\ GoAway(code) \in toSend[a] \cap toSend[b]

\* Sockets closed, receivers joined, mircQuit, freeAllTables.
Close ==
  /\ pc = "closing"
  /\ \/ /\ pc' = "done"
        /\ pendingForFlood' = {} /\ TVA' = EmptyMap /\ TVP' = EmptyMap
        /\ RR' = [id \in DOMAIN RR |-> [RR[id] EXCEPT !.toFlood = EmptyMap]]
     \/ /\ FreedTwice /\ pc' = "crashed"
        /\ UNCHANGED <<pendingForFlood, TVA, TVP, RR>>
  /\ UNCHANGED <<now, received, round, toSend, timers, quit, authored, history>>

\* sendMessage, a fragment at a time; nonces are taken to be distinct.
SendMessage(id) ==
  /\ pc # "crashed" /\ id.sender = myId /\ id \notin authored
  /\ pendingForFlood' = pendingForFlood \cup {id}
  /\ authored' = authored \cup {id}
  /\ UNCHANGED <<pc, now, received, round, tables, timers, quit, history>>

\* The command /quit, or Ctrl+C.  Not at the last instant of the model, so
\* that the shutdown is not cut short.
Quit ==
  /\ ~quit /\ now < MaxTime /\ pc # "crashed"
  /\ quit' = TRUE
  /\ UNCHANGED <<pc, now, received, round, tables, timers, pendingForFlood,
                 authored, history>>

\* The thread has ended, or is lost, or the model's time has run out.
Finished ==
  /\ pc \in {"done", "crashed", "parsing"} \/ (pc = "sleep" /\ now = MaxTime)
  /\ UNCHANGED vars

Reception ==
  \/ \E d \in Datagrams : Deliver(d)
  \/ ParseForever \/ NothingReceived \/ ReceptionDone
  \/ manageHellos \/ manageNeighbours \/ manageDatas \/ manageAcks
  \/ manageGoAways

Background ==
  \/ Reception
  \/ FloodNeighbours \/ CleanRR \/ RefreshTVA \/ PushPendingForFlood
  \/ BeginSend \/ Send \/ Sleep \/ Bye \/ ByeSend \/ Close

Next ==
  \/ Background
  \/ \E id \in DataId : SendMessage(id)
  \/ Quit
  \/ Finished

Spec == Init /\ [][Next]_vars

\* The background thread keeps running; nothing is assumed of the network or
\* of the user.
FairSpec == Spec /\ WF_vars(Background)

-----------------------------------------------------------------------------
(* What the peer promises. *)

\* A displayed message stays in RR as long as its lifetime lasts, so that a
\* late copy is recognised (tables.cpp, Table_DataFrom and Table_CleanRR).
RememberedWhileFresh ==
  \A id \in DOMAIN shown :
    id \in DOMAIN RR \/ Elapsed(shown[id].last, DATA_LIFETIME)

\* The same message is not displayed twice within a data lifetime: the
\* duplicates that version 1.1 of the program set out to remove.
NoDoubleDisplay ==
  [][\A id \in DOMAIN shown :
       shown'[id] # shown[id] => Elapsed(shown[id].last, DATA_LIFETIME)]_vars

\* A neighbour that has sent a Data or acknowledged it is not a target of its
\* flooding, whatever hellos, goodbyes and other copies came in between.
NoEcho ==
  \A k \in knows : k[2] \in DOMAIN RR => k[1] \notin DOMAIN RR[k[2]].toFlood

\* From the refresh to the end of the iteration, every active neighbour has
\* sent a Hello within two minutes, and every symmetric one a long Hello that
\* names us (Table_RefreshTVA).
NeighboursFresh ==
  pc \in {"pending", "checksend", "send", "sleep"} =>
    \A a \in Active :
      /\ a \in DOMAIN helloAt /\ ~Elapsed(helloAt[a], 2 * MINUTE)
      /\ TVA[a].symmetrical =>
           a \in DOMAIN longAt /\ ~Elapsed(longAt[a], 2 * MINUTE)

\* What is displayed comes from a peer that has named us in a long Hello
\* within two minutes and the second that an iteration takes.
DisplayFromSymmetric ==
  [][shown' # shown =>
       LET a == Head(inbox).from IN
         a \in DOMAIN longAt /\ ~Elapsed(longAt[a], 2 * MINUTE + 1)]_vars

\* A neighbour is given up as slow only when some data has been waiting for
\* it for the sum of the first MAX_SENDS - 1 delays (Flood).
Patience ==
  [][(pc = "send" \/ pc = "byesend") =>
       \A a \in Active \ Active' :
         \E id \in DOMAIN RR :
           /\ a \in DOMAIN RR[id].toFlood
           /\ now - RR[id].receptionTime >= Pow2[MAX_SENDS - 1] - 1]_vars

\* However many peers flood us, RR holds at most MAX_RR + 1 of their messages:
\* one more than the limit, since the code compares with > before inserting.
RRBound == Cardinality({id \in DOMAIN RR : id.sender # myId}) <= MAX_RR + 1

\* Once asked to quit, the background thread ends, unless it is lost in the
\* parser or falls victim to undefined behaviour: a loop over a neighbour just
\* erased, or a block freed twice.
QuitEnds == quit ~> pc \in {"done", "crashed", "parsing"}

-----------------------------------------------------------------------------
(* Inductive strengthenings of the safety properties. *)

\* RR dates a foreign message by its last display; own ones are never shown.
MemoryInv ==
  /\ \A id \in DOMAIN shown :
       /\ id.sender # myId /\ shown[id].last <= now
       /\ \/ id \in DOMAIN RR /\ RR[id].receptionTime = shown[id].last
          \/ Elapsed(shown[id].last, DATA_LIFETIME)
  /\ \A id \in pendingForFlood : id.sender = myId

\* Each transmission has waited for the delays before it.
BackoffInv ==
  \A id \in DOMAIN RR : \A a \in DOMAIN RR[id].toFlood :
    LET sent  == RR[id].toFlood[a].sent
        start == RR[id].receptionTime
    IN /\ start <= now
       /\ sent > 0 => now >= start + Pow2[sent - 1] - 1
       /\ RR[id].toFlood[a].due >= start + Pow2[sent] - 1

\* The dates in TVA are not later than the Hellos they stand for; after the
\* refresh none is too old.
HelloInv ==
  \A a \in Active :
    /\ a \in DOMAIN helloAt /\ helloAt[a] = TVA[a].lastHelloDate
    /\ TVA[a].lastHello16Date <= now
    /\ TVA[a].symmetrical => /\ a \in DOMAIN longAt
                             /\ longAt[a] >= TVA[a].lastHello16Date
    /\ pc \in {"pending", "checksend", "send", "sleep"} =>
         /\ ~Elapsed(TVA[a].lastHelloDate, 2 * MINUTE)
         /\ TVA[a].symmetrical => ~Elapsed(TVA[a].lastHello16Date, 2 * MINUTE)
    /\ pc = "receive" /\ TVA[a].symmetrical =>
         ~Elapsed(longAt[a], 2 * MINUTE + 1)

\* What is counted is finite, and own messages are our own.
BoundInv ==
  /\ IsFiniteSet(DOMAIN RR) /\ IsFiniteSet(pendingForFlood)
  /\ \A id \in pendingForFlood : id.sender = myId
  /\ RRBound

-----------------------------------------------------------------------------
(* What comments and documents say of the program, and the code does not do. *)

\* tables.cpp:288: erasing a neighbour also removes it from RR.
ErasedFromRR ==
  [][\A a \in Active \ Active' :
       \A id \in DOMAIN RR' : a \notin DOMAIN RR'[id].toFlood]_vars

\* tables.cpp:179: a neighbour loses its symmetry when no long Hello has come
\* for two minutes (and only then).
SymmetryKept ==
  [][pc = "refresh" =>
       \A a \in Symmetric \cap Active' :
         a \in DOMAIN longAt /\ ~Elapsed(longAt[a], 2 * MINUTE)
           => TVA'[a].symmetrical]_vars
=============================================================================
