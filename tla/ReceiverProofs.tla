--------------------------- MODULE ReceiverProofs ---------------------------
(***************************************************************************)
(* Proofs about the receiver threads: the hand-off of datagrams is a       *)
(* mailbox of one place, for any number of sockets and of datagrams.       *)
(* Where it matters it is so of the flags as written: see module Receiver. *)
(***************************************************************************)
EXTENDS Receiver, TLAPS

LEMMA TypeNext == TypeOK /\ [Next]_vars => TypeOK'
<1> SUFFICES ASSUME TypeOK, [Next]_vars
             PROVE  TypeOK'
  OBVIOUS
<1>0. /\ N \in Nat \ {0} /\ cur \in 1..N
      /\ cur < N => cur + 1 \in 1..N
      /\ 1 \in 1..N
  BY ReceiverAssumption DEF TypeOK, Sockets
<1>1. CASE Main
  BY <1>1 DEF TypeOK, Main, StartBackground, MainLoop, JoinBackground, Interrupt,
     LineRead, flags, buffers
<1>2. ASSUME NEW s \in Sockets, Receive(s)
      PROVE  TypeOK'
  <2>1. CASE RecvFrom(s)
    <3>1. /\ recvThread' \in [Sockets -> ThreadStates]
          /\ UNCHANGED <<main, back, cur, quit, open, readFlag, receivingFlag,
                         folded, handled>>
      BY <2>1 DEF TypeOK, RecvFrom, flags, ThreadStates
    <3>2. taken[s] \in Nat /\ taken[s] + 1 \in Nat
      BY DEF TypeOK
    <3>3. rawUDP' \in [Sockets -> Nat] /\ taken' \in [Sockets -> Nat]
      <4>1. rawUDP \in [Sockets -> Nat] /\ taken \in [Sockets -> Nat]
        BY DEF TypeOK
      <4>2. \/ /\ taken' = [taken EXCEPT ![s] = taken[s] + 1]
               /\ rawUDP' = [rawUDP EXCEPT ![s] = taken[s] + 1]
            \/ taken' = taken /\ rawUDP' = [rawUDP EXCEPT ![s] = 0]
        BY <2>1 DEF RecvFrom
      <4> QED
        BY <3>2, <4>1, <4>2
    <3> QED
      BY <3>1, <3>3 DEF TypeOK
  <2>2. CASE Filled(s)
    BY <2>2 DEF TypeOK, Filled, buffers, ThreadStates
  <2>3. CASE Release(s)
    BY <2>3 DEF TypeOK, Release, buffers, ThreadStates
  <2> QED
    BY <1>2, <2>1, <2>2, <2>3 DEF Receive
<1>3. CASE Background
  <2>1. CASE Start \/ Setup \/ Work \/ Poll
    BY <2>1 DEF TypeOK, Start, Setup, Work, Poll, flags, buffers, Polling
  <2>2. CASE Loop
    BY <1>0, <2>2 DEF TypeOK, Loop, flags, buffers, Polling, Sockets
  <2>3. CASE JoinReceiver
    BY <2>3 DEF TypeOK, JoinReceiver, flags, buffers, Polling, ThreadStates
  <2>4. CASE Handle
    BY <2>4 DEF TypeOK, Handle, buffers, Polling
  <2>7. CASE ParseForever
    BY <2>7 DEF TypeOK, ParseForever, flags, buffers, Polling
  <2>5. CASE Rearm
    BY <1>0, <2>5
    DEF TypeOK, Rearm, NextSocket, buffers, Polling, Sockets, ThreadStates
  <2>6. CASE Rejoin
    BY <1>0, <2>6
    DEF TypeOK, Rejoin, NextSocket, flags, buffers, Polling, Sockets, ThreadStates
  <2> QED
    BY <1>3, <2>1, <2>2, <2>3, <2>4, <2>5, <2>6, <2>7 DEF Background
<1>4. CASE UNCHANGED vars
  BY <1>4 DEF TypeOK, vars, flags, buffers
<1> QED
  BY <1>1, <1>2, <1>3, <1>4 DEF Next, Finished

\* The variables keep their types.
THEOREM ThreadTypes == Spec => []TypeOK
<1>1. Init => TypeOK
  <2>1. <<>> \in Seq(Nat) /\ 1 \in Sockets
    BY ReceiverAssumption DEF Sockets
  <2> SUFFICES ASSUME Init
               PROVE  TypeOK
    OBVIOUS
  <2>2. handled \in [Sockets -> Seq(Nat)] /\ cur \in Sockets
    BY <2>1 DEF Init
  <2>3. /\ recvThread \in [Sockets -> ThreadStates]
        /\ readFlag \in [Sockets -> BOOLEAN]
        /\ receivingFlag \in [Sockets -> BOOLEAN]
    BY DEF Init, ThreadStates
  <2>4. rawUDP \in [Sockets -> Nat] /\ taken \in [Sockets -> Nat]
    BY DEF Init
  <2> QED
    BY <2>2, <2>3, <2>4 DEF Init, TypeOK
<1> QED
  BY <1>1, TypeNext, PTL DEF Spec

\* No receiver touches a buffer while it is handled, however the compiler
\* reads the flags.
THEOREM ExclusiveHolds == Spec => []Exclusive
<1>1. Init => Exclusive
  BY DEF Init, Exclusive
<1>2. TypeOK /\ Exclusive /\ [Next]_vars => Exclusive'
  <2> SUFFICES ASSUME TypeOK, Exclusive, [Next]_vars,
                      back' \in {"handle", "parsing"}
               PROVE  recvThread'[cur'] = "joined"
    BY DEF Exclusive
  <2>1. CASE back \notin {"handle", "parsing"}
    BY <2>1 DEF TypeOK, Next, Main, StartBackground, MainLoop, JoinBackground,
       Interrupt, LineRead, Receive, RecvFrom, Filled, Release, Background, Start,
       Setup, Loop, Poll, JoinReceiver, ParseForever, Handle, Rearm, NextSocket,
       Work, Rejoin, Finished, vars
  <2>2. CASE back \in {"handle", "parsing"}
    BY <2>2 DEF Exclusive, TypeOK, Next, Main, StartBackground, MainLoop,
       JoinBackground, Interrupt, LineRead, Receive, RecvFrom, Filled, Release,
       Background, Start, Setup, Loop, Poll, JoinReceiver, ParseForever, Handle,
       Rearm, Work, Rejoin, Finished, vars
  <2> QED
    BY <2>1, <2>2
<1> QED
  BY <1>1, <1>2, ThreadTypes, PTL DEF Spec
-----------------------------------------------------------------------------
(* The inductive invariant of the hand-off. *)

\* FlagsInv(s) depends on these alone.
LEMMA FlagsFrame ==
  ASSUME NEW s \in Sockets, FlagsInv(s),
         recvThread'[s] = recvThread[s], readFlag'[s] = readFlag[s],
         receivingFlag'[s] = receivingFlag[s], rawUDP'[s] = rawUDP[s],
         taken'[s] = taken[s], handled'[s] = handled[s],
         recvThread[s] = "joined" =>
           \/ back' = back /\ cur' = cur
           \/ back' \in {"ended", "crashed"}
           \/ back = "rejoin" /\ back' = "rejoin" /\ (s < cur => s < cur')
  PROVE  FlagsInv(s)'
BY DEF FlagsInv, Empty, Loaded

LEMMA HandNext ==
  ASSUME ~folded, TypeOK, AsWritten, [Next]_vars
  PROVE  AsWritten'
<1>0. /\ N \in Nat /\ cur \in 1..N /\ cur \in Sockets
      /\ \A s \in Sockets : /\ FlagsInv(s) /\ handled[s] \in Seq(Nat)
                            /\ Len(handled[s]) \in Nat /\ taken[s] \in Nat
                            /\ s \in Nat
  BY ReceiverAssumption DEF TypeOK, AsWritten, Sockets
<1>1. CASE Main
  <2>1. /\ UNCHANGED <<recvThread, readFlag, receivingFlag, rawUDP, taken, handled,
                       cur>>
        /\ back' = back \/ (back = "none" /\ back' = "start")
        /\ main' = "naming" => main = "naming" /\ back' = back
    BY <1>1 DEF AsWritten, Main, StartBackground, MainLoop, JoinBackground, Interrupt,
       LineRead, flags, buffers
  <2>2. \A s \in Sockets : FlagsInv(s)'
    BY <1>0, <2>1, FlagsFrame DEF FlagsInv
  <2> QED
    BY <1>0, <2>1, <2>2 DEF AsWritten
<1>2. ASSUME NEW s \in Sockets, Receive(s)
      PROVE  AsWritten'
  <2>1. /\ UNCHANGED <<main, back, cur, handled>> /\ recvThread[s] # "joined"
        /\ recvThread' = [recvThread EXCEPT ![s] = recvThread'[s]]
        /\ \A t \in Sockets \ {s} :
             /\ recvThread'[t] = recvThread[t] /\ readFlag'[t] = readFlag[t]
             /\ receivingFlag'[t] = receivingFlag[t] /\ rawUDP'[t] = rawUDP[t]
             /\ taken'[t] = taken[t]
    BY <1>2 DEF TypeOK, Receive, RecvFrom, Filled, Release, flags, buffers
  <2>2. FlagsInv(s)'
    <3>1. CASE RecvFrom(s)
      <4>1. /\ recvThread'[s] = "returned" /\ readFlag[s] /\ receivingFlag[s]
            /\ UNCHANGED <<readFlag, receivingFlag, handled>> /\ Empty(s)
        BY <1>0, <3>1 DEF TypeOK, RecvFrom, flags, FlagsInv
      <4>2. \/ taken'[s] = taken[s] + 1 /\ rawUDP'[s] = taken[s] + 1
            \/ taken'[s] = taken[s] /\ rawUDP'[s] = 0
        BY <3>1 DEF TypeOK, RecvFrom
      <4>3. Loaded(s)'
        BY <4>1, <4>2 DEF Loaded, Empty
      <4> QED
        BY <4>1, <4>3 DEF FlagsInv
    <3>2. CASE Filled(s)
      <4>1. /\ readFlag[s] /\ receivingFlag[s] /\ Loaded(s)
            /\ UNCHANGED <<receivingFlag, rawUDP, taken, handled>>
        BY <1>0, <3>2 DEF Filled, FlagsInv, buffers
      <4>2. Loaded(s)'
        BY <4>1 DEF Loaded, Empty
      <4>3. \/ recvThread'[s] = "ended" /\ readFlag'[s]
            \/ recvThread'[s] = "filled" /\ ~readFlag'[s]
        BY <3>2, <4>1 DEF TypeOK, Filled
      <4> QED
        BY <4>1, <4>2, <4>3 DEF FlagsInv
    <3>3. CASE Release(s)
      <4>1. /\ ~readFlag[s] /\ Loaded(s)
            /\ UNCHANGED <<readFlag, rawUDP, taken, handled>>
            /\ recvThread'[s] = "ended" /\ ~receivingFlag'[s]
        BY <1>0, <3>3 DEF TypeOK, Release, FlagsInv, buffers
      <4>2. Loaded(s)'
        BY <4>1 DEF Loaded, Empty
      <4> QED
        BY <4>1, <4>2 DEF FlagsInv
    <3> QED
      BY <1>2, <3>1, <3>2, <3>3 DEF Receive
  <2>3. ASSUME NEW t \in Sockets, t # s
        PROVE  FlagsInv(t)'
    BY <1>0, <2>1, <2>3, FlagsFrame
  <2>4. readFlag'[s] => readFlag[s]
    BY <1>2 DEF TypeOK, Receive, RecvFrom, Filled, Release, flags
  <2> QED
    BY <1>0, <2>1, <2>2, <2>3, <2>4 DEF AsWritten
<1>3. CASE Background
  <2>0. UNCHANGED <<main, rawUDP, taken>> /\ main # "naming"
    BY <1>3 DEF AsWritten, Background, Start, Setup, Loop, Poll, JoinReceiver, Handle,
       ParseForever, Rearm, Work, Rejoin, flags, buffers
  <2>1. CASE Start \/ Setup \/ Loop \/ Poll \/ Work
    <3>1. /\ UNCHANGED <<recvThread, readFlag, receivingFlag, handled>>
          /\ back \notin {"handle", "parsing", "rearm", "rejoin", "ended", "crashed"}
          /\ back' \notin {"handle", "parsing"}
          /\ back' = "join" => ~readFlag[cur] /\ cur' = cur
      BY <2>1 DEF Start, Setup, Loop, Poll, Work, flags
    <3>2. ASSUME NEW s \in Sockets
          PROVE  FlagsInv(s)' /\ recvThread[s] # "joined"
      <4>1. recvThread[s] # "joined"
        BY <1>0, <3>1 DEF FlagsInv
      <4> QED
        BY <1>0, <2>0, <3>1, <4>1, FlagsFrame
    <3> QED
      BY <2>0, <3>1, <3>2 DEF AsWritten
  <2>2. CASE JoinReceiver
    <3>1. /\ back = "join" /\ recvThread[cur] = "ended" /\ back' = "handle"
          /\ recvThread'[cur] = "joined" /\ UNCHANGED <<cur, readFlag, receivingFlag,
                                                        handled>>
          /\ \A s \in Sockets \ {cur} : recvThread'[s] = recvThread[s]
      BY <1>0, <2>2 DEF TypeOK, JoinReceiver, flags
    <3>2. ~readFlag[cur] /\ ~receivingFlag[cur] /\ Loaded(cur)
      BY <1>0, <3>1 DEF AsWritten, FlagsInv
    <3>3. Loaded(cur)'
      BY <2>0, <3>1, <3>2 DEF Loaded, Empty
    <3>4. FlagsInv(cur)'
      BY <3>1, <3>2, <3>3 DEF FlagsInv
    <3>5. ASSUME NEW s \in Sockets, s # cur
          PROVE  FlagsInv(s)'
      <4>1. recvThread[s] # "joined"
        BY <1>0, <3>1, <3>5 DEF FlagsInv
      <4> QED
        BY <1>0, <2>0, <3>1, <3>5, <4>1, FlagsFrame
    <3> QED
      BY <2>0, <3>1, <3>4, <3>5 DEF AsWritten
  <2>3. CASE Handle
    <3>1. /\ back = "handle" /\ back' = "rearm" /\ readFlag'[cur]
          /\ UNCHANGED <<cur, recvThread, receivingFlag>>
          /\ handled'[cur] = IF rawUDP[cur] = 0 THEN handled[cur]
                             ELSE Append(handled[cur], rawUDP[cur])
          /\ \A s \in Sockets \ {cur} : /\ readFlag'[s] = readFlag[s]
                                        /\ handled'[s] = handled[s]
      BY <1>0, <2>3 DEF TypeOK, Handle
    <3>2. recvThread[cur] = "joined"
      BY <3>1 DEF AsWritten
    <3>3. ~receivingFlag[cur] /\ Loaded(cur)
      BY <1>0, <3>1, <3>2 DEF FlagsInv
    <3>4. Empty(cur)'
      <4>1. rawUDP[cur] \in Nat /\ Len(Append(handled[cur], rawUDP[cur]))
                                     = Len(handled[cur]) + 1
        BY <1>0 DEF TypeOK
      <4> QED
        BY <1>0, <2>0, <3>1, <3>3, <4>1 DEF Loaded, Empty
    <3>5. FlagsInv(cur)'
      BY <3>1, <3>2, <3>3, <3>4 DEF FlagsInv
    <3>6. ASSUME NEW s \in Sockets, s # cur
          PROVE  FlagsInv(s)'
      <4>1. recvThread[s] # "joined"
        BY <1>0, <3>1, <3>6 DEF FlagsInv
      <4> QED
        BY <1>0, <2>0, <3>1, <3>6, <4>1, FlagsFrame
    <3> QED
      BY <2>0, <3>1, <3>5, <3>6 DEF AsWritten
  <2>4. CASE Rearm
    <3>1. /\ back = "rearm" /\ back' \in {"poll", "work"}
          /\ UNCHANGED <<readFlag, handled>>
          /\ \A s \in Sockets \ {cur} :
               /\ recvThread'[s] = recvThread[s]
               /\ receivingFlag'[s] = receivingFlag[s]
      BY <1>0, <2>4 DEF TypeOK, Rearm, NextSocket
    <3>2. ASSUME NEW s \in Sockets, s # cur
          PROVE  FlagsInv(s)'
      <4>1. recvThread[s] # "joined"
        BY <1>0, <3>1, <3>2 DEF FlagsInv
      <4> QED
        BY <1>0, <2>0, <3>1, <3>2, <4>1, FlagsFrame
    <3>3. ASSUME NEW s \in Sockets, s = cur
          PROVE  FlagsInv(s)'
      <4>1. CASE readFlag[s] /\ ~receivingFlag[s]
        <5>1. recvThread'[s] = "blocked" /\ receivingFlag'[s] /\ readFlag'[s]
          BY <2>4, <3>1, <3>3, <4>1 DEF TypeOK, Rearm, CanRearm
        <5>2. Empty(s)
          BY <1>0, <3>1, <4>1 DEF FlagsInv, TypeOK, ThreadStates
        <5>3. Empty(s)'
          BY <2>0, <3>1, <5>2 DEF Empty
        <5> QED
          BY <5>1, <5>3 DEF FlagsInv
      <4>2. CASE ~(readFlag[s] /\ ~receivingFlag[s])
        <5>1. UNCHANGED <<recvThread, receivingFlag>>
          BY <2>4, <3>3, <4>2 DEF Rearm, CanRearm
        <5>2. recvThread[s] # "joined"
          BY <1>0, <3>1, <4>2 DEF FlagsInv
        <5> QED
          BY <1>0, <2>0, <3>1, <5>1, <5>2, FlagsFrame
      <4> QED
        BY <4>1, <4>2
    <3> QED
      BY <2>0, <3>1, <3>2, <3>3 DEF AsWritten
  <2>5. CASE Rejoin
    <3>1. back = "rejoin" /\ UNCHANGED <<readFlag, receivingFlag, handled>>
      BY <2>5 DEF Rejoin, flags
    <3>2. back' \in {"crashed", "rejoin", "ended"}
      BY <2>5, <3>1 DEF Rejoin, NextSocket
    <3>3. \A s \in Sockets \ {cur} : recvThread'[s] = recvThread[s]
      BY <1>0, <2>5 DEF TypeOK, Rejoin
    <3>4. back' = "rejoin" => cur' = cur + 1 /\ recvThread'[cur] = "joined"
      BY <1>0, <2>5, <3>1 DEF TypeOK, Rejoin, NextSocket
    <3>5. ASSUME NEW s \in Sockets, s # cur
          PROVE  FlagsInv(s)'
      <4>1. back' = "rejoin" => (s < cur => s < cur')
        BY <1>0, <3>4
      <4> QED
        BY <1>0, <2>0, <3>1, <3>2, <3>3, <3>5, <4>1, FlagsFrame
    <3>6. ASSUME NEW s \in Sockets, s = cur
          PROVE  FlagsInv(s)'
      <4>1. CASE back' = "crashed"
        <5>1. recvThread' = recvThread
          BY <1>0, <2>5, <4>1 DEF Rejoin, NextSocket
        <5> QED
          BY <1>0, <2>0, <3>1, <4>1, <5>1, FlagsFrame
      <4>2. CASE back' # "crashed"
        <5>1. recvThread'[s] = "joined"
          BY <1>0, <2>5, <3>6, <4>2 DEF TypeOK, Rejoin
        <5>2. back' = "ended" \/ (back' = "rejoin" /\ s < cur')
          BY <1>0, <3>2, <3>4, <3>6, <4>2
        <5> QED
          BY <5>1, <5>2 DEF FlagsInv
      <4> QED
        BY <4>1, <4>2
    <3> QED
      BY <2>0, <3>2, <3>5, <3>6 DEF AsWritten
  <2>6. CASE ParseForever
    <3>1. /\ back = "handle" /\ back' = "parsing"
          /\ UNCHANGED <<cur, recvThread, readFlag, receivingFlag, handled>>
      BY <2>6 DEF ParseForever, flags
    <3>2. recvThread[cur] = "joined"
      BY <3>1 DEF AsWritten
    <3>3. FlagsInv(cur)'
      BY <1>0, <2>0, <3>1, <3>2 DEF FlagsInv, Loaded, Empty
    <3>4. ASSUME NEW s \in Sockets, s # cur
          PROVE  FlagsInv(s)'
      <4>1. recvThread[s] # "joined"
        BY <1>0, <3>1, <3>4 DEF FlagsInv
      <4> QED
        BY <1>0, <2>0, <3>1, <3>4, <4>1, FlagsFrame
    <3> QED
      BY <2>0, <3>1, <3>2, <3>3, <3>4 DEF AsWritten
  <2> QED
    BY <1>3, <2>1, <2>2, <2>3, <2>4, <2>5, <2>6 DEF Background
<1>4. CASE UNCHANGED vars
  <2>1. \A s \in Sockets : FlagsInv(s)'
    BY <1>0, <1>4, FlagsFrame DEF vars, flags, buffers
  <2> QED
    BY <1>4, <2>1 DEF AsWritten, vars, flags
<1> QED
  BY <1>1, <1>2, <1>3, <1>4 DEF Next, Finished
-----------------------------------------------------------------------------
(* What follows from it, when the flags are read as the source reads them. *)

\* What is folded remains so.
LEMMA Rigid == TypeOK /\ [Next]_vars => folded' = folded /\ folded \in BOOLEAN
BY DEF TypeOK, Next, Main, StartBackground, MainLoop, JoinBackground, Interrupt,
   LineRead, Receive, RecvFrom, Filled, Release, Background, Start, Setup, Loop,
   Poll, JoinReceiver, ParseForever, Handle, Rearm, Work, Rejoin, Finished, vars,
   flags

\* Each phase of a receiver goes with one setting of its flags.
THEOREM HandInvariant == Spec => []HandInv
<1>1. Init => HandInv
  BY DEF Init, HandInv, AsWritten, FlagsInv, Empty
<1>2. TypeOK /\ HandInv /\ [Next]_vars => HandInv'
  BY HandNext, Rigid DEF HandInv
<1> QED
  BY <1>1, <1>2, ThreadTypes, PTL DEF Spec

\* With the flags as written, the background thread never waits for a packet.
THEOREM NeverBlocksHolds == Spec => []NeverBlocksAsWritten
<1>1. TypeOK /\ HandInv => NeverBlocksAsWritten
  BY DEF TypeOK, HandInv, AsWritten, FlagsInv, NeverBlocksAsWritten, NeverBlocks,
     ThreadStates
<1> QED
  BY <1>1, ThreadTypes, HandInvariant, PTL

\* With the flags as written, no thread is joined twice.
THEOREM JoinsLiveHolds == Spec => []JoinsLive
<1>1. HandInv => JoinsLive
  BY DEF HandInv, AsWritten, FlagsInv, JoinsLive
<1> QED
  BY <1>1, HandInvariant, PTL

\* With the flags as written, the receiver threads implement the mailbox: each
\* datagram taken from a socket is handled at most once, in order, before the
\* next is taken.
THEOREM HandOffHolds == Spec => HandOff
<1> DEFINE seenTaken   == [s \in Sockets |-> IF folded THEN 0 ELSE taken[s]]
           seenHandled == [s \in Sockets |-> IF folded THEN <<>> ELSE handled[s]]
<1>1. Init => MB!Init
  BY DEF Init, MB!Init
<1>2. ASSUME TypeOK, HandInv, [Next]_vars
      PROVE  [MB!Next]_<<seenTaken, seenHandled>>
  <2>0. folded' = folded
    BY <1>2, Rigid
  <2>a. CASE folded
    BY <2>0, <2>a
  <2>b. SUFFICES ASSUME ~folded
                 PROVE  [MB!Next]_<<seenTaken, seenHandled>>
    BY <2>a
  <2>c. /\ AsWritten
        /\ seenTaken = taken /\ seenHandled = handled
    BY <1>2, <2>b DEF HandInv, TypeOK
  <2>d. TypeOK'
    BY <1>2, TypeNext
  <2>e. seenTaken' = taken' /\ seenHandled' = handled'
    BY <2>0, <2>b, <2>d DEF TypeOK
  <2>1. ASSUME NEW s \in Sockets, RecvFrom(s), taken' # taken
        PROVE  MB!Take(s)
    <3>1. Empty(s) /\ handled' = handled
      BY <2>1, <2>c DEF AsWritten, FlagsInv, RecvFrom
    <3>2. taken' = [taken EXCEPT ![s] = @ + 1]
      BY <2>1 DEF RecvFrom
    <3>3. MB!Take(s) <=> /\ Len(seenHandled[s]) = seenTaken[s]
                         /\ seenTaken' = [seenTaken EXCEPT ![s] = @ + 1]
                         /\ seenHandled' = seenHandled
      BY DEF MB!Take
    <3> HIDE DEF seenTaken, seenHandled
    <3> QED
      BY <2>c, <2>e, <3>1, <3>2, <3>3 DEF Empty
  <2>2. ASSUME NEW c \in Sockets, c = cur, Handle, handled' # handled
        PROVE  MB!Handle(c)
    <3>1. Loaded(c)
      BY <1>2, <2>2, <2>c DEF Handle, AsWritten, FlagsInv
    <3>2. /\ taken' = taken /\ rawUDP[c] # 0
          /\ handled' = [handled EXCEPT ![c] = Append(@, rawUDP[c])]
      BY <2>2 DEF Handle, buffers
    <3>3. rawUDP[c] = taken[c] /\ taken[c] = Len(handled[c]) + 1
      BY <3>1, <3>2 DEF Loaded
    <3>4. Len(handled[c]) < taken[c]
      <4>1. handled[c] \in Seq(Nat)
        BY <1>2 DEF TypeOK
      <4> QED
        BY <3>3, <4>1
    <3>5. MB!Handle(c) <=>
            /\ Len(seenHandled[c]) < seenTaken[c]
            /\ seenHandled' = [seenHandled EXCEPT ![c] = Append(@, seenTaken[c])]
            /\ seenTaken' = seenTaken
      BY DEF MB!Handle
    <3> HIDE DEF seenTaken, seenHandled
    <3> QED
      BY <2>c, <2>e, <3>2, <3>3, <3>4, <3>5
  <2>3. CASE ~(\E s \in Sockets : RecvFrom(s)) /\ ~Handle
    <3>1. taken' = taken /\ handled' = handled
      BY <1>2, <2>3
      DEF Next, Main, StartBackground, MainLoop, JoinBackground, Interrupt, LineRead,
          Receive, Filled, Release, Background, Start, Setup, Loop, Poll,
          JoinReceiver, ParseForever, Rearm, Work, Rejoin, Finished, vars, buffers
    <3> QED
      BY <2>c, <2>e, <3>1
  <2>4. \A s \in Sockets : RecvFrom(s) => handled' = handled
    BY DEF RecvFrom
  <2>5. Handle => taken' = taken
    BY DEF Handle, buffers
  <2>6. Handle => cur \in Sockets
    BY <1>2 DEF TypeOK
  <2>7. taken' = taken /\ handled' = handled => UNCHANGED <<seenTaken, seenHandled>>
    BY <2>c, <2>e
  <2>8. CASE \E s \in Sockets : RecvFrom(s)
    <3>1. PICK s \in Sockets : RecvFrom(s)
      BY <2>8
    <3>2. CASE taken' = taken
      BY <2>4, <2>7, <3>1, <3>2
    <3>3. CASE taken' # taken
      <4>1. MB!Take(s)
        BY <2>1, <3>1, <3>3
      <4> QED
        BY <4>1 DEF MB!Next
    <3> QED
      BY <3>2, <3>3
  <2>9. CASE Handle
    <3>1. CASE handled' = handled
      BY <2>5, <2>7, <2>9, <3>1
    <3>2. CASE handled' # handled
      <4>1. PICK c \in Sockets : c = cur
        BY <2>6, <2>9
      <4>2. MB!Handle(c)
        BY <2>2, <2>9, <3>2, <4>1
      <4> QED
        BY <4>2 DEF MB!Next
    <3> QED
      BY <3>1, <3>2
  <2> QED
    BY <2>3, <2>8, <2>9
<1> QED
  BY <1>1, <1>2, ThreadTypes, HandInvariant, PTL DEF Spec, HandOff, MB!Spec
=============================================================================
