------------------------------ MODULE Receiver ------------------------------
(***************************************************************************)
(* The threads of NetGDIF (main.cpp): the main thread reads the keyboard,  *)
(* background() runs the protocol, and for each socket a receiver thread   *)
(* waits in recvfrom.  A receiver fills the buffer of its socket, clears   *)
(* readFlag, clears receivingFlag and ends; doReceive joins it, handles    *)
(* the datagram and starts another.  The flags are plain bools.            *)
(*                                                                         *)
(* What the background thread does between two polls is one step here,     *)
(* Work; module Peer has its detail, and sees of this module only whether  *)
(* a poll delivers a datagram.                                             *)
(***************************************************************************)
EXTENDS Integers, Sequences

CONSTANTS
  N,                  \* number of sockets: 2 in the code, fd and multifd
  MaxDatagrams        \* bound on the datagrams of a socket, for TLC

ASSUME ReceiverAssumption ==
  N \in Nat \ {0} /\ MaxDatagrams \in Nat

Sockets == 1..N

VARIABLES
  main,               \* phase of main()
  back,               \* phase of background()
  cur,                \* socket doReceive is called for, or being joined
  quit,               \* shared by the threads, and the signal handler
  open,               \* the sockets have not been shut down
  recvThread,         \* thread of each socket, as *recvThread refers to it
  readFlag, receivingFlag,
  folded,             \* the compiler reads *readFlag once: see CanRearm
  rawUDP,             \* number of the datagram in each buffer; 0 when the
                      \* last recvfrom failed
  taken, handled      \* datagrams taken from each socket, and handled

buffers == <<rawUDP, taken>>
flags   == <<readFlag, receivingFlag, folded>>
vars    == <<main, back, cur, quit, open, recvThread, flags, buffers, handled>>

\* uninit: the pointer was never set.  joined: its thread was joined and
\* deleted.  blocked, returned, filled, ended: the phases of receive().
ThreadStates == {"uninit", "joined", "blocked", "returned", "filled", "ended"}

Polling == {"poll", "join", "handle", "parsing", "rearm"}

TypeOK ==
  /\ main \in {"naming", "check", "reading", "joining", "ended"}
  /\ back \in Polling \cup {"none", "start", "setup", "loop", "work", "rejoin",
                            "ended", "crashed"}
  /\ cur \in Sockets
  /\ quit \in BOOLEAN /\ open \in BOOLEAN
  /\ recvThread \in [Sockets -> ThreadStates]
  /\ readFlag \in [Sockets -> BOOLEAN] /\ receivingFlag \in [Sockets -> BOOLEAN]
  /\ folded \in BOOLEAN
  /\ rawUDP \in [Sockets -> Nat]
  /\ taken \in [Sockets -> Nat] /\ handled \in [Sockets -> Seq(Nat)]

Init ==
  /\ main = "naming" /\ back = "none" /\ cur = 1
  /\ quit = FALSE /\ open = FALSE
  /\ recvThread = [s \in Sockets |-> "uninit"]
  /\ readFlag = [s \in Sockets |-> TRUE]
  /\ receivingFlag = [s \in Sockets |-> FALSE]
  /\ folded \in BOOLEAN
  /\ rawUDP = [s \in Sockets |-> 0]
  /\ taken = [s \in Sockets |-> 0] /\ handled = [s \in Sockets |-> <<>>]

\* A crash takes every thread with it.
Alive == back # "crashed"

-----------------------------------------------------------------------------
(* The main thread. *)

\* InitMain has read the nickname: the background thread starts.
StartBackground ==
  /\ Alive /\ main = "naming"
  /\ main' = "check" /\ back' = "start"
  /\ UNCHANGED <<cur, quit, open, recvThread, flags, buffers, handled>>

\* Faulty variant: the loop does not test quit.
MainLoop_Forever ==
  /\ Alive /\ main = "check"
  /\ main' = "reading"
  /\ UNCHANGED <<back, cur, quit, open, recvThread, flags, buffers, handled>>

\* while (!quit)
MainLoop ==
  /\ Alive /\ main = "check"
  /\ main' = IF quit THEN "joining" ELSE "reading"
  /\ UNCHANGED <<back, cur, quit, open, recvThread, flags, buffers, handled>>

\* readLine returns, with /quit or another line.
LineRead(line) ==
  /\ Alive /\ main = "reading"
  /\ IF quit
     THEN main' = "joining" /\ UNCHANGED quit
     ELSE /\ main' = "check"
          /\ IF line = "/quit" THEN quit' = TRUE
                               ELSE UNCHANGED quit
  /\ UNCHANGED <<back, cur, open, recvThread, flags, buffers, handled>>

\* Ctrl+C: the handler of SIGINT is set before anything else.
Interrupt ==
  /\ Alive /\ ~quit /\ main # "ended"
  /\ quit' = TRUE
  /\ UNCHANGED <<main, back, cur, open, recvThread, flags, buffers, handled>>

JoinBackground ==
  /\ main = "joining" /\ back = "ended"
  /\ main' = "ended"
  /\ UNCHANGED <<back, cur, quit, open, recvThread, flags, buffers, handled>>

-----------------------------------------------------------------------------
(* The receiver thread of socket s. *)

\* recvfrom returns a datagram, or fails: on a closed or invalid socket (when
\* there is no multicast, multifd is -1), after shutdown, or by an error.
RecvFrom(s) ==
  /\ Alive /\ recvThread[s] = "blocked"
  /\ recvThread' = [recvThread EXCEPT ![s] = "returned"]
  /\ \/ /\ open /\ taken[s] < MaxDatagrams
        /\ taken' = [taken EXCEPT ![s] = @ + 1]
        /\ rawUDP' = [rawUDP EXCEPT ![s] = taken[s] + 1]
     \/ /\ rawUDP' = [rawUDP EXCEPT ![s] = 0]
        /\ UNCHANGED taken
  /\ UNCHANGED <<main, back, cur, quit, open, flags, handled>>

\* Faulty variant: the background thread is not told.
Filled_Silent(s) ==
  /\ Alive /\ recvThread[s] = "returned"
  /\ recvThread' = [recvThread EXCEPT ![s] = IF quit THEN "ended" ELSE "filled"]
  /\ UNCHANGED <<main, back, cur, quit, open, flags, buffers, handled>>

\* The buffer is full, unless we are quitting: then no flag changes.
Filled(s) ==
  /\ Alive /\ recvThread[s] = "returned"
  /\ recvThread' = [recvThread EXCEPT ![s] = IF quit THEN "ended" ELSE "filled"]
  /\ readFlag' = [readFlag EXCEPT ![s] = quit /\ @]
  /\ UNCHANGED <<main, back, cur, quit, open, receivingFlag, folded, buffers,
                 handled>>

Release(s) ==
  /\ Alive /\ recvThread[s] = "filled"
  /\ recvThread' = [recvThread EXCEPT ![s] = "ended"]
  /\ receivingFlag' = [receivingFlag EXCEPT ![s] = FALSE]
  /\ UNCHANGED <<main, back, cur, quit, open, readFlag, folded, buffers, handled>>

Receive(s) == RecvFrom(s) \/ Filled(s) \/ Release(s)

-----------------------------------------------------------------------------
(* The background thread. *)

\* if (quit) return;
Start ==
  /\ back = "start"
  /\ back' = IF quit THEN "ended" ELSE "setup"
  /\ UNCHANGED <<main, cur, quit, open, recvThread, flags, buffers, handled>>

Setup ==
  /\ back = "setup"
  /\ \/ back' = "loop" /\ open' = TRUE /\ UNCHANGED quit
     \/ back' = "ended" /\ quit' = TRUE /\ UNCHANGED open
  /\ UNCHANGED <<main, cur, recvThread, flags, buffers, handled>>

\* Faulty variant: the sockets stay open.
Loop_NoShutdown ==
  /\ back = "loop"
  /\ cur' = 1
  /\ back' = IF quit THEN "rejoin" ELSE "poll"
  /\ UNCHANGED <<main, quit, open, recvThread, flags, buffers, handled>>

\* while (!quit); at the end, goodbyes, then the sockets are shut down.
Loop ==
  /\ back = "loop"
  /\ cur' = 1
  /\ back' = IF quit THEN "rejoin" ELSE "poll"
  /\ open' = (open /\ ~quit)
  /\ UNCHANGED <<main, quit, recvThread, flags, buffers, handled>>

\* doReceive: has the receiver filled the buffer?
Poll ==
  /\ back = "poll"
  /\ back' = IF readFlag[cur] THEN "rearm" ELSE "join"
  /\ UNCHANGED <<main, cur, quit, open, recvThread, flags, buffers, handled>>

\* Faulty variant: the receiver is not waited for.
JoinReceiver_Detach ==
  /\ back = "join"
  /\ back' = "handle"
  /\ UNCHANGED <<main, cur, quit, open, recvThread, flags, buffers, handled>>

\* (*recvThread)->join(), and its deletion.
JoinReceiver ==
  /\ back = "join" /\ recvThread[cur] = "ended"
  /\ recvThread' = [recvThread EXCEPT ![cur] = "joined"]
  /\ back' = "handle"
  /\ UNCHANGED <<main, cur, quit, open, flags, buffers, handled>>

\* Faulty variant: the flag is left as it is.
Handle_NotRead ==
  /\ back = "handle"
  /\ handled' = IF rawUDP[cur] = 0 THEN handled
                ELSE [handled EXCEPT ![cur] = Append(@, rawUDP[cur])]
  /\ back' = "rearm"
  /\ UNCHANGED <<main, cur, quit, open, recvThread, flags, buffers>>

\* parseDatagram never returns: see Endless in Parser.
ParseForever ==
  /\ back = "handle" /\ rawUDP[cur] # 0
  /\ back' = "parsing"
  /\ UNCHANGED <<main, cur, quit, open, recvThread, flags, buffers, handled>>

\* parseDatagram and manageDatagram; a failed reception, of length -1 or 0, is
\* rejected as too big or empty.
Handle ==
  /\ back = "handle"
  /\ handled' = IF rawUDP[cur] = 0 THEN handled
                ELSE [handled EXCEPT ![cur] = Append(@, rawUDP[cur])]
  /\ readFlag' = [readFlag EXCEPT ![cur] = TRUE]
  /\ back' = "rearm"
  /\ UNCHANGED <<main, cur, quit, open, recvThread, receivingFlag, folded,
                 buffers>>

\* Faulty variant: the second test forgets readFlag.
CanRearm_AnyTime == ~receivingFlag[cur]

\* !*receivingFlag && *readFlag.  The flags are shared without synchronisation:
\* g++ -O3 takes the value of *readFlag for the one Poll has read.  A build
\* does so always or never.
CanRearm == ~receivingFlag[cur] /\ (readFlag[cur] \/ folded)

\* Faulty variant: one socket too many.
NextSocket_Past(first, then) ==
  IF cur <= N THEN cur' = cur + 1 /\ back' = first
              ELSE cur' = 1 /\ back' = then

\* The next socket, or else the next phase.
NextSocket(first, then) ==
  IF cur < N THEN cur' = cur + 1 /\ back' = first
             ELSE cur' = 1 /\ back' = then

\* A new receiver is started, if need be, over the old one's pointer.
Rearm ==
  /\ back = "rearm"
  /\ IF CanRearm
     THEN /\ receivingFlag' = [receivingFlag EXCEPT ![cur] = TRUE]
          /\ recvThread' = [recvThread EXCEPT ![cur] = "blocked"]
     ELSE UNCHANGED <<receivingFlag, recvThread>>
  /\ NextSocket("poll", "work")
  /\ UNCHANGED <<main, quit, open, readFlag, folded, buffers, handled>>

\* The rest of the iteration: see module Peer.
Work ==
  /\ back = "work" /\ back' = "loop"
  /\ UNCHANGED <<main, cur, quit, open, recvThread, flags, buffers, handled>>

\* receiver->join() and multireceiver->join(), on the way out.  A pointer that
\* was never set, or was deleted, is followed to anywhere.
Rejoin ==
  /\ back = "rejoin"
  /\ \/ /\ recvThread[cur] \in {"uninit", "joined"}
        /\ back' = "crashed" /\ UNCHANGED <<cur, recvThread>>
     \/ /\ recvThread[cur] = "ended"
        /\ recvThread' = [recvThread EXCEPT ![cur] = "joined"]
        /\ NextSocket("rejoin", "ended")
  /\ UNCHANGED <<main, quit, open, flags, buffers, handled>>

Background ==
  \/ Start \/ Setup \/ Loop \/ Poll \/ JoinReceiver \/ ParseForever \/ Handle
  \/ Rearm \/ Work \/ Rejoin

\* The background thread is over, or lost in the parser; the main one may still
\* wait for a key, or for it.
Finished ==
  /\ back \in {"ended", "crashed", "parsing"}
  /\ UNCHANGED vars

Main ==
  \/ StartBackground \/ MainLoop \/ JoinBackground \/ Interrupt
  \/ \E line \in {"/quit", "text"} : LineRead(line)

Next ==
  \/ Main
  \/ \E s \in Sockets : Receive(s)
  \/ Background
  \/ Finished

Spec == Init /\ [][Next]_vars

\* A thread that can run does run.  No packet need ever arrive and no key need
\* ever be pressed, but recvfrom returns once the sockets are shut down.
FairSpec ==
  /\ Spec
  /\ WF_vars(Background)
  /\ WF_vars(MainLoop \/ JoinBackground)
  /\ \A s \in Sockets : WF_vars(Filled(s) \/ Release(s) \/ (~open /\ RecvFrom(s)))

-----------------------------------------------------------------------------
(* What the threads promise. *)

\* While the background thread handles a buffer, no receiver may touch it
\* (doReceive).
Exclusive == back \in {"handle", "parsing"} => recvThread[cur] = "joined"

\* main.cpp:158, "pour eviter de bloquer": the background thread joins a
\* receiver only when it is about to end, never one that still waits for a
\* packet.  Checked to fail, with the flags as compiled.
NeverBlocks ==
  back = "join" => recvThread[cur] \in {"filled", "ended"}

\* With the flags as the source reads them, the background thread never waits
\* for a packet (main.cpp:158).
NeverBlocksAsWritten == ~folded => NeverBlocks

\* No thread is joined twice, if the flags are read as written: a pointer to a
\* deleted one is never left where the next poll or the end of background()
\* would follow it.
JoinsLive ==
  ~folded => \A s \in Sockets : recvThread[s] = "joined" =>
    \/ cur = s /\ back \in {"handle", "parsing", "rearm"}
    \/ back = "rejoin" /\ s < cur
    \/ back \in {"ended", "crashed"}

\* The buffers, flags and joins make a mailbox of one place for each socket.
\* As compiled they do not, and are seen as one in which nothing ever comes.
MB == INSTANCE Mailbox WITH
        taken   <- [s \in Sockets |-> IF folded THEN 0 ELSE taken[s]],
        handled <- [s \in Sockets |-> IF folded THEN <<>> ELSE handled[s]]
HandOff == MB!Spec

\* A datagram taken from a socket is handled, unless we quit or the parser never
\* returns from it, or from one of the other socket; or else the build may give
\* its buffer away unread.
EventuallyHandled ==
  \A s \in Sockets : Len(handled[s]) < taken[s] ~>
    Len(handled[s]) = taken[s] \/ quit \/ back = "parsing" \/ folded

\* The background thread cannot go on: it is lost in the parser, or it joins a
\* receiver that waits for a packet.
Held == back = "parsing" \/ (back = "join" /\ recvThread[cur] = "blocked")

\* It was asked to quit before it had started a receiver (Ctrl+C between the
\* tests of main.cpp:136 and 178) or, with the flags as compiled, when it had
\* deleted one and could not start another.
Misled == back = "crashed" /\ (recvThread[cur] = "uninit" \/ folded)

\* Once asked to quit, the background thread ends, unless the parser never
\* returns, or it is misled or, with the flags as compiled, no packet ever comes
\* for the receiver that it joins.
BackgroundEnds == quit ~> (back \in {"none", "ended"} \/ Misled \/ []Held)

\* And so does the program, if the main thread does not wait for a key.
MainEnds ==
  (quit /\ main \in {"check", "joining"}) ~> (main = "ended" \/ Misled \/ []Held)

-----------------------------------------------------------------------------
(* Inductive strengthening of the safety properties. *)

\* The mailbox is empty; the buffer holds what it contains, if anything.
Empty(s)  == Len(handled[s]) = taken[s]
Loaded(s) == \/ rawUDP[s] = 0 /\ Empty(s)
             \/ rawUDP[s] = taken[s] /\ taken[s] = Len(handled[s]) + 1

\* What the flags mean in each phase of a receiver.
FlagsInv(s) ==
  /\ recvThread[s] = "uninit"   => readFlag[s] /\ ~receivingFlag[s] /\ Empty(s)
  /\ recvThread[s] = "blocked"  => readFlag[s] /\ receivingFlag[s] /\ Empty(s)
  /\ recvThread[s] = "returned" => readFlag[s] /\ receivingFlag[s] /\ Loaded(s)
  /\ recvThread[s] = "filled"   => ~readFlag[s] /\ receivingFlag[s] /\ Loaded(s)
  /\ recvThread[s] = "ended"    =>
       \/ ~readFlag[s] /\ ~receivingFlag[s] /\ Loaded(s)
       \/ readFlag[s] /\ receivingFlag[s]
  /\ recvThread[s] = "joined"   =>
       \/ /\ cur = s /\ back \in {"handle", "parsing"}
          /\ ~readFlag[s] /\ ~receivingFlag[s] /\ Loaded(s)
       \/ /\ cur = s /\ back = "rearm"
          /\ readFlag[s] /\ ~receivingFlag[s] /\ Empty(s)
       \/ back = "rejoin" /\ s < cur
       \/ back \in {"ended", "crashed"}

\* With the flags as the source reads them.
AsWritten ==
  /\ \A s \in Sockets : FlagsInv(s)
  /\ main = "naming" => back = "none"
  /\ back = "join" => ~readFlag[cur]
  /\ back \in {"handle", "parsing"} => recvThread[cur] = "joined"

HandInv == ~folded => AsWritten
=============================================================================
