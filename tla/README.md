# A verification of NetGDIF in TLA+

NetGDIF is a peer-to-peer chat over UDP/IPv6, in C++.  Peers discover each
other with *Hellos*, and a message (a *Data* TLV) reaches everybody by reliable
flooding: each peer repeats it to its active neighbours, with an exponential
backoff, until they acknowledge it or are given up.  The code is in `src/src`,
the authors' report in `src/doc/rapport.tex`.

This directory holds TLA+ models of the program translated from its source, the
TLC configurations that check them on small instances, and TLAPS proofs of what
matters most for every value of the constants.

    tlc -workers 2 -config Flooding.cfg MCPeer.tla     # one run
    tlapm PeerSafety.tla                               # one module of proofs

## 1. The system

A process has these threads:

| thread | code | what it does |
|---|---|---|
| main | `main`, `InitMain`, `manageConsoleInput`, `sendMessage` (main.cpp:7-132) | reads lines, queues own messages, sets `quit`, joins the background thread |
| background | `background` (main.cpp:134-248) | the protocol: an iteration a second, every table is its own |
| receivers, one per socket | `receive` (main.cpp:279-297) | one `recvfrom` into the socket's buffer, then ends |
| signal handler | `sigint_handler` (main.cpp:463-470) | sets `quit` on SIGINT |

They share, with no synchronisation but one mutex and the joins: `quit`; for
each socket a buffer and the flags `readFlag` and `receivingFlag`;
`pendingForFlood`, under `pendingForFloodLock`; and, for the debugging commands
`/test`, `/malicious` and `/dump` only, the tables.

| component | state | operations | what makes it correct |
|---|---|---|---|
| Background loop (main.cpp) | four timers, the phase | receive, tell neighbours, clean, refresh, take own messages, send, sleep | phases in order; ends once `quit` is set |
| Receiver threads (main.cpp) | buffers, flags, thread pointers | `doReceive`, `receive`, joins | a buffer is never shared, no datagram is lost or read twice, the background thread never waits for the network |
| Neighbour tables (tables.cpp, main.cpp) | `TVP` (heard of), `TVA` (active: identity, date of the last Hello and last long Hello, symmetry) | `Table_HelloFrom`, `Table_RefreshTVA`, `eraseFromTVA`, neighbour and GoAway handlers | neither dead neighbours nor one-way links are kept |
| Recent data and flooding (tables.cpp) | `RR`: for each data, its reception time and `toFlood`, the neighbours still to serve with their attempt count and next date | `Table_DataFrom`, `Table_ACKFrom`, `Table_CleanRR`, `Flood` | displayed once, never sent back to who has it, patience before giving up, bounded memory |
| Send queues and packets (mirc.cpp) | `toSend`: a list of TLVs per address | `pushTLVToSend`, `eraseFromSendList`, `sendPendingTLVs` | what is queued is sent, once and in order; a packet fits its buffer |
| Own messages (main.cpp, mirc.cpp) | `pendingForFlood` | `sendMessage`, `pushPendingForFlood` | everything typed is flooded, once |
| Shutdown (main.cpp, mirc.cpp, tables.cpp) | the above | goodbyes, socket shutdown, joins, `mircQuit`, `freeAllTables` | the program ends, each block is freed once |
| Console (main.cpp, utils.cpp) | none of its own | `/quit`, other commands, messages | it stops when asked to |
| Datagram parser, TLV encoder (tlv.cpp, mirc.cpp) | what the loop keeps from a TLV to the next | `parseDatagram`, `parseTLV_*`, `encodeTLV`, `tlvLen` | every TLV of a legal packet is taken, a violation is reported, nothing forbidden is passed on |
| Group (every peer, and UDP between them) | what is said, heard and on its way | the handlers above, losses, repetitions, silences, crashes | what is heard was said, and once; what a peer has, its neighbours come to have |
| Sockets, time, screen (utils.cpp, main.cpp) | descriptors, the terminal | `setup`, `GetTime`, ncurses | input and output only |

**Interactions.** A receiver hands a datagram to the background thread
(flags and join); the parser groups its TLVs by type and `manageDatagram` calls
the handler of each; handlers update `TVP`, `TVA`, `RR` and queue answers in
`toSend`; the refresh queues Hellos; `pushPendingForFlood` moves what the main
thread typed into `RR`; for each active neighbour, `sendPendingTLVs` first calls
`Flood` — which goes through all of `RR`, for *every* neighbour, queues what is
due and erases from `TVA` whoever it gives up — and then sends one packet.

**What is hard here.** Two flags with no synchronisation; a join on the way out
that depends on what the loop did before; a table erased from within the loop
that traverses it; retransmission timers against late Acks, copies and Hellos;
a memory of what was displayed that is cleaned on a timer of its own; blocks
shared by several queues and freed by each; lengths of one byte, counters of two
and a buffer of 1024, whose limits meet; a network that does as it likes.
`PROJECT.json` lists every hazard
at its line, with the properties that watch it.

## 2. Modules

| module | models |
|---|---|
| `Maps` | finite maps: put, erase, "is a map" (the `std::unordered_map`s of the code) |
| `Peer` | the background thread of one peer: tables, handlers, loop, shutdown |
| `MCPeer` | instances of `Peer` for TLC: which datagrams the network may deliver |
| `Receiver` | the main, background and receiver threads, their flags, buffers and joins |
| `Mailbox` | abstract: what the receivers promise, a mailbox of one place per socket |
| `Wire` | TLVs by type and length: the constructors, `tlvLen`, the lengths that may be read |
| `Parser`, `MCParser` | the parser over the bytes of a datagram, and packets for TLC |
| `Outgoing`, `MCOutgoing` | a typed line on its way: fragments, mutex, `RR`, queue, packets |
| `Stream` | abstract: what a queue and its packets promise |
| `Group`, `MCGroup` | several peers and the network |
| `Broadcast` | abstract: what a group promises |
| `PeerProofs`, `PeerSafety` | theorems about `Peer` (types; safety) |
| `ReceiverProofs` | theorems about `Receiver`, and that it implements `Mailbox` |
| `Induction` | lemmas: induction on natural numbers, and recursive functions, without an operator for parameter |
| `ParserProofs`, `PacketProofs` | theorems about `Parser` (any bytes; whole packets) |
| `OutgoingProofs` | theorems about `Outgoing`, and that its queue implements `Stream` |
| `GroupProofs` | theorems about `Group`, and that it implements `Broadcast` |

`Peer` is the centre: `Receiver` has the threads under its `Deliver`, `Parser`
turns the bytes of a datagram into the TLVs that `Deliver` takes, `Outgoing` has
the lengths and the order of the queue that `Peer` has as a set, and the steps of
the mutex that `Peer` takes at once.  `Group` composes peers; it keeps of each
what passes messages on, and puts choices where `Peer` has clocks.

### Peer

The state is the code's, under the code's names: `TVP`, `TVA`, `RR`, `toSend`,
`pendingForFlood`, the `last...` timers, `quit`; `pc` is the place in
`background()`, `inbox` the TLVs of the datagram being handled, `round` the
neighbours a send loop has still to reach.  An action is a handler or a phase:

| action | code |
|---|---|
| `Deliver`, `NothingReceived` | a call of `doReceive` that finds a datagram, or none |
| `ParseForever` | a call of `doReceive` that never returns (see `Parser`) |
| `manageHellos`, `manageNeighbours`, `manageDatas`, `manageAcks`, `manageGoAways` | `manageDatagram` and the handlers, one TLV at a time |
| `FloodNeighbours`, `CleanRR`, `RefreshTVA`, `PushPendingForFlood` | the periodic phases, in the order of the loop |
| `BeginSend`, `Send` | the send loop: `Flood` and one packet per neighbour |
| `Sleep` | `sleep(1)` and the test of `quit` |
| `Bye`, `ByeSend`, `Close` | the goodbyes, then `mircQuit` and `freeAllTables` |
| `SendMessage`, `Quit` | the main thread |

The network is any sequence of datagrams of `Datagrams`: loss, duplication,
delay and reordering come with it, as does a peer that sends anything at all.
`authored`, `shown`, `helloAt`, `longAt` and `knows` are history variables; no
guard reads them, save `authored`, which keeps nonces distinct.

Abstractions:

- Time: a tick is the second of `sleep(1)`; within an iteration the clock
  stands still.  Delays are constants and keep the strict comparisons of the
  code.  The random waits of `Table_DataFrom` and `Flood` are existential, over
  the interval the code draws from.
- A queue of `toSend` is a set: order, and equal TLVs queued twice, are not
  seen.  A packet is up to `PACKET_MAX` TLVs; the code fills 1024 bytes.
- The clock is unbounded; the code's is an `int` of milliseconds, undefined after
  24 days (utils.cpp:205).
- Nonces are distinct: `sendMessage` hashes the text and the time.
- Grouping by type is in the data: `tlvs` is in the order `manageDatagram` has.
  Pad and Warning TLVs change nothing and are left out.
- `pushPendingForFlood` takes the lock for the whole move, so it is one step.
- `Table_DataFrom`'s answers depend on the state, never on a text.
- Undefined behaviour is a choice.  `Flood` erases from `TVA` under the
  range-for of main.cpp:215: when it erases the entry the loop is on, the loop
  may go anywhere among what is left, or crash (`ContinueLoop`).  Its traversal
  of `RR` may also queue a Data for a neighbour it erased just before (`late`).
  At exit, a block owned by two queues, or by a queue and `RR`, is freed twice:
  the process may crash (`FreedTwice`, `Close`).

### Receiver

The flags are read and written one at a time by the two sides, which is all the
program's synchronisation: `RecvFrom`, `Filled` (`readFlag := false`), `Release`
(`receivingFlag := false`) are `receive`; `Poll`, `JoinReceiver`, `Handle`,
`Rearm` are `doReceive`, called for each socket in turn; `Start`, `Setup`,
`Loop`, `Rejoin` the rest of `background()`.  `Work` stands for the phases that
`Peer` details, and `Peer`'s `Deliver` and `NothingReceived` for the outcome of
a poll.  A thread pointer that was never set or whose thread was deleted is
followed to a crash.  `ParseForever` is a `parseDatagram` that never returns (see
`Endless` in `Parser`): the background thread then stays in `"parsing"`, with the
buffer, and sees `quit` no more.

`folded` is a fact about the build, the same for a whole behaviour.  `readFlag` and `receivingFlag` are plain
`bool`s written by another thread: a data race.  With the flags of the Makefile
(`-O3`), `g++` compiles `doReceive` so that on the path where the first test
finds `*readFlag` true the second test only loads `*receivingFlag`.
`folded = TRUE` is that code; `FALSE` reads the flags as the source is written; the
runs and the theorems have both.
Beyond that, accesses take effect in program order.  As built, a buffer may be given away
unread, the new receiver joined until a packet comes, and, if it ended because `quit`
was set, deleted and joined again at exit: `NeverBlocksAsWritten`, `JoinsLive`,
`HandOff` and `EventuallyHandled` say nothing of the build, of which they fail;
`Exclusive`, `BackgroundEnds` and `MainEnds` speak of both.

`Mailbox` is what a reader of `doReceive` expects: a datagram is taken from a
socket only when the last one has been handled, each is handled once, in order.
`Receiver` implements it with `taken` and `handled` for mapping (`HandOff`), unless
`folded`, when the mapping shows an empty mailbox.

### Parser

`body` is the bytes after the header of a datagram, `declared` the length that
the header gives, and the other variables are those of `parseTLVCollection`; a
step is a `parseTLV_*` and what the loop does with its result.  `length` and
`ret` survive from a TLV to the next, as in the code, and `sz` has 16 bits.  To
touch a byte that is not the datagram's is to go `"astray"`: what the code then
reads is what the buffer held before (or, for a Data without text, a byte it
writes before its block), and the model says nothing of what follows.  `char` is
signed, as on x86.  The magic and the version are taken to be right.

`length` is an `unsigned int` made from a signed `char`.  When it is the
equivalent of a negative number (a length byte over 127 in a Hello or in an unknown
TLV), `body` moves forward by almost 4 GiB, pointers having 64 bits, so that the
parser is `"astray"` too.  When it wraps to 0 (a length byte of 254 in a Hello,
of 255 in an unknown TLV) neither `body` nor `sz` moves, and the loop never ends:
`Endless`.

`Spec` starts from packets as a peer writes them (`Bytes` is `encodeTLV`), whole,
cut, or with a wrong length; `AnySpec`, which the theorems are about, from any
bytes under any header of 16 bits.  The properties speak of `packet`, the TLVs
written (`WireTLV`: a type, a length, and a value all of whose bytes are equal but
the last one), and `content`, those taken: the i-th TLV, if it is known, is to be
found at its `Rank` among the known ones, with the last byte of its text as it was
written, NUL or not (`parseTLV_Data` loses the NUL that it adds: see section
4); and `Boundaries` are the places where
the TLVs begin.  A TLV is legal in the sense of the lengths that the
`parseTLV_*` test; `Legal` leaves out the one case that they mishandle, a Data
of exactly 12 bytes.

### Outgoing

The two threads meet in `pendingForFlood`: `LockMain`, `PushBack`, `UnlockMain`
are `pushTLVDATAToFlood`; `TestEmpty`, `LockBack`, `Move` (an element at a
time), `Clear`, `UnlockBack` are `pushPendingForFlood`; `LockQuit`, `MircQuit`
the same in `mircQuit`.  `sendMessage` is cut where the other thread can see it;
what follows in the background thread is one step: `SendPendingTLVs` is `Flood`
for one neighbour, then a packet of as many TLVs as fit 1024 bytes, padded as the
code pads.  Delays are choices: a first sending is due within the next second, a
later one at any time.  A queue is a sequence of TLVs, each its type and its
length, and for ours the fragment it carries.  `BytesOf(q)[n]` is the bytes of
the first n TLVs of q, and `Taken` the longest prefix of the queue that fits.

There is one neighbour, and it acknowledges what was sent `MAX_SENDS` times:
`Peer` has the giving up, and `Group` the many.  What `encodeTLV` writes in
`data[257]` for a Data of 269 bytes is outside it; the model goes on as if it had
been written and read well, and `LongMessages` says the rest.

`Stream` is what `pushTLVToSend` and `sendPendingTLVs` promise together: what was
pushed leaves in order, once (`Streamed`).

### Group

`TVA`, `RR` and `toSend` are those of each peer, without dates: `TVA[p][q]` says
whether p has heard q, or is symmetric with it, and `RR[p][m][q]` is the count of
sendings.  `net` is every TLV ever sent; `Receive` takes any of them, at any
time and as often as it likes, so that loss, repetition and reordering need no
action of their own.  `Serve` is a call of `sendPendingTLVs`: `Flood`, with a
choice for the delays gone by, then the packet.  `Silence` stands for the two
timers of `Table_RefreshTVA`, `Quit` for the goodbye, `Crash` for the rest; they
come at most `Faults` times.  The peers have met before (they are symmetric, and
old Hellos of all are still on their way); `RR` forgets nothing, so that runs
are within a `DATA_LIFETIME` and hold at most `MAX_RR` messages: `Memory` has
what happens after that.  A first short Hello is answered by a long one to all of
`TVA`, as in the code; those it does not name take it for a short one.  A peer that leaves does not come back.

The model shows two consequences of leaving a neighbour that was given up in
`toFlood` (`ErasedFromRR`): it is given up again at every sending until it
acknowledges, or comes back to be removed at once, and each time all the other
neighbours are told to go away, and remove the sender.  `HopReliable` holds all the same, for
it asks nothing once one of the two has cut the other off.

## 3. What is checked

| run | module | shows |
|---|---|---|
| `Flooding` | MCPeer | two neighbours, data, copies and Acks: `TypeOK`, `NoEcho`, `Patience` |
| `Memory` | MCPeer | Hellos of every kind, farewells, and data repeated at any time around its lifetime: `NeighboursFresh`, `RememberedWhileFresh`, `RRBound`, `NoDoubleDisplay`, `DisplayFromSymmetric`, `QuitEnds` |
| `Receiver` | Receiver | the flags as written: `NeverBlocksAsWritten`, `JoinsLive`, `HandOff`, `EventuallyHandled`; as written and as compiled: `TypeOK`, `Exclusive`, `BackgroundEnds`, `MainEnds` |
| `Parser` | MCParser | packets of up to three TLVs, legal and not, whole and not: `TypeOK`, `Contained`, `Decoded`, `Reported`, `NothingForbidden`, `Ends` |
| `Outgoing` | MCOutgoing | a line of two fragments, or a short one, among other TLVs, and quit at any time: `TypeOK`, `Conserved`, `Streamed`, `TypedIsSent`, `Farewell` |
| `Group` | MCGroup | three peers in a row, one message, one fault: `TypeOK`, `NoFalseAck`, `Broadcasts`, `HopReliable` |

- `RememberedWhileFresh`, `NoDoubleDisplay`: a displayed message stays in `RR`
  for `DATA_LIFETIME`, so a late copy is not displayed again.  After that it
  may be, and in the run it is: the report's "duplicates" are limited, not
  excluded.
- `NoEcho`: who has sent a data, or acknowledged it, is not a target of its
  flooding, whatever came in between.
- `Patience`: a neighbour is erased by `Flood` only when a data has waited for
  it for the sum of the first `MAX_SENDS - 1` delays (15 s in the code), the
  sending of the goodbyes included.
- `NeighboursFresh`: from a refresh to the end of the iteration, an active
  neighbour has sent a Hello within two minutes, a symmetric one a long Hello
  that names us.
- `DisplayFromSymmetric`: a message is only displayed when its sender has named
  us within two minutes and the second between two refreshes.
- `RRBound`: `MAX_RR + 1` foreign messages, not `MAX_RR` (`>` at
  tables.cpp:83).  Own messages enter without the test and are not counted.
- `Contained`, `Decoded`: a legal packet is read from end to end, a TLV
  at a time, and all its TLVs are taken, in order and with their text; of another
  packet, all that comes before its first fault.
- `Ends`: whatever the datagram, the loop ends or goes astray, but for the two
  length bytes of `Endless`.
- `Reported`: when the first fault is a TLV that the protocol forbids, the
  verdict is `PARSE_EINVALID`, whatever is read after it.  It says nothing when the
  parser does not return, nor of Hellos of fewer than 8 bytes, which have no verdict
  when less than 9 bytes are left (mirc.cpp:148).
- `NothingForbidden`: nothing of a length that its type forbids is passed on,
  even when the parser has lost its place in the datagram.
- `Conserved`: at every instant, what was typed is, in this order, what is in `RR`,
  what `mircQuit` freed, and what waits beyond the elements already moved.
- `TypedIsSent`: with a neighbour, each fragment is sent, unless the user quits.
  `Farewell`: the goodbye is sent, unless what waited before it fills the packet.
- `Broadcasts`: the refinement of `Broadcast`.  `NoFalseAck`: a Data or an Ack on
  its way proves that its sender has the message, so that no `toFlood` is cleared in
  error, late as the Ack may be.
- `HopReliable`: again and again, for each hop, if p has a message then q has it,
  unless one of the two has left or has cut the other off.
- `Exclusive`: while a datagram is parsed and handled, however long, no receiver
  touches its buffer.
- `EventuallyHandled`: a datagram taken is handled, unless we quit or the parser is
  lost in it or in the other socket's.
- `QuitEnds`: once `quit` is set the thread of `Peer` ends, unless it is lost in the
  parser.  It takes the crashes that are choices there (`ContinueLoop`, `Close`)
  for an end.
- `BackgroundEnds`, `MainEnds`: once `quit` is set the background thread ends, and
  `main` too unless it waits in `readLine` for a key.  The exceptions are named:
  `Held`, for ever in the parser or (as built only: `NeverBlocksAsWritten`) in the
  join of a receiver to which no packet comes; and `Misled`, a crash on pointers
  never set or, as built, on one deleted.

Every property of a passing run has a mutant in `PROJECT.json`: the faulty
variants in the modules are bugs close to the code (a missing wake-up, an
off-by-one, a timer read from the wrong field) that the run finds.

**Bounds.** What a run must reach is that its interesting events happen within
its time.  In `Memory`, with `MINUTE` 1, `DATA_LIFETIME` 2 and `MaxTime` 4, the
Hellos, the refresh and the cleaning all have their turn: data is received,
forgotten and displayed again.  In `Flooding`, with `MaxTime` 4, retransmission goes
up to the giving up, and neither the cleaning (every `2 * MINUTE` = 4 ticks) nor
the Hellos (`HELLO_DELAY` 9) have theirs; its properties are not about them.
`SymmetryKept` has `MaxTime` 5, so that a symmetric neighbour is refreshed
after `2 * MINUTE` = 2 ticks of long Hellos.  `MAX_SENDS = 2` (5 in the code) so that a
neighbour is given up within four ticks; the delay doubles at least once on
the way.  Two neighbours (one in `Memory`, whose subject is one message) are
enough for a data to come from one while the other is flooded, and for the
send loop to be disturbed by the erasure of another.  `MAX_RR` is 0 or 1, so
that the table fills.  `Sockets` is 1 or 2: a second poll only adds datagrams
to an iteration.  `PACKET_MAX = 9` holds any queue of these runs, so a packet
is never split in them: that is for `Outgoing`.  Each datagram set
has the messages that reach its subject, nothing else.  In `Receiver` there
are two sockets and two datagrams each: a buffer is filled, handled and filled
again.  The counters the model bounds: `now` (`MaxTime`), `taken`
(`MaxDatagrams`).

`Parser`: what the loop carries from a TLV to the next is the length and the
result of the last one, so that a TLV between two others meets every case; each
type comes with its shortest and longest length that are read, lengths of 0, 255
and beyond 127 (254 and 255, at which the step is 0, among them), and each way of being
wrong.  Up to two bytes are missing at the
end, and the declared length is one too short or too long.  `Outgoing`: the line
has 508 characters, the least that makes two full fragments, so that the second
is pushed while the first is moved, or 100, whose Data fits the buffers; two other TLVs of 257 bytes and the
goodbye make queues that need more than one packet, and packets with 0, 1 and
more bytes left are told apart by `Padded`.  Two sendings, every second
iteration, are enough for what is due now, later, and again.  A line of three fragments,
and two lines, have been checked as well with the same results.  `Group`: the
peer in the middle receives, displays, acknowledges and passes on; `MAX_SENDS`
is 2, and one fault suffices for a neighbour to be dropped and to come back, as
old Hellos are still there.  The counters bounded are `line` (`MaxLines`),
`others` (`MaxOthers`) and `faults` (`Faults`).

**Fairness.** `Peer`: weak fairness of `Background`, for the thread is never
blocked but in the parser, which is an action of its own (its joins are on threads
that are ending, if the flags are read as written: see `NeverBlocksAsWritten`; the
mutex is held for a few assignments).  `Quit` is not taken at the last instant, so that
the bound on time does not cut a shutdown short.  `Receiver`: weak fairness of
the background thread, of the main thread where it does not wait for a key, of a
receiver once `recvfrom` has returned, and of `recvfrom` itself only after the
shutdown of the sockets (main.cpp:234, "pour que recv retourne immédiatement").
The network and the user need never do anything; a parser that never returns is an
action, after which the thread does nothing.  `Parser`: weak fairness, for it
waits for nothing.  `Outgoing`: weak fairness of the background thread, and of
the main thread while it holds the mutex; none for who gets the mutex, so that
the main thread may never get it, and `TypedIsSent` speaks of what was pushed.
`Group`: what a peer has to serve comes to be due or given up, for the background
thread calls `sendPendingTLVs` every `SEND_PENDING_DELAY` and each delay is
finite; nothing is asked of the network.  Its peers write their TLVs as the program
does, so that none has the length bytes of `Endless`.

No configuration turns deadlock checking off: `Finished` is the only way a
model may stop (the thread has ended, crashed or is lost in the parser, or time has
run out).

## 4. Where the code disagrees with what is said of it

Six runs each look for the violation of something a comment or document says
of the program, and find it:

| run | says | the code |
|---|---|---|
| `ErasedFromRR` | "On enlève aussi les clés des gens à inonder de RR" (tables.cpp:288) | erases from a copy of each entry (tables.cpp:291) |
| `SymmetryKept` | not symmetric "si pas reçu de long hello depuis deux minutes" (tables.cpp:179) | the date of the last long Hello is not renewed while the neighbour is symmetric (tables.cpp:48), so symmetry lapses anyway, every two minutes |
| `FoldedRead` | receivers exist "pour éviter de bloquer sur un recvfrom" (main.cpp:158) | as compiled, a full buffer may be given to a new receiver, which the background thread then waits for |
| `UnknownIgnored` | TLVs of other types: "en principe ils sont ignorés" (main.cpp:348) | the length byte is not counted (mirc.cpp:87), so the last byte of the value is read as a type and the TLVs after it are lost |
| `LongMessage` | "Il est possible d'envoyer des messages de plus de 254 caractères" (rapport.tex:60) | 254 characters, a NUL and 12 bytes do not fit a length byte (main.cpp:123, mirc.cpp:531), nor the 257 bytes of mirc.cpp:397; the others read a Data of length 11, and report it |
| `Endless` | "toutes les tailles sont vérifiées", "notre solution reste robuste" (rapport.tex:108, 110) | a length byte of 254 in a Hello, or of 255 in an unknown TLV, makes the step of the loop 0 (mirc.cpp:87, 95-98, 146): `parseDatagram` does not return |

Others were met while modelling, and have no run.  In `Peer` and `Receiver`, as
actions or choices:

- giving up on a slow neighbour ("Mort ou très lent, envoi de GoAway de code 2",
  tables.cpp:232) tells all the others, and not that one, whose queue is emptied;
- `Flood` may erase the entry that the send loop of main.cpp:215 is at
  (`ContinueLoop`, a choice that includes a crash);
- `mircQuit`, which "quitte en vidant les différentes listes" (mirc.h:48), frees a
  block once for each queue that holds it, and `freeAllTables` those of `RR`
  again (`FreedTwice`, `Close`);
- Ctrl+C between the tests of main.cpp:136 and 178 leads to the join of pointers
  never set (`Rejoin` and `Misled`, against main.cpp:38);
- the GoAway of an idle neighbour is queued and then dropped with its queue
  (tables.cpp:173-190, against the trace at 174);
- the GoAway of code 3 waits in a queue that is only sent if its address becomes
  active (main.cpp:264, against rapport.tex:113);
- the answer to a first Hello is pushed to all neighbours (tables.cpp:43, against
  rapport.tex:142).

In `Parser`: a `parseTLV_*` that fails does not always store the length (against
mirc.h:80-83); a Data of 12 bytes has its NUL written before its block, and the NUL that line
204 of mirc.cpp writes for the others ("Assurer que le caractère NUL y est pour
l'affichage") is overwritten by the copy of line 205, so that a text that came without
one is kept without one, as `Decoded` says; length bytes over 127 are read as negative for Hellos and unknown types.  In `Outgoing`: the padding has a header too (mirc.cpp:433), so that a packet with 2
to 255 bytes left is padded to 1026 bytes, and one with 256 left to 1025, in a buffer
of 1024; `TypeOK` has the bound.  Elsewhere: `quit` is written by more than one thread (main.cpp:169,
against main.h:14); comments at tables.cpp:199 and 209 give delays other than
the constants, and the report another period for the cleaning of `RR`; what is
typed after `mircQuit` is never freed.

## 5. What is proved

For every set of addresses, identities, datagrams and every value of the
constants allowed by `ConstantsAssumption` and `Pow2Assumption` (identities are
what their names say, delays are naturals, `MAX_SENDS > 0`, `Pow2` doubles):

| theorem | inductive invariant, and why it is needed |
|---|---|
| `TypeCorrect` (`TypeOK`) | itself; a lemma per group of actions |
| `Remembered`, `NoDoubleDisplayHolds` | `MemoryInv`: `RR` dates a message by its last display, or that display is older than the lifetime; `RememberedWhileFresh` alone does not say which date the cleaning reads.  Own messages are never displayed, or `PushPendingForFlood` would renew the date |
| `NoEchoHolds` | `NoEcho` with `TypeOK` |
| `PatienceHolds` | `BackoffInv`: the next date of an attempt is at least the sum of the delays so far, `2^sent - 1` |
| `RRBoundHolds` (`RRBound`) | `BoundInv`: the tables are finite, and what waits in `pendingForFlood` is our own, so that only `Table_DataFrom` adds a foreign message, one at a time and only after its test |
| `NeighboursFreshHolds`, `DisplayFromSymmetricHolds` | `HelloInv`: the dates in `TVA` are not later than the Hellos they stand for.  This is one direction only: the other fails (`SymmetryKept`) |

For every number of sockets (`ReceiverAssumption`):

| theorem | |
|---|---|
| `ThreadTypes`, `ExclusiveHolds` | whatever the compiler does with the flags |
| `NeverBlocksHolds`, `JoinsLiveHolds`, `HandOffHolds` | of `~folded`, from `HandInv`: what the two flags mean in each phase of a receiver |

The `Receiver` theorems thus say that the protocol of the two flags is right and
that the defect is the race: with the flags made atomic it is proved safe, and as
built `FoldedRead` breaks it.  `HandOffHolds` is the refinement: initial states
map to initial states, and each step is a `Take`, a `Handle` or a stutter
of `Mailbox`.

`Parser`, for any bytes under any header (`AnySpec`, which `SpecIsAny` proves is
more than `Spec` allows), and packets of any number of TLVs:

| theorem | |
|---|---|
| `ParserTypes` (`TypeOK`) | `sz` keeps its 16 bits, and `length` never stands for a negative number, whatever was read |
| `OnlyReadable` (`NothingForbidden`) | from what each `parseTLV_*` has tested when it returns 0; a TLV of a known type is taken in no other case |
| `LegalContained` (`Contained`), `LegalDecoded` (`Decoded`), `ForbiddenReported` (`Reported`) | `WholeInv`: the parser of a whole datagram has passed n TLVs, all legal (`Reading`: `pos` is just behind them, `sz` is what follows, each known one is in `content` at its rank), or it has met a TLV that is not legal, the n-th (`Lost`: what came before it is in `content`, and the verdict is given if the protocol forbids it). None of the three says where the parser stands when it is not at fault |

The step of `WholeInv` is one lemma per type of TLV, from the bytes that
`encodeTLV` writes at a boundary: type, length and value are read back as
written.  After the first fault nothing is said of `pos`, which may be anywhere;
what is kept is that the elements of `content` are not taken back, and that
`globRet` stays `"invalid"`.

`Outgoing`, for any lines, other TLVs and constants:

| theorem | |
|---|---|
| `NothingLost` (`Conserved`) | `MailboxInv`: a thread between `lock` and `unlock` holds the lock, and `moved` counts elements of the list only while the background thread does |
| `OutgoingTypes` (`TypeOK`) | `QueueInv`, and `PaddedFits`: what `Taken` puts in a packet fits it, and the padding adds two bytes at most to what it should |
| `GoodbyeSaid` (`Farewell`) | `QueueInv`: what was pushed is what was sent and what waits; the last packet takes the goodbye, or stops at the TLV that heads the queue after it |
| `QueueStreams` (`Streamed`) | `QueueInv` again: a sending appends the TLVs due to `pushed` and moves a prefix of the queue to `sent`.  This is the refinement of `Stream`, whose steps are prefixes of one another |

The lengths of a packet and of a queue are defined by recursion on their TLVs.
`Induction` is how they are reasoned about: the induction theorems of the library
take an operator, which the provers cannot instantiate, but a set can be
instantiated.  `Least` says that a non-empty set of naturals has a least element
(`WFMin` of the library, on `NatLessThanWellFounded`), `Climb` that a set of naturals
with 0 and the successor of each of its elements up to n has n; `Recursion` derives
from it that a function defined by recursion on `0..n` exists and satisfies its
equations, and `Sums` that one that adds naturals is a monotone sum.  With these
`Encoded(p)[n]` and `BytesOf(q)[n]` are known by their equations, for every n.

`Group`, for any finite set of peers, any links, messages and number of faults:

| theorem | |
|---|---|
| `GroupTypes` (`TypeOK`) | a count that `Flood` increments was below `MAX_SENDS` |
| `AcksAreTrue` (`NoFalseAck`) | `GroupInv`: what waits in a queue is also only of messages that its owner has, and nobody forgets one |
| `GroupBroadcasts` (`Broadcasts`) | `GroupInv` again: who has a message has what was said, authors have theirs, and what was displayed is had; so that a Data for one who lacks the message is a step of `Hear`, and every other step is a `Say` or a stutter |

Left to TLC: liveness (`QuitEnds`, `EventuallyHandled`, `BackgroundEnds`,
`MainEnds`, `Ends`, `TypedIsSent`, `HopReliable`), which is beyond the prover.
Every invariant and every refinement that a passing run checks is a theorem.

## 6. What is not modelled

- `/test`, `/malicious` and `/dump`: they reach the tables from the main thread
  while the background thread changes them.  Two threads in an `unordered_map`
  have no defined outcome, and there is nothing to check of it.
- The nonces: `GetNonce` hashes the fragment and the millisecond, and equal
  fragments of one line may collide, which makes them one message.  All models
  take nonces to be distinct.
- The contents of a freed block: `Table_CleanRR` frees a Data that may still wait
  in `toSend` (tables.cpp:153).
- The width of the clock: an `int` of milliseconds, undefined after 24 days
  (utils.cpp:205).
- A peer that restarts: nothing is kept on disk, and it draws a new identity, so
  that to the others it is a new peer at an old address, whose Hellos `Peer` has.
- `setup`, socket options, ncurses, conversions of addresses (input and output
  only), and the wording of messages.

What could be added to: `Group` could forget (`Table_CleanRR`), which would make
`Broadcast` a promise for a lifetime only.
