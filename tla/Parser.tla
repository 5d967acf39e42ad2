------------------------------- MODULE Parser -------------------------------
(***************************************************************************)
(* parseDatagram, parseDatagram0 and parseTLVCollection of mirc.cpp, a TLV *)
(* at a time.  The input is a datagram: TLVs as a peer wrote them, some of *)
(* whose last bytes may be missing.  pos is where body points, sz counts   *)
(* down from the length that the header declares.  An action is a call of  *)
(* a parseTLV_* function and what the loop does with its result.           *)
(*                                                                         *)
(* length, ret and the integers keep their widths: length survives from an *)
(* iteration to the next, and sz wraps.  To read or write memory that is   *)
(* not the datagram's is to go astray, and nothing is said of what follows.*)
(***************************************************************************)
EXTENDS Sequences, FiniteSets, Wire

CONSTANTS
  Packets,            \* sequences of TLVs a peer may write: see WireTLV
  Cuts,               \* how many of the last bytes may be missing
  Excess              \* how far the length declared may be from the true one

\* A TLV to be written: all the bytes of its value are fill, but the last one.
Octet   == 0..255
UShort  == 0..65535
WireTLV == {t \in [type : Octet, length : Octet, fill : Octet, last : Octet] :
              t.type = TLV_PAD1 => t.length = 0}

ASSUME ParserAssumption ==
  /\ Packets \subseteq Seq(WireTLV)
  /\ Cuts \subseteq Nat /\ Excess \subseteq Int

VARIABLES
  packet,             \* the TLVs written
  body,               \* the bytes received, after the header
  declared,           \* bodyLength, as the header has it
  pc,                 \* "header", "loop", "astray", or "done"
  pos, sz,            \* the current TLV, and the bytes left
  length, ret,        \* of the last TLV parsed
  globRet,            \* what is returned
  content             \* the TLVs taken, in the order they came

input == <<packet, body, declared>>
vars  == <<input, pc, pos, sz, length, ret, globRet, content>>

\* The results of parsing that are told apart: violations (PARSE_EINVALID),
\* other errors, and success.
Results == {"ok", "error", "invalid"}

\* What is kept of a TLV taken, with the last byte of its text as displayed.
Content == [type : 2..127, length : Octet, last : Octet]

TypeOK ==
  /\ packet \in Packets /\ body \in Seq(Octet) /\ declared \in UShort
  /\ pc \in {"header", "loop", "astray", "done"}
  /\ pos \in Nat /\ sz \in UShort
  /\ length \in Nat /\ ret \in Results /\ globRet \in Results
  /\ content \in Seq(Content)

-----------------------------------------------------------------------------
(* The bytes. *)

\* The bytes of the value of t.
Text(t) == [i \in 1..t.length |-> IF i = t.length THEN t.last ELSE t.fill]

\* encodeTLV
Bytes(t) == IF t.type = TLV_PAD1 THEN <<TLV_PAD1>>
                                 ELSE <<t.type, t.length>> \o Text(t)

\* Encoded(p)[n] is the bytes of the first n TLVs of p.
Encoded(p) ==
  LET upTo[n \in 0..Len(p)] == IF n = 0 THEN <<>>
                                         ELSE upTo[n - 1] \o Bytes(p[n])
  IN upTo

Written(p) == Encoded(p)[Len(p)]

Init ==
  /\ packet \in Packets
  /\ \E cut \in Cuts, excess \in Excess :
       /\ cut <= Len(Written(packet))
       /\ body = SubSeq(Written(packet), 1, Len(Written(packet)) - cut)
       /\ declared = Len(body) + excess /\ declared \in UShort
  /\ pc = "header" /\ pos = 1 /\ sz = 0
  /\ length = 0 /\ ret = "ok" /\ globRet = "ok" /\ content = <<>>

Byte(i)   == IF i \in DOMAIN body THEN body[i] ELSE 0
Signed(b) == IF b < 128 THEN b ELSE b - 256

type     == Byte(pos)
lgt      == Byte(pos + 1)
avail    == sz - 1                    \* the sz that the functions are given
Value(i) == Byte(pos + 1 + i)         \* body[i] in the functions

-----------------------------------------------------------------------------
(* parseDatagram and parseDatagram0, for a datagram of our protocol. *)

Return(r) ==
  /\ pc' = "done" /\ globRet' = r
  /\ UNCHANGED <<input, pos, sz, length, ret, content>>

Header ==
  /\ pc = "header"
  /\ \/ Len(body) > declared /\ Return("error")
     \/ declared = 0 /\ Return("error")
     \/ /\ Len(body) <= declared /\ declared > 0
        /\ pc' = "loop" /\ sz' = declared
        /\ UNCHANGED <<input, pos, length, ret, globRet, content>>

-----------------------------------------------------------------------------
(* parseTLVCollection. *)

Astray ==
  /\ pc' = "astray"
  /\ UNCHANGED <<input, pos, sz, length, ret, globRet, content>>

\* Faulty variants: the type byte is forgotten; so is a one-byte TLV.
Step_NoType(l) == l
Step_NoPad(l)  == IF type = TLV_PAD1 THEN 0 ELSE l + 1

\* By how much a TLV of parsed length l makes the loop advance.
Step(l) == IF type = TLV_PAD1 THEN l ELSE l + 1

\* Faulty variants: malformed TLVs are taken too; types are unsigned.
Taken_Any(r)      == Signed(type) > TLV_PADN
Taken_Unsigned(r) == r = "ok" /\ type > TLV_PADN

\* ret == 0 && type > TLV_PADN
Taken(r) == r = "ok" /\ Signed(type) > TLV_PADN

\* Faulty variant: the last TLV decides.
Verdict_Last(r) == r

\* globRet, once a TLV was parsed with result r.
Verdict(r) == IF ~Taken(r) /\ r = "invalid" THEN "invalid" ELSE globRet

\* A parseTLV_* has returned r and set length to l; it has read n bytes after
\* the type.  length is an unsigned int, and pointers have 64 bits: a negative
\* step moves body 4 GiB forward, out of the buffer.
Consume(r, l, n) ==
  IF pos + n > Len(body) \/ Step(l) < 0 THEN Astray
  ELSE /\ pos' = pos + Step(l) /\ sz' = (sz - Step(l)) % 65536
       /\ length' = Step(l) /\ ret' = r
       /\ globRet' = Verdict(r)
       /\ content' = IF Taken(r)
                     THEN Append(content, [type   |-> type,
                                           length |-> lgt,
                                           last   |-> Value(lgt)])
                     ELSE content
       /\ UNCHANGED <<input, pc>>

At(t) == pc = "loop" /\ sz > 0 /\ type = t

Pad1 == At(TLV_PAD1) /\ Consume(ret, 1, 0)

parseTLV_PADN ==
  /\ At(TLV_PADN)
  /\ \/ avail < 1 /\ Consume("error", length, 0)
     \/ avail >= 1 /\ lgt > avail - 1 /\ Consume("error", avail, 1)
     \/ /\ avail >= 1 /\ lgt <= avail - 1
        /\ Consume(IF \A i \in 1..lgt : Value(i) = 0 THEN "ok" ELSE "invalid",
                   lgt + 1, lgt + 1)

\* The length is taken before any test, and only the short format is sure to
\* be there.
parseTLV_Hello ==
  /\ At(TLV_HELLO)
  /\ LET l == Signed(lgt) + 1 IN
       \/ avail < 9 /\ Consume("error", l, 1)
       \/ avail >= 9 /\ lgt \in {8, 16} /\ Consume("ok", l, l)
       \/ avail >= 9 /\ lgt \notin {8, 16} /\ Consume("invalid", l, 1)

parseTLV_Neighbour ==
  /\ At(TLV_NEIGHBOUR)
  /\ \/ avail < 1 /\ Consume("error", length, 0)
     \/ avail >= 1 /\ lgt = 18 /\ Consume("ok", 19, 19)
     \/ avail >= 1 /\ lgt # 18 /\ Consume("invalid", length, 1)

\* A value of at least least bytes, all there; else l is the length left.
Sized(least, r, l) ==
  \/ avail < 1 /\ Consume("error", length, 0)
  \/ avail >= 1 /\ lgt >= least /\ lgt + 1 <= avail
     /\ Consume("ok", lgt + 1, lgt + 1)
  \/ avail >= 1 /\ (lgt < least \/ lgt + 1 > avail) /\ Consume(r, l, 1)

\* Faulty variant: the length byte is not counted.
parseTLV_Data_Short ==
  /\ At(TLV_DATA)
  /\ IF lgt = 12 /\ avail >= 13 THEN Astray
     ELSE \/ avail < 1 /\ Consume("error", length, 0)
          \/ avail >= 1 /\ lgt >= 12 /\ lgt + 1 <= avail
             /\ Consume("ok", lgt, lgt + 1)
          \/ avail >= 1 /\ (lgt < 12 \/ lgt + 1 > avail)
             /\ Consume("invalid", length, 1)

\* A Data without a byte of text has a NUL written before its block.
parseTLV_Data ==
  /\ At(TLV_DATA)
  /\ IF lgt = 12 /\ avail >= 13 THEN Astray
                                ELSE Sized(12, "invalid", length)

parseTLV_ACK == At(TLV_ACK) /\ Sized(12, "invalid", length)

parseTLV_GoAway == At(TLV_GOAWAY) /\ Sized(1, "invalid", length)

parseTLV_Warning == At(TLV_WARNING) /\ Sized(0, "error", length)

\* Any other type; its length is read as a signed char.
Unknown ==
  /\ pc = "loop" /\ sz > 0 /\ type \notin TLV_PAD1..TLV_WARNING
  /\ Consume(ret, Signed(lgt), 1)

EndOfLoop == pc = "loop" /\ sz = 0 /\ Return(globRet)

parseTLVCollection ==
  \/ Pad1 \/ parseTLV_PADN \/ parseTLV_Hello \/ parseTLV_Neighbour
  \/ parseTLV_Data \/ parseTLV_ACK \/ parseTLV_GoAway \/ parseTLV_Warning
  \/ Unknown \/ EndOfLoop

\* parseDatagram has returned, or no one knows what it does.
Finished == pc \in {"done", "astray"} /\ UNCHANGED vars

Next == Header \/ parseTLVCollection \/ Finished

Spec == Init /\ [][Next]_vars

\* The parser runs in the background thread, and waits for nothing.
FairSpec == Spec /\ WF_vars(Header \/ parseTLVCollection)

-----------------------------------------------------------------------------
(* What the rest of the program expects of the parser. *)

\* Any bytes at all, under any header: what a peer wrote, and what it did not.
AnyInit ==
  /\ packet \in Packets /\ body \in Seq(Octet) /\ declared \in UShort
  /\ pc = "header" /\ pos = 1 /\ sz = 0
  /\ length = 0 /\ ret = "ok" /\ globRet = "ok" /\ content = <<>>

AnySpec == AnyInit /\ [][Next]_vars

\* The datagram is as its author wrote it.
Whole == declared = Len(body) /\ body = Written(packet)

\* manageDatagram has a case for it.
Known(t) == t.type \in TLV_HELLO..TLV_WARNING

Zeroes(t) == \A i \in 1..t.length : Text(t)[i] = 0

\* Padding, or a TLV that the program knows, as the protocol has them; a Data
\* has a byte of text.
Legal(t) ==
  /\ Readable(t) /\ t.type <= TLV_WARNING
  /\ t.type = TLV_DATA => t.length > 12
  /\ t.type = TLV_PADN => Zeroes(t)

\* A TLV that is whole and that the protocol forbids.  A Hello is long enough
\* for its length to be looked at.
Forbidden(t) ==
  \/ ~Readable(t) /\ (t.type = TLV_HELLO => t.length > 8)
  \/ t.type = TLV_PADN /\ ~Zeroes(t)

\* What is to be found of t in the content: its text as it was written (that
\* of a Data may lack its NUL, which mirc.cpp:205 overwrites).
Parsed(t) == [type   |-> t.type,
              length |-> t.length,
              last   |-> IF t.length = 0 THEN 0 ELSE t.last]

\* The first n TLVs of the packet are legal; this many of them are known.
LegalUpTo(n) == \A i \in 1..n : Legal(packet[i])
Rank(n)      == Cardinality({i \in 1..n : Known(packet[i])})

\* The places where a TLV begins, and where the last one ends.
Boundaries == {1 + Len(Encoded(packet)[n]) : n \in 0..Len(packet)}

\* Legal packets are read from end to end, a TLV at a time: pos only stands
\* where a TLV begins, what is left is what sz says, and no byte that is not
\* the datagram's is touched.  Rests on the lengths that six functions store.
Contained ==
  Whole /\ LegalUpTo(Len(packet)) /\ pc # "header" =>
    /\ pc # "astray"
    /\ pos \in Boundaries /\ pos + sz = Len(body) + 1

\* The TLVs that come before the first fault are all taken, in their order
\* and with their text; of a legal packet, nothing else is.
Decoded ==
  pc = "done" /\ Whole =>
    /\ \A i \in DOMAIN packet : LegalUpTo(i) /\ Known(packet[i]) =>
         /\ Rank(i) \in DOMAIN content
         /\ content[Rank(i)] = Parsed(packet[i])
    /\ LegalUpTo(Len(packet)) /\ packet # <<>> =>
         Len(content) = Rank(Len(packet)) /\ globRet = "ok"

\* A forbidden TLV is reported, whatever comes after it: doReceive then sends
\* a GoAway of code 3.
Reported ==
  pc = "done" /\ Whole =>
    \A i \in DOMAIN packet :
      Forbidden(packet[i]) /\ LegalUpTo(i - 1) => globRet = "invalid"

\* Nothing is taken that the protocol forbids, be the datagram cut or the
\* parser lost in the middle of a TLV: the program acts on what it was given.
NothingForbidden == \A i \in DOMAIN content : Readable(content[i])

\* Why they hold: of a whole datagram, the parser has passed n TLVs, all legal,
\* and stands behind them; or it has met a TLV that is not legal, the n-th.
Fetched(n) ==
  \A i \in 1..n : Known(packet[i]) =>
    Rank(i) \in DOMAIN content /\ content[Rank(i)] = Parsed(packet[i])

Reading(n) ==
  /\ LegalUpTo(n) /\ Fetched(n) /\ Len(content) = Rank(n)
  /\ ret = "ok" /\ globRet = "ok"
  /\ pos = 1 + Len(Encoded(packet)[n]) /\ pos + sz = Len(body) + 1
  /\ pc = "done" => sz = 0

Lost(n) ==
  /\ LegalUpTo(n - 1) /\ Fetched(n - 1)
  /\ ~Legal(packet[n]) /\ (Forbidden(packet[n]) => globRet = "invalid")

WholeInv ==
  Whole =>
    /\ pc = "header" =>
         pos = 1 /\ sz = 0 /\ content = <<>> /\ ret = "ok" /\ globRet = "ok"
    /\ packet = <<>> => pc \in {"header", "done"} /\ pos = 1 /\ sz = 0
    /\ packet # <<>> /\ pc \in {"loop", "done"} =>
         \/ \E n \in 0..Len(packet) : Reading(n)
         \/ \E n \in 1..Len(packet) : Lost(n)
    /\ LegalUpTo(Len(packet)) => pc # "astray"

\* A length byte whose step wraps to 0: the loop stays at this TLV for ever.
Endless ==
  /\ pc = "loop" /\ sz > 0
  /\ \/ type = TLV_HELLO /\ lgt = 254
     \/ type \notin TLV_PAD1..TLV_WARNING /\ lgt = 255

\* Whatever the datagram and whatever was misread of it, the loop comes to an
\* end or leaves the datagram, but for two length bytes.  Rests on body moving
\* at each TLV, though length may be that of another one and sz may wrap.
Ends == pc = "loop" ~> (pc \in {"done", "astray"} \/ Endless)

\* rapport.tex:108: all sizes are verified, and the program stays robust to
\* the mistakes of other peers.  Checked to fail, because of Endless.
Returns == pc = "loop" ~> pc \in {"done", "astray"}

\* A TLV of a type that the program does not know changes nothing to what it
\* takes of the others: main.cpp says that such TLVs are ignored.  Checked to
\* fail, as the last byte of their value is read as a type.
UnknownIgnored ==
  pc = "done" /\ Whole /\ (\A i \in DOMAIN packet :
                             Legal(packet[i]) \/ packet[i].type > TLV_WARNING)
    => Len(SelectSeq(content, Known)) = Len(SelectSeq(packet, Known))
=============================================================================
