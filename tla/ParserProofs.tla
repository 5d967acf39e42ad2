---------------------------- MODULE ParserProofs ----------------------------
(***************************************************************************)
(* Proofs about Parser, for any bytes under any header (AnySpec): the types*)
(* of its variables, widths included, and that nothing forbidden is taken. *)
(* What depends on the bytes of a packet, by induction on its TLVs, is in  *)
(* PacketProofs.                                                           *)
(***************************************************************************)
EXTENDS Parser, TLAPS

\* What wraps to 16 bits, and what has.
LEMMA Wraps == \A n \in Int : n % 65536 \in UShort
BY SMTT(60) DEF UShort

LEMMA Shorts == 0 \in UShort /\ \A n \in UShort : n \in Nat
BY DEF UShort

LEMMA ByteType ==
  ASSUME TypeOK, NEW i \in Nat
  PROVE  Byte(i) \in Octet
<1>1. body \in Seq(Octet)
  BY DEF TypeOK
<1>2. \A k \in DOMAIN body : body[k] \in Octet
  <2> TAKE k \in DOMAIN body
  <2> QED
    BY <1>1
<1>3. 0 \in Octet
  BY DEF Octet
<1> QED
  BY <1>2, <1>3, Zenon DEF Byte

\* The bytes that an iteration begins with.
LEMMA HeadTypes ==
  ASSUME TypeOK
  PROVE  /\ type \in 0..255 /\ lgt \in 0..255 /\ avail \in Int
         /\ Value(lgt) \in Octet
         /\ Signed(type) \in Int /\ Signed(lgt) \in Int
<1>1. pos \in Nat /\ pos + 1 \in Nat /\ sz \in Nat
  BY Shorts DEF TypeOK
<1>2. type \in 0..255 /\ lgt \in 0..255
  BY <1>1, ByteType DEF type, lgt, Octet
<1>3. avail \in Int
  BY <1>1 DEF avail
<1>4. Signed(type) \in Int /\ Signed(lgt) \in Int
  BY <1>2 DEF Signed
<1>5. Value(lgt) \in Octet
  <2>1. pos + 1 + lgt \in Nat
    BY <1>1, <1>2
  <2> QED
    BY <2>1, ByteType DEF Value
<1> QED
  BY <1>2, <1>3, <1>4, <1>5

\* One TLV more, of a length that its type may have.
LEMMA ContentGrows ==
  ASSUME TypeOK, NothingForbidden, NEW t \in Content, Readable(t)
  PROVE  /\ Append(content, t) \in Seq(Content)
         /\ \A i \in DOMAIN Append(content, t) : Readable(Append(content, t)[i])
<1>1. content \in Seq(Content)
  BY DEF TypeOK
<1>2. Append(content, t) \in Seq(Content)
  BY <1>1
<1>3. /\ DOMAIN Append(content, t) = 1..(Len(content) + 1)
      /\ \A i \in 1..Len(content) : Append(content, t)[i] = content[i]
      /\ Append(content, t)[Len(content) + 1] = t
      /\ DOMAIN content = 1..Len(content) /\ Len(content) \in Nat
  BY <1>1
<1>4. ASSUME NEW i \in 1..(Len(content) + 1)
      PROVE  Readable(Append(content, t)[i])
  <2>1. CASE i = Len(content) + 1
    BY <1>3, <2>1
  <2>2. CASE i \in 1..Len(content)
    BY <1>3, <2>2 DEF NothingForbidden
  <2> QED
    BY <1>3, <2>1, <2>2
<1> QED
  BY <1>2, <1>3, <1>4

\* Whatever a parseTLV_* returns, provided that it only passes a TLV of a
\* length that its type may have.
LEMMA ConsumeKeeps ==
  ASSUME TypeOK, NothingForbidden,
         NEW r \in Results, NEW l \in Int, NEW n \in Nat,
         Taken(r) => lgt \in Lengths(type),
         Consume(r, l, n)
  PROVE  TypeOK' /\ NothingForbidden'
<1>1. CASE Astray
  BY <1>1 DEF Astray, TypeOK, NothingForbidden, input
<1>2. CASE ~Astray
  <2> DEFINE t == [type |-> type, length |-> lgt, last |-> Value(lgt)]
  <2>1. /\ ~(Step(l) < 0)
        /\ pos' = pos + Step(l) /\ sz' = (sz - Step(l)) % 65536
        /\ length' = Step(l) /\ ret' = r /\ globRet' = Verdict(r)
        /\ content' = IF Taken(r) THEN Append(content, t) ELSE content
        /\ UNCHANGED <<packet, body, declared, pc>>
    BY <1>2 DEF Consume, input
  <2>2. Step(l) \in Nat
    BY <2>1 DEF Step
  <2>3. sz' \in UShort
    <3>1. sz \in Int
      BY Shorts DEF TypeOK
    <3>2. sz - Step(l) \in Int
      BY <2>2, <3>1
    <3> QED
      BY <2>1, <3>2, Wraps
  <2>4. /\ content' \in Seq(Content)
        /\ \A i \in DOMAIN content' : Readable(content'[i])
    <3>1. CASE Taken(r)
      <4>1. type \in 2..127 /\ lgt \in 0..255 /\ Value(lgt) \in Octet
        BY <3>1, HeadTypes DEF Taken, Signed, TLV_PADN
      <4>2. t \in Content
        BY <4>1 DEF Content, Octet
      <4>3. Readable(t)
        BY <3>1 DEF Readable
      <4> HIDE DEF t
      <4> QED
        BY <2>1, <3>1, <4>2, <4>3, ContentGrows
    <3>2. CASE ~Taken(r)
      BY <2>1, <3>2 DEF TypeOK, NothingForbidden
    <3> QED
      BY <3>1, <3>2
  <2>5. Verdict(r) \in Results
    BY DEF Verdict, TypeOK, Results
  <2> QED
    BY <2>1, <2>2, <2>3, <2>4, <2>5 DEF TypeOK, NothingForbidden
<1> QED
  BY <1>1, <1>2

\* A value of a minimal length.
LEMMA SizedKeeps ==
  ASSUME TypeOK, NothingForbidden,
         NEW least \in Nat, NEW r \in Results \ {"ok"},
         \A n \in least..255 : n \in Lengths(type),
         Sized(least, r, length)
  PROVE  TypeOK' /\ NothingForbidden'
<1>1. length \in Int /\ lgt \in 0..255 /\ lgt + 1 \in Nat
  <2>1. length \in Nat
    BY DEF TypeOK
  <2> QED
    BY <2>1, HeadTypes
<1>2. CASE Consume("error", length, 0) \/ Consume(r, length, 1)
  BY <1>1, <1>2, ConsumeKeeps DEF Taken, Results
<1>3. CASE lgt >= least /\ Consume("ok", lgt + 1, lgt + 1)
  <2>1. lgt \in Lengths(type)
    BY <1>1, <1>3
  <2> QED
    BY <1>1, <1>3, <2>1, ConsumeKeeps DEF Results
<1> QED
  BY <1>2, <1>3 DEF Sized

\* The functions, one by one.
LEMMA PadKeeps ==
  ASSUME TypeOK, NothingForbidden, Pad1 \/ parseTLV_PADN
  PROVE  TypeOK' /\ NothingForbidden'
<1>1. \A r : ~Taken(r)
  BY DEF Pad1, parseTLV_PADN, At, Taken, Signed, TLV_PAD1, TLV_PADN
<1>2. /\ ret \in Results /\ {"error", "ok", "invalid"} \subseteq Results
      /\ length \in Nat /\ avail \in Int /\ lgt + 1 \in Nat
  <2>1. ret \in Results /\ length \in Nat
    BY DEF TypeOK
  <2> QED
    BY <2>1, HeadTypes DEF Results
<1>3. \/ Consume(ret, 1, 0) \/ Consume("error", length, 0)
      \/ Consume("error", avail, 1)
      \/ Consume("ok", lgt + 1, lgt + 1) \/ Consume("invalid", lgt + 1, lgt + 1)
  BY DEF Pad1, parseTLV_PADN
<1>4. PICK r \in Results, l \in Int, n \in Nat : Consume(r, l, n)
  BY <1>2, <1>3
<1> QED
  BY <1>1, <1>4, ConsumeKeeps

LEMMA HelloKeeps ==
  ASSUME TypeOK, NothingForbidden, parseTLV_Hello
  PROVE  TypeOK' /\ NothingForbidden'
<1> DEFINE l == Signed(lgt) + 1
<1>1. l \in Int
  BY HeadTypes
<1>2. lgt \in {8, 16} => lgt \in Lengths(type) /\ l \in Nat
  <2>1. type = TLV_HELLO
    BY DEF parseTLV_Hello, At
  <2>2. 8 \in Lengths(TLV_HELLO) /\ 16 \in Lengths(TLV_HELLO)
    <3>1. TLV_HELLO \notin {TLV_PAD1, TLV_NEIGHBOUR, TLV_DATA, TLV_ACK,
                           TLV_GOAWAY}
      BY DEF TLV_HELLO, TLV_PAD1, TLV_NEIGHBOUR, TLV_DATA, TLV_ACK, TLV_GOAWAY
    <3>2. Lengths(TLV_HELLO) = {8, 16}
      BY <3>1, Zenon DEF Lengths
    <3> QED
      BY <3>2
  <2>3. Signed(8) = 8 /\ Signed(16) = 16
    BY DEF Signed
  <2> QED
    BY <2>1, <2>2, <2>3
<1>3. \/ Consume("error", l, 1) \/ Consume("invalid", l, 1)
      \/ lgt \in {8, 16} /\ Consume("ok", l, l)
  BY DEF parseTLV_Hello
<1> HIDE DEF l
<1> QED
  BY <1>1, <1>2, <1>3, ConsumeKeeps DEF Taken, Results

LEMMA NeighbourKeeps ==
  ASSUME TypeOK, NothingForbidden, parseTLV_Neighbour
  PROVE  TypeOK' /\ NothingForbidden'
<1>1. lgt = 18 => lgt \in Lengths(type)
  BY DEF parseTLV_Neighbour, At, Lengths, TLV_PAD1, TLV_HELLO, TLV_NEIGHBOUR
<1>2. \/ Consume("error", length, 0) \/ Consume("invalid", length, 1)
      \/ lgt = 18 /\ Consume("ok", 19, 19)
  BY DEF parseTLV_Neighbour
<1>3. length \in Int
  BY DEF TypeOK
<1> QED
  BY <1>1, <1>2, <1>3, ConsumeKeeps DEF Taken, Results

LEMMA SizedOnesKeep ==
  ASSUME TypeOK, NothingForbidden,
         parseTLV_Data \/ parseTLV_ACK \/ parseTLV_GoAway \/ parseTLV_Warning
  PROVE  TypeOK' /\ NothingForbidden'
<1> USE DEF At, Lengths, TLV_PAD1, TLV_HELLO, TLV_NEIGHBOUR, TLV_DATA, TLV_ACK,
            TLV_GOAWAY, TLV_WARNING, Results
<1>1. CASE parseTLV_Data
  <2>1. \A n \in 12..255 : n \in Lengths(type)
    BY <1>1 DEF parseTLV_Data
  <2>2. Astray \/ Sized(12, "invalid", length)
    BY <1>1 DEF parseTLV_Data
  <2>3. CASE Astray
    BY <2>3 DEF Astray, TypeOK, NothingForbidden, input
  <2> QED
    BY <2>1, <2>2, <2>3, SizedKeeps
<1>2. CASE parseTLV_ACK
  <2>1. \A n \in 12..255 : n \in Lengths(type)
    BY <1>2 DEF parseTLV_ACK
  <2> QED
    BY <1>2, <2>1, SizedKeeps DEF parseTLV_ACK
<1>3. CASE parseTLV_GoAway
  <2>1. \A n \in 1..255 : n \in Lengths(type)
    BY <1>3 DEF parseTLV_GoAway
  <2> QED
    BY <1>3, <2>1, SizedKeeps DEF parseTLV_GoAway
<1>4. CASE parseTLV_Warning
  <2>1. \A n \in 0..255 : n \in Lengths(type)
    BY <1>4 DEF parseTLV_Warning
  <2> QED
    BY <1>4, <2>1, SizedKeeps DEF parseTLV_Warning
<1> QED
  BY <1>1, <1>2, <1>3, <1>4

LEMMA UnknownKeeps ==
  ASSUME TypeOK, NothingForbidden, Unknown
  PROVE  TypeOK' /\ NothingForbidden'
<1>1. lgt \in Lengths(type)
  BY HeadTypes DEF Unknown, Lengths, TLV_PAD1, TLV_HELLO, TLV_NEIGHBOUR,
     TLV_DATA, TLV_ACK, TLV_GOAWAY, TLV_WARNING
<1>2. ret \in Results /\ Signed(lgt) \in Int
  BY HeadTypes DEF TypeOK
<1> QED
  BY <1>1, <1>2, ConsumeKeeps DEF Unknown

\* Every step keeps the types, and takes nothing forbidden.
LEMMA ParserNext ==
  ASSUME TypeOK, NothingForbidden, [Next]_vars
  PROVE  TypeOK' /\ NothingForbidden'
<1>1. CASE Header
  <2>1. CASE Return("error")
    BY <2>1 DEF Return, TypeOK, NothingForbidden, input, Results
  <2>2. CASE ~Return("error")
    BY <1>1, <2>2 DEF Header, TypeOK, NothingForbidden, input
  <2> QED
    BY <2>1, <2>2
<1>2. CASE EndOfLoop
  BY <1>2 DEF EndOfLoop, Return, TypeOK, NothingForbidden, input
<1>3. CASE Finished \/ UNCHANGED vars
  BY <1>3 DEF Finished, vars, TypeOK, NothingForbidden, input
<1> QED
  BY <1>1, <1>2, <1>3, PadKeeps, HelloKeeps, NeighbourKeeps, SizedOnesKeep,
     UnknownKeeps DEF Next, parseTLVCollection

\* The same, for a behaviour.
LEMMA ParserInvariant == AnySpec => [](TypeOK /\ NothingForbidden)
<1>1. AnyInit => TypeOK /\ NothingForbidden
  BY Shorts DEF AnyInit, TypeOK, NothingForbidden, Results
<1>2. TypeOK /\ NothingForbidden /\ [Next]_vars => (TypeOK /\ NothingForbidden)'
  BY ParserNext
<1> QED
  BY <1>1, <1>2, PTL DEF AnySpec

-----------------------------------------------------------------------------
\* Whatever comes, sz keeps to its 16 bits and the results to their kinds.
THEOREM ParserTypes == AnySpec => []TypeOK
<1> QED
  BY ParserInvariant, PTL

\* Whatever comes, parseDatagram gives manageDatagram no TLV of a length that
\* the protocol forbids: the handlers may read the fields of what they get.
THEOREM OnlyReadable == AnySpec => []NothingForbidden
<1> QED
  BY ParserInvariant, PTL
=============================================================================
