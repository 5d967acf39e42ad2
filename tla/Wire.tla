-------------------------------- MODULE Wire --------------------------------
(***************************************************************************)
(* TLVs as they travel: a type, the length of the value, and the value.    *)
(* A TLV is a record [type, length]; its length is the true one, while its *)
(* length byte has eight bits.  Outgoing writes TLVs, Parser reads them.   *)
(***************************************************************************)
EXTENDS Integers

TLV_PAD1      == 0
TLV_PADN      == 1
TLV_HELLO     == 2
TLV_NEIGHBOUR == 3
TLV_DATA      == 4
TLV_ACK       == 5
TLV_GOAWAY    == 6
TLV_WARNING   == 7
TLV_FILE      == 241      \* 0xf1, of a type the program does not know

\* The constructors, of which only the lengths are kept.
tlvPad1      == [type |-> TLV_PAD1, length |-> 0]
tlvPadN(n)   == [type |-> TLV_PADN, length |-> n]
tlvHello     == [type |-> TLV_HELLO, length |-> 8]
tlvLongHello == [type |-> TLV_HELLO, length |-> 16]
tlvNeighbour == [type |-> TLV_NEIGHBOUR, length |-> 18]
tlvAck       == [type |-> TLV_ACK, length |-> 12]
tlvGoAway(n) == [type |-> TLV_GOAWAY, length |-> 1 + n]

\* A block of n bytes in a Data: tlvData keeps 255 of them at most.
DataLength(n) == 12 + IF n <= 255 THEN n ELSE 255

\* What tlvLen returns, and the number of bytes encodeTLV writes.
tlvLen(t) == IF t.type = TLV_PAD1 THEN 1 ELSE 2 + t.length

\* The lengths the protocol gives to the values of a type; the parser skips
\* a TLV of a type it does not know.
Lengths(type) ==
  CASE type = TLV_PAD1      -> {0}
    [] type = TLV_HELLO     -> {8, 16}
    [] type = TLV_NEIGHBOUR -> {18}
    [] type = TLV_DATA      -> 12..255
    [] type = TLV_ACK       -> 12..255
    [] type = TLV_GOAWAY    -> 1..255
    [] OTHER                -> 0..255

\* A TLV that any peer can read.
Readable(t) == t.length \in Lengths(t.type)
=============================================================================
