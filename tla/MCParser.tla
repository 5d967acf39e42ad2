------------------------------ MODULE MCParser ------------------------------
(* Parser, on the packets made of at most three of the TLVs below. *)
EXTENDS Parser

TLVof(t, n, f, l) == [type |-> t, length |-> n, fill |-> f, last |-> l]

\* Of each type, the shortest and the longest that the parser can pass.
LegalTLVs ==
  {TLVof(TLV_PAD1, 0, 0, 0),
   TLVof(TLV_PADN, 0, 0, 0),       TLVof(TLV_PADN, 3, 0, 0),
   TLVof(TLV_HELLO, 8, 2, 2),      TLVof(TLV_HELLO, 16, 255, 4),
   TLVof(TLV_NEIGHBOUR, 18, 4, 4),
   TLVof(TLV_DATA, 13, 0, 0),      TLVof(TLV_DATA, 14, 7, 65),
   TLVof(TLV_DATA, 255, 65, 0),
   TLVof(TLV_ACK, 12, 5, 5),
   TLVof(TLV_GOAWAY, 1, 2, 2),     TLVof(TLV_GOAWAY, 23, 0, 0),
   TLVof(TLV_WARNING, 0, 0, 0),    TLVof(TLV_WARNING, 3, 6, 0)}

\* Of each type that has one, a TLV that the protocol forbids; and TLVs that
\* it allows, but that the parser does not pass or does not know.
OtherTLVs ==
  {TLVof(TLV_PADN, 3, 0, 1), TLVof(TLV_HELLO, 5, 0, 0),
   TLVof(TLV_HELLO, 12, 0, 0), TLVof(TLV_NEIGHBOUR, 17, 0, 0),
   TLVof(TLV_DATA, 3, 0, 0), TLVof(TLV_ACK, 3, 0, 0),
   TLVof(TLV_GOAWAY, 0, 0, 0), TLVof(TLV_DATA, 12, 1, 1),
   TLVof(TLV_FILE, 3, 4, 4), TLVof(100, 130, 1, 1),
   TLVof(TLV_HELLO, 254, 0, 0), TLVof(200, 255, 0, 0)}

All == LegalTLVs \cup OtherTLVs

MCPackets ==
  {<<a>> : a \in All} \cup (All \X All) \cup (LegalTLVs \X All \X LegalTLVs)

MCCuts   == {0, 1, 2}
MCExcess == {-1, 0, 1}
=============================================================================
