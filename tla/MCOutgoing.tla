----------------------------- MODULE MCOutgoing -----------------------------
(* Outgoing, with a line of two fragments, or a shorter one whose fragment    *)
(* fits its Data.                                                            *)
EXTENDS Outgoing

MCLines  == {100, 508}
\* Another peer's message, on its way.
MCOthers == {[type |-> TLV_DATA, length |-> 255]}
=============================================================================
