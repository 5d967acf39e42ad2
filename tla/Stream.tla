------------------------------- MODULE Stream -------------------------------
(***************************************************************************)
(* What toSend[address] and sendPendingTLVs promise to the code that       *)
(* pushes TLVs: they leave in the order they came, each of them once, and  *)
(* none before the ones that wait in front of it.                          *)
(***************************************************************************)
EXTENDS Sequences, SequencesExt

VARIABLES
  queued,             \* the TLVs pushed so far
  sent                \* the TLVs that have left

Init == queued = <<>> /\ sent = <<>>

\* TLVs are pushed, and some of those that wait leave.
Next ==
  /\ IsPrefix(queued, queued')
  /\ IsPrefix(sent, sent') /\ IsPrefix(sent', queued')

Spec == Init /\ [][Next]_<<queued, sent>>
=============================================================================
