----------------------------- MODULE Broadcast -----------------------------
(***************************************************************************)
(* What the peers promise to the people who chat: a message that is heard  *)
(* was said, and nobody hears a message twice, nor one of his own.         *)
(***************************************************************************)
EXTENDS Sequences, Functions

CONSTANTS
  Peers, Messages,
  author              \* author[m] says m

VARIABLES
  said,               \* the messages said
  heard               \* what each peer has heard, in order

Init == said = {} /\ heard = [p \in Peers |-> <<>>]

Say(m) == m \notin said /\ said' = said \cup {m} /\ UNCHANGED heard

Hear(p, m) ==
  /\ m \in said /\ author[m] # p /\ m \notin Range(heard[p])
  /\ heard' = [heard EXCEPT ![p] = Append(@, m)]
  /\ UNCHANGED said

Next == \E m \in Messages : Say(m) \/ \E p \in Peers : Hear(p, m)

Spec == Init /\ [][Next]_<<said, heard>>
=============================================================================
