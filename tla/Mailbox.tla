------------------------------ MODULE Mailbox ------------------------------
(***************************************************************************)
(* What the receiver threads promise the background thread, one socket at  *)
(* a time: a mailbox of one place.  The datagrams of a socket are numbered *)
(* in the order they are taken from it; the next one is taken only when    *)
(* the one before has been handled, so each is handled once, in order.     *)
(***************************************************************************)
EXTENDS Naturals, Sequences

CONSTANT Sockets

VARIABLES
  taken,              \* how many datagrams were taken from each socket
  handled             \* the numbers of those handled, in order

Init == taken = [s \in Sockets |-> 0] /\ handled = [s \in Sockets |-> <<>>]

Take(s) ==
  /\ Len(handled[s]) = taken[s]
  /\ taken' = [taken EXCEPT ![s] = @ + 1]
  /\ UNCHANGED handled

Handle(s) ==
  /\ Len(handled[s]) < taken[s]
  /\ handled' = [handled EXCEPT ![s] = Append(@, taken[s])]
  /\ UNCHANGED taken

Next == \E s \in Sockets : Take(s) \/ Handle(s)

Spec == Init /\ [][Next]_<<taken, handled>>
=============================================================================
