------------------------------ MODULE MCGroup -------------------------------
(* Group, with three peers in a row. *)
EXTENDS Group

CONSTANTS p1, p2, p3, m1

MCPeers  == {p1, p2, p3}
MCLinks  == {{p1, p2}, {p2, p3}}
MCAuthor == [m \in {m1} |-> p1]
=============================================================================
