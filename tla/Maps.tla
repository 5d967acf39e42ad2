-------------------------------- MODULE Maps --------------------------------
(***************************************************************************)
(* The program keeps its tables in std::unordered_map.  Here such a table  *)
(* is a function whose domain is the set of keys present.  The operators   *)
(* below are the three accesses the code makes: operator[] as an lvalue,   *)
(* erase(key), and the type of a table.                                    *)
(***************************************************************************)
EXTENDS Functions

\* m is a table with keys in K and values in V.
IsMap(m, K, V) == DOMAIN m \in SUBSET K /\ m \in [DOMAIN m -> V]

\* The empty table.
EmptyMap == [k \in {} |-> k]

\* m[k] = v
Put(m, k, v) == [x \in DOMAIN m \cup {k} |-> IF x = k THEN v ELSE m[x]]

\* m without the keys of D; m.erase(k) is Erase(m, {k}).
Erase(m, D) == Restrict(m, DOMAIN m \ D)
=============================================================================
