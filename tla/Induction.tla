------------------------------ MODULE Induction -------------------------------
(***************************************************************************)
(* Induction on sets of numbers, for what is defined by recursion on the   *)
(* elements of a sequence: packets in Parser, queues in Outgoing.  It rests*)
(* on the library's theorem that a well-founded order has minima.          *)
(***************************************************************************)
EXTENDS Integers, WellFoundedInduction, TLAPS

\* A set of natural numbers has a least element.
LEMMA Least ==
  ASSUME NEW T, T \subseteq Nat, T # {}
  PROVE  \E m \in T : \A k \in T : m <= k
<1>1. PICK m \in T : \A k \in T : ~(<<k, m>> \in OpToRel(<, Nat))
  BY NatLessThanWellFounded, WFMin, Zenon
<1>2. \A k \in T : m <= k
  <2> TAKE k \in T
  <2>1. ~(k < m)
    BY <1>1 DEF OpToRel
  <2> QED
    BY <2>1
<1> QED
  BY <1>2

\* Induction up to n, for the property of being in T.
LEMMA Climb ==
  ASSUME NEW T, NEW n \in Nat, 0 \in T, \A i \in 1..n : i - 1 \in T => i \in T
  PROVE  \A i \in 0..n : i \in T
<1> DEFINE out == {i \in 0..n : i \notin T}
<1> SUFFICES ASSUME out # {}
             PROVE  FALSE
  OBVIOUS
<1>1. PICK m \in out : \A k \in out : m <= k
  <2>1. out \subseteq Nat
    OBVIOUS
  <2> HIDE DEF out
  <2> QED
    BY <2>1, Least
<1>2. m \in 1..n /\ m - 1 \in 0..n /\ ~(m <= m - 1)
  OBVIOUS
<1> QED
  BY <1>1, <1>2

\* How to go on in S from each of n numbers to the next, and what goes on so
\* from c.
Steps(S, n) == [1..n -> [S -> S]]
Follows(g, S, c, n, d) ==
  g \in [0..n -> S] /\ g[0] = c /\ \A i \in 1..n : g[i] = d[i][g[i - 1]]

\* What one starts from and how one goes on determine a function.
LEMMA Recursion ==
  ASSUME NEW S, NEW c \in S, NEW n \in Nat, NEW d \in Steps(S, n)
  PROVE  \E g : Follows(g, S, c, n, d)
<1> DEFINE Upto(m, g) == /\ g[0] = c
                         /\ \A i \in 1..m : g[i] = d[i][g[i - 1]]
           T == {m \in 0..n : \E g \in [0..m -> S] : Upto(m, g)}
<1>1. 0 \in T
  <2> DEFINE g == [i \in 0..0 |-> c]
  <2>1. g \in [0..0 -> S] /\ g[0] = c /\ \A i \in 1..0 : FALSE
    OBVIOUS
  <2>2. Upto(0, g) /\ 0 \in 0..n
    BY <2>1
  <2> HIDE DEF g, Upto
  <2> QED
    BY <2>1, <2>2
<1>2. ASSUME NEW i \in 1..n, i - 1 \in T
      PROVE  i \in T
  <2> USE DEF Steps
  <2>1. PICK g \in [0..(i - 1) -> S] : Upto(i - 1, g)
    BY <1>2
  <2> DEFINE h == [j \in 0..i |-> IF j = i THEN d[i][g[i - 1]] ELSE g[j]]
  <2>2. g[i - 1] \in S /\ d[i] \in [S -> S]
    OBVIOUS
  <2>3. h \in [0..i -> S]
    BY <2>2
  <2>4. h[0] = c /\ h[i] = d[i][g[i - 1]] /\ \A j \in 0..(i - 1) : h[j] = g[j]
    BY <2>1
  <2>5. ASSUME NEW j \in 1..i
        PROVE  h[j] = d[j][h[j - 1]]
    <3> HIDE DEF h
    <3>1. CASE j = i
      BY <2>4, <3>1
    <3>2. CASE j \in 1..(i - 1)
      <4>1. h[j] = g[j] /\ h[j - 1] = g[j - 1]
        BY <2>4, <3>2
      <4> QED
        BY <2>1, <3>2, <4>1
    <3> QED
      BY <3>1, <3>2
  <2> HIDE DEF h
  <2> QED
    BY <2>3, <2>4, <2>5
<1>3. n \in T
  <2> HIDE DEF T
  <2>1. \A i \in 1..n : i - 1 \in T => i \in T
    BY <1>2
  <2>2. \A i \in 0..n : i \in T
    BY <1>1, <2>1, Climb
  <2> QED
    BY <2>2
<1> QED
  BY <1>3 DEF Follows

\* g[i] is c and the first i of the n numbers w.
Weights(n) == [1..n -> Nat]
Adds(g, c, n, w) ==
  g \in [0..n -> Nat] /\ g[0] = c /\ \A i \in 1..n : g[i] = g[i - 1] + w[i]

\* So it is for sums.
LEMMA Sums ==
  ASSUME NEW c \in Nat, NEW n \in Nat, NEW w \in Weights(n)
  PROVE  \E g : Adds(g, c, n, w)
<1> DEFINE S == Nat
           d == [i \in 1..n |-> [s \in Nat |-> s + w[i]]]
<1>1. d \in Steps(S, n) /\ c \in S
  BY DEF Steps, Weights
<1>2. PICK g : Follows(g, S, c, n, d)
  <2> HIDE DEF S, d
  <2> QED
    BY <1>1, Recursion, Zenon
<1>3. ASSUME NEW i \in 1..n
      PROVE  g[i] = g[i - 1] + w[i]
  <2>1. g[i - 1] \in Nat
    BY <1>2 DEF Follows
  <2> QED
    BY <1>2, <2>1 DEF Follows
<1> QED
  BY <1>2, <1>3 DEF Follows, Adds
=============================================================================
