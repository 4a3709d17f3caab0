------------------------------- MODULE Sorting ------------------------------
(***************************************************************************)
(* Sorted sequences, in terms of how many elements stand before an element. *)
(* What the community modules sort with takes the comparison as an operator *)
(* and cannot be reasoned about; here it is the set of its pairs.          *)
(***************************************************************************)
EXTENDS Naturals, FiniteSets

(* The elements of S along R, which orders them totally. *)
Along(S, R) ==
    [k \in 1 .. Cardinality(S) |-> CHOOSE x \in S : Cardinality({y \in S : <<y, x>> \in R}) = k - 1]

(* A set of numbers, and the items of a sequence at the positions P. *)
InOrder(S) == Along(S, {p \in S \X S : p[1] < p[2]})

Picked(s, P) == LET at == InOrder(P) IN [k \in DOMAIN at |-> s[at[k]]]

(* The positions of P in the order of the numbers there, and equal ones as *)
(* they stand: a stable sort.                                              *)
ByNumber(s, P) ==
    Along(P, {p \in P \X P : s[p[1]] < s[p[2]] \/ (s[p[1]] = s[p[2]] /\ p[1] < p[2])})
=============================================================================
