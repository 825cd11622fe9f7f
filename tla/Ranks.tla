------------------------------- MODULE Ranks -------------------------------
(***************************************************************************)
(* Loops that keep some of the indices they visit: a std::vector they       *)
(* append to holds the kept ones in the order of the loop.                  *)
(***************************************************************************)
EXTENDS Integers, FiniteSets

\* How many of the indices S a loop has kept after iteration i.
Rank(S, i) == Cardinality(S \cap (1 .. i))

\* The k-th index kept.
Nth(S, k) == CHOOSE i \in S : Rank(S, i) = k
=============================================================================
