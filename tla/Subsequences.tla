------------------------------ MODULE Subsequences ------------------------------
(***************************************************************************)
(* The elements of a sequence that pass a test, in their order: what the   *)
(* where of a select and a loop with a continue leave.  The test is given  *)
(* as the set of places that pass it.                                      *)
(***************************************************************************)
EXTENDS Naturals, FiniteSets

(* The k-th of a set of numbers, in ascending order. *)
Nth(I, k) == CHOOSE i \in I : Cardinality({j \in I : j <= i}) = k

(* The elements of s at the places I. *)
Pick(s, I) == [k \in 1..Cardinality(I) |-> s[Nth(I, k)]]
===============================================================================
