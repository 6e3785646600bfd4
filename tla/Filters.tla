------------------------------- MODULE Filters -------------------------------
(***************************************************************************)
(* Array.prototype.filter as the stores of the browser use it, by the      *)
(* positions it keeps.  SelectSeq gives the same sequence, but the prover  *)
(* has no definition of it.                                                *)
(***************************************************************************)
EXTENDS Naturals, Sequences, FiniteSets

(* The k-th of some positions, from the first on.                          *)
Nth(positions, k) == CHOOSE i \in positions : Cardinality({j \in positions : j <= i}) = k

Filtered(s, positions) == [k \in 1 .. Cardinality(positions) |-> s[Nth(positions, k)]]
=============================================================================
