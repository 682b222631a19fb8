---------------------------- MODULE MCCompliance -----------------------------
(* Compliance with a few versions, certificates and dates. *)
EXTENDS Compliance, TLC

CONSTANTS cd1, cd2

Symmetry == Permutations({cd1, cd2})
=============================================================================
