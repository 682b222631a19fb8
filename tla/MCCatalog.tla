------------------------------ MODULE MCCatalog ------------------------------
(* Catalog with one vendor, and two versions, strings, certificates and dates. *)
EXTENDS Catalog, TLC

CONSTANTS s1, s2, cd1, cd2

Symmetry == Permutations({s1, s2}) \cup Permutations({cd1, cd2})
=============================================================================
