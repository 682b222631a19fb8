---------------------------- MODULE MCDclUpgrade -----------------------------
(* DclUpgrade with a few addresses and heights.  Liveness is checked, so no *)
(* symmetry is used.                                                       *)
EXTENDS DclUpgrade

CONSTANTS t1, t2, t3
=============================================================================
