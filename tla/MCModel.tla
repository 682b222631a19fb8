------------------------------- MODULE MCModel -------------------------------
(* Model with a few ids and versions. *)
EXTENDS Model
=============================================================================
