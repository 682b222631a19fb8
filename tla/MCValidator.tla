----------------------------- MODULE MCValidator -----------------------------
(* Validator with three addresses and one consensus key, hence one node. *)
EXTENDS Validator
=============================================================================
