---------------------------- MODULE MCClientStore ----------------------------
(* ClientStore with three models, each on a page of its own. *)
EXTENDS ClientStore
=============================================================================
