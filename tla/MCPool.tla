------------------------------- MODULE MCPool --------------------------------
(* Pool with three Trustees, one of whom also has a node. *)
EXTENDS Pool, TLC

CONSTANTS t1, t2, x

Trustee == [roles |-> {"Trustee"}, vid |-> 0]
NodeAdmin == [roles |-> {"NodeAdmin"}, vid |-> 0]
Both == [roles |-> {"Trustee", "NodeAdmin"}, vid |-> 0]

MCProfile == {NodeAdmin}
MCGenesis == [a \in {t1, t2, x} |-> IF a = x THEN Both ELSE Trustee]

Symmetry == Permutations({t1, t2})
=============================================================================
