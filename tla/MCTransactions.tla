--------------------------- MODULE MCTransactions ----------------------------
(* Transactions with one Trustee, who adds and revokes the vendor x. *)
EXTENDS Transactions, TLC

CONSTANTS t, x

Trustee == [roles |-> {"Trustee"}, vid |-> 0]
Vendor(vid) == [roles |-> {"Vendor"}, vid |-> vid]

MCProfile == {Vendor(1), Vendor(2)}
MCGenesis == [a \in {t} |-> Trustee]
=============================================================================
