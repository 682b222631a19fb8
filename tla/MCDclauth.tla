------------------------------ MODULE MCDclauth ------------------------------
(* Dclauth with a few addresses.  The trustees are interchangeable. *)
EXTENDS Dclauth, TLC

CONSTANTS t1, t2, t3, x

Trustee == [roles |-> {"Trustee"}, vid |-> 0]
Vendor == [roles |-> {"Vendor"}, vid |-> 1]
\* ValidateBasic refuses a Vendor without a vendor id.
VendorWithoutID == [roles |-> {"Vendor"}, vid |-> 0]

MCProfile == {Trustee, Vendor, VendorWithoutID}

ThreeTrustees == [a \in {t1, t2, t3} |-> Trustee]

Symmetry == Permutations({t1, t2, t3})
=============================================================================
