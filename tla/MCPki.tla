-------------------------------- MODULE MCPki --------------------------------
EXTENDS Pki, TLC

CONSTANTS t1, t2, v

Root == <<"r", 1>>
Other == <<"o", 1>>
Leaf == <<"r", 2>>

Cert(id, issuer, serial) == [id |-> id, issuer |-> issuer, serial |-> serial]

\* Two roots that have certificates from each other as well, and a leaf below
\* the first, with its subject and another key: the chains have up to three
\* certificates and could be cycles.
CrossSigned ==
  {Cert(Root, Root, 1), Cert(Other, Other, 1), Cert(Root, Other, 2), Cert(Other, Root, 2),
   Cert(Leaf, Root, 3)}

Trustees == {t1, t2}
=============================================================================
