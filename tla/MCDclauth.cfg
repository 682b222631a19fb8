CONSTANTS
  t1 = t1  t2 = t2  t3 = t3  x = x
  Address = {t1, t2, t3, x}
  VendorID = {1}
  Profile <- MCProfile
  Genesis <- ThreeTrustees
  MaxAccountNumber = 4
SPECIFICATION Spec
SYMMETRY Symmetry
INVARIANTS
  TypeOK
  OneStatusPerAddress
  VotesCountOnce
  UndecidedHasVoter
PROPERTIES
  AccountsChangeByQuorum
CHECK_DEADLOCK FALSE
