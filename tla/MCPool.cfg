CONSTANTS
  t1 = t1  t2 = t2  x = x
  Address = {t1, t2, x}
  VendorID = {1}
  Profile <- MCProfile
  Genesis <- MCGenesis
  MaxAccountNumber = 4
  ConsKey = {k1}
  MaxNodes = 2
SPECIFICATION PoolSpec
SYMMETRY Symmetry
INVARIANTS
  DisabledIsJailed
PROPERTIES
  ImplementsValidator
  AccountsLeaveByQuorumOrEvidence
  JailedForAReason
