CONSTANTS
  Address = {t1, t2, t3}
  ConsKey = {k1}
  Trustees = {t1, t2, t3}
  NodeAdmins = {t1, t2}
  MaxNodes = 2
SPECIFICATION Spec
INVARIANTS
  TypeOK
  ConsIndexAgrees
  ValidatorSetAgrees
PROPERTIES
  JailedLeavesSet
