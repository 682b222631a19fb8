CONSTANTS
  Address = {a}
  Vid = {1}
  Pid = {1, 2}
  ProductName = {n1, n2}
  SoftwareVersion = {1}
  VersionString = {s1}
  Image = {TRUE, FALSE}
  MaxRevision = 2
  MaxApplicable = 2
SPECIFICATION Spec
INVARIANTS
  TypeOK
  ProductsAgree
  RangeNotEmpty
PROPERTIES
  RevisionsInOrder
