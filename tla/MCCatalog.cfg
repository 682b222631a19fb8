CONSTANTS
  s1 = s1  s2 = s2  cd1 = cd1  cd2 = cd2
  Address = {a}
  Vid = {1}
  Pid = {1}
  ProductName = {n1}
  SoftwareVersion = {1, 2}
  VersionString = {s1, s2}
  Image = {FALSE}
  MaxRevision = 1
  MaxApplicable = 0
  CertificationType = {matter}
  CDCertificate = {cd1, cd2}
  NoCertificate = NoCertificate
  MaxDate = 2
  MaxHistory = 2
SYMMETRY Symmetry
SPECIFICATION CatalogSpec
INVARIANTS
  FlagsAgree
  CertifiedHasVersion
  VersionsAgree
  CertifiedAreListed
PROPERTIES
  TrailGrowsInOrder
  ImplementsCompliance
