CONSTANTS
  cd1 = cd1  cd2 = cd2
  Address = {c}
  Version = {v1}
  VersionString = {s1}
  CertificationType = {zigbee, matter}
  CDCertificate = {cd1, cd2}
  NoCertificate = NoCertificate
  MaxDate = 2
  MaxHistory = 2
SPECIFICATION Spec
SYMMETRY Symmetry
INVARIANTS
  DeviceListsAgree
