CONSTANTS
  t = t  x = x
  Address = {t, x}
  VendorID = {1, 2}
  Profile <- MCProfile
  Genesis <- MCGenesis
  MaxAccountNumber = 4
  Submitter = {x}
  Info = {i}
  MaxSequence = 1
  MaxSigned = 3
SPECIFICATION TxSpec
INVARIANTS
  ExecutedOnceInOrder
PROPERTIES
  RecordsByTheirVendor
CHECK_DEADLOCK FALSE
