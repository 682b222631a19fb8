CONSTANTS
  t1 = t1  t2 = t2  v = v
  Address = {t1, t2, v}
  Owner = {v}
  Subject = {"r", "o"}
  KeyID = {1, 2}
  Certificate <- CrossSigned
  Genesis <- Trustees
SPECIFICATION Spec
PROPERTIES
  RootsLeaveByRevocation
