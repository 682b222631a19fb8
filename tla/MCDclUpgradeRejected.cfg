CONSTANTS
  t1 = t1  t2 = t2  t3 = t3
  Address = {t1, t2, t3}
  Name = {u1}
  Genesis = {t1, t2, t3}
  MaxHeight = 4
  NoPlan = NoPlan
SPECIFICATION Spec
INVARIANTS
  RejectedIsNotScheduled
CHECK_DEADLOCK FALSE
