CONSTANTS
  t1 = t1  t2 = t2  t3 = t3
  Address = {t1, t2, t3}
  Name = {u1, u2}
  Genesis = {t1, t2, t3}
  MaxHeight = 3
  NoPlan = NoPlan
SPECIFICATION Spec
INVARIANTS
  TypeOK
  DoneIsFinal
PROPERTIES
  SlotChangesByVote
  VotesStayWithPlan
  ScheduledIsRun
CHECK_DEADLOCK FALSE
