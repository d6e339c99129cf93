CONSTANTS
  t1 = t1
  t2 = t2
  None = None
  Timers = {t1, t2}
  Durations = {0, 2}
  Dates = {3}
  Periods = {0, 1, 2}
  Horizon = 4
  SMP = FALSE
  GapCalls = {"start"}
SPECIFICATION Spec
CHECK_DEADLOCK FALSE
SYMMETRY Symmetric
INVARIANTS
  StrideKept
  SyncNotStuck
PROPERTY
  ExpiresWhenDue
