CONSTANTS
  t1 = t1
  t2 = t2
  t3 = t3
  p1 = p1
  p2 = p2
  Cpus = {p1, p2}
  CYC_PER_TICK = 1
  INT32_MAX = 5
  CYCLE_DIFF_W = 4
  BootCycles = 0
  Latency = 4
  Horizon = 3
  Timeouts = {t1, t2, t3}
  Delays = {0, 1}
  Dates = {}
  SLOPPY_IDLE = TRUE
  Skew = 0
SPECIFICATION Spec
CHECK_DEADLOCK FALSE
SYMMETRY Symmetric
INVARIANT
  NoTickLost
PROPERTY
  DeadlinesFixed
