CONSTANTS
  t1 = t1
  t2 = t2
  t3 = t3
  p1 = p1
  p2 = p2
  Cpus = {p1}
  CYC_PER_TICK = 2
  INT32_MAX = 5
  CYCLE_DIFF_W = 4
  BootCycles = 3
  Latency = 2
  Horizon = 14
  Timeouts = {t1, t2}
  Delays = {0, 1, 6}
  Dates = {1, 4}
  SLOPPY_IDLE = FALSE
  Skew = 2
SPECIFICATION FairSpec
CHECK_DEADLOCK FALSE
INVARIANTS
  ClockTrue
  NoOverflow
PROPERTIES
  ImplementsTimeoutSpec
  NotEarly
  DueFires
