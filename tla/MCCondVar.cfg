CONSTANTS
  t1 = t1
  t2 = t2
  t3 = t3
  m1 = m1
  m2 = m2
  cv1 = cv1
  None = None
  Threads = {t1, t2, t3}
  Objects = {m1, m2, cv1}
  Mutexes = {m1, m2}
  Condvars = {cv1}
  Base <- Prios
  PRIORITY_CEILING = 1
  MaxCount = 2
  Reverse_order = TRUE
  LateCallback = FALSE
SPECIFICATION CondSpec
CHECK_DEADLOCK FALSE
INVARIANTS
  WaitersHaveOwner
  PrioRestored
  AnswerTrue
  SignalsArrive
  ReturnsLocked
  Inherits
PROPERTY
  BestIsNext
