CONSTANTS
  t1 = t1
  t2 = t2
  t3 = t3
  m1 = m1
  m2 = m2
  None = None
  Threads = {t1, t2, t3}
  Objects = {m1, m2}
  Mutexes = {m1, m2}
  Base <- Prios
  PRIORITY_CEILING = 1
  MaxCount = 2
  Reverse_order = TRUE
  LateCallback = TRUE
SPECIFICATION Spec
CHECK_DEADLOCK FALSE
INVARIANTS
  AnswerTrue
