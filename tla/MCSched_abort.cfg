CONSTANTS
  c1 = c1
  c2 = c2
  t1 = t1
  t2 = t2
  t3 = t3
  None = None
  Cpus = {c1, c2}
  Threads = {t1, t2, t3}
  Base <- SomePrios
  Prios = {1, 3}
  Programs <- HaltCalls
  LateCallback = FALSE
SPECIFICATION Spec
CHECK_DEADLOCK FALSE
INVARIANT
  HaltEffective
