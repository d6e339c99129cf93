CONSTANTS
  w1 = w1
  d1 = d1
  q1 = q1
  q2 = q2
  c1 = c1
  c2 = c2
  None = None
  Works = {w1, d1}
  Delayable = {d1}
  Queues = {q1}
  Clients = {c1, c2}
  May <- MayMixed
  Chaining = {}
  Preemptible = FALSE
SPECIFICATION FairSpec
CHECK_DEADLOCK FALSE
PROPERTIES
  CallsReturn
  ServesWork
