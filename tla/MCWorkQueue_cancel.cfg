CONSTANTS
  w1 = w1
  d1 = d1
  q1 = q1
  q2 = q2
  c1 = c1
  c2 = c2
  None = None
  Works = {w1}
  Delayable = {}
  Queues = {q1}
  Clients = {c1, c2}
  May <- MayCancel
  Chaining = {}
  Preemptible = FALSE
SPECIFICATION Spec
CHECK_DEADLOCK FALSE
INVARIANT
  CancellersServed
