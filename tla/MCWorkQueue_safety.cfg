CONSTANTS
  w1 = w1
  d1 = d1
  q1 = q1
  q2 = q2
  c1 = c1
  c2 = c2
  None = None
  Works = {w1, d1}
  Delayable = {d1}
  Queues = {q1, q2}
  Clients = {c1, c2}
  May <- MayMixed
  Chaining = {w1}
  Preemptible = FALSE
SPECIFICATION Spec
CHECK_DEADLOCK FALSE
SYMMETRY Symmetric
INVARIANTS
  TypeOK
  QueuedOnce
  NoReentrancy
  NoLostNotify
  FlushWaits
  PluggedIsIdle
  DeadIsEmpty
  TimerSync
PROPERTY
  CancelEffective
  ImplementsWorkSpec
