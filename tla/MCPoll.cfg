CONSTANTS
  t1 = t1
  t2 = t2
  s1 = s1
  m1 = m1
  q1 = q1
  g1 = g1
  w1 = w1
  k1 = k1
  l1 = l1
  e1 = e1
  b1 = b1
  b2 = b2
  None = None
  poll_wait_q = poll_wait_q
  Threads = {t1, t2}
  Sems = {s1}
  MsgQs = {m1}
  Queues = {q1}
  Signals = {g1}
  TWorks = {w1}
  Stacks = {k1}
  Slabs = {l1}
  EventObjs = {e1}
  Objects = {s1, m1, q1, k1, l1, e1, poll_wait_q}
  Base <- Prios
  LateCallback = FALSE
  Limit = 2
  Msgs = {x, y}
  max_msgs = 2
  Items = {a, b}
  ItemLists <- SomeLists
  ShortLists = FALSE
  Words = {v, w}
  num_entries = 1
  Blocks <- TwoBlocks
  Bits = {f, g}
  Systems <- SomeSystems
SPECIFICATION Spec
INVARIANTS
  NoMissedEvent
  NoStaleEvent
  PollAnswer
  NoIdleWaiter
  TriggeredOnce
  NothingLost
PROPERTY
  ImplementsFifo
