SPECIFICATION FairSpec
CONSTANTS
  a = a
  b = b
  Peers = {a}
  Handlers = {h1, h2}
  Ticks = {t1, t2}
  FollowerConnections = 1
  TrackerAttemptsPerInterval = 1
  Buffer = 1
  None = None
  MaxSteps = 3
INVARIANTS TypeOK TrackerIsRight DeadlockNeedsChannel
PROPERTIES HandledUnlessStuck
CHECK_DEADLOCK FALSE
