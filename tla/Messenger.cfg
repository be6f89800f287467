SPECIFICATION FairSpec
CONSTANTS
  m1 = m1
  Messages <- OneMessage
  MaxBusy = 2
  Faults = {"crash", "check", "process", "mark"}
  MaxFaults = 1
INVARIANTS TypeOK NothingTwice
PROPERTIES ImplementsDelivery SettlesUnlessStuck
CHECK_DEADLOCK FALSE
