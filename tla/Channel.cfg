SPECIFICATION Spec
CONSTANTS
  a = a
  b = b
  c = c
  Nodes = {a, b}
  HeadLimit = 2
  MaxBootstrapPeers = 2
  MaxMessages = 3
  MaxOpens = 1
INVARIANTS TypeOK HeadHasHistory
SYMMETRY Anyone
CHECK_DEADLOCK FALSE
