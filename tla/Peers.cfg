SPECIFICATION Spec
CONSTANTS
  Node = {a, b}
  Thread = {"", "order"}
  NoOrder = ""
  MaxMessages = 4
  MaxRepeats = 1
  MaxDeletes = 1
INVARIANTS TypeOK FollowersRight ReadIsTrue NumberedInOrder
SYMMETRY Anyone
CHECK_DEADLOCK FALSE
