SPECIFICATION Spec
CONSTANTS
  p1 = p1
  p2 = p2
  Payments <- OnePayment
  Price = 1
  Items = {1}
  Methods = {"MODERATED"}
  Validity = {TRUE}
  Ops = {"confirm", "fulfill", "complete", "dispute"}
  MaxCalls = 1
  MaxIssued = 1
  MaxRedeliveries = 0
INVARIANTS SameMessagesSameState
CHECK_DEADLOCK FALSE
