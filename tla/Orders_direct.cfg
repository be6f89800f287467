SPECIFICATION Spec
CONSTANTS
  p1 = p1
  p2 = p2
  Payments <- TwoPayments
  Price = 2
  Items = {1}
  Methods = {"DIRECT"}
  Validity = {TRUE}
  Ops = {"refund", "reject"}
  MaxCalls = 1
  MaxIssued = 2
  MaxRedeliveries = 1
INVARIANTS RefundsNeverExceedPayments AgreeWhenQuiet
CHECK_DEADLOCK FALSE
