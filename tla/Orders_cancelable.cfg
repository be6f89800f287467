SPECIFICATION FairSpec
CONSTANTS
  p1 = p1
  p2 = p2
  Payments <- OnePayment
  Price = 1
  Items = {1}
  Methods = {"CANCELABLE"}
  Validity = {TRUE, FALSE}
  Ops = {"confirm", "cancel", "reject", "fulfill"}
  MaxCalls = 2
  MaxIssued = 1
  MaxRedeliveries = 0
INVARIANTS TypeOK CancelableSettled
PROPERTIES ImplementsRecord EventuallyAgree
CHECK_DEADLOCK FALSE
