SPECIFICATION DSpec
CONSTANTS
  p1 = p1
  Payments <- OnePayment
  Price = 1
  Items = {1}
  Methods = {"MODERATED"}
  Validity = {TRUE, FALSE}
  Ops = {"confirm", "fulfill", "complete", "refund", "reject", "dispute"}
  MaxCalls = 1
  MaxIssued = 1
  MaxRedeliveries = 0
  Supported = TRUE
INVARIANTS AgreeWhenQuiet ModeratedSettled ModeratorHasBothContracts CaseHasGrounds
PROPERTIES EvidenceKept
CHECK_DEADLOCK FALSE
