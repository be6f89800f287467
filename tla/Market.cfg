SPECIFICATION FairSpec
CONSTANTS
  None = None
  PriceModifierMin <- MinModifier
  PriceModifierMax = 1000
  ListingVersion = 1
  EscrowTimeout = 2
  ApiRate <- TheRates
  ReserveCurrency = "BTC"
  One = 100
  Coins = {"BTC", "BCH", "LTC", "ZEC"}
  VendorCoins = {"BTC"}
  EscrowCoins = {"BTC", "BCH"}
  TimeoutCoins = {"BTC"}
  Drafts <- TheDrafts
  Purchases <- ThePurchases
  MaxTime = 1
  MaxChanges = 3
  MaxOrders = 2
INVARIANTS TypeOK
PROPERTIES RejectedForAReason OpenedAtListedPrice FreshAddress PurchaseEnds
CHECK_DEADLOCK FALSE
