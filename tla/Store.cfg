SPECIFICATION Spec
CONSTANTS
  None = None
  MaxCalls = 4
  Online = FALSE
  Profiles <- TheProfiles
  Images = {"avatar", "product"}
  Slug <- TheSlugs
  Codes = {"half"}
  NoCode = "none"
  Moderators = {m}
  Peers = {p}
  Configs <- TheConfigs
  MaxFree = 1
  MaxStarts = 1
INVARIANTS TypeOK StoreConsistent CoinsEnabled
CHECK_DEADLOCK FALSE
