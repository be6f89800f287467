SPECIFICATION FairSpec
CONSTANTS
  None = None
  MaxCalls = 3
  Online = TRUE
  Profiles = {}
  Images = {"avatar"}
  Slug = {1}
  Codes = {}
  NoCode = "none"
  Moderators = {}
  Peers = {}
  Configs <- OneConfig
  MaxFree = 0
  MaxStarts = 0
INVARIANTS PublishedWhenQuiet PinnedWhenQuiet
PROPERTIES DoneCloses
CHECK_DEADLOCK FALSE
