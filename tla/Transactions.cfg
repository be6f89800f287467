SPECIFICATION Spec
CONSTANTS
  listing = listing
  followers = followers
  rating = rating
  Records = {listing}
  Listings = {listing}
  Lists = {followers}
  Blobs = {rating}
  None = None
  Empty = Empty
  Torn = Torn
  MaxUpdates = 3
  MaxWrites = 2
  MaxErrors = 1
  MaxCrashes = 1
INVARIANTS TypeOK FilesMatchRows FilesNeverLag HooksFollowCommit
CHECK_DEADLOCK FALSE
