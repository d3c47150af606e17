SPECIFICATION BackgroundSpec
CONSTANTS
  r1 = r1  r2 = r2
  Requests = {r1, r2}
  Work <- MCWork
  MaxDay = 1  Retention = 0  MaxUnsure = 1
  Releases = {1, 2}  Hashed = {1}  Dated = {1}
  SweepOptions <- MCSweepOptions
  Touched = {1}  MaxRetries = 1  MaxSweeps = 2
  Scenes = {1, 2}  Unhashed = {1}
  Langs = {"de", "en"}
  Offers <- MCOffers
  Settings <- MCSettings
  MaxAttempts = 1  PageSize = 1  MaxProcesses = 2
  Replicas = {"old", "new"}  Known <- MCKnown  Newest = 2
  Nobody = "nobody"  MaxOpens = 3
INVARIANTS
  BackgroundTypeOK
  EarlierCountsFlushed
  StopsLeaveNoHalves
PROPERTIES
  StatsRefinesTally
  HandMadeCaptionsStay
  WorkEnds
CHECK_DEADLOCK FALSE
