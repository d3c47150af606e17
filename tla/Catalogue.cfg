SPECIFICATION PartSpec
CONSTANTS
  t1 = t1  t2 = t2  a1 = a1  j1 = j1  j2 = j2  v1 = v1  v2 = v2
  None = none  Parts = {"metadata", "works", "mirror", "listing", "front", "sitemap", "text"}
  Jobs = {j1, j2}
  Releases = {1, 2}
  Accounts = {a1}
  Claims <- MCClaims
  Stashes = {none, "pins"}
  Clashes <- MCClashes
  MaxJobs = 3  MaxBeside = 2
  Links = {"c1", "c2"}
  Grouped = {1, 2, 3, 4}
  Groupings <- MCGroupings
  MaxTx = 3
  MaxReleases = 1  MaxSources = 3  MaxCopies = 2
  Unparseable = {2}
  DumpBatch = 3  MaxImports = 2
  Visitors = {v1, v2}
  Ids = {1, 2, 3}  Names = {"a", "b"}  Stemmed = {1, 2}  Credited = {1, 3}
  Recent <- MCRecent  Total <- MCTotal  Overlap <- MCOverlap
  PageSize = 1  SearchCap = 2  ListSize = 1  ListFetch = 2
  TTL = 1  Origins = {"one", "two"}  MaxMaps = 1  MaxMoves = 2  MaxNow = 1
  Files <- MCFiles  Stamps <- MCStamps  Offsets <- MCOffsets  MaxCues = 4  MaxBytes = 40  MaxPasses = 1
  MaxCueDuration = 3  MinCueDuration = 2  CueGap = 1  MinCueSliver = 1  RetimeShift = 1
SYMMETRY Interchangeable
INVARIANTS
  CatalogueTypeOK
  PagesAreCurrent
  CatalogueKeepsFaith
  TextsHold
PROPERTIES
  DecisionsStand
  WorksAreWhole
CHECK_DEADLOCK FALSE
