SPECIFICATION Spec
CONSTANTS
  Slots = {s1, s2}
  MaxCalls = 2
  MaxFailures = 1
  Keys <- P
  Docs <- Recordings
  PageSize = 2
  Parcels <- P
  Owners <- OwnerAll
  OwnerOf <- OwnerOfP
  Hits <- Listing
  EstateFeed = TRUE
  Mortgages <- MortgagesOf
  Flooded = {"p1"}
  Entities = {"firm"}
  Dissolved = {}
  Cluster <- ClusterOf
  Agent <- ClusterOf
  Owing = {"p1"}
  Top = {"p1"}
  Absentee = {"firm"}
  Unlocated = {}
  Synced = {"p1"}
  Cap = 1
  MaxWeeks = 1
CONSTRAINT OneTrouble
INVARIANTS DuplicatesNeedOverlap SkipTraceCapped WaitsOnce
PROPERTY SuccessCovers
SYMMETRY Symmetry
CHECK_DEADLOCK FALSE
