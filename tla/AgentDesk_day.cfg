SPECIFICATION Spec
CONSTANTS
  Slots = {s1, s2}
  MaxCalls = 4
  MaxFailures = 1
  Leads = {l1, l2, l3}
  Parcels = {p1}
  Batch = 2
  Worked = {l1, l2}
  Used = {"contacted", "deal"}
  Events = {e1}
  Times <- MCTimes
  Drafted <- MCDrafted
  Ahead = 2
  HalfWindow = 2
  Days = {3, 4, 5}
  MostBriefs = 20
  Names = {n1}
  Sources = {pasted}
  Owners = {o1}
  Hits <- MCHits
  Common = 4
  People = {1}
  MaxNow = 8
CONSTRAINT OneDesk
INVARIANTS AutoBriefOnce DoublePushExplained
PROPERTIES RejectedStaysRejected BatchCovered
SYMMETRY Symmetry
CHECK_DEADLOCK FALSE
