SPECIFICATION Spec
CONSTANTS
  Slots = {s1, s2}
  MaxCalls = 5
  MaxFailures = 1
  Names <- N
  Alike <- AlikeOf
  Places = {"a1", "a2"}
  MatchOf <- Matching
  Parcels = {"p1"}
  Runs <- Feeds
  Pastes <- AllPastes
  Typed <- Refer
  Facilities <- Four
  Sited <- SitedAt
  Longer <- Begins4
  Named <- Names4
  Lists <- AllLists
  Modes = {"live", "feed", "idle"}
  EchoFeeds <- FeedRows
  Since = 2
  Room = 3
  Written <- Own
  YardOf <- Yards
  Coverages = {90}
CONSTRAINT OneSubject
INVARIANT ChangeToldOnce
PROPERTIES NameKeepsCompany NotesKept
SYMMETRY Symmetry
CHECK_DEADLOCK FALSE
