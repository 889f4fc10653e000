\* One edit of the layer, two syncs after one that failed or saw everything.
CONSTANTS
  Rows <- MCRows
  PinOf <- MCPinOf
  NoPin = "none"
  PageSize = 2
  Modes = {"offset", "ids"}
  MaxChanges = 1
  Sources = {"daily"}
  CompletePct = 95
  DropPct = 70
  MaxRuns = 3
  Pasts <- MCPasts
  Layers <- MCLayers
SPECIFICATION FairSyncSpec
INVARIANTS
  SeenStayActive
  MissedBounded
PROPERTIES
  KeepsInventory
  NeverEmptied
  ExactWhenStable
  MistakesBounded
  FirstDropSpares
  PullEnds
