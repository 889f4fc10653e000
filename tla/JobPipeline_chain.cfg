\* The morning's two crons, and two failures: enough for the two attempts of a
\* scoring after an enrichment, or of the pass, to run out.
CONSTANTS
  Triggers <- MCTriggers
  MaxFailures = 2
  MaxStalled = 1
SPECIFICATION FairSpec
INVARIANTS
  NoLostLink
PROPERTIES
  EventuallyScored
  Drains
