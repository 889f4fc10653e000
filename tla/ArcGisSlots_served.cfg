\* Three callers for one slot: two can wait while a third backs off.
\* No symmetry: it is not sound for liveness.
CONSTANTS
  c1 = c1
  c2 = c2
  c3 = c3
  Callers = {c1, c2, c3}
  MaxConcurrency = 1
  MaxAttempts = 2
  MaxRequests = 2
SPECIFICATION FairSpec
INVARIANTS
  TypeOK
  DriftBoundsFlight
  QueueHoldsWaiters
  NoStrandedWaiter
PROPERTIES
  NoOvertaking
  EveryRequestSettles
