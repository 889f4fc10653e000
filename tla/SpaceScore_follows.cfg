\* Two companies and two signals, stored or moved; two batches; one failure.
\* No symmetry: it is not sound for liveness.
SPECIFICATION LiveSpec
CONSTANTS
  a = a
  b = b
  s1 = s1
  s2 = s2
  Companies = {a, b}
  Signals = {s1, s2}
  MaxStores = 2
  MaxBatches = 2
  MaxFailures = 1
INVARIANTS
  NoGainForgotten
PROPERTIES
  ScoresConverge
CHECK_DEADLOCK FALSE
