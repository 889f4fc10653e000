SPECIFICATION Spec
CONSTANTS
  p1 = p1
  p2 = p2
  p3 = p3
  Parcels = {p1, p2, p3}
  Totals = {40, 60}
  TopN = 1
  Delta = 15
  Window = 1
  Requests <- Manual
  MaxJobs = 1
  MaxCrashes = 1
  MaxDelisted = 1
  MaxRows = 1
  MaxNow = 1
SYMMETRY Interchangeable
INVARIANTS
  MailCarriesTopN
CHECK_DEADLOCK FALSE
