\* One job from the admin with two attempts, that may exclude a parcel; a crash
\* and a parcel that drops out; three scorings.
SPECIFICATION Spec
CONSTANTS
  p1 = p1
  p2 = p2
  p3 = p3
  Parcels = {p1, p2}
  Totals = {40, 60}
  TopN = 1
  Delta = 15
  Window = 0
  Requests <- Excluding
  MaxJobs = 1
  MaxCrashes = 1
  MaxDelisted = 1
  MaxRows = 3
  MaxNow = 1
SYMMETRY Interchangeable
INVARIANTS
  SteadyParcelsNotRepeated
  MailIsOnFile
  OneMailPerDigest
  FreshLeftOutOnlyWhenFull
CHECK_DEADLOCK FALSE
