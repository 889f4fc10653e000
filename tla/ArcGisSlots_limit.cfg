\* The README's limit, with one retry allowed.
CONSTANTS
  c1 = c1
  c2 = c2
  c3 = c3
  c4 = c4
  Callers = {c1, c2, c3, c4}
  MaxConcurrency = 2
  MaxAttempts = 1
  MaxRequests = 1
SPECIFICATION Spec
INVARIANT ConcurrencyLimit
