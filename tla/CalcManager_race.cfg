\* Two callers, two threads, three queries of which one cannot be computed.
SPECIFICATION Spec
CONSTANTS
  Absent = Absent
  c1 = c1
  c2 = c2
  t1 = t1
  t2 = t2
  q1 = q1
  q2 = q2
  q3 = q3
  q4 = q4
  Callers = {c1, c2}
  Cleaners = {}
  Threads = {t1, t2}
  Queries = {q1, q2, q3}
  BadQueries = {q3}
  MaxConcurrentQueries = 1
  MaxResults = 1
  ResultLifetimeSec = 1
  MaxClock = 1
  MaxDraws = 2
  Ids <- MCIds
  Rands <- MCRands
SYMMETRY MCSymmetry
INVARIANTS
  IndInv
  QueryCapacity
  ComputedOnce
  NothingLost
  OwnResult
  DeathHasACause
PROPERTIES
  EntriesAreFinal
CHECK_DEADLOCK FALSE
