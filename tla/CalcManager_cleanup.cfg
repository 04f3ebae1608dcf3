\* Two callers, one of which cleans up, one thread, four queries.
SPECIFICATION Spec
CONSTANTS
  Absent = Absent
  c1 = c1
  c2 = c2
  t1 = t1
  t2 = t2
  q1 = q1
  q2 = q2
  q3 = q3
  q4 = q4
  Callers = {c1, c2}
  Cleaners = {c2}
  Threads = {t1}
  Queries = {q1, q2, q3, q4}
  BadQueries = {}
  MaxConcurrentQueries = 1
  MaxResults = 1
  ResultLifetimeSec = 1
  MaxClock = 1
  MaxDraws = 2
  Ids <- MCIds
  Rands <- MCRands
SYMMETRY MCQuerySymmetry
INVARIANTS
  ResultCapacity
PROPERTIES
  CleanedWereExpired
  KeepsLifecycle
CHECK_DEADLOCK FALSE
