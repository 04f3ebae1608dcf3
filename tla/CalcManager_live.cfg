\* One caller, two threads, three queries of which one throws, fair scheduling.
SPECIFICATION EndlessSpec
CONSTANTS
  Absent = Absent
  c1 = c1
  c2 = c2
  t1 = t1
  t2 = t2
  q1 = q1
  q2 = q2
  q3 = q3
  q4 = q4
  Callers = {c1}
  Cleaners = {}
  Threads = {t1, t2}
  Queries = {q1, q2, q3}
  BadQueries = {q3}
  MaxConcurrentQueries = 2
  MaxResults = 1
  ResultLifetimeSec = 1
  MaxClock = 1
  MaxDraws = 2
  Ids <- MCIds
  Rands <- MCRands
PROPERTIES
  QueuedIsComputed
  LivesOn
  PolledIsCollected
CHECK_DEADLOCK FALSE
