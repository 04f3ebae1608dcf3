\* Two queries, of which one may throw and one may be refused, fair scheduling.
SPECIFICATION FairClientSpec
CONSTANTS
  Absent = Absent
  a = a
  t1 = t1
  k1 = k1
  Client = a
  Connections = {a}
  Threads = {t1}
  KeySets = {k1}
  KeyIds <- MCKeyIds
  Ids <- MCIds
  MaxConcurrentQueries = 1
  MaxResults = 2
  BadQueries <- MCBad
  MaxQueries = 2
  MaxRequests = 5
INVARIANTS
  OwnReplies
PROPERTIES
  CallbacksRun
  DestroyEnds
  ServesLifecycle
CHECK_DEADLOCK FALSE
