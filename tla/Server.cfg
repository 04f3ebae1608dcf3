\* Two connections, one thread, four requests, of which the second throws.
SPECIFICATION Spec
CONSTANTS
  Absent = Absent
  a = a
  b = b
  t1 = t1
  t2 = t2
  k1 = k1
  k2 = k2
  Connections = {a, b}
  Threads = {t1}
  KeySets = {k1, k2}
  KeyIds <- MCKeyIds
  Ids <- MCIds
  MaxConcurrentQueries = 1
  MaxResults = 1
  BadQueries <- MCBad
  MaxRequests = 4
INVARIANTS
  KeysStay
  LostWithItsConnection
PROPERTIES
  KeysComeFirst
  KeepsServing
SYMMETRY MCSymmetry
CHECK_DEADLOCK FALSE
