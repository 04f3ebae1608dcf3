\* Three queries, one of which can be refused, fair scheduling.
SPECIFICATION FairClientSpec
CONSTANTS
  Absent = Absent
  a = a
  t1 = t1
  k1 = k1
  Client = a
  Connections = {a}
  Threads = {t1}
  KeySets = {k1}
  KeyIds <- MCKeyIds
  Ids <- MCOneId
  MaxConcurrentQueries = 1
  MaxResults = 2
  BadQueries = {}
  MaxQueries = 3
  MaxRequests = 6
PROPERTIES
  SendQueryReturns
CHECK_DEADLOCK FALSE
