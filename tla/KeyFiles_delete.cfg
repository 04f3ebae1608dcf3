\* The same instance, against the comment of delete_keys.
SPECIFICATION Spec
CONSTANTS
  Absent = Absent
  p1 = p1
  p2 = p2
  Procs = {p1, p2}
  KeyIds <- MCKeyIds
  FirstRand <- MCFirstRand
  MaxClock = 1
  MaxPairs = 2
SYMMETRY MCSymmetry
INVARIANTS
  DeletedIsGone
CHECK_DEADLOCK FALSE
