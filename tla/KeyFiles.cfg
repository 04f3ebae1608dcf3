\* Two processes, two pairs, two seconds.
SPECIFICATION Spec
CONSTANTS
  Absent = Absent
  p1 = p1
  p2 = p2
  Procs = {p1, p2}
  KeyIds <- MCKeyIds
  FirstRand <- MCFirstRand
  MaxClock = 1
  MaxPairs = 2
SYMMETRY MCSymmetry
INVARIANTS
  OwnKeys
  Decryptable
  DeletedPairGone
CHECK_DEADLOCK FALSE
