CONSTANTS
  Readers = {r1}
  Writers = {w1, w2}
  Keys = {k1, k2}
  TTL = 2
  MaxWrites = 2
  MaxErrors = 1
  Absent = Absent
CHECK_DEADLOCK FALSE
SPECIFICATION FairSpec
INVARIANTS
  TypeOK
  StaleIsExplained
PROPERTY EventuallyFresh
