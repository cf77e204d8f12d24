CONSTANTS
  Readers = {r1}
  Writers = {w1}
  Keys = {k1}
  TTL = 2
  MaxWrites = 2
  MaxErrors = 0
  Absent = Absent

CHECK_DEADLOCK FALSE
SPECIFICATION Spec
INVARIANT FreshAtRest
