CONSTANTS
  Users = {u1, u2}
  Requests = {r1, r2}
  Configured = 0
  Default = 2
  MinuteTicks = 3
  MaxTime = 4
  MaxRestarts = 1
  Limiters = {l1, l2}
  NoLimiter = NoLimiter
SYMMETRY Identities
SPECIFICATION Spec
INVARIANTS
  TypeOK
  AdmissionBound
PROPERTY RefusalsAreEarned
