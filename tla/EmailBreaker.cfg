CONSTANTS
  Callers = {c1, c2, c3}
  Configured = 2
  Wrap = 16
  Timeout = 2
SPECIFICATION FairSpec
INVARIANTS
  TypeOK
  OutageIsBounded
  OneProbe
PROPERTIES
  ProbeDecides
  CircuitRecovers
