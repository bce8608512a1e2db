SPECIFICATION Spec
CONSTANTS
  Relays = {r1, r2, r3}
  None = None
  r1 = r1  r2 = r2  r3 = r3
SYMMETRY Interchangeable
INVARIANTS TypeOK VersionTellsTruth OneRelay ShownIsTrue
CHECK_DEADLOCK FALSE
