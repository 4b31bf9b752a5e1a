\* Is an answered version the size of a chain?
CONSTANTS
  Clients = {c1, c2}
  Nobody = Nobody
  Torn = 99
  MaxBroken = 1
SPECIFICATION Spec
INVARIANTS VersionIsSize
CHECK_DEADLOCK FALSE
