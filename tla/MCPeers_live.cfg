\* Two processes that may wait for each other.
CONSTANTS
  Clients = {c1, c2}
  Nobody = Nobody
  Torn = 99
  MaxBroken = 1
SPECIFICATION FairSpec
PROPERTIES WaitsOnlyForTheGone
CHECK_DEADLOCK FALSE
