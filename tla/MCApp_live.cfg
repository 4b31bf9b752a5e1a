\* Two clients of distinct identities, one pool thread, fair.
CONSTANTS
  a = a
  b = b
  again = again
  third = third
  k1 = k1
  k2 = k2
  Clients = {a, b}
  Workers = {w1}
  Keys = {k1, k2}
  Uuids = {u1}
  KeyOf <- Distinct
  Idle = Idle
  MaxLives = 2
  Nobody = Nobody
  Torn = 99
  MaxBroken = 1
  NoInfo = NoInfo
  Faulty = {a, b}
SPECIFICATION FairSpec
CHECK_DEADLOCK FALSE
PROPERTIES StartUpEnds LedgerForEver
