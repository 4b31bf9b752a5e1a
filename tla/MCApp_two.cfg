\* Two clients of distinct identities, two pool threads.
CONSTANTS
  a = a
  b = b
  again = again
  third = third
  k1 = k1
  k2 = k2
  Clients = {a, b}
  Workers = {w1, w2}
  Keys = {k1, k2}
  Uuids = {u1, u2}
  KeyOf <- Distinct
  Idle = Idle
  MaxLives = 2
  Nobody = Nobody
  Torn = 99
  MaxBroken = 1
  NoInfo = NoInfo
  Faulty = {a, b}
SPECIFICATION Spec
CHECK_DEADLOCK FALSE
INVARIANTS TypeOK NoSelfConnection Agreement ChainsKeepToTheirLife ListsItself WorkingShareLedger
PROPERTIES ExtinctForEver UsesTracker UsesPeers
