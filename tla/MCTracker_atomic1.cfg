\* One pool thread: atomic whatever the identities.
CONSTANTS
  r1 = r1
  r2 = r2
  other = other
  k1 = k1
  k2 = k2
  Clients = {r1, r2, other}
  Workers = {w1}
  Keys = {k1, k2}
  Uuids = {u1}
  KeyOf <- SharedKey
  Idle = Idle
  MaxLives = 2
SPECIFICATION FairSpec
PROPERTIES AppearsAtomic EveryRequestAnswered
