\* Two pool threads and no shared identity.
CONSTANTS
  r1 = r1
  r2 = r2
  other = other
  k1 = k1
  k2 = k2
  Clients = {r1, other}
  Workers = {w1, w2}
  Keys = {k1, k2}
  Uuids = {u1, u2}
  KeyOf <- DistinctKey
  Idle = Idle
  MaxLives = 2
SPECIFICATION FairSpec
PROPERTIES AppearsAtomic
