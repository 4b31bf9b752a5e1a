\* Two pool threads, two runs of one identity and a third client.
CONSTANTS
  r1 = r1
  r2 = r2
  other = other
  k1 = k1
  k2 = k2
  Clients = {r1, r2, other}
  Workers = {w1, w2}
  Keys = {k1, k2}
  Uuids = {u1, u2}
  KeyOf <- SharedKey
  Idle = Idle
  MaxLives = 2
SPECIFICATION Spec
INVARIANTS TypeOK UniqueEntries OneGrantPerWorker ListsOrdered
