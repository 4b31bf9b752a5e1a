\* Two pool threads and three runs of one identity, more than there are threads;
\* the client of the other identity may fail.
CONSTANTS
  a = a
  b = b
  again = again
  third = third
  k1 = k1
  k2 = k2
  Clients = {a, b, again, third}
  Workers = {w1, w2}
  Keys = {k1, k2}
  Uuids = {u1}
  KeyOf <- Raced
  Idle = Idle
  MaxLives = 1
  Nobody = Nobody
  Torn = 99
  MaxBroken = 0
  NoInfo = NoInfo
  Faulty = {a}
SYMMETRY Symmetric
SPECIFICATION Spec
CHECK_DEADLOCK FALSE
INVARIANTS FoundersShareIdentity ForksBounded
PROPERTIES ExtinctForEver
