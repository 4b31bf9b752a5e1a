\* A client and two runs of another one, one pool thread, a tracker that may
\* restart; the two runs may fail.
CONSTANTS
  a = a
  b = b
  again = again
  third = third
  k1 = k1
  k2 = k2
  Clients = {a, b, again}
  Workers = {w1}
  Keys = {k1, k2}
  Uuids = {u1}
  KeyOf <- Restarted
  Idle = Idle
  MaxLives = 2
  Nobody = Nobody
  Torn = 99
  MaxBroken = 0
  NoInfo = NoInfo
  Faulty = {b, again}
SPECIFICATION Spec
CHECK_DEADLOCK FALSE
INVARIANTS Agreement
PROPERTIES ExtinctForEver
