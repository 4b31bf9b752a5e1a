\* Three processes, connected in any way; any of them may end at any time.
CONSTANTS
  Clients = {c1, c2, c3}
  Nobody = Nobody
  Torn = 99
  MaxBroken = 1
SPECIFICATION Spec
INVARIANTS TypeOK AnswersMatch SyncedHasChain
PROPERTIES CopiesOnly
SYMMETRY Symmetry
CHECK_DEADLOCK FALSE
