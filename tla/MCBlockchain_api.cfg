\* Two processes, chains of three blocks, a difficulty that cannot be mined.
CONSTANTS
  Nodes = {n1, n2}
  Difficulties = {1, 2, 9}
  Minable = {1, 2, 3}
  MaxBlocks = 3
  MaxTime = 3
SPECIFICATION Spec
INVARIANTS TypeOK RoundTrip TipNamesChain
SYMMETRY Symmetry
