-------------------------- MODULE BlockchainProofs --------------------------
(***************************************************************************)
(* Theorems of Blockchain, for any number of processes and any bounds,     *)
(* whatever difficulties can be mined.                                     *)
(***************************************************************************)
EXTENDS Blockchain, SequenceTheorems, TLAPS

\* A block has the fields that travel, and is created or cannot be.
Settled(block) ==
  /\ ToJson(block) = block
  /\ IsCreated(block) \/ block.difficulty \notin Minable

\* A block whose fields are within the bounds.
Bounded(block) ==
  /\ block.counter \in 0..MaxBlocks
  /\ block.difficulty \in Difficulties \union {GENESIS_DIFFICULTY}
  /\ block.timeCreate \in 0..clock

BlocksOf(blocks) == {blocks[i] : i \in DOMAIN blocks}

\* What TypeOK and RoundTrip need to be inductive.
BlockInv ==
  /\ clock \in 1..MaxTime
  /\ chain = [n \in Nodes |-> chain[n]]
  /\ \A n \in Nodes :
       /\ chain[n] \in Seq(BlocksOf(chain[n]))
       /\ Len(chain[n]) <= MaxBlocks
       /\ \A i \in DOMAIN chain[n] : Settled(chain[n][i]) /\ Bounded(chain[n][i])

(* ------------------------- one block ----------------------------------- *)

\* A settled block is left as it is, whenever it is read back.
LEMMA SettledStays ==
  ASSUME NEW block, NEW now, Settled(block)
  PROVE  Create(ToJson(block), now) = block
BY DEF Settled, Create, CalculateHash

\* A block that went through AddBlock is settled, mined or not.
LEMMA CreateSettles ==
  ASSUME NEW counter, NEW difficulty, NEW prevHash, NEW now
  PROVE  LET block == Create(NewBlock(counter, difficulty, prevHash), now)
         IN  /\ Settled(block)
             /\ block.counter = counter /\ block.difficulty = difficulty
             /\ block.timeCreate \in {0, now}
<1> DEFINE new == NewBlock(counter, difficulty, prevHash)
<1>1. ~IsCreated(new)
  BY DEF NewBlock, IsCreated
<1>2. CASE difficulty \in Minable
  <2>1. Create(new, now) =
          [counter |-> counter, difficulty |-> difficulty, prevHash |-> prevHash,
           currHash |-> <<counter, difficulty, prevHash, 0>>, timeCreate |-> now]
    BY <1>1, <1>2 DEF Create, CalculateHash, NewBlock
  <2>2. <<counter, difficulty, prevHash, 0>> # <<>>
    OBVIOUS
  <2> QED
    BY <2>1, <2>2 DEF Settled, ToJson, IsCreated, NoHash
<1>3. CASE difficulty \notin Minable
  <2>1. Create(new, now) = new
    BY <1>1, <1>3 DEF Create, CalculateHash, NewBlock
  <2> QED
    BY <1>3, <2>1 DEF Settled, ToJson, NewBlock
<1> QED
  BY <1>2, <1>3

(* ------------------------- chains -------------------------------------- *)

\* A chain of settled blocks passes through JSON unchanged.
LEMMA ChainTravels ==
  ASSUME BlockInv, NEW n \in Nodes, NEW now
  PROVE  FromJson(chain[n], now) = chain[n]
<1>1. \A i \in DOMAIN chain[n] : Create(ToJson(chain[n][i]), now) = chain[n][i]
  BY SettledStays DEF BlockInv
<1>2. chain[n] = [i \in DOMAIN chain[n] |-> chain[n][i]]
  BY DEF BlockInv
<1> QED
  BY <1>1, <1>2 DEF FromJson

LEMMA AddKeepsBlocks ==
  ASSUME BlockInv, NEW n \in Nodes,
         NEW counter \in 0..MaxBlocks,
         NEW difficulty \in Difficulties \union {GENESIS_DIFFICULTY}, NEW prevHash,
         Add(n, NewBlock(counter, difficulty, prevHash))
  PROVE  BlockInv'
<1>1. PICK block :
        /\ block = Create(NewBlock(counter, difficulty, prevHash), clock)
        /\ Settled(block) /\ Bounded(block)
  BY CreateSettles DEF Bounded, BlockInv
<1>2. /\ chain' = [chain EXCEPT ![n] = Append(chain[n], block)]
      /\ clock' = clock /\ Len(chain[n]) < MaxBlocks
  BY <1>1 DEF Add, AddBlock
<1>3. chain'[n] = Append(chain[n], block) /\ \A m \in Nodes : m # n => chain'[m] = chain[m]
  BY <1>2 DEF BlockInv
<1>4. chain[n] \in Seq(BlocksOf(chain[n]))
  BY DEF BlockInv
<1>5. /\ Len(chain'[n]) = Len(chain[n]) + 1
      /\ DOMAIN chain'[n] = 1..(Len(chain[n]) + 1)
      /\ \A i \in DOMAIN chain'[n] :
           chain'[n][i] = IF i \in DOMAIN chain[n] THEN chain[n][i] ELSE block
  BY <1>3, <1>4
<1>6. chain'[n] \in Seq(BlocksOf(chain'[n]))
  <2>1. chain'[n] \in Seq(BlocksOf(chain[n]) \union {block})
    BY <1>3, <1>4
  <2>2. \A i \in 1..Len(chain'[n]) : chain'[n][i] \in BlocksOf(chain'[n])
    BY <1>5 DEF BlocksOf
  <2> QED
    BY <2>1, <2>2
<1>7. Len(chain'[n]) <= MaxBlocks
  BY <1>2, <1>4, <1>5, BoundAssumption
<1>8. \A i \in DOMAIN chain'[n] : Settled(chain'[n][i]) /\ Bounded(chain'[n][i])
  BY <1>1, <1>5 DEF BlockInv
<1>9. \A b : Bounded(b) => Bounded(b)'
  BY <1>2 DEF Bounded
<1>10. clock' \in 1..MaxTime /\ chain' = [m \in Nodes |-> chain'[m]]
  BY <1>2 DEF BlockInv
<1>11. ASSUME NEW m \in Nodes
       PROVE  /\ chain'[m] \in Seq(BlocksOf(chain'[m]))
              /\ Len(chain'[m]) <= MaxBlocks
              /\ \A i \in DOMAIN chain'[m] : Settled(chain'[m][i]) /\ Bounded(chain'[m][i])
  <2>1. CASE m = n
    BY <2>1, <1>6, <1>7, <1>8
  <2>2. CASE m # n
    BY <2>2, <1>3 DEF BlockInv
  <2> QED
    BY <2>1, <2>2
<1> QED
  BY <1>9, <1>10, <1>11 DEF BlockInv

LEMMA AdoptKeepsBlocks ==
  ASSUME BlockInv, NEW n \in Nodes, NEW m \in Nodes, Adopt(n, m)
  PROVE  BlockInv'
<1>1. chain' = [chain EXCEPT ![n] = chain[m]] /\ clock' = clock
  BY ChainTravels DEF Adopt
<1>2. \A b : Bounded(b) => Bounded(b)'
  BY <1>1 DEF Bounded
<1>3. chain' = [k \in Nodes |-> IF k = n THEN chain[m] ELSE chain[k]]
  BY <1>1 DEF BlockInv
<1>4. \A k \in Nodes : chain'[k] = chain[m] \/ chain'[k] = chain[k]
  BY <1>3
<1>5. clock' \in 1..MaxTime /\ chain' = [k \in Nodes |-> chain'[k]]
  BY <1>1, <1>3 DEF BlockInv
<1>6. ASSUME NEW k \in Nodes
      PROVE  /\ chain'[k] \in Seq(BlocksOf(chain'[k]))
             /\ Len(chain'[k]) <= MaxBlocks
             /\ \A i \in DOMAIN chain'[k] : Settled(chain'[k][i]) /\ Bounded(chain'[k][i])
  BY <1>4 DEF BlockInv
<1> QED
  BY <1>2, <1>5, <1>6 DEF BlockInv

LEMMA TickKeepsBlocks ==
  ASSUME BlockInv, Tick
  PROVE  BlockInv'
<1>1. clock \in 1..MaxTime /\ clock' = clock + 1 /\ clock' \in 1..MaxTime /\ chain' = chain
  BY BoundAssumption DEF Tick, BlockInv
<1>2. \A b : Bounded(b) => Bounded(b)'
  BY <1>1 DEF Bounded
<1> QED
  BY <1>1, <1>2 DEF BlockInv

LEMMA BlockStep ==
  ASSUME BlockInv, [Next]_vars
  PROVE  BlockInv'
<1>1. CASE Tick
  BY <1>1, TickKeepsBlocks
<1>2. ASSUME NEW n \in Nodes, InitGenesis(n)
      PROVE  BlockInv'
  <2>1. GENESIS_INDEX \in 0..MaxBlocks
    BY BoundAssumption DEF GENESIS_INDEX
  <2> QED
    BY <1>2, <2>1, AddKeepsBlocks DEF InitGenesis
<1>3. ASSUME NEW n \in Nodes, AddNext(n)
      PROVE  BlockInv'
  <2>1. PICK difficulty \in Difficulties, i \in DOMAIN chain[n] :
          Add(n, NewBlock(Len(chain[n]), difficulty, chain[n][i].currHash))
    BY <1>3 DEF AddNext
  <2>2. Len(chain[n]) \in 0..MaxBlocks
    BY BoundAssumption DEF BlockInv
  <2>3. difficulty \in Difficulties \union {GENESIS_DIFFICULTY}
    OBVIOUS
  <2> QED
    BY <2>1, <2>2, <2>3, AddKeepsBlocks
<1>4. ASSUME NEW n \in Nodes, NEW m \in Nodes, Adopt(n, m)
      PROVE  BlockInv'
  BY <1>4, AdoptKeepsBlocks
<1>5. CASE UNCHANGED vars
  BY <1>5 DEF vars, BlockInv, Bounded
<1> QED
  BY <1>1, <1>2, <1>3, <1>4, <1>5 DEF Next

LEMMA BlockInvariant == Spec => []BlockInv
<1>1. Init => BlockInv
  BY BoundAssumption DEF Init, BlockInv, BlocksOf
<1> QED
  BY <1>1, BlockStep, PTL DEF Spec

(* ------------------------- theorems ------------------------------------ *)

\* The clock, the lengths of the chains and the fields of their blocks stay
\* within their bounds: no block counts or times past what made it.
THEOREM TypeCorrect == Spec => []TypeOK
<1>1. BlockInv => TypeOK
  BY DEF BlockInv, Bounded, TypeOK
<1> QED
  BY <1>1, BlockInvariant, PTL

\* However a chain came about and whenever it is read back from JSON, block by
\* block through AddBlock (blockchain.hpp, from_json), it comes out as it was:
\* no block is mined anew, neither one that has a hash nor one that could not
\* be given one.
THEOREM CopiesFaithful == Spec => []RoundTrip
<1>1. BlockInv => RoundTrip
  BY ChainTravels DEF RoundTrip
<1> QED
  BY <1>1, BlockInvariant, PTL

(* ------------------------- lineages ------------------------------------ *)

\* What a block's hash is made of, whoever mined it and when; the genesis blocks
\* are all alike.
Shaped(block) ==
  /\ IsCreated(block) =>
       block.currHash = <<block.counter, block.difficulty, block.prevHash, 0>>
  /\ IsGenesisBlock(block) =>
       block.difficulty = GENESIS_DIFFICULTY /\ block.prevHash = GENESIS_PREV_HASH

\* k is the place of the last genesis block of x.
Root(x, k) ==
  /\ k \in 1..Len(x) /\ IsGenesisBlock(x[k])
  /\ \A j \in 1..Len(x) : IsGenesisBlock(x[j]) => j <= k

Sound(x) ==
  /\ Len(x) \in Nat \ {0} /\ DOMAIN x = 1..Len(x)
  /\ \A i \in 1..Len(x) : Shaped(x[i])
  /\ \E k : Root(x, k)

\* x is w and one block more.
Extends(x, w) ==
  /\ Len(w) \in Nat /\ DOMAIN w = 1..Len(w)
  /\ Len(x) = Len(w) + 1 /\ DOMAIN x = 1..Len(x)
  /\ \A i \in 1..Len(w) : x[i] = w[i]

Tip(x) == x[Len(x)]
Mark(block) == <<block.counter, block.difficulty>>

\* The lineage of x when its last genesis block is at k.
MarksFrom(x, k) == [p \in 1..(Len(x) - k + 1) |-> Mark(x[k + p - 1])]

LEMMA LineageIs ==
  ASSUME NEW x, Sound(x), NEW k, Root(x, k)
  PROVE  Lineage(x) = MarksFrom(x, k)
<1> DEFINE Last(i) == /\ IsGenesisBlock(x[i])
                      /\ \A j \in DOMAIN x : IsGenesisBlock(x[j]) => j <= i
<1>1. k \in DOMAIN x /\ Last(k)
  BY DEF Sound, Root
<1>2. \A i \in DOMAIN x : Last(i) => i = k
  BY <1>1 DEF Sound, Root
<1> DEFINE first == CHOOSE i \in DOMAIN x : Last(i)
<1>3. first = k
  BY <1>1, <1>2
<1>4. Lineage(x) = [p \in 1..(Len(x) - first + 1) |-> Mark(x[first + p - 1])]
  BY Zenon DEF Lineage, Mark
<1> HIDE DEF first
<1> QED
  BY <1>3, <1>4 DEF MarksFrom

\* The lineage of a chain that ends in a genesis block is that block.
LEMMA LineageOfRoot ==
  ASSUME NEW x, Sound(x), IsGenesisBlock(Tip(x))
  PROVE  Lineage(x) = [p \in 1..1 |-> <<GENESIS_INDEX, GENESIS_DIFFICULTY>>]
<1>1. PICK k : Root(x, k) /\ k = Len(x)
  BY DEF Sound, Root, Tip
<1>2. Lineage(x) = MarksFrom(x, k)
  BY <1>1, LineageIs
<1>3. Len(x) - k + 1 = 1 /\ \A p \in 1..1 : k + p - 1 = Len(x)
  BY <1>1 DEF Sound
<1>4. Mark(Tip(x)) = <<GENESIS_INDEX, GENESIS_DIFFICULTY>>
  BY <1>1 DEF Sound, Root, Shaped, Mark, Tip, IsGenesisBlock
<1> QED
  BY <1>2, <1>3, <1>4 DEF Tip, MarksFrom

\* A block that is not a genesis block goes on from the root of the chain it
\* extends.
LEMMA RootStays ==
  ASSUME NEW x, NEW w, Sound(x), Extends(x, w), ~IsGenesisBlock(Tip(x)), NEW k, Root(x, k)
  PROVE  Root(w, k) /\ k <= Len(w)
BY DEF Sound, Extends, Root, Tip

\* A chain with another block has a longer lineage than one that ends at its root.
LEMMA LineageOfOthers ==
  ASSUME NEW x, NEW w, Sound(x), Extends(x, w), ~IsGenesisBlock(Tip(x))
  PROVE  Lineage(x) # [p \in 1..1 |-> <<GENESIS_INDEX, GENESIS_DIFFICULTY>>]
<1>1. PICK k : Root(x, k)
  BY DEF Sound
<1>2. k \in Nat /\ Len(x) \in Nat /\ Len(x) - k + 1 >= 2
  BY <1>1, RootStays DEF Sound, Extends, Root
<1>3. DOMAIN Lineage(x) = 1..(Len(x) - k + 1)
  BY <1>1, LineageIs DEF MarksFrom
<1>4. 2 \in DOMAIN Lineage(x)
  BY <1>2, <1>3
<1> QED
  BY <1>4

\* Lineages that are extended are equal if they and the blocks are.
LEMMA LineageExtends ==
  ASSUME NEW x, NEW w, Sound(x), Sound(w), Extends(x, w), ~IsGenesisBlock(Tip(x)),
         NEW y, NEW v, Sound(y), Sound(v), Extends(y, v), ~IsGenesisBlock(Tip(y))
  PROVE  Lineage(x) = Lineage(y) <=> Mark(Tip(x)) = Mark(Tip(y)) /\ Lineage(w) = Lineage(v)
<1>1. PICK k : Root(x, k)
  BY DEF Sound
<1>2. PICK l : Root(y, l)
  BY DEF Sound
<1>3. Root(w, k) /\ k <= Len(w) /\ Root(v, l) /\ l <= Len(v)
  BY <1>1, <1>2, RootStays
<1> k \in Nat \ {0} /\ l \in Nat \ {0}
  BY <1>1, <1>2 DEF Root, Sound
<1>4. /\ Lineage(x) = [p \in 1..(Len(x) - k + 1) |-> Mark(x[k + p - 1])]
      /\ Lineage(y) = [p \in 1..(Len(y) - l + 1) |-> Mark(y[l + p - 1])]
      /\ Lineage(w) = [p \in 1..(Len(w) - k + 1) |-> Mark(w[k + p - 1])]
      /\ Lineage(v) = [p \in 1..(Len(v) - l + 1) |-> Mark(v[l + p - 1])]
  <2>1. /\ Lineage(x) = MarksFrom(x, k) /\ Lineage(y) = MarksFrom(y, l)
        /\ Lineage(w) = MarksFrom(w, k) /\ Lineage(v) = MarksFrom(v, l)
    BY <1>1, <1>2, <1>3, LineageIs
  <2> QED
    BY <2>1 DEF MarksFrom
<1> DEFINE X == Len(w) - k + 1
           Y == Len(v) - l + 1
<1>5. /\ Len(w) \in Nat /\ Len(v) \in Nat /\ X \in Nat \ {0} /\ Y \in Nat \ {0}
      /\ Len(x) - k + 1 = X + 1 /\ Len(y) - l + 1 = Y + 1
  BY <1>3 DEF Extends
<1>6. /\ \A p \in 1..X : k + p - 1 \in 1..Len(w)
      /\ \A p \in 1..Y : l + p - 1 \in 1..Len(v)
      /\ k + (X + 1) - 1 = Len(x) /\ l + (Y + 1) - 1 = Len(y)
  BY <1>3, <1>5 DEF Extends
<1>7. /\ DOMAIN Lineage(x) = 1..(X + 1) /\ DOMAIN Lineage(w) = 1..X
      /\ DOMAIN Lineage(y) = 1..(Y + 1) /\ DOMAIN Lineage(v) = 1..Y
  BY <1>4, <1>5
<1>8. /\ \A p \in 1..X : Lineage(x)[p] = Lineage(w)[p]
      /\ \A p \in 1..Y : Lineage(y)[p] = Lineage(v)[p]
      /\ Lineage(x)[X + 1] = Mark(Tip(x)) /\ Lineage(y)[Y + 1] = Mark(Tip(y))
  <2>1. /\ \A p \in 1..X : p \in 1..(X + 1) /\ x[k + p - 1] = w[k + p - 1]
        /\ \A p \in 1..Y : p \in 1..(Y + 1) /\ y[l + p - 1] = v[l + p - 1]
        /\ X + 1 \in 1..(X + 1) /\ Y + 1 \in 1..(Y + 1)
    <3>1. X \in Nat /\ Y \in Nat
      BY <1>5
    <3>2. /\ \A p \in 1..X : x[k + p - 1] = w[k + p - 1]
          /\ \A p \in 1..Y : y[l + p - 1] = v[l + p - 1]
      <4> HIDE DEF X, Y
      <4> QED
        BY <1>6 DEF Extends
    <3> HIDE DEF X, Y
    <3>3. /\ \A p \in 1..X : p \in 1..(X + 1)
          /\ \A p \in 1..Y : p \in 1..(Y + 1)
          /\ X + 1 \in 1..(X + 1) /\ Y + 1 \in 1..(Y + 1)
      BY <3>1
    <3> QED
      BY <3>2, <3>3
  <2>2. /\ \A p \in 1..(X + 1) : Lineage(x)[p] = Mark(x[k + p - 1])
        /\ \A p \in 1..(Y + 1) : Lineage(y)[p] = Mark(y[l + p - 1])
        /\ \A p \in 1..X : Lineage(w)[p] = Mark(w[k + p - 1])
        /\ \A p \in 1..Y : Lineage(v)[p] = Mark(v[l + p - 1])
    BY <1>4, <1>5
  <2> HIDE DEF X, Y
  <2> QED
    BY <1>6, <2>1, <2>2 DEF Tip
<1> HIDE DEF X, Y
<1>9. ASSUME Lineage(x) = Lineage(y)
      PROVE  Mark(Tip(x)) = Mark(Tip(y)) /\ Lineage(w) = Lineage(v)
  <2>1. X = Y
    BY <1>5, <1>7, <1>9
  <2>2. \A p \in 1..X : Lineage(w)[p] = Lineage(v)[p]
    BY <1>8, <1>9, <2>1
  <2>3. Lineage(w) = [p \in 1..X |-> Lineage(w)[p]] /\ Lineage(v) = [p \in 1..X |-> Lineage(v)[p]]
    BY <1>4, <2>1 DEF X, Y
  <2> QED
    BY <1>8, <1>9, <2>1, <2>2, <2>3
<1>10. ASSUME Mark(Tip(x)) = Mark(Tip(y)), Lineage(w) = Lineage(v)
       PROVE  Lineage(x) = Lineage(y)
  <2>1. X = Y
    BY <1>5, <1>7, <1>10
  <2>2. \A p \in 1..(X + 1) : p \in 1..X \/ p = X + 1
    BY <1>5
  <2>3. \A p \in 1..(X + 1) : Lineage(x)[p] = Lineage(y)[p]
    BY <1>8, <1>10, <2>1, <2>2
  <2>4. /\ Lineage(x) = [p \in 1..(X + 1) |-> Lineage(x)[p]]
        /\ Lineage(y) = [p \in 1..(X + 1) |-> Lineage(y)[p]]
    BY <1>4, <1>5, <2>1
  <2> QED
    BY <2>3, <2>4
<1> QED
  BY <1>9, <1>10

\* Linked chains that extend others are linked to them.
LEMMA LinkedTip ==
  ASSUME NEW x, NEW w, Sound(x), Sound(w), Extends(x, w), ~IsGenesisBlock(Tip(x)), Linked(x)
  PROVE  /\ Linked(w)
         /\ Tip(x).currHash = <<Tip(x).counter, Tip(x).difficulty, Tip(w).currHash, 0>>
<1>1. Linked(w)
  BY DEF Sound, Extends, Linked
<1>2. /\ Len(x) \in DOMAIN x /\ Len(x) # 1 /\ Len(x) - 1 = Len(w)
      /\ x[Len(x) - 1] = Tip(w) /\ Shaped(x[Len(x)])
  BY DEF Sound, Extends, Tip
<1>3. IsCreated(Tip(x)) /\ Tip(x).prevHash = Tip(w).currHash
  BY <1>2 DEF Linked, Tip
<1> QED
  BY <1>1, <1>2, <1>3 DEF Shaped, Tip

\* Linked chains that end in a genesis block.
LEMMA LinkedRoot ==
  ASSUME NEW x, Sound(x), IsGenesisBlock(Tip(x)), Linked(x)
  PROVE  Tip(x).currHash = <<GENESIS_INDEX, GENESIS_DIFFICULTY, GENESIS_PREV_HASH, 0>>
BY DEF Sound, Linked, Tip, Shaped, IsGenesisBlock

Agree(x, y) == Tip(x).currHash = Tip(y).currHash <=> Lineage(x) = Lineage(y)

\* Two linked chains agree if what they extend does.
LEMMA LinkedAgree ==
  ASSUME NEW S, \A w, v \in S : Sound(w) /\ (Linked(w) /\ Linked(v) => Agree(w, v)),
         NEW x, Sound(x), Linked(x), IsGenesisBlock(Tip(x)) \/ \E w \in S : Extends(x, w),
         NEW y, Sound(y), Linked(y), IsGenesisBlock(Tip(y)) \/ \E v \in S : Extends(y, v)
  PROVE  Agree(x, y)
<1>1. CASE IsGenesisBlock(Tip(x)) /\ IsGenesisBlock(Tip(y))
  BY <1>1, LinkedRoot, LineageOfRoot DEF Agree
<1>2. CASE IsGenesisBlock(Tip(x)) /\ ~IsGenesisBlock(Tip(y))
  <2>1. PICK v \in S : Extends(y, v)
    BY <1>2
  <2>2. Lineage(x) # Lineage(y)
    BY <1>2, <2>1, LineageOfRoot, LineageOfOthers
  <2>3. Tip(y).currHash = <<Tip(y).counter, Tip(y).difficulty, Tip(v).currHash, 0>>
    BY <1>2, <2>1, LinkedTip
  <2>4. Tip(x).currHash[1] # Tip(y).currHash[1]
    BY <1>2, <2>3, LinkedRoot DEF IsGenesisBlock
  <2> QED
    BY <2>2, <2>4 DEF Agree
<1>3. CASE ~IsGenesisBlock(Tip(x)) /\ IsGenesisBlock(Tip(y))
  <2>1. PICK w \in S : Extends(x, w)
    BY <1>3
  <2>2. Lineage(x) # Lineage(y)
    BY <1>3, <2>1, LineageOfRoot, LineageOfOthers
  <2>3. Tip(x).currHash = <<Tip(x).counter, Tip(x).difficulty, Tip(w).currHash, 0>>
    BY <1>3, <2>1, LinkedTip
  <2>4. Tip(x).currHash[1] # Tip(y).currHash[1]
    BY <1>3, <2>3, LinkedRoot DEF IsGenesisBlock
  <2> QED
    BY <2>2, <2>4 DEF Agree
<1>4. CASE ~IsGenesisBlock(Tip(x)) /\ ~IsGenesisBlock(Tip(y))
  <2>1. PICK w \in S : Extends(x, w)
    BY <1>4
  <2>2. PICK v \in S : Extends(y, v)
    BY <1>4
  <2>3. /\ Linked(w) /\ Linked(v)
        /\ Tip(x).currHash = <<Tip(x).counter, Tip(x).difficulty, Tip(w).currHash, 0>>
        /\ Tip(y).currHash = <<Tip(y).counter, Tip(y).difficulty, Tip(v).currHash, 0>>
    BY <1>4, <2>1, <2>2, LinkedTip
  <2>4. Tip(w).currHash = Tip(v).currHash <=> Lineage(w) = Lineage(v)
    BY <2>3 DEF Agree
  <2>5. Lineage(x) = Lineage(y) <=> Mark(Tip(x)) = Mark(Tip(y)) /\ Lineage(w) = Lineage(v)
    BY <1>4, <2>1, <2>2, LineageExtends
  <2>6. Tip(x).currHash = Tip(y).currHash <=>
          Mark(Tip(x)) = Mark(Tip(y)) /\ Tip(w).currHash = Tip(v).currHash
    BY <2>3 DEF Mark
  <2> QED
    BY <2>4, <2>5, <2>6 DEF Agree
<1> QED
  BY <1>1, <1>2, <1>3, <1>4

\* The chains there have been on the way to those of the processes.
Prefixes == UNION {{SubSeq(chain[n], 1, i) : i \in DOMAIN chain[n]} : n \in Nodes}

\* What TipNamesChain needs to be inductive, with BlockInv.
LineageInv ==
  /\ \A x \in Prefixes : Sound(x)
  /\ \A x, y \in Prefixes : Linked(x) /\ Linked(y) => Agree(x, y)

LEMMA PrefixIs ==
  ASSUME NEW S, NEW s \in Seq(S), NEW i \in 1..Len(s)
  PROVE  LET x == SubSeq(s, 1, i)
         IN  /\ x \in Seq(S)
             /\ Len(x) = i /\ DOMAIN x = 1..i /\ \A j \in 1..i : x[j] = s[j]
<1>1. 1 \in Int /\ i \in Int /\ 1 <= i /\ i - 1 + 1 = i /\ \A j \in 1..i : s[j] \in S
  OBVIOUS
<1>2. /\ SubSeq(s, 1, i) \in Seq(S) /\ Len(SubSeq(s, 1, i)) = i
      /\ \A j \in 1..i : SubSeq(s, 1, i)[j] = s[1 + j - 1]
  BY <1>1, SubSeqProperties
<1> QED
  BY <1>1, <1>2

LEMMA InPrefixes ==
  ASSUME NEW x
  PROVE  x \in Prefixes <=> \E n \in Nodes : \E i \in DOMAIN chain[n] : x = SubSeq(chain[n], 1, i)
<1> DEFINE Of(n) == {SubSeq(chain[n], 1, i) : i \in DOMAIN chain[n]}
<1>1. \A n : x \in Of(n) <=> \E i \in DOMAIN chain[n] : x = SubSeq(chain[n], 1, i)
  OBVIOUS
<1>2. Prefixes = UNION {Of(n) : n \in Nodes}
  BY DEF Prefixes
<1> HIDE DEF Of
<1>3. x \in Prefixes <=> \E n \in Nodes : x \in Of(n)
  BY <1>2
<1> QED
  BY <1>1, <1>3

\* Every prefix ends in a genesis block or extends another prefix.
LEMMA PrefixExtends ==
  ASSUME BlockInv, NEW x \in Prefixes, Sound(x), ~IsGenesisBlock(Tip(x))
  PROVE  \E w \in Prefixes : Extends(x, w)
<1>1. PICK n \in Nodes : \E i \in DOMAIN chain[n] : x = SubSeq(chain[n], 1, i)
  BY InPrefixes
<1> PICK i \in DOMAIN chain[n] : x = SubSeq(chain[n], 1, i)
  BY <1>1
<1>2. chain[n] \in Seq(BlocksOf(chain[n])) /\ i \in 1..Len(chain[n]) /\ i \in Nat
  BY <1>1 DEF BlockInv
<1>3. Len(x) = i /\ DOMAIN x = 1..i /\ \A j \in 1..i : x[j] = chain[n][j]
  BY <1>1, <1>2, PrefixIs
<1>4. i # 1
  <2>1. PICK k : k \in 1..i /\ IsGenesisBlock(x[k])
    BY <1>3 DEF Sound, Root
  <2>2. ASSUME i = 1 PROVE FALSE
    <3>1. k = 1 /\ Len(x) = 1
      BY <1>3, <2>1, <2>2
    <3> QED
      BY <2>1, <3>1 DEF Tip
  <2> QED
    BY <2>2
<1> DEFINE w == SubSeq(chain[n], 1, i - 1)
<1>5. i - 1 \in 1..Len(chain[n]) /\ i - 1 \in DOMAIN chain[n]
  BY <1>2, <1>4
<1>6. Len(w) = i - 1 /\ DOMAIN w = 1..(i - 1) /\ \A j \in 1..(i - 1) : w[j] = chain[n][j]
  BY <1>2, <1>5, PrefixIs
<1>7. w \in Prefixes
  <2>1. \E m \in Nodes : \E j \in DOMAIN chain[m] : w = SubSeq(chain[m], 1, j)
    BY <1>5
  <2> QED
    BY <2>1, InPrefixes
<1> HIDE DEF w
<1>8. Extends(x, w)
  BY <1>2, <1>3, <1>6 DEF Extends
<1> QED
  BY <1>7, <1>8

\* A chain is the longest of its prefixes.
LEMMA ChainIsPrefix ==
  ASSUME BlockInv, NEW n \in Nodes, chain[n] # <<>>
  PROVE  chain[n] \in Prefixes
<1>1. chain[n] \in Seq(BlocksOf(chain[n]))
  BY DEF BlockInv
<1>2. Len(chain[n]) \in 1..Len(chain[n]) /\ DOMAIN chain[n] = 1..Len(chain[n])
  BY <1>1
<1>3. SubSeq(chain[n], 1, Len(chain[n])) = chain[n]
  <2> DEFINE x == SubSeq(chain[n], 1, Len(chain[n]))
  <2>1. /\ x \in Seq(BlocksOf(chain[n])) /\ Len(x) = Len(chain[n])
        /\ \A j \in 1..Len(chain[n]) : x[j] = chain[n][j]
    BY <1>1, <1>2, PrefixIs
  <2>2. x = [j \in DOMAIN x |-> x[j]] /\ chain[n] = [j \in DOMAIN chain[n] |-> chain[n][j]]
    BY <1>1, <2>1
  <2> HIDE DEF x
  <2>3. x = chain[n]
    BY <1>2, <2>1, <2>2
  <2> QED
    BY <2>3 DEF x
<1> QED
  BY <1>2, <1>3, InPrefixes

\* A step that leaves a process with a chain another one had adds no prefix.
LEMMA CopiesAddNoPrefix ==
  ASSUME \A n \in Nodes : \E m \in Nodes : chain'[n] = chain[m]
  PROVE  Prefixes' \subseteq Prefixes
<1>1. ASSUME NEW x \in Prefixes' PROVE x \in Prefixes
  <2>1. PICK n \in Nodes : \E i \in DOMAIN chain'[n] : x = SubSeq(chain'[n], 1, i)
    BY <1>1 DEF Prefixes
  <2>2. PICK m \in Nodes : chain'[n] = chain[m]
    OBVIOUS
  <2> QED
    BY <2>1, <2>2, InPrefixes
<1> QED
  BY <1>1

\* One that adds a block adds its chain.
LEMMA AddAddsOnePrefix ==
  ASSUME BlockInv, NEW n \in Nodes, NEW block,
         chain' = [chain EXCEPT ![n] = Append(chain[n], block)]
  PROVE  Prefixes' \subseteq Prefixes \union {chain'[n]}
<1> DEFINE s == chain[n]
           t == chain'[n]
           T == BlocksOf(s) \union {block}
<1>1. t = Append(s, block) /\ \A m \in Nodes : m # n => chain'[m] = chain[m]
  BY DEF BlockInv
<1>2. s \in Seq(BlocksOf(s)) /\ s \in Seq(T)
  BY DEF BlockInv
<1>3. /\ t \in Seq(T) /\ Len(t) = Len(s) + 1 /\ DOMAIN t = 1..(Len(s) + 1) /\ Len(s) \in Nat
      /\ DOMAIN s = 1..Len(s) /\ \A j \in 1..Len(s) : t[j] = s[j]
  BY <1>1, <1>2
<1>4. ASSUME NEW i \in DOMAIN t
      PROVE  SubSeq(t, 1, i) \in Prefixes \/ SubSeq(t, 1, i) = t
  <2> HIDE DEF s, t, T
  <2>1. CASE i \in 1..Len(s)
    <3>1. i \in 1..Len(t)
      BY <1>3
    <3>2. /\ SubSeq(s, 1, i) \in Seq(T) /\ SubSeq(t, 1, i) \in Seq(T)
          /\ Len(SubSeq(s, 1, i)) = i /\ Len(SubSeq(t, 1, i)) = i
          /\ \A j \in 1..i : SubSeq(s, 1, i)[j] = s[j] /\ SubSeq(t, 1, i)[j] = t[j]
      BY <1>2, <1>3, <2>1, <3>1, PrefixIs
    <3>3. \A j \in 1..i : s[j] = t[j]
      BY <1>3, <2>1
    <3>4. SubSeq(s, 1, i) = SubSeq(t, 1, i)
      BY <3>2, <3>3, SeqEqual
    <3>5. i \in DOMAIN s
      BY <1>3, <2>1
    <3> QED
      BY <3>4, <3>5, InPrefixes DEF s
  <2>2. CASE i \notin 1..Len(s)
    <3>1. i = Len(t) /\ i \in 1..Len(t)
      BY <1>3, <2>2
    <3>2. /\ SubSeq(t, 1, i) \in Seq(T) /\ Len(SubSeq(t, 1, i)) = i
          /\ \A j \in 1..i : SubSeq(t, 1, i)[j] = t[j]
      BY <1>3, <3>1, PrefixIs
    <3>3. SubSeq(t, 1, i) = t
      BY <1>3, <3>1, <3>2, SeqEqual
    <3> QED
      BY <3>3
  <2> QED
    BY <2>1, <2>2
<1>5. ASSUME NEW x \in Prefixes' PROVE x \in Prefixes \/ x = t
  <2>1. PICK m \in Nodes : \E i \in DOMAIN chain'[m] : x = SubSeq(chain'[m], 1, i)
    BY <1>5 DEF Prefixes
  <2>2. CASE m = n
    BY <1>4, <2>1, <2>2
  <2>3. CASE m # n
    BY <1>1, <2>1, <2>3, InPrefixes
  <2> QED
    BY <2>2, <2>3
<1> QED
  BY <1>5

LEMMA AddKeepsLineages ==
  ASSUME BlockInv, LineageInv, NEW n \in Nodes, NEW block, Shaped(block),
         IsGenesisBlock(block) \/ chain[n] # <<>>,
         chain' = [chain EXCEPT ![n] = Append(chain[n], block)]
  PROVE  LineageInv'
<1> DEFINE w == chain[n]
           z == chain'[n]
<1>1. z = Append(w, block) /\ w \in Seq(BlocksOf(w))
  BY DEF BlockInv
<1>2. Extends(z, w) /\ Tip(z) = block
  BY <1>1 DEF Extends, Tip
<1>3. w # <<>> => w \in Prefixes /\ Sound(w)
  BY ChainIsPrefix DEF LineageInv
<1>4. Sound(z)
  <2>1. \A i \in 1..Len(z) : i \in 1..Len(w) \/ i = Len(z)
    BY <1>2 DEF Extends
  <2>2. \A i \in 1..Len(z) : Shaped(z[i])
    <3>1. \A i \in 1..Len(w) : w # <<>> /\ z[i] = w[i]
      BY <1>1, <1>2 DEF Extends
    <3> QED
      BY <1>2, <1>3, <2>1, <3>1 DEF Sound, Tip
  <2>3. \E k : Root(z, k)
    <3>1. CASE IsGenesisBlock(block)
      <4>1. Root(z, Len(z))
        BY <1>2, <3>1 DEF Root, Extends, Tip
      <4> QED
        BY <4>1
    <3>2. CASE ~IsGenesisBlock(block)
      <4>1. PICK k : Root(w, k)
        BY <1>3, <3>2 DEF Sound
      <4>2. Root(z, k)
        BY <1>2, <2>1, <3>2, <4>1 DEF Root, Extends, Tip
      <4> QED
        BY <4>2
    <3> QED
      BY <3>1, <3>2
  <2> QED
    BY <1>2, <2>2, <2>3 DEF Sound, Extends
<1>5. IsGenesisBlock(Tip(z)) \/ \E v \in Prefixes : Extends(z, v)
  BY <1>2, <1>3
<1>6. Prefixes' \subseteq Prefixes \union {z}
  BY AddAddsOnePrefix
<1>7. \A x \in Prefixes : Sound(x) /\ (IsGenesisBlock(Tip(x)) \/ \E v \in Prefixes : Extends(x, v))
  BY PrefixExtends DEF LineageInv
<1>8. \A x \in Prefixes' : Sound(x) /\ (IsGenesisBlock(Tip(x)) \/ \E v \in Prefixes : Extends(x, v))
  BY <1>4, <1>5, <1>6, <1>7
<1>9. \A v, x \in Prefixes : Sound(v) /\ (Linked(v) /\ Linked(x) => Agree(v, x))
  BY DEF LineageInv
<1>10. ASSUME NEW x \in Prefixes', NEW y \in Prefixes', Linked(x), Linked(y)
       PROVE  Agree(x, y)
  BY <1>8, <1>9, <1>10, LinkedAgree
<1> QED
  BY <1>8, <1>10 DEF LineageInv

LEMMA CopiesKeepLineages ==
  ASSUME LineageInv, \A n \in Nodes : \E m \in Nodes : chain'[n] = chain[m]
  PROVE  LineageInv'
BY CopiesAddNoPrefix DEF LineageInv

\* What AddBlock appends has the shape of a block.
LEMMA CreateShapes ==
  ASSUME NEW counter, NEW difficulty, NEW prevHash, NEW now,
         counter = GENESIS_INDEX =>
           difficulty = GENESIS_DIFFICULTY /\ prevHash = GENESIS_PREV_HASH
  PROVE  LET block == Create(NewBlock(counter, difficulty, prevHash), now)
         IN  Shaped(block) /\ (IsGenesisBlock(block) <=> counter = GENESIS_INDEX)
<1> DEFINE new == NewBlock(counter, difficulty, prevHash)
<1>1. ~IsCreated(new)
  BY DEF NewBlock, IsCreated
<1>2. CASE difficulty \in Minable
  <2>1. Create(new, now) =
          [counter |-> counter, difficulty |-> difficulty, prevHash |-> prevHash,
           currHash |-> <<counter, difficulty, prevHash, 0>>, timeCreate |-> now]
    BY <1>1, <1>2 DEF Create, CalculateHash, NewBlock
  <2> QED
    BY <2>1 DEF Shaped, IsGenesisBlock
<1>3. CASE difficulty \notin Minable
  <2>1. Create(new, now) = new
    BY <1>1, <1>3 DEF Create, CalculateHash, NewBlock
  <2> QED
    BY <1>1, <2>1 DEF Shaped, IsGenesisBlock, NewBlock
<1> QED
  BY <1>2, <1>3

LEMMA LineageStep ==
  ASSUME BlockInv, LineageInv, [Next]_vars
  PROVE  LineageInv'
<1>1. CASE chain' = chain
  BY <1>1, CopiesKeepLineages
<1>2. ASSUME NEW n \in Nodes, InitGenesis(n)
      PROVE  LineageInv'
  <2> DEFINE block == Create(NewBlock(GENESIS_INDEX, GENESIS_DIFFICULTY, GENESIS_PREV_HASH), clock)
  <2>1. Shaped(block) /\ IsGenesisBlock(block)
    BY CreateShapes
  <2>2. chain' = [chain EXCEPT ![n] = Append(chain[n], block)]
    BY <1>2 DEF InitGenesis, Add, AddBlock
  <2> QED
    BY <2>1, <2>2, AddKeepsLineages
<1>3. ASSUME NEW n \in Nodes, AddNext(n)
      PROVE  LineageInv'
  <2>1. PICK difficulty \in Difficulties, i \in DOMAIN chain[n] :
          Add(n, NewBlock(Len(chain[n]), difficulty, chain[n][i].currHash))
    BY <1>3 DEF AddNext
  <2> DEFINE block == Create(NewBlock(Len(chain[n]), difficulty, chain[n][i].currHash), clock)
  <2>2. chain[n] \in Seq(BlocksOf(chain[n])) /\ Len(chain[n]) # GENESIS_INDEX /\ chain[n] # <<>>
    BY DEF BlockInv, GENESIS_INDEX
  <2>3. Shaped(block)
    BY <2>2, CreateShapes
  <2>4. chain' = [chain EXCEPT ![n] = Append(chain[n], block)]
    BY <2>1 DEF Add, AddBlock
  <2> QED
    BY <2>2, <2>3, <2>4, AddKeepsLineages
<1>4. ASSUME NEW n \in Nodes, NEW m \in Nodes, Adopt(n, m)
      PROVE  LineageInv'
  <2>1. chain' = [chain EXCEPT ![n] = chain[m]]
    BY <1>4, ChainTravels DEF Adopt
  <2>2. \A k \in Nodes : chain'[k] = chain[m] \/ chain'[k] = chain[k]
    BY <2>1 DEF BlockInv
  <2> QED
    BY <2>2, CopiesKeepLineages
<1> QED
  BY <1>1, <1>2, <1>3, <1>4 DEF Next, Tick, vars

\* Wherever and whenever the blocks of two linked chains were mined, and however
\* often they went through JSON, their last blocks have one hash exactly if the
\* chains have gone the same way since their last genesis block: CalculateHash
\* (block.hpp) hashes the previous hash with every block but the first.
THEOREM TipsNameChains == Spec => []TipNamesChain
<1>1. Init => LineageInv
  BY DEF Init, LineageInv, Prefixes
<1>2. BlockInv /\ LineageInv => TipNamesChain
  <2> SUFFICES ASSUME BlockInv, LineageInv, NEW m \in Nodes, NEW n \in Nodes,
                      NEW i \in DOMAIN chain[m], NEW j \in DOMAIN chain[n]
               PROVE  LET x == SubSeq(chain[m], 1, i)  y == SubSeq(chain[n], 1, j)
                      IN  Linked(x) /\ Linked(y) =>
                            (x[i].currHash = y[j].currHash <=> Lineage(x) = Lineage(y))
    BY DEF TipNamesChain
  <2> DEFINE x == SubSeq(chain[m], 1, i)
             y == SubSeq(chain[n], 1, j)
  <2>1. x \in Prefixes /\ y \in Prefixes
    BY InPrefixes
  <2>2. Len(x) = i /\ Len(y) = j
    BY PrefixIs DEF BlockInv
  <2> HIDE DEF x, y
  <2>3. Linked(x) /\ Linked(y) => (x[i].currHash = y[j].currHash <=> Lineage(x) = Lineage(y))
    BY <2>1, <2>2 DEF LineageInv, Agree, Tip
  <2> QED
    BY <2>3 DEF x, y
<1> QED
  BY <1>1, <1>2, BlockInvariant, LineageStep, PTL DEF Spec
=============================================================================
