----------------------------- MODULE Blockchain -----------------------------
(***************************************************************************)
(* The classes Block and DopechainBlockchain (dopechain_client/block.hpp,  *)
(* blockchain.hpp) under any sequence of calls of their methods, in        *)
(* several processes that pass chains to each other as JSON.               *)
(*                                                                         *)
(* A hash is the tuple of what is hashed: Sha256 is taken to be injective, *)
(* and so is the concatenation of counter and difficulty, numbers of one   *)
(* digit here.  The nonce and the merkle root (never filled, "empty") are  *)
(* functions of these and left out.  Times are numbers, 0 the empty string.*)
(***************************************************************************)
EXTENDS Naturals, Sequences

CONSTANTS
  Nodes,         \* processes
  Difficulties,  \* difficulties callers ask for
  Minable,       \* those for which some nonce below INT_MAX does
  MaxBlocks,     \* bound: blocks in a chain
  MaxTime        \* bound: ticks of the clock

GENESIS_INDEX == 0
GENESIS_DIFFICULTY == 3
GENESIS_PREV_HASH == <<"0">>
NoHash == <<>>

ASSUME DifficultyAssumption ==
  /\ Difficulties \subseteq 0..9 /\ Minable \subseteq 0..9
  /\ GENESIS_DIFFICULTY \in Minable
ASSUME BoundAssumption == MaxBlocks \in 1..9 /\ MaxTime \in Nat \ {0}

VARIABLES
  chain,  \* chain[n]: the vector of blocks of n
  clock   \* what Utils::GetTimestamp returns

vars == <<chain, clock>>
-----------------------------------------------------------------------------
(* Block *)

NewBlock(counter, difficulty, prevHash) ==
  [counter |-> counter, difficulty |-> difficulty, prevHash |-> prevHash,
   currHash |-> NoHash, timeCreate |-> 0]

IsCreated(block) == block.currHash # NoHash
IsGenesisBlock(block) == block.counter = GENESIS_INDEX

\* Mutant: the previous hash is not hashed.
CalculateHashUnlinked(block, now) ==
  IF block.difficulty \in Minable
  THEN [block EXCEPT !.currHash = <<block.counter, block.difficulty, block.timeCreate>>,
                     !.timeCreate = now]
  ELSE block

\* Mutant: the time is one tick ahead.
CalculateHashAhead(block, now) ==
  IF block.difficulty \in Minable
  THEN [block EXCEPT !.currHash = <<block.counter, block.difficulty,
                                    block.prevHash, block.timeCreate>>,
                     !.timeCreate = now + 1]
  ELSE block

\* The time is set after the header was hashed.  Without a nonce the block
\* stays as it is.
CalculateHash(block, now) ==
  IF block.difficulty \in Minable
  THEN [block EXCEPT !.currHash = <<block.counter, block.difficulty,
                                    block.prevHash, block.timeCreate>>,
                     !.timeCreate = now]
  ELSE block
-----------------------------------------------------------------------------
(* DopechainBlockchain *)

Create(block, now) == IF IsCreated(block) THEN block ELSE CalculateHash(block, now)
AddBlock(blocks, block, now) == Append(blocks, Create(block, now))

Version(blocks) == Len(blocks)

\* The comparison of the hashes ends in an empty statement
\* ("if (previous_hash != current_prev_hash);"): the return after it is taken
\* for every block that is not a genesis block.
IsValid(blocks) ==
  \A i \in DOMAIN blocks : IsCreated(blocks[i]) /\ IsGenesisBlock(blocks[i])

\* Mutant: the hash does not travel.
ToJsonUnhashed(block) ==
  [counter |-> block.counter, difficulty |-> block.difficulty, prevHash |-> block.prevHash,
   currHash |-> NoHash, timeCreate |-> block.timeCreate]

\* The fields travel; a chain is read back block by block through AddBlock.
ToJson(block) ==
  [counter |-> block.counter, difficulty |-> block.difficulty, prevHash |-> block.prevHash,
   currHash |-> block.currHash, timeCreate |-> block.timeCreate]
FromJson(json, now) == [i \in DOMAIN json |-> Create(ToJson(json[i]), now)]
-----------------------------------------------------------------------------
Init == chain = [n \in Nodes |-> <<>>] /\ clock = 1

Tick == clock < MaxTime /\ clock' = clock + 1 /\ UNCHANGED chain

Add(n, block) ==
  /\ Len(chain[n]) < MaxBlocks
  /\ chain' = [chain EXCEPT ![n] = AddBlock(@, block, clock)]
  /\ UNCHANGED clock

\* InitBlockchain(GENESIS)
InitGenesis(n) == Add(n, NewBlock(GENESIS_INDEX, GENESIS_DIFFICULTY, GENESIS_PREV_HASH))

\* A caller adds the next block, on the last one or on any other of the chain.
AddNext(n) ==
  \E difficulty \in Difficulties, i \in DOMAIN chain[n] :
    Add(n, NewBlock(Len(chain[n]), difficulty, chain[n][i].currHash))

\* BlockchainSync's last step: n adopts the chain it was sent by m.
Adopt(n, m) ==
  /\ chain[m] # <<>>
  /\ chain' = [chain EXCEPT ![n] = FromJson(chain[m], clock)]
  /\ UNCHANGED clock

Next ==
  \/ Tick
  \/ \E n \in Nodes : InitGenesis(n) \/ AddNext(n) \/ \E m \in Nodes \ {n} : Adopt(n, m)

Spec == Init /\ [][Next]_vars
-----------------------------------------------------------------------------
(* Properties *)

TypeOK ==
  /\ clock \in 1..MaxTime
  /\ \A n \in Nodes : Len(chain[n]) <= MaxBlocks
  /\ \A n \in Nodes : \A i \in DOMAIN chain[n] :
       /\ chain[n][i].counter \in 0..MaxBlocks
       /\ chain[n][i].difficulty \in Difficulties \union {GENESIS_DIFFICULTY}
       /\ chain[n][i].timeCreate \in 0..clock

\* A chain survives the passage through JSON at any later time: reading it
\* back mines the blocks that were never created once more, and finds no nonce
\* for them again, so nobody's copy comes to differ from the original.
RoundTrip ==
  \A n \in Nodes, now \in clock..MaxTime : FromJson(chain[n], now) = chain[n]

\* What IsValid is there to find out, blockchain.hpp:93-113: every block is
\* created, and one that is not a genesis block continues the block before it,
\* if there is one.
Linked(blocks) ==
  \A i \in DOMAIN blocks :
    /\ IsCreated(blocks[i])
    /\ IsGenesisBlock(blocks[i]) \/ blocks[i].prevHash = (IF i = 1 THEN NoHash
                                                          ELSE blocks[i - 1].currHash)

\* The blocks from the last genesis block of a chain on, without their times.
Lineage(blocks) ==
  LET first == CHOOSE i \in DOMAIN blocks :
                 /\ IsGenesisBlock(blocks[i])
                 /\ \A j \in DOMAIN blocks : IsGenesisBlock(blocks[j]) => j <= i
  IN  [i \in 1..(Len(blocks) - first + 1) |->
         LET block == blocks[first + i - 1] IN <<block.counter, block.difficulty>>]

\* The hash of its last block names a linked chain, wherever and whenever its
\* blocks were mined and however often they travelled: two chains end in one
\* hash exactly if they have gone the same way since their last genesis block.
\* Their times may differ, for a time is set after its block was hashed.
TipNamesChain ==
  \A m, n \in Nodes : \A i \in DOMAIN chain[m], j \in DOMAIN chain[n] :
    LET x == SubSeq(chain[m], 1, i)  y == SubSeq(chain[n], 1, j)
    IN  Linked(x) /\ Linked(y) =>
          (x[i].currHash = y[j].currHash <=> Lineage(x) = Lineage(y))

\* Every linked chain passes.  (It does not, once it has two blocks.)
AcceptsLinked == \A n \in Nodes : Linked(chain[n]) => IsValid(chain[n])
=============================================================================
