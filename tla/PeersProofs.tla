---------------------------- MODULE PeersProofs ----------------------------
(***************************************************************************)
(* Theorems of Peers, for any number of processes, connected in any way,   *)
(* and any number of connections that break.                               *)
(***************************************************************************)
EXTENDS Peers, TLAPS

(* ------------------------- type correctness ---------------------------- *)

\* What TypeOK needs to be inductive: the loop over the peers starts at 1.
TypeInv == TypeOK /\ \A c \in Clients : at[c] >= 1

LEMMA ChainLength ==
  ASSUME NEW ch \in Chain
  PROVE  Len(ch) \in {0, 1} /\ (Len(ch) = 0 <=> ch = <<>>)
BY DEF Chain

LEMMA CurrentIsClient ==
  ASSUME TypeInv, NEW c \in Clients, at[c] <= Len(peersConnections[c])
  PROVE  Current(c) \in Clients /\ at[c] \in DOMAIN peersConnections[c]
BY DEF TypeInv, TypeOK, Current

LEMMA IndexTypes ==
  ASSUME TypeInv, NEW c \in Clients
  PROVE  /\ at[c] \in Nat /\ at[c] >= 1
         /\ DOMAIN peersConnections[c] \subseteq Nat
BY DEF TypeInv, TypeOK

LEMMA PartyTypes ==
  ASSUME TypeInv, NEW m \in calls
  PROVE  m.from \in Clients /\ m.to \in Clients
BY DEF TypeInv, TypeOK, Request

LEMMA AskKeepsTypes ==
  ASSUME TypeInv, NEW c \in Clients, NEW d \in Clients, NEW type \in {"VERSION", "SYNC"},
         Ask(c, d, type)
  PROVE  calls' \in SUBSET Request
BY DEF TypeInv, TypeOK, Ask, Request

LEMMA ReplyKeepsTypes ==
  ASSUME TypeInv, NEW m \in calls, NEW version \in {0, 1, Torn}, NEW blocks \in Chain,
         Reply(m, version, blocks)
  PROVE  calls' \in SUBSET Request /\ answers' \in SUBSET Answer
BY DEF TypeInv, TypeOK, Reply, Request, Answer

LEMMA ExitKeepsTypes ==
  ASSUME TypeInv, NEW c \in Clients, Exit(c)
  PROVE  TypeInv'
<1>1. <<>> \in Chain /\ "gone" \in Stages
  BY DEF Chain, Stages
<1> QED
  BY <1>1 DEF TypeInv, TypeOK, Exit

LEMMA TypeStep == TypeInv /\ [Next]_vars => TypeInv'
<1> SUFFICES ASSUME TypeInv, [Next]_vars PROVE TypeInv'
  OBVIOUS
<1> USE DEF TypeInv, chainVars, syncVars, msgVars
<1>1. ASSUME NEW c \in Clients, Start(c) PROVE TypeInv'
  BY <1>1 DEF Start, TypeOK
<1>2. ASSUME NEW c \in Clients, NEW d \in Clients, Connect(c, d) PROVE TypeInv'
  BY <1>2 DEF Connect, TypeOK
<1>3. ASSUME NEW c \in Clients, Genesis(c) PROVE TypeInv'
  BY <1>3 DEF Genesis, Goto, TypeOK, Stages, Chain
<1>4. ASSUME NEW c \in Clients, Join(c) PROVE TypeInv'
  BY <1>4 DEF Join, Goto, TypeOK, Stages
<1>5. ASSUME NEW c \in Clients, AskVersion(c) PROVE TypeInv'
  <2>1. calls' \in SUBSET Request
    BY <1>5, CurrentIsClient, AskKeepsTypes DEF AskVersion
  <2> QED
    BY <1>5, <2>1 DEF AskVersion, Goto, TypeOK, Stages
<1>6. ASSUME NEW c \in Clients, TakeVersion(c) PROVE TypeInv'
  <2>1. PICK a \in Incoming(c, Current(c)) :
          /\ best' = IF a.type = "VERSION" /\ best[c].version < a.version
                     THEN [best EXCEPT ![c] = [peer |-> a.from, version |-> a.version]]
                     ELSE best
          /\ answers' = answers \ {a}
    BY <1>6 DEF TakeVersion
  <2>2. a.from \in Clients /\ a.version \in {0, 1, Torn}
    BY <2>1 DEF Incoming, TypeOK, Answer
  <2> QED
    BY <1>6, <2>1, <2>2 DEF TakeVersion, Goto, TypeOK, Stages
<1>7. ASSUME NEW c \in Clients, MissVersion(c) PROVE TypeInv'
  BY <1>7 DEF MissVersion, Goto, TypeOK, Stages
<1>8. ASSUME NEW c \in Clients, NoChainFound(c) PROVE TypeInv'
  BY <1>8 DEF NoChainFound, Goto, TypeOK, Stages
<1>9. ASSUME NEW c \in Clients, AskChain(c) PROVE TypeInv'
  <2>1. best[c].peer \in Clients
    BY <1>9 DEF AskChain, TypeOK
  <2>2. calls' \in SUBSET Request
    BY <1>9, <2>1, AskKeepsTypes DEF AskChain
  <2> QED
    BY <1>9, <2>2 DEF AskChain, Goto, TypeOK, Stages
<1>10. ASSUME NEW c \in Clients, TakeChain(c) PROVE TypeInv'
  <2>1. PICK a \in answers : /\ answers' = answers \ {a}
                             /\ writing' = [writing EXCEPT ![c] = a.chain]
    BY <1>10 DEF TakeChain, Incoming
  <2>2. a.chain \in Chain
    BY <2>1 DEF TypeOK, Answer
  <2> QED
    BY <1>10, <2>1, <2>2 DEF TakeChain, Goto, TypeOK, Stages
<1>11. ASSUME NEW c \in Clients, MissChain(c) PROVE TypeInv'
  BY <1>11 DEF MissChain, Goto, TypeOK, Stages
<1>12. ASSUME NEW c \in Clients, Store(c) PROVE TypeInv'
  BY <1>12 DEF Store, Goto, TypeOK, Stages, Chain
<1>13. ASSUME NEW c \in Clients, Exit(c) PROVE TypeInv'
  BY <1>13, ExitKeepsTypes
<1>14. ASSUME NEW c \in Clients, NEW d \in Clients, Break(c, d) PROVE TypeInv'
  <2>1. broken' \in SUBSET (Clients \X Clients)
    BY <1>14 DEF Break, TypeOK
  <2>2. calls' \in SUBSET Request /\ answers' \in SUBSET Answer
    BY <1>14 DEF Break, TypeOK
  <2> QED
    BY <1>14, <2>1, <2>2 DEF Break, TypeOK
<1>15. ASSUME NEW m \in calls, Handle(m) PROVE TypeInv'
  <2>1. m.to \in Clients /\ <<>> \in Chain
    BY DEF TypeOK, Request, Chain
  <2>2. CASE BlockchainVersion(m)
    <3>1. chain[m.to] \in Chain
      BY <2>1 DEF TypeOK
    <3>2. Len(chain[m.to]) \in {0, 1, Torn}
      BY <3>1, ChainLength
    <3>3. calls' \in SUBSET Request /\ answers' \in SUBSET Answer
      BY <2>1, <2>2, <3>2, ReplyKeepsTypes DEF BlockchainVersion
    <3> QED
      BY <2>2, <3>3 DEF BlockchainVersion, TypeOK
  <2>3. CASE BlockchainSync(m)
    <3>1. chain[m.to] \in Chain
      BY <2>1 DEF TypeOK
    <3>2. calls' \in SUBSET Request /\ answers' \in SUBSET Answer
      BY <2>3, <3>1, ReplyKeepsTypes DEF BlockchainSync
    <3> QED
      BY <2>3, <3>2 DEF BlockchainSync, TypeOK
  <2>4. CASE BlockchainSyncCrash(m)
    BY <2>1, <2>4, ExitKeepsTypes DEF BlockchainSyncCrash
  <2> QED
    BY <1>15, <2>2, <2>3, <2>4 DEF Handle
<1>16. CASE UNCHANGED vars
  BY <1>16 DEF vars, TypeOK
<1> QED
  BY <1>1, <1>2, <1>3, <1>4, <1>5, <1>6, <1>7, <1>8, <1>9, <1>10, <1>11, <1>12, <1>13,
     <1>14, <1>15, <1>16 DEF Next, Prepare, SyncStep

LEMMA TypeInit == Init => TypeInv
BY DEF Init, TypeInv, TypeOK, Chain, Stages

\* Every variable keeps its type: versions and chains in messages are those of
\* some process, or torn.
THEOREM TypeCorrect == Spec => []TypeOK
<1>1. Init => TypeInv
  BY TypeInit
<1>2. TypeInv /\ [Next]_vars => TypeInv'
  BY TypeStep
<1>3. TypeInv => TypeOK
  BY DEF TypeInv
<1> QED
  BY <1>1, <1>2, <1>3, PTL DEF Spec

(* ------------------------- the main threads ---------------------------- *)

\* Nobody is connected twice to one process.
Distinct ==
  \A c \in Clients : \A i, j \in DOMAIN peersConnections[c] :
    peersConnections[c][i] = peersConnections[c][j] => i = j

\* What a main thread's place says of its process.
Place(c) ==
  /\ stage[c] = "idle" => at[c] = 1 /\ best[c] = [peer |-> Nobody, version |-> 0]
  /\ stage[c] = "gone" => c \notin serving
  /\ writing[c] # <<>> => stage[c] = "store"
  /\ chain[c] # <<>> => stage[c] = "done"

PlaceInv == Distinct /\ \A c \in Clients : Place(c)

LEMMA PlaceInit == Init => PlaceInv
BY DEF Init, PlaceInv, Place, Distinct

LEMMA ExitKeepsPlace ==
  ASSUME TypeInv, PlaceInv, NEW c \in Clients, Exit(c)
  PROVE  PlaceInv'
BY DEF TypeInv, TypeOK, PlaceInv, Place, Distinct, Exit

LEMMA PlaceStep == TypeInv /\ PlaceInv /\ [Next]_vars => PlaceInv'
<1> SUFFICES ASSUME TypeInv, PlaceInv, [Next]_vars PROVE PlaceInv'
  OBVIOUS
<1> USE DEF TypeInv, TypeOK, PlaceInv, chainVars, syncVars, msgVars
<1>1. ASSUME NEW c \in Clients, Start(c) PROVE PlaceInv'
  BY <1>1 DEF Start, Place, Distinct
<1>2. ASSUME NEW c \in Clients, NEW d \in Clients, Connect(c, d),
             \A i \in DOMAIN peersConnections[c] : peersConnections[c][i] # d
      PROVE  PlaceInv'
  <2>1. Distinct'
    <3>1. peersConnections[c] \in Seq(Clients)
      OBVIOUS
    <3>2. /\ peersConnections'[c] = Append(peersConnections[c], d)
          /\ \A e \in Clients : e # c => peersConnections'[e] = peersConnections[e]
      BY <1>2 DEF Connect
    <3>3. ASSUME NEW i \in DOMAIN peersConnections'[c], NEW j \in DOMAIN peersConnections'[c],
                 peersConnections'[c][i] = peersConnections'[c][j]
          PROVE  i = j
      BY <1>2, <3>1, <3>2, <3>3 DEF Distinct
    <3> QED
      BY <3>2, <3>3 DEF Distinct
  <2>2. \A e \in Clients : Place(e)'
    BY <1>2 DEF Connect, Place
  <2> QED
    BY <2>1, <2>2
<1>3. ASSUME NEW c \in Clients, Genesis(c) PROVE PlaceInv'
  BY <1>3 DEF Genesis, Goto, Place, Distinct
<1>4. ASSUME NEW c \in Clients, Join(c) PROVE PlaceInv'
  BY <1>4 DEF Join, Goto, Place, Distinct
<1>5. ASSUME NEW c \in Clients, AskVersion(c) PROVE PlaceInv'
  BY <1>5 DEF AskVersion, Goto, Place, Distinct
<1>6. ASSUME NEW c \in Clients, TakeVersion(c) PROVE PlaceInv'
  BY <1>6 DEF TakeVersion, Goto, Place, Distinct
<1>7. ASSUME NEW c \in Clients, MissVersion(c) PROVE PlaceInv'
  BY <1>7 DEF MissVersion, Goto, Place, Distinct
<1>8. ASSUME NEW c \in Clients, NoChainFound(c) PROVE PlaceInv'
  BY <1>8 DEF NoChainFound, AskedAll, Goto, Place, Distinct
<1>9. ASSUME NEW c \in Clients, AskChain(c) PROVE PlaceInv'
  BY <1>9 DEF AskChain, AskedAll, Goto, Place, Distinct
<1>10. ASSUME NEW c \in Clients, TakeChain(c) PROVE PlaceInv'
  BY <1>10 DEF TakeChain, Goto, Place, Distinct
<1>11. ASSUME NEW c \in Clients, MissChain(c) PROVE PlaceInv'
  BY <1>11 DEF MissChain, Goto, Place, Distinct
<1>12. ASSUME NEW c \in Clients, Store(c) PROVE PlaceInv'
  BY <1>12 DEF Store, Goto, Place, Distinct
<1>13. ASSUME NEW c \in Clients, Exit(c) PROVE PlaceInv'
  BY <1>13, ExitKeepsPlace
<1>14. ASSUME NEW c \in Clients, NEW d \in Clients, Break(c, d) PROVE PlaceInv'
  BY <1>14 DEF Break, Place, Distinct
<1>15. ASSUME NEW m \in calls, Handle(m) PROVE PlaceInv'
  <2>1. CASE BlockchainVersion(m) \/ BlockchainSync(m)
    BY <2>1 DEF BlockchainVersion, BlockchainSync, Place, Distinct
  <2>2. CASE BlockchainSyncCrash(m)
    BY <2>2, PartyTypes, ExitKeepsPlace DEF BlockchainSyncCrash
  <2> QED
    BY <1>15, <2>1, <2>2 DEF Handle
<1>16. CASE UNCHANGED vars
  BY <1>16 DEF vars, Place, Distinct
<1> QED
  BY <1>1, <1>2, <1>3, <1>4, <1>5, <1>6, <1>7, <1>8, <1>9, <1>10, <1>11, <1>12, <1>13,
     <1>14, <1>15, <1>16 DEF Next, Prepare, SyncStep

(* ------------------------- messages under way -------------------------- *)

\* A request of c to d, or the answer to it.
UnderWay(c, d, type) ==
  \/ \E m \in calls : m.from = c /\ m.to = d /\ m.type = type
  \/ \E a \in answers : a.to = c /\ a.from = d /\ a.type = type

\* A question is under way once at most.
OneUnderWay ==
  /\ \A a, b \in answers : a.to = b.to /\ a.from = b.from /\ a.type = b.type => a = b
  /\ \A a \in answers, m \in calls : ~(m.from = a.to /\ m.to = a.from /\ m.type = a.type)

\* The loop over its peers has come to d.
VersionAsked(c, d) ==
  \E i \in DOMAIN peersConnections[c] :
    /\ peersConnections[c][i] = d
    /\ i < at[c] \/ (i = at[c] /\ stage[c] = "version")

ChainAsked(c, d) ==
  /\ stage[c] \in {"sync", "store", "done", "failed"}
  /\ d = best[c].peer /\ best[c].version # 0

\* Questions about a version are under way to peers the loop has come to, but
\* not to the best of them, who has answered.
VersionsUnderWay ==
  \A c, d \in Clients :
    UnderWay(c, d, "VERSION") =>
      stage[c] # "gone" /\ VersionAsked(c, d) /\ best[c].peer # d

ChainsUnderWay ==
  \A c, d \in Clients : UnderWay(c, d, "SYNC") => ChainAsked(c, d)

BestAnswered ==
  \A c \in Clients : best[c].peer # Nobody =>
    \E i \in DOMAIN peersConnections[c] :
      i < at[c] /\ peersConnections[c][i] = best[c].peer

FlightInv == OneUnderWay /\ VersionsUnderWay /\ ChainsUnderWay /\ BestAnswered

LEMMA ShrinkUnderWay ==
  ASSUME calls' \subseteq calls, answers' \subseteq answers
  PROVE  /\ \A c, d, type : UnderWay(c, d, type)' => UnderWay(c, d, type)
         /\ OneUnderWay => OneUnderWay'
BY DEF UnderWay, OneUnderWay

LEMMA AskUnderWay ==
  ASSUME NEW c, NEW d, NEW type, Ask(c, d, type), UNCHANGED answers
  PROVE  /\ \A e, f, t : UnderWay(e, f, t)' =>
              UnderWay(e, f, t) \/ (e = c /\ f = d /\ t = type)
         /\ OneUnderWay /\ ~UnderWay(c, d, type) => OneUnderWay'
BY DEF UnderWay, OneUnderWay, Ask

LEMMA ReplyUnderWay ==
  ASSUME NEW m \in calls, NEW version, NEW blocks, Reply(m, version, blocks)
  PROVE  /\ \A e, f, t : UnderWay(e, f, t)' => UnderWay(e, f, t)
         /\ calls \subseteq Request /\ OneUnderWay => OneUnderWay'
<1> DEFINE r == [from |-> m.to, to |-> m.from, type |-> m.type,
                 version |-> version, chain |-> blocks]
<1>1. calls' = calls \ {m} /\ answers' = answers \union {r}
  BY DEF Reply
<1>2. r.from = m.to /\ r.to = m.from /\ r.type = m.type
  OBVIOUS
<1> HIDE DEF r
<1>3. ASSUME NEW e, NEW f, NEW t, UnderWay(e, f, t)' PROVE UnderWay(e, f, t)
  BY <1>1, <1>2, <1>3 DEF UnderWay
<1>4. ASSUME calls \subseteq Request, OneUnderWay PROVE OneUnderWay'
  <2>1. \A n \in calls : n.from = m.from /\ n.to = m.to /\ n.type = m.type => n = m
    BY <1>4 DEF Request
  <2>2. ASSUME NEW a \in answers', NEW b \in answers',
               a.to = b.to, a.from = b.from, a.type = b.type
        PROVE  a = b
    BY <1>1, <1>2, <1>4, <2>2 DEF OneUnderWay
  <2>3. ASSUME NEW a \in answers', NEW n \in calls'
        PROVE  ~(n.from = a.to /\ n.to = a.from /\ n.type = a.type)
    BY <1>1, <1>2, <1>4, <2>1, <2>3 DEF OneUnderWay
  <2> QED
    BY <2>2, <2>3 DEF OneUnderWay
<1> QED
  BY <1>3, <1>4

LEMMA ExitKeepsFlight ==
  ASSUME TypeInv, FlightInv, NEW c \in Clients, Exit(c)
  PROVE  FlightInv'
<1>1. calls' \subseteq calls /\ answers' \subseteq answers
  BY DEF Exit
<1>2. \A d, type : ~UnderWay(c, d, type)'
  BY DEF Exit, UnderWay
<1>3. \A e \in Clients : e # c => stage'[e] = stage[e]
  BY DEF Exit, TypeInv, TypeOK
<1>4. UNCHANGED <<peersConnections, at, best>>
  BY DEF Exit
<1>5. OneUnderWay' /\ \A e, f, t : UnderWay(e, f, t)' => UnderWay(e, f, t)
  BY <1>1, ShrinkUnderWay DEF FlightInv
<1>6. VersionsUnderWay'
  BY <1>2, <1>3, <1>4, <1>5 DEF FlightInv, VersionsUnderWay, VersionAsked
<1>7. ChainsUnderWay'
  BY <1>2, <1>3, <1>4, <1>5 DEF FlightInv, ChainsUnderWay, ChainAsked
<1>8. BestAnswered'
  BY <1>4 DEF FlightInv, BestAnswered
<1> QED
  BY <1>5, <1>6, <1>7, <1>8 DEF FlightInv

\* A step of the main thread of c that sends nothing, and leaves "version"
\* only to count the peer as asked.
LEMMA MoveKeepsFlight ==
  ASSUME TypeInv, FlightInv, NEW c \in Clients,
         calls' \subseteq calls, answers' \subseteq answers,
         stage' \in [Clients -> Stages], at' \in [Clients -> Nat],
         \A e \in Clients : e # c => stage'[e] = stage[e] /\ at'[e] = at[e],
         stage'[c] # "gone", at[c] <= at'[c],
         stage[c] = "version" => at'[c] > at[c],
         stage[c] \in {"sync", "store", "done", "failed"} =>
           stage'[c] \in {"sync", "store", "done", "failed"},
         UNCHANGED <<peersConnections, best>>
  PROVE  FlightInv'
<1>1. OneUnderWay' /\ \A e, f, t : UnderWay(e, f, t)' => UnderWay(e, f, t)
  BY ShrinkUnderWay DEF FlightInv
<1>2. ASSUME NEW e \in Clients, NEW f \in Clients, VersionAsked(e, f)
      PROVE  VersionAsked(e, f)'
  BY <1>2, IndexTypes DEF VersionAsked
<1>3. VersionsUnderWay'
  BY <1>1, <1>2 DEF FlightInv, VersionsUnderWay
<1>4. ChainsUnderWay'
  BY <1>1 DEF FlightInv, ChainsUnderWay, ChainAsked
<1>5. BestAnswered'
  BY IndexTypes DEF FlightInv, BestAnswered
<1> QED
  BY <1>1, <1>3, <1>4, <1>5 DEF FlightInv

LEMMA AskVersionKeepsFlight ==
  ASSUME TypeInv, PlaceInv, FlightInv, NEW c \in Clients, AskVersion(c)
  PROVE  FlightInv'
<1>1. PICK d \in Clients : d = Current(c)
  BY CurrentIsClient DEF AskVersion
<1>2. at[c] \in DOMAIN peersConnections[c] /\ d = peersConnections[c][at[c]]
  BY <1>1, CurrentIsClient DEF AskVersion, Current
<1>3. Ask(c, d, "VERSION") /\ UNCHANGED <<peersConnections, at, best, answers>>
  BY <1>1 DEF AskVersion
<1>4. /\ stage[c] = "ask" /\ stage'[c] = "version"
      /\ \A e \in Clients : e # c => stage'[e] = stage[e]
  BY DEF AskVersion, Goto, TypeInv, TypeOK
<1>5. ~UnderWay(c, d, "VERSION")
  <2>1. ASSUME VersionAsked(c, d) PROVE FALSE
    <3>1. PICK i \in DOMAIN peersConnections[c] : peersConnections[c][i] = d /\ i < at[c]
      BY <1>4, <2>1 DEF VersionAsked
    <3>2. i = at[c]
      BY <1>2, <3>1 DEF PlaceInv, Distinct
    <3> QED
      BY <3>1, <3>2, IndexTypes
  <2> QED
    BY <1>1, <2>1 DEF FlightInv, VersionsUnderWay
<1>6. best[c].peer # d
  <2>1. ASSUME best[c].peer = d PROVE FALSE
    <3>1. d # Nobody
      BY <1>1, NobodyAssumption
    <3>2. PICK i \in DOMAIN peersConnections[c] : i < at[c] /\ peersConnections[c][i] = d
      BY <2>1, <3>1 DEF FlightInv, BestAnswered
    <3>3. i = at[c]
      BY <1>2, <3>2 DEF PlaceInv, Distinct
    <3> QED
      BY <3>2, <3>3, IndexTypes
  <2> QED
    BY <2>1
<1>7. /\ OneUnderWay'
      /\ \A e, f, t : UnderWay(e, f, t)' =>
           UnderWay(e, f, t) \/ (e = c /\ f = d /\ t = "VERSION")
  BY <1>3, <1>5, AskUnderWay DEF FlightInv
<1>8. VersionsUnderWay'
  <2>1. VersionAsked(c, d)'
    BY <1>2, <1>3, <1>4 DEF VersionAsked
  <2>2. ASSUME NEW e \in Clients, NEW f \in Clients, VersionAsked(e, f)
        PROVE  VersionAsked(e, f)'
    BY <1>3, <1>4, <2>2 DEF VersionAsked
  <2> QED
    BY <1>3, <1>4, <1>6, <1>7, <2>1, <2>2 DEF FlightInv, VersionsUnderWay
<1>9. ChainsUnderWay'
  BY <1>3, <1>4, <1>7 DEF FlightInv, ChainsUnderWay, ChainAsked
<1>10. BestAnswered'
  BY <1>3 DEF FlightInv, BestAnswered
<1> QED
  BY <1>7, <1>8, <1>9, <1>10 DEF FlightInv

LEMMA TakeVersionKeepsFlight ==
  ASSUME TypeInv, PlaceInv, FlightInv, NEW c \in Clients, TakeVersion(c)
  PROVE  FlightInv'
<1>1. PICK a \in answers :
        /\ a.to = c /\ a.from = Current(c)
        /\ best' = IF a.type = "VERSION" /\ best[c].version < a.version
                   THEN [best EXCEPT ![c] = [peer |-> a.from, version |-> a.version]]
                   ELSE best
        /\ answers' = answers \ {a}
  BY DEF TakeVersion, Incoming
<1>2. a.from \in Clients /\ a.type \in {"VERSION", "SYNC"}
  BY <1>1 DEF TypeInv, TypeOK, Answer
<1>3. /\ stage[c] = "version" /\ stage'[c] = "ask" /\ at'[c] = at[c] + 1
      /\ \A e \in Clients : e # c => stage'[e] = stage[e] /\ at'[e] = at[e]
      /\ UNCHANGED <<peersConnections, calls>>
  BY DEF TakeVersion, Goto, TypeInv, TypeOK
<1>4. a.type = "VERSION"
  <2>1. ~ChainAsked(c, a.from)
    BY <1>3 DEF ChainAsked
  <2> QED
    BY <1>1, <1>2, <2>1 DEF FlightInv, ChainsUnderWay, UnderWay
<1>5. OneUnderWay' /\ \A e, f, t : UnderWay(e, f, t)' => UnderWay(e, f, t)
  BY <1>1, <1>3, ShrinkUnderWay DEF FlightInv
<1>6. ~UnderWay(c, a.from, "VERSION")'
  BY <1>1, <1>3, <1>4 DEF UnderWay, FlightInv, OneUnderWay
<1>7. /\ \A e \in Clients : e # c => best'[e] = best[e]
      /\ best'[c] = best[c] \/ best'[c].peer = a.from
  BY <1>1 DEF TypeInv, TypeOK
<1>8. VersionsUnderWay'
  <2>1. ASSUME NEW e \in Clients, NEW f \in Clients, VersionAsked(e, f)
        PROVE  VersionAsked(e, f)'
    BY <1>3, <2>1, IndexTypes DEF VersionAsked
  <2> QED
    BY <1>3, <1>5, <1>6, <1>7, <2>1 DEF FlightInv, VersionsUnderWay
<1>9. ChainsUnderWay'
  BY <1>3, <1>5, <1>7 DEF FlightInv, ChainsUnderWay, ChainAsked
<1>10. BestAnswered'
  <2>1. VersionAsked(c, a.from)
    BY <1>1, <1>2, <1>4 DEF FlightInv, VersionsUnderWay, UnderWay
  <2>2. PICK i \in DOMAIN peersConnections[c] :
          peersConnections[c][i] = a.from /\ i <= at[c]
    BY <2>1, IndexTypes DEF VersionAsked
  <2>3. i < at'[c]
    BY <1>3, <2>2, IndexTypes
  <2>4. ASSUME NEW e \in Clients, best'[e] = best[e], best'[e].peer # Nobody
        PROVE  \E j \in DOMAIN peersConnections'[e] :
                 j < at'[e] /\ peersConnections'[e][j] = best'[e].peer
    BY <1>3, <2>4, IndexTypes DEF FlightInv, BestAnswered
  <2>5. best'[c].peer = a.from =>
          \E j \in DOMAIN peersConnections'[c] :
            j < at'[c] /\ peersConnections'[c][j] = best'[c].peer
    BY <1>3, <2>2, <2>3
  <2> QED
    BY <1>7, <2>4, <2>5 DEF BestAnswered
<1> QED
  BY <1>5, <1>8, <1>9, <1>10 DEF FlightInv

LEMMA AskChainKeepsFlight ==
  ASSUME TypeInv, FlightInv, NEW c \in Clients, AskChain(c)
  PROVE  FlightInv'
<1>1. PICK d \in Clients : d = best[c].peer
  BY DEF AskChain, TypeInv, TypeOK
<1>2. /\ Ask(c, d, "SYNC") /\ best[c].version # 0
      /\ UNCHANGED <<peersConnections, at, best, answers>>
  BY <1>1 DEF AskChain
<1>3. /\ stage[c] = "ask" /\ stage'[c] = "sync"
      /\ \A e \in Clients : e # c => stage'[e] = stage[e]
  BY DEF AskChain, AskedAll, Goto, TypeInv, TypeOK
<1>4. ~UnderWay(c, d, "SYNC")
  BY <1>3 DEF FlightInv, ChainsUnderWay, ChainAsked
<1>5. /\ OneUnderWay'
      /\ \A e, f, t : UnderWay(e, f, t)' =>
           UnderWay(e, f, t) \/ (e = c /\ f = d /\ t = "SYNC")
  BY <1>2, <1>4, AskUnderWay DEF FlightInv
<1>6. VersionsUnderWay'
  BY <1>2, <1>3, <1>5 DEF FlightInv, VersionsUnderWay, VersionAsked
<1>7. ChainsUnderWay'
  BY <1>1, <1>2, <1>3, <1>5 DEF FlightInv, ChainsUnderWay, ChainAsked
<1>8. BestAnswered'
  BY <1>2 DEF FlightInv, BestAnswered
<1> QED
  BY <1>5, <1>6, <1>7, <1>8 DEF FlightInv

\* A step that changes neither a main thread nor the messages under way.
LEMMA KeepsFlight ==
  ASSUME FlightInv, UNCHANGED <<peersConnections, stage, at, best>>,
         \A e, f, t : UnderWay(e, f, t)' => UnderWay(e, f, t),
         OneUnderWay'
  PROVE  FlightInv'
BY DEF FlightInv, VersionsUnderWay, ChainsUnderWay, BestAnswered, VersionAsked, ChainAsked

LEMMA FlightStep == TypeInv /\ PlaceInv /\ FlightInv /\ [Next]_vars => FlightInv'
<1> SUFFICES ASSUME TypeInv, PlaceInv, FlightInv, [Next]_vars PROVE FlightInv'
  OBVIOUS
<1> USE DEF chainVars, syncVars, msgVars
<1>0. TypeInv'
  BY TypeStep
<1>1. ASSUME NEW c \in Clients, Start(c) PROVE FlightInv'
  BY <1>1, ShrinkUnderWay, KeepsFlight DEF Start, FlightInv
<1>2. ASSUME NEW c \in Clients, NEW d \in Clients, Connect(c, d) PROVE FlightInv'
  <2>1. /\ UNCHANGED <<stage, at, best, calls, answers>> /\ stage[c] = "idle"
        /\ \A e \in Clients : e # c => peersConnections'[e] = peersConnections[e]
    BY <1>2 DEF Connect, TypeInv, TypeOK
  <2>2. at[c] = 1 /\ best[c].peer = Nobody
    BY <2>1 DEF PlaceInv, Place
  <2>3. OneUnderWay' /\ \A e, f, t : UnderWay(e, f, t)' => UnderWay(e, f, t)
    BY <2>1, ShrinkUnderWay DEF FlightInv
  <2>4. \A f : ~VersionAsked(c, f)
    BY <2>1, <2>2 DEF VersionAsked, TypeInv, TypeOK
  <2>5. VersionsUnderWay'
    BY <2>1, <2>3, <2>4 DEF FlightInv, VersionsUnderWay, VersionAsked
  <2>6. ChainsUnderWay'
    BY <2>1, <2>3 DEF FlightInv, ChainsUnderWay, ChainAsked
  <2>7. BestAnswered'
    BY <2>1, <2>2 DEF FlightInv, BestAnswered
  <2> QED
    BY <2>3, <2>5, <2>6, <2>7 DEF FlightInv
<1>3. ASSUME NEW c \in Clients,
             \/ Genesis(c) \/ Join(c) \/ MissVersion(c)
             \/ NoChainFound(c) \/ TakeChain(c) \/ MissChain(c) \/ Store(c)
      PROVE  FlightInv'
  <2>1. /\ calls' \subseteq calls /\ answers' \subseteq answers
        /\ UNCHANGED <<peersConnections, best>>
    BY <1>3 DEF Genesis, Join, MissVersion, NoChainFound, TakeChain, MissChain, Store
  <2>2. stage' \in [Clients -> Stages] /\ at' \in [Clients -> Nat]
    BY <1>0 DEF TypeInv, TypeOK
  <2>3. /\ \A e \in Clients : e # c => stage'[e] = stage[e] /\ at'[e] = at[e]
        /\ stage'[c] # "gone" /\ at[c] <= at'[c]
        /\ stage[c] = "version" => at'[c] > at[c]
        /\ stage[c] \in {"sync", "store", "done", "failed"} =>
             stage'[c] \in {"sync", "store", "done", "failed"}
    <3>1. stage \in [Clients -> Stages] /\ at \in [Clients -> Nat] /\ at[c] \in Nat
      BY DEF TypeInv, TypeOK
    <3>2. CASE Genesis(c) \/ Join(c)
      BY <3>1, <3>2 DEF Genesis, Join, Goto
    <3>3. CASE MissVersion(c)
      BY <3>1, <3>3 DEF MissVersion, Goto
    <3>4. CASE NoChainFound(c) \/ TakeChain(c) \/ MissChain(c) \/ Store(c)
      BY <3>1, <3>4 DEF NoChainFound, AskedAll, TakeChain, MissChain, Store, Goto
    <3> QED
      BY <1>3, <3>2, <3>3, <3>4
  <2> QED
    BY <2>1, <2>2, <2>3, MoveKeepsFlight
<1>4. ASSUME NEW c \in Clients, NEW d \in Clients, Break(c, d) PROVE FlightInv'
  BY <1>4, ShrinkUnderWay, KeepsFlight DEF Break, FlightInv
<1>5. ASSUME NEW m \in calls, Handle(m) PROVE FlightInv'
  <2>1. CASE BlockchainVersion(m) \/ BlockchainSync(m)
    <3>1. PICK version, blocks : Reply(m, version, blocks)
      BY <2>1 DEF BlockchainVersion, BlockchainSync
    <3>2. UNCHANGED <<peersConnections, stage, at, best>>
      BY <2>1 DEF BlockchainVersion, BlockchainSync
    <3>3. calls \subseteq Request
      BY DEF TypeInv, TypeOK
    <3> QED
      BY <3>1, <3>2, <3>3, ReplyUnderWay, KeepsFlight DEF FlightInv
  <2>2. CASE BlockchainSyncCrash(m)
    BY <2>2, PartyTypes, ExitKeepsFlight DEF BlockchainSyncCrash
  <2> QED
    BY <1>5, <2>1, <2>2 DEF Handle
<1>6. CASE UNCHANGED vars
  BY <1>6, ShrinkUnderWay, KeepsFlight DEF vars, FlightInv
<1> QED
  BY <1>1, <1>2, <1>3, <1>4, <1>5, <1>6, AskVersionKeepsFlight, TakeVersionKeepsFlight,
     AskChainKeepsFlight, ExitKeepsFlight DEF Next, Prepare, SyncStep

LEMMA FlightInit == Init => FlightInv
BY DEF Init, FlightInv, OneUnderWay, VersionsUnderWay, ChainsUnderWay, BestAnswered, UnderWay

\* The whole invariant of the main threads and the messages.
SyncInv == TypeInv /\ PlaceInv /\ FlightInv

LEMMA SyncInvariant == Spec => []SyncInv
<1>1. Init => SyncInv
  BY TypeInit, PlaceInit, FlightInit DEF SyncInv
<1>2. SyncInv /\ [Next]_vars => SyncInv'
  BY TypeStep, PlaceStep, FlightStep DEF SyncInv
<1> QED
  BY <1>1, <1>2, PTL DEF Spec

\* However waits give up, connections break and processes end, the answer a
\* main thread finds in a queue is to the question it is waiting on.
THEOREM AnswersToQuestions == Spec => []AnswersMatch
<1>1. SyncInv => AnswersMatch
  <2> SUFFICES ASSUME SyncInv, NEW c \in Clients
               PROVE  /\ stage[c] = "version" =>
                           \A a \in Incoming(c, Current(c)) : a.type = "VERSION"
                      /\ stage[c] = "sync" =>
                           \A a \in Incoming(c, best[c].peer) : a.type = "SYNC"
    BY DEF AnswersMatch
  <2>1. ASSUME NEW d, NEW a \in Incoming(c, d)
        PROVE  /\ d \in Clients /\ a.type \in {"VERSION", "SYNC"}
               /\ a.type = "SYNC" => stage[c] # "version"
               /\ a.type = "VERSION" => best[c].peer # d
    <3>1. a \in answers /\ a.to = c /\ a.from = d
      BY <2>1 DEF Incoming
    <3>2. d \in Clients /\ a.type \in {"VERSION", "SYNC"}
      BY <3>1 DEF SyncInv, TypeInv, TypeOK, Answer
    <3>3. UnderWay(c, d, a.type)
      BY <3>1 DEF UnderWay
    <3> QED
      BY <3>2, <3>3 DEF SyncInv, FlightInv, VersionsUnderWay, ChainsUnderWay, ChainAsked
  <2> QED
    BY <2>1
<1> QED
  BY <1>1, SyncInvariant, PTL

(* ------------------------- the chain that is synchronised -------------- *)

HasChain(d) == chain[d] # <<>> \/ stage[d] = "gone"

\* A true version is that of a peer that has a chain, from the answer on.
VersionsTrue ==
  /\ \A a \in answers : a.type = "VERSION" /\ a.version = 1 => HasChain(a.from)
  /\ \A c \in Clients : best[c].version = 1 => best[c].peer \in Clients /\ HasChain(best[c].peer)

\* Only an answer to SYNC carries a chain.  It is empty, where it is read and
\* where it was adopted, only if the version believed was torn.
EmptyOnlyIfTorn ==
  /\ \A a \in answers : a.type = "VERSION" => a.chain = <<>>
  /\ \A a \in answers : a.type = "SYNC" /\ a.chain = <<>> => best[a.to].version = Torn
  /\ \A c \in Clients : stage[c] = "store" /\ writing[c] = <<>> => best[c].version = Torn

ChainInv == VersionsTrue /\ EmptyOnlyIfTorn /\ SyncedHasChain

\* A chain is held until its process ends.
LEMMA ChainStays ==
  ASSUME TypeInv, PlaceInv, [Next]_vars, NEW d \in Clients, HasChain(d)
  PROVE  HasChain(d)'
<1> USE DEF TypeInv, TypeOK, HasChain, chainVars, syncVars, msgVars, Goto
<1>1. ASSUME NEW c \in Clients, Prepare(c) PROVE HasChain(d)'
  BY <1>1 DEF Prepare, Start, Connect, Genesis, Join
<1>2. ASSUME NEW c \in Clients, SyncStep(c) \/ MissVersion(c) \/ MissChain(c)
      PROVE  HasChain(d)'
  BY <1>2 DEF SyncStep, AskVersion, TakeVersion, MissVersion, NoChainFound, AskedAll, AskChain,
              TakeChain, MissChain, Store, PlaceInv, Place
<1>3. ASSUME NEW c \in Clients, Exit(c) PROVE HasChain(d)'
  BY <1>3 DEF Exit
<1>4. ASSUME NEW c \in Clients, NEW e \in Clients, Break(c, e) PROVE HasChain(d)'
  BY <1>4 DEF Break
<1>5. ASSUME NEW m \in calls, Handle(m) PROVE HasChain(d)'
  BY <1>3, <1>5, PartyTypes DEF Handle, BlockchainVersion, BlockchainSync, BlockchainSyncCrash
<1>6. CASE UNCHANGED vars
  BY <1>6 DEF vars
<1> QED
  BY <1>1, <1>2, <1>3, <1>4, <1>5, <1>6 DEF Next

\* A step that adds no answer, remembers no peer and stores no chain.
LEMMA KeepsChains ==
  ASSUME SyncInv, ChainInv, [Next]_vars, answers' \subseteq answers, UNCHANGED best,
         \A c \in Clients :
           /\ stage'[c] = "store" => stage[c] = "store" /\ writing'[c] = writing[c]
           /\ stage'[c] = "done" => stage[c] = "done" /\ chain'[c] = chain[c]
  PROVE  ChainInv'
<1>1. \A d \in Clients : HasChain(d) => HasChain(d)'
  BY ChainStays DEF SyncInv
<1>2. \A a \in answers : a.from \in Clients
  BY DEF SyncInv, TypeInv, TypeOK, Answer
<1>3. VersionsTrue'
  BY <1>1, <1>2 DEF ChainInv, VersionsTrue
<1>4. EmptyOnlyIfTorn'
  BY DEF ChainInv, EmptyOnlyIfTorn
<1>5. SyncedHasChain'
  BY DEF ChainInv, SyncedHasChain
<1> QED
  BY <1>3, <1>4, <1>5 DEF ChainInv

LEMMA TakeVersionKeepsChains ==
  ASSUME SyncInv, ChainInv, NEW c \in Clients, TakeVersion(c)
  PROVE  ChainInv'
<1>1. PICK a \in answers :
        /\ a.to = c
        /\ best' = IF a.type = "VERSION" /\ best[c].version < a.version
                   THEN [best EXCEPT ![c] = [peer |-> a.from, version |-> a.version]]
                   ELSE best
        /\ answers' = answers \ {a}
  BY DEF TakeVersion, Incoming
<1>2. /\ stage[c] = "version" /\ stage'[c] = "ask"
      /\ \A e \in Clients : e # c => stage'[e] = stage[e]
      /\ UNCHANGED <<chain, writing>>
  BY DEF TakeVersion, Goto, SyncInv, TypeInv, TypeOK, chainVars
<1>3. \A d \in Clients : HasChain(d) => HasChain(d)'
  BY <1>2 DEF HasChain
<1>4. \A b \in answers : b.from \in Clients /\ b.to \in Clients
  BY DEF SyncInv, TypeInv, TypeOK, Answer
<1>5. /\ \A e \in Clients : e # c => best'[e] = best[e]
      /\ \/ best'[c] = best[c]
         \/ a.type = "VERSION" /\ best'[c] = [peer |-> a.from, version |-> a.version]
  BY <1>1 DEF SyncInv, TypeInv, TypeOK
<1>6. VersionsTrue'
  BY <1>1, <1>3, <1>4, <1>5 DEF ChainInv, VersionsTrue
<1>7. \A b \in answers : b.to = c => b.type # "SYNC"
  <2>1. \A d \in Clients : ~UnderWay(c, d, "SYNC")
    BY <1>2 DEF SyncInv, FlightInv, ChainsUnderWay, ChainAsked
  <2> QED
    BY <1>4, <2>1 DEF UnderWay
<1>8. EmptyOnlyIfTorn'
  BY <1>1, <1>2, <1>4, <1>5, <1>7 DEF ChainInv, EmptyOnlyIfTorn
<1>9. SyncedHasChain'
  BY <1>2, <1>5 DEF ChainInv, SyncedHasChain
<1> QED
  BY <1>6, <1>8, <1>9 DEF ChainInv

LEMMA ChainStep == SyncInv /\ ChainInv /\ [Next]_vars => ChainInv'
<1> SUFFICES ASSUME SyncInv, ChainInv, [Next]_vars PROVE ChainInv'
  OBVIOUS
<1> USE DEF chainVars, syncVars, msgVars
<1>1. TypeInv /\ PlaceInv
  BY DEF SyncInv
<1>2. /\ stage \in [Clients -> Stages] /\ writing \in [Clients -> Chain]
      /\ chain \in [Clients -> Chain] /\ best \in [Clients -> [peer : Clients \union {Nobody}, version : {0, 1, Torn}]]
      /\ \A a \in answers : /\ a.from \in Clients /\ a.to \in Clients
                            /\ a.chain \in Chain /\ a.type \in {"VERSION", "SYNC"}
  BY <1>1 DEF TypeInv, TypeOK, Answer
<1>3. \A d \in Clients : HasChain(d) => HasChain(d)'
  BY <1>1, ChainStays
<1>4. ASSUME NEW c \in Clients,
             \/ Start(c) \/ (\E d \in Clients : Connect(c, d) \/ Break(c, d)) \/ Join(c)
             \/ AskVersion(c) \/ MissVersion(c)
             \/ NoChainFound(c) \/ AskChain(c) \/ MissChain(c) \/ Exit(c)
      PROVE  ChainInv'
  <2>1. answers' \subseteq answers /\ UNCHANGED best
    BY <1>4 DEF Start, Connect, Break, Join, AskVersion, MissVersion, NoChainFound, AskChain,
                MissChain, Exit
  <2>2. \A e \in Clients :
          /\ stage'[e] = "store" => stage[e] = "store" /\ writing'[e] = writing[e]
          /\ stage'[e] = "done" => stage[e] = "done" /\ chain'[e] = chain[e]
    BY <1>2, <1>4 DEF Start, Connect, Break, Join, AskVersion, MissVersion, NoChainFound,
                AskChain, MissChain, Exit, Goto
  <2> QED
    BY <2>1, <2>2, KeepsChains
<1>5. ASSUME NEW c \in Clients, Genesis(c) PROVE ChainInv'
  <2>1. UNCHANGED <<answers, best, chain>>
    BY <1>5 DEF Genesis
  <2>2. /\ stage'[c] = "store" /\ writing'[c] # <<>>
        /\ \A e \in Clients : e # c => stage'[e] = stage[e] /\ writing'[e] = writing[e]
    BY <1>2, <1>5 DEF Genesis, Goto
  <2> QED
    BY <1>2, <1>3, <2>1, <2>2
       DEF ChainInv, VersionsTrue, EmptyOnlyIfTorn, SyncedHasChain
<1>6. ASSUME NEW c \in Clients, TakeChain(c) PROVE ChainInv'
  <2>1. PICK a \in answers : /\ a.to = c /\ a.type = "SYNC"
                             /\ answers' = answers \ {a}
                             /\ writing' = [writing EXCEPT ![c] = a.chain]
    BY <1>6 DEF TakeChain, Incoming
  <2>2. UNCHANGED <<best, chain>>
    BY <1>6 DEF TakeChain
  <2>3. /\ stage'[c] = "store" /\ writing'[c] = a.chain
        /\ \A e \in Clients : e # c => stage'[e] = stage[e] /\ writing'[e] = writing[e]
    BY <1>2, <1>6, <2>1 DEF TakeChain, Goto
  <2> QED
    BY <1>2, <1>3, <2>1, <2>2, <2>3
       DEF ChainInv, VersionsTrue, EmptyOnlyIfTorn, SyncedHasChain
<1>7. ASSUME NEW c \in Clients, Store(c) PROVE ChainInv'
  <2>1. UNCHANGED <<answers, best>>
    BY <1>7 DEF Store
  <2>2. /\ stage[c] = "store" /\ stage'[c] = "done" /\ chain'[c] = writing[c]
        /\ \A e \in Clients : e # c =>
             stage'[e] = stage[e] /\ writing'[e] = writing[e] /\ chain'[e] = chain[e]
    BY <1>2, <1>7 DEF Store, Goto
  <2> QED
    BY <1>2, <1>3, <2>1, <2>2
       DEF ChainInv, VersionsTrue, EmptyOnlyIfTorn, SyncedHasChain
<1>8. ASSUME NEW m \in calls, BlockchainVersion(m) PROVE ChainInv'
  <2>1. m.to \in Clients
    BY <1>1, PartyTypes
  <2>2. PICK version :
          /\ version = Len(chain[m.to]) \/ version = Torn
          /\ answers' = answers \union
               {[from |-> m.to, to |-> m.from, type |-> m.type,
                 version |-> version, chain |-> <<>>]}
    BY <1>8 DEF BlockchainVersion, Reply
  <2>3. m.type = "VERSION" /\ UNCHANGED <<best, chain, writing, stage>>
    BY <1>8 DEF BlockchainVersion
  <2>4. version = 1 => HasChain(m.to)
    BY <1>2, <2>1, <2>2, ChainLength, TornAssumption DEF HasChain
  <2> QED
    BY <1>2, <1>3, <2>1, <2>2, <2>3, <2>4
       DEF ChainInv, VersionsTrue, EmptyOnlyIfTorn, SyncedHasChain
<1>9. ASSUME NEW m \in calls, BlockchainSync(m) PROVE ChainInv'
  <2>1. m.to \in Clients /\ m.from \in Clients
    BY <1>1, PartyTypes
  <2>2. answers' = answers \union
               {[from |-> m.to, to |-> m.from, type |-> m.type,
                 version |-> 0, chain |-> chain[m.to]]}
    BY <1>9 DEF BlockchainSync, Reply
  <2>3. /\ m.type = "SYNC" /\ m.to \in serving
        /\ UNCHANGED <<best, chain, writing, stage>>
    BY <1>9 DEF BlockchainSync
  <2>4. best[m.from].version # 0 /\ best[m.from].peer = m.to
    <3>1. UnderWay(m.from, m.to, "SYNC")
      BY <2>3 DEF UnderWay
    <3> QED
      BY <2>1, <3>1 DEF SyncInv, FlightInv, ChainsUnderWay, ChainAsked
  <2>5. chain[m.to] = <<>> => best[m.from].version = Torn
    <3>1. stage[m.to] # "gone"
      BY <1>1, <2>1, <2>3 DEF PlaceInv, Place
    <3>2. chain[m.to] = <<>> => best[m.from].version # 1
      BY <2>1, <2>4, <3>1 DEF ChainInv, VersionsTrue, HasChain
    <3> QED
      BY <1>2, <2>1, <2>4, <3>2
  <2> QED
    BY <1>2, <1>3, <2>1, <2>2, <2>3, <2>5
       DEF ChainInv, VersionsTrue, EmptyOnlyIfTorn, SyncedHasChain
<1>10. ASSUME NEW m \in calls, Handle(m) PROVE ChainInv'
  BY <1>1, <1>4, <1>8, <1>9, <1>10, PartyTypes DEF Handle, BlockchainSyncCrash
<1>11. CASE UNCHANGED vars
  BY <1>11, KeepsChains DEF vars
<1> QED
  BY <1>4, <1>5, <1>6, <1>7, <1>10, <1>11, TakeVersionKeepsChains DEF Next, Prepare, SyncStep

LEMMA ChainInvariant == Spec => []ChainInv
<1>1. Init => ChainInv
  BY DEF Init, ChainInv, VersionsTrue, EmptyOnlyIfTorn, SyncedHasChain
<1>2. SyncInv /\ ChainInv /\ [Next]_vars => ChainInv'
  BY ChainStep
<1> QED
  BY <1>1, <1>2, SyncInvariant, PTL DEF Spec

\* A client that reports success without having looked at what it received has
\* a chain, unless the version it believed was torn.
THEOREM SyncedUnlessTorn == Spec => []SyncedHasChain
<1>1. ChainInv => SyncedHasChain
  BY DEF ChainInv
<1> QED
  BY <1>1, ChainInvariant, PTL

(* ------------------------- copies only --------------------------------- *)

\* At most one answer to a process carries a chain.
LEMMA OneCarrier ==
  ASSUME SyncInv, ChainInv, NEW a \in answers, NEW b \in answers,
         a.to = b.to, a.chain # <<>>, b.type = "SYNC"
  PROVE  a = b
<1>1. a.type = "SYNC" /\ a.from \in Clients /\ a.to \in Clients /\ b.from \in Clients
  BY DEF SyncInv, TypeInv, TypeOK, Answer, ChainInv, EmptyOnlyIfTorn
<1>2. UnderWay(a.to, a.from, "SYNC") /\ UnderWay(a.to, b.from, "SYNC")
  BY <1>1 DEF UnderWay
<1>3. a.from = b.from
  BY <1>1, <1>2 DEF SyncInv, FlightInv, ChainsUnderWay, ChainAsked
<1> QED
  BY <1>1, <1>3 DEF SyncInv, FlightInv, OneUnderWay

\* Obtained without the choice it makes.
ObtainedFacts ==
  \A c \in Clients :
    /\ stage[c] # "sync" => Obtained(c) = writing[c]
    /\ stage[c] = "sync" =>
         /\ \A a \in answers : a.to = c /\ a.chain # <<>> => Obtained(c) = a.chain
         /\ (\A a \in answers : a.to = c => a.chain = <<>>) => Obtained(c) = <<>>

LEMMA ObtainedIs == SyncInv /\ ChainInv => ObtainedFacts
<1> SUFFICES ASSUME SyncInv, ChainInv, NEW c \in Clients
             PROVE  /\ stage[c] # "sync" => Obtained(c) = writing[c]
                    /\ stage[c] = "sync" =>
                         /\ \A a \in answers : a.to = c /\ a.chain # <<>> => Obtained(c) = a.chain
                         /\ (\A a \in answers : a.to = c => a.chain = <<>>) => Obtained(c) = <<>>
  BY DEF ObtainedFacts
<1>1. writing[c] # <<>> => stage[c] = "store"
  BY DEF SyncInv, PlaceInv, Place
<1>2. ASSUME stage[c] = "sync", NEW a \in answers, a.to = c, a.chain # <<>>
      PROVE  Obtained(c) = a.chain
  <2>1. \A b \in answers : b.to = c /\ b.chain # <<>> => b = a
    <3>1. ASSUME NEW b \in answers, b.to = c, b.chain # <<>> PROVE b = a
      <4>1. a.type = "SYNC"
        BY <1>2 DEF SyncInv, TypeInv, TypeOK, Answer, ChainInv, EmptyOnlyIfTorn
      <4> QED
        BY <1>2, <3>1, <4>1, OneCarrier
    <3> QED
      BY <3>1
  <2> QED
    BY <1>1, <1>2, <2>1 DEF Obtained
<1>3. stage[c] # "sync" => Obtained(c) = writing[c]
  BY DEF Obtained
<1>4. stage[c] = "sync" /\ (\A a \in answers : a.to = c => a.chain = <<>>) => Obtained(c) = <<>>
  BY <1>1 DEF Obtained
<1> QED
  BY <1>2, <1>3, <1>4

\* The refinement mapping, and its facts before and after a step.
Fetched == [c \in Clients |-> Obtained(c)]

LEMMA MapInit == Init => Abstract!Init
<1> SUFFICES ASSUME Init PROVE Abstract!Init
  OBVIOUS
<1>1. \A c \in Clients : Obtained(c) = <<>>
  BY DEF Init, Obtained
<1> QED
  BY <1>1 DEF Init, Abstract!Init

\* A process that ends, or an answer that is lost.
LEMMA MapLose ==
  ASSUME NEW c \in Clients, Obtained(c)' = <<>>,
         \A e \in Clients : e # c => Obtained(e)' = Obtained(e),
         chain' \in {chain, [chain EXCEPT ![c] = <<>>]}
  PROVE  Abstract!Next
<1>1. Fetched' = [Fetched EXCEPT ![c] = <<>>]
  BY DEF Fetched
<1>2. Abstract!Lose(c)
  BY <1>1 DEF Abstract!Lose, Fetched
<1> QED
  BY <1>2 DEF Abstract!Next

LEMMA MapStutter ==
  ASSUME UNCHANGED chain, \A e \in Clients : Obtained(e)' = Obtained(e)
  PROVE  UNCHANGED Abstract!vars
BY DEF Abstract!vars

\* A process that no answer with a chain is lost to, or added to, and whose
\* main thread does not come to a chain or leave it, obtains what it had.
LEMMA ObtainedStays ==
  ASSUME ObtainedFacts, ObtainedFacts', NEW e \in Clients,
         writing'[e] = writing[e], stage'[e] = stage[e],
         \A a \in answers : a.to = e /\ a.chain # <<>> => a \in answers',
         \A a \in answers' : a.to = e /\ a.chain # <<>> => a \in answers
  PROVE  Obtained(e)' = Obtained(e)
<1>1. CASE stage[e] # "sync"
  BY <1>1 DEF ObtainedFacts
<1>2. CASE stage[e] = "sync" /\ \A a \in answers : a.to = e => a.chain = <<>>
  BY <1>2 DEF ObtainedFacts
<1>3. CASE stage[e] = "sync" /\ \E a \in answers : a.to = e /\ a.chain # <<>>
  BY <1>3 DEF ObtainedFacts
<1> QED
  BY <1>1, <1>2, <1>3

LEMMA MapExit ==
  ASSUME TypeInv, ObtainedFacts, ObtainedFacts', NEW c \in Clients, Exit(c)
  PROVE  Abstract!Next
<1>1. /\ stage'[c] = "gone" /\ writing'[c] = <<>>
      /\ \A e \in Clients : e # c => stage'[e] = stage[e] /\ writing'[e] = writing[e]
      /\ answers' = {a \in answers : a.to # c}
      /\ chain' = [chain EXCEPT ![c] = <<>>]
  BY DEF Exit, TypeInv, TypeOK
<1>2. Obtained(c)' = <<>>
  BY <1>1 DEF ObtainedFacts
<1>3. \A e \in Clients : e # c => Obtained(e)' = Obtained(e)
  BY <1>1, ObtainedStays
<1> QED
  BY <1>1, <1>2, <1>3, MapLose

\* The steps that neither bring a chain nor store one.
LEMMA MapMove ==
  ASSUME SyncInv, ChainInv, ObtainedFacts, ObtainedFacts', NEW c \in Clients,
         \/ Join(c) \/ AskVersion(c) \/ TakeVersion(c) \/ MissVersion(c)
         \/ NoChainFound(c) \/ AskChain(c) \/ MissChain(c)
  PROVE  UNCHANGED Abstract!vars
<1> USE DEF chainVars, syncVars, msgVars
<1>1. /\ stage \in [Clients -> Stages] /\ writing \in [Clients -> Chain]
      /\ \A a \in answers : a.from \in Clients /\ a.to \in Clients /\ a.type \in {"VERSION", "SYNC"}
      /\ writing[c] # <<>> => stage[c] = "store"
  BY DEF SyncInv, TypeInv, TypeOK, Answer, PlaceInv, Place
<1>2. /\ UNCHANGED <<chain, writing>>
      /\ \A e \in Clients : e # c => stage'[e] = stage[e]
      /\ stage[c] \in {"idle", "ask", "version", "sync"}
      /\ stage'[c] \in {"ask", "version", "failed", "sync"}
  BY <1>1 DEF Join, AskVersion, TakeVersion, MissVersion, NoChainFound, AskedAll, AskChain,
              MissChain, Goto
<1>3. /\ answers' \subseteq answers
      /\ \A a \in answers : a.to # c => a \in answers'
  BY DEF Join, AskVersion, TakeVersion, Incoming, MissVersion, NoChainFound, AskChain, MissChain
<1>4. \A e \in Clients : e # c => Obtained(e)' = Obtained(e)
  BY <1>2, <1>3, ObtainedStays
<1>5. \A a \in answers : a.to = c => a.chain = <<>>
  <2>1. ASSUME NEW a \in answers, a.to = c, a.chain # <<>> PROVE FALSE
    <3>1. a.type = "SYNC"
      BY <1>1, <2>1 DEF ChainInv, EmptyOnlyIfTorn
    <3>2. ChainAsked(c, a.from)
      BY <1>1, <2>1, <3>1 DEF SyncInv, FlightInv, ChainsUnderWay, UnderWay
    <3>3. stage[c] = "sync" /\ a \in Incoming(c, best[c].peer)
      BY <1>2, <2>1, <3>2 DEF ChainAsked, Incoming
    <3> QED
      BY <3>3 DEF Join, AskVersion, TakeVersion, MissVersion, NoChainFound, AskedAll, AskChain,
                  MissChain
  <2> QED
    BY <2>1
<1>6. Obtained(c) = <<>>
  BY <1>1, <1>2, <1>5 DEF ObtainedFacts
<1>7. Obtained(c)' = <<>>
  BY <1>1, <1>2, <1>3, <1>5 DEF ObtainedFacts
<1> QED
  BY <1>2, <1>4, <1>6, <1>7, MapStutter

LEMMA MapGenesis ==
  ASSUME SyncInv, ObtainedFacts, ObtainedFacts', NEW c \in Clients, Genesis(c)
  PROVE  Abstract!Next
<1>1. /\ stage[c] = "idle" /\ stage'[c] = "store" /\ writing'[c] = <<c>>
      /\ \A e \in Clients : e # c => stage'[e] = stage[e] /\ writing'[e] = writing[e]
      /\ UNCHANGED <<chain, answers>>
  BY DEF Genesis, Goto, SyncInv, TypeInv, TypeOK, msgVars
<1>2. chain[c] = <<>> /\ writing[c] = <<>>
  BY <1>1 DEF SyncInv, PlaceInv, Place
<1>3. Obtained(c) = <<>> /\ Obtained(c)' = <<c>>
  BY <1>1, <1>2 DEF ObtainedFacts
<1>4. \A e \in Clients : e # c => Obtained(e)' = Obtained(e)
  BY <1>1, ObtainedStays
<1>5. Fetched' = [Fetched EXCEPT ![c] = <<c>>]
  BY <1>3, <1>4 DEF Fetched
<1>6. Abstract!Found(c)
  BY <1>1, <1>2, <1>3, <1>5 DEF Abstract!Found, Fetched
<1> QED
  BY <1>6 DEF Abstract!Next

LEMMA MapTakeChain ==
  ASSUME SyncInv, ChainInv, ObtainedFacts, ObtainedFacts', NEW c \in Clients, TakeChain(c)
  PROVE  UNCHANGED Abstract!vars
<1>1. PICK a \in answers : /\ a.to = c /\ a.type = "SYNC"
                           /\ answers' = answers \ {a}
                           /\ writing' = [writing EXCEPT ![c] = a.chain]
  BY DEF TakeChain, Incoming
<1>2. /\ stage[c] = "sync" /\ stage'[c] = "store" /\ writing'[c] = a.chain
      /\ \A e \in Clients : e # c => stage'[e] = stage[e] /\ writing'[e] = writing[e]
      /\ UNCHANGED chain
  BY <1>1 DEF TakeChain, Goto, SyncInv, TypeInv, TypeOK
<1>3. Obtained(c) = a.chain
  <2>1. CASE a.chain # <<>>
    BY <1>1, <1>2, <2>1 DEF ObtainedFacts
  <2>2. CASE a.chain = <<>>
    <3>1. \A b \in answers : b.to = c => b.chain = <<>>
      BY <1>1, <2>2, OneCarrier
    <3> QED
      BY <1>2, <2>2, <3>1 DEF ObtainedFacts
  <2> QED
    BY <2>1, <2>2
<1>4. Obtained(c)' = a.chain
  BY <1>2 DEF ObtainedFacts
<1>5. \A e \in Clients : e # c => Obtained(e)' = Obtained(e)
  BY <1>1, <1>2, ObtainedStays
<1> QED
  BY <1>2, <1>3, <1>4, <1>5, MapStutter

LEMMA MapStore ==
  ASSUME SyncInv, ObtainedFacts, ObtainedFacts', NEW c \in Clients, Store(c)
  PROVE  [Abstract!Next]_(Abstract!vars)
<1>1. /\ stage[c] = "store" /\ stage'[c] = "done" /\ writing'[c] = <<>>
      /\ \A e \in Clients : e # c => stage'[e] = stage[e] /\ writing'[e] = writing[e]
      /\ chain' = [chain EXCEPT ![c] = writing[c]]
      /\ UNCHANGED answers
  BY DEF Store, Goto, SyncInv, TypeInv, TypeOK, msgVars
<1>2. Obtained(c) = writing[c] /\ Obtained(c)' = <<>>
  BY <1>1 DEF ObtainedFacts
<1>3. \A e \in Clients : e # c => Obtained(e)' = Obtained(e)
  BY <1>1, ObtainedStays
<1>4. CASE writing[c] = <<>>
  <2>1. chain \in [Clients -> Chain] /\ chain[c] = <<>>
    BY <1>1 DEF SyncInv, TypeInv, TypeOK, PlaceInv, Place
  <2>2. UNCHANGED chain
    BY <1>1, <1>4, <2>1
  <2> QED
    BY <1>2, <1>3, <1>4, <2>2, MapStutter
<1>5. CASE writing[c] # <<>>
  <2>1. Fetched' = [Fetched EXCEPT ![c] = <<>>]
    BY <1>2, <1>3 DEF Fetched
  <2>2. Abstract!Store(c)
    BY <1>1, <1>2, <1>5, <2>1 DEF Abstract!Store, Fetched
  <2> QED
    BY <2>2 DEF Abstract!Next
<1> QED
  BY <1>4, <1>5

LEMMA MapBreak ==
  ASSUME SyncInv, ChainInv, ObtainedFacts, ObtainedFacts',
         NEW c \in Clients, NEW d \in Clients, Break(c, d)
  PROVE  [Abstract!Next]_(Abstract!vars)
<1>1. /\ UNCHANGED <<chain, writing, stage>>
      /\ answers' \subseteq answers
      /\ \A a \in answers : a.to # c => a \in answers'
  BY DEF Break, Incoming, chainVars, syncVars
<1>2. \A e \in Clients : e # c => Obtained(e)' = Obtained(e)
  BY <1>1, ObtainedStays
<1>3. CASE \A a \in answers : a.to = c /\ a.chain # <<>> => a \in answers'
  <2>1. Obtained(c)' = Obtained(c)
    BY <1>1, <1>3, ObtainedStays
  <2> QED
    BY <1>1, <1>2, <2>1, MapStutter
<1>4. ASSUME NEW a \in answers, a.to = c, a.chain # <<>>, a \notin answers'
      PROVE  [Abstract!Next]_(Abstract!vars)
  <2>1. \A b \in answers' : b.to = c => b.chain = <<>>
    <3>1. ASSUME NEW b \in answers', b.to = c, b.chain # <<>> PROVE FALSE
      <4>1. a.type = "SYNC"
        BY <1>4 DEF SyncInv, TypeInv, TypeOK, Answer, ChainInv, EmptyOnlyIfTorn
      <4>2. b = a
        BY <1>1, <1>4, <3>1, <4>1, OneCarrier
      <4> QED
        BY <1>4, <3>1, <4>2
    <3> QED
      BY <3>1
  <2>2. CASE stage[c] = "sync"
    <3>1. Obtained(c)' = <<>>
      BY <1>1, <2>1, <2>2 DEF ObtainedFacts
    <3> QED
      BY <1>1, <1>2, <3>1, MapLose
  <2>3. CASE stage[c] # "sync"
    <3>1. Obtained(c)' = Obtained(c)
      BY <1>1, <2>3 DEF ObtainedFacts
    <3> QED
      BY <1>1, <1>2, <3>1, MapStutter
  <2> QED
    BY <2>2, <2>3
<1> QED
  BY <1>3, <1>4

\* The answer to SYNC is the copy.
LEMMA MapSync ==
  ASSUME SyncInv, ChainInv, ObtainedFacts, ObtainedFacts', NEW m \in calls, BlockchainSync(m)
  PROVE  [Abstract!Next]_(Abstract!vars)
<1>1. PICK a : a = [from |-> m.to, to |-> m.from, type |-> m.type,
                    version |-> 0, chain |-> chain[m.to]]
  OBVIOUS
<1>2. a.to = m.from /\ a.from = m.to /\ a.type = "SYNC" /\ a.chain = chain[m.to]
  BY <1>1 DEF BlockchainSync
<1>3. answers' = answers \union {a} /\ UNCHANGED <<chain, writing, stage>>
  BY <1>1 DEF BlockchainSync, Reply, chainVars, syncVars
<1>4. m.from \in Clients /\ m.to \in Clients
  BY PartyTypes DEF SyncInv
<1>5. \A e \in Clients : e # m.from => Obtained(e)' = Obtained(e)
  BY <1>2, <1>3, ObtainedStays
<1>6. CASE stage[m.from] # "sync"
  BY <1>3, <1>4, <1>5, <1>6, MapStutter DEF ObtainedFacts
<1>7. CASE chain[m.to] = <<>>
  BY <1>2, <1>3, <1>4, <1>5, <1>7, ObtainedStays, MapStutter
<1>8. CASE stage[m.from] = "sync" /\ chain[m.to] # <<>>
  <2>1. chain[m.from] = <<>>
    BY <1>4, <1>8 DEF SyncInv, PlaceInv, Place
  <2>2. \A b \in answers : b.to = m.from => b.chain = <<>>
    <3>1. ASSUME NEW b \in answers, b.to = m.from, b.chain # <<>> PROVE FALSE
      <4>1. b.type = "SYNC" /\ b.from \in Clients
        BY <3>1 DEF SyncInv, TypeInv, TypeOK, Answer, ChainInv, EmptyOnlyIfTorn
      <4>2. m.type = "SYNC"
        BY DEF BlockchainSync
      <4>3. UnderWay(m.from, b.from, "SYNC") /\ UnderWay(m.from, m.to, "SYNC")
        BY <3>1, <4>1, <4>2 DEF UnderWay
      <4>4. b.from = m.to
        BY <1>4, <4>1, <4>3 DEF SyncInv, FlightInv, ChainsUnderWay, ChainAsked
      <4> QED
        BY <3>1, <4>1, <4>2, <4>4 DEF SyncInv, FlightInv, OneUnderWay
    <3> QED
      BY <3>1
  <2>3. Obtained(m.from) = <<>> /\ Obtained(m.from)' = chain[m.to]
    BY <1>2, <1>3, <1>4, <1>8, <2>2 DEF ObtainedFacts
  <2>4. Fetched' = [Fetched EXCEPT ![m.from] = chain[m.to]]
    BY <1>5, <2>3 DEF Fetched
  <2>5. Abstract!Fetch(m.from, m.to)
    BY <1>3, <1>4, <1>8, <2>1, <2>3, <2>4 DEF Abstract!Fetch, Fetched
  <2> QED
    BY <1>4, <2>5 DEF Abstract!Next
<1> QED
  BY <1>6, <1>7, <1>8

LEMMA MapStep ==
  SyncInv /\ ChainInv /\ ObtainedFacts /\ ObtainedFacts' /\ [Next]_vars
    => [Abstract!Next]_(Abstract!vars)
<1> SUFFICES ASSUME SyncInv, ChainInv, ObtainedFacts, ObtainedFacts', [Next]_vars
             PROVE  [Abstract!Next]_(Abstract!vars)
  OBVIOUS
<1> USE DEF chainVars, syncVars, msgVars
<1>1. TypeInv
  BY DEF SyncInv
<1>2. ASSUME UNCHANGED <<chain, writing, stage, answers>>
      PROVE  [Abstract!Next]_(Abstract!vars)
  BY <1>2, ObtainedStays, MapStutter
<1>3. ASSUME NEW c \in Clients, Start(c) \/ \E d \in Clients : Connect(c, d)
      PROVE  [Abstract!Next]_(Abstract!vars)
  BY <1>2, <1>3 DEF Start, Connect
<1>4. ASSUME NEW m \in calls, BlockchainVersion(m) PROVE [Abstract!Next]_(Abstract!vars)
  <2>1. PICK version :
          answers' = answers \union
            {[from |-> m.to, to |-> m.from, type |-> m.type,
              version |-> version, chain |-> <<>>]}
    BY <1>4 DEF BlockchainVersion, Reply
  <2>2. UNCHANGED <<chain, writing, stage>>
    BY <1>4 DEF BlockchainVersion
  <2> QED
    BY <2>1, <2>2, ObtainedStays, MapStutter
<1>5. ASSUME NEW m \in calls, Handle(m) PROVE [Abstract!Next]_(Abstract!vars)
  BY <1>1, <1>4, <1>5, PartyTypes, MapSync, MapExit DEF Handle, BlockchainSyncCrash
<1>6. CASE UNCHANGED vars
  BY <1>2, <1>6 DEF vars
<1> QED
  BY <1>1, <1>3, <1>5, <1>6, MapMove, MapGenesis, MapTakeChain, MapStore, MapBreak, MapExit
     DEF Next, Prepare, SyncStep

\* Chains only ever spread as copies of what some process held.
THEOREM ChainsAreCopies == Spec => CopiesOnly
<1>1. Init => Abstract!Init
  BY MapInit
<1>2. SyncInv /\ ChainInv => ObtainedFacts
  BY ObtainedIs
<1>3. SyncInv /\ ChainInv /\ ObtainedFacts /\ ObtainedFacts' /\ [Next]_vars
        => [Abstract!Next]_(Abstract!vars)
  BY MapStep
<1> QED
  BY <1>1, <1>2, <1>3, SyncInvariant, ChainInvariant, PTL DEF Spec, CopiesOnly, Abstract!Spec
=============================================================================
