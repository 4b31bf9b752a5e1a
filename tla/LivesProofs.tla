----------------------------- MODULE LivesProofs -----------------------------
(***************************************************************************)
(* What a restart of the tracker does to the clients of DopechainApp: the  *)
(* lists, connections, questions and chains of a client stay among those   *)
(* that came to the tracker in the same life of it, and those of one life  *)
(* that get to work share a chain.  For any number of clients, threads and *)
(* restarts, whatever fails, as long as no two clients share an identity.  *)
(***************************************************************************)
EXTENDS AgreementProofs

\* c and d came to the tracker in one life of it.
Near(c, d) == since[c] # 0 /\ since[d] = since[c]
NearChain(c, blocks) == blocks # <<>> => Near(c, blocks[1])

\* k is the identity of a client that came in life n.
InLife(k, n) == \E d \in Clients : KeyOf[d] = k /\ since[d] = n

\* What the tracker knows and what it has told its clients.
TrackerLives ==
  /\ \A c \in Clients : conn[c] # "new" => since[c] # 0
  /\ \A k \in KeysOf(peers) : InLife(k, life)
  /\ \A c \in Clients :
       pc[c] = "listing" /\ incoming[c] # <<>> =>
         \A k \in KeysOf(Head(incoming[c]).body) : InLife(k, since[c])
  /\ \A c \in Clients : \A k \in KeysOf(untried[c]) : since[c] # 0 /\ InLife(k, since[c])

\* What they have of each other.
PeersLives ==
  /\ \A c \in Clients : \A i \in DOMAIN peersConnections[c] : Near(c, peersConnections[c][i])
  /\ \A c \in Clients : best[c].peer # Nobody => Near(c, best[c].peer)
  /\ \A m \in calls : Near(m.from, m.to)
  /\ \A a \in answers : Near(a.from, a.to) /\ NearChain(a.to, a.chain)
  /\ \A c \in Clients : NearChain(c, chain[c]) /\ NearChain(c, writing[c])

SinceKept == \A c \in Clients : since[c] # 0 => since'[c] = since[c]

\* A client comes to the tracker once.
LEMMA SinceIsKept ==
  ASSUME TypesInv, Discipline, [Next]_vars
  PROVE  SinceKept
<1>1. TrackerPart
  BY Parts, TypesAre
<1>2. UNCHANGED since \/ \E c \in Clients : T!Connect(c)
  <2> USE DEF T!serverVars, T!lifeVars
  <2>1. ASSUME NEW w \in Workers, T!RegistrationAdd(w) PROVE UNCHANGED since
    BY <2>1 DEF T!RegistrationAdd
  <2>2. ASSUME NEW w \in Workers, NEW c \in Clients, Handles(w, c) PROVE UNCHANGED since
    BY <2>2, DispatchEffect DEF TypesInv
  <2>3. ASSUME NEW c \in Clients,
               \/ T!ServerPing(c) \/ T!PeersList(c) \/ (\E i \in PeerInfo : T!Registration(c, i))
               \/ T!WaitingResponse(c) \/ T!LoseConnection(c) \/ Emptied(c)
        PROVE  UNCHANGED since
    BY <2>3 DEF T!ServerPing, T!PeersList, T!Registration, T!Send, T!WaitingResponse,
                T!LoseConnection, Emptied
  <2>4. CASE T!Restart \/ UNCHANGED trackerVars
    BY <2>4 DEF T!Restart, trackerVars
  <2> QED
    BY <1>1, <2>1, <2>2, <2>3, <2>4 DEF TrackerPart, Handles
<1>3. ASSUME NEW c \in Clients, T!Connect(c) PROVE SinceKept
  <2>1. since[c] = 0 /\ since' = [since EXCEPT ![c] = life]
    BY <1>3 DEF T!Connect, Discipline, Orderly, Bound
  <2> QED
    BY <2>1 DEF SinceKept, TypesInv, TrackerTypes
<1> QED
  BY <1>2, <1>3 DEF SinceKept

(* ------------------------- among the peers ----------------------------- *)

LEMMA ChainHead ==
  ASSUME NEW x \in P!Chain, x # <<>>
  PROVE  x[1] \in Clients
BY DEF P!Chain

\* It is enough that what is new in a step is near.
LEMMA PeersLivesStay ==
  ASSUME PeersTypes, PeersTypes', PeersLives, SinceKept,
         \A c \in Clients : \A i \in DOMAIN peersConnections'[c] :
           \/ i \in DOMAIN peersConnections[c] /\ peersConnections'[c][i] = peersConnections[c][i]
           \/ Near(c, peersConnections'[c][i]),
         \A c \in Clients : best'[c].peer = best[c].peer \/ Near(c, best'[c].peer),
         \A m \in calls' : m \in calls \/ Near(m.from, m.to),
         \A a \in answers' : a \in answers \/ (Near(a.from, a.to) /\ NearChain(a.to, a.chain)),
         \A c \in Clients : /\ chain'[c] \in {chain[c], writing[c], <<>>}
                            /\ writing'[c] \in {writing[c], <<>>} \/ NearChain(c, writing'[c])
  PROVE  PeersLives'
<1> USE DEF Near, NearChain, SinceKept
<1>1. \A c \in Clients : \A i \in DOMAIN peersConnections'[c] : peersConnections'[c][i] \in Clients
  BY DEF PeersTypes, P!TypeOK
<1>2. \A c \in Clients : chain'[c] \in P!Chain /\ writing'[c] \in P!Chain
  BY DEF PeersTypes, P!TypeOK
<1>3. \A m \in calls' : m.from \in Clients /\ m.to \in Clients
  BY DEF PeersTypes, P!TypeOK, P!Request
<1>4. \A a \in answers' : a.from \in Clients /\ a.to \in Clients /\ a.chain \in P!Chain
  BY DEF PeersTypes, P!TypeOK, P!Answer
<1>5. \A c \in Clients : best'[c].peer # Nobody => best'[c].peer \in Clients
  BY DEF PeersTypes, P!TypeOK
<1>6. (\A c \in Clients : \A i \in DOMAIN peersConnections[c] : Near(c, peersConnections[c][i]))'
  BY <1>1 DEF PeersLives
<1>7. (\A c \in Clients : best[c].peer # Nobody => Near(c, best[c].peer))'
  BY <1>5 DEF PeersLives
<1>8. (\A m \in calls : Near(m.from, m.to))'
  BY <1>3 DEF PeersLives
<1>9. (\A a \in answers : Near(a.from, a.to) /\ NearChain(a.to, a.chain))'
  BY <1>4, ChainHead DEF PeersLives
<1>10. (\A c \in Clients : NearChain(c, chain[c]) /\ NearChain(c, writing[c]))'
  BY <1>2, ChainHead DEF PeersLives
<1> QED
  BY <1>6, <1>7, <1>8, <1>9, <1>10 DEF PeersLives

\* What the peers' part does in the application; c connects to those that came
\* with it, and founds a chain when it has come.
PeersStep ==
  \/ \E c \in Clients :
       \/ P!Start(c) \/ P!Join(c) \/ (P!Genesis(c) /\ since[c] # 0)
       \/ P!SyncStep(c) \/ P!MissVersion(c) \/ P!MissChain(c) \/ P!Exit(c)
       \/ \E d \in Clients : (P!Connect(c, d) /\ Near(c, d)) \/ P!Break(c, d)
  \/ \E m \in calls : P!BlockchainVersion(m) \/ P!BlockchainSync(m) \/ P!BlockchainSyncCrash(m)
  \/ UNCHANGED peersVars

LEMMA PeersLivesStep ==
  ASSUME PeersTypes, PeersTypes', PeersLives, SinceKept, PeersStep
  PROVE  PeersLives'
<1> USE DEF P!chainVars, P!syncVars, P!msgVars
<1>1. \A c \in Clients : chain[c] \in P!Chain /\ writing[c] \in P!Chain
  BY DEF PeersTypes, P!TypeOK
<1>2. ASSUME UNCHANGED <<peersConnections, best, chain, writing>>,
             \A m \in calls' : m \in calls \/ Near(m.from, m.to),
             \A a \in answers' : a \in answers \/ (Near(a.from, a.to) /\ NearChain(a.to, a.chain))
      PROVE  PeersLives'
  BY <1>2, PeersLivesStay
<1>3. ASSUME NEW c \in Clients,
             \/ P!Start(c) \/ P!Join(c) \/ P!MissVersion(c) \/ P!MissChain(c) \/ P!NoChainFound(c)
      PROVE  PeersLives'
  BY <1>2, <1>3 DEF P!Start, P!Join, P!MissVersion, P!MissChain, P!NoChainFound
<1>4. ASSUME NEW c \in Clients, NEW d \in Clients, P!Break(c, d) PROVE PeersLives'
  BY <1>2, <1>4 DEF P!Break
<1>5. ASSUME NEW c \in Clients, P!Exit(c) PROVE PeersLives'
  <2>1. /\ UNCHANGED <<peersConnections, best>>
        /\ calls' \subseteq calls /\ answers' \subseteq answers
        /\ \A d \in Clients : chain'[d] \in {chain[d], <<>>} /\ writing'[d] \in {writing[d], <<>>}
    BY <1>5 DEF P!Exit, PeersTypes, P!TypeOK
  <2> QED
    BY <2>1, PeersLivesStay
<1>6. ASSUME NEW c \in Clients, P!Genesis(c), since[c] # 0 PROVE PeersLives'
  <2>1. /\ UNCHANGED <<peersConnections, best, chain, calls, answers>>
        /\ \A d \in Clients : writing'[d] = writing[d] \/ (d = c /\ writing'[d] = <<c>>)
    BY <1>6 DEF P!Genesis, PeersTypes, P!TypeOK
  <2>2. NearChain(c, <<c>>)
    BY <1>6 DEF NearChain, Near
  <2>3. \A d \in Clients : writing'[d] \in {writing[d], <<>>} \/ NearChain(d, writing'[d])
    BY <2>1, <2>2
  <2> QED
    BY <2>1, <2>3, PeersLivesStay
<1>7. ASSUME NEW c \in Clients, NEW d \in Clients, P!Connect(c, d), Near(c, d)
      PROVE  PeersLives'
  <2>1. UNCHANGED <<best, chain, writing, calls, answers>>
    BY <1>7 DEF P!Connect
  <2>2. ASSUME NEW e \in Clients, NEW i \in DOMAIN peersConnections'[e]
        PROVE  \/ i \in DOMAIN peersConnections[e]
                    /\ peersConnections'[e][i] = peersConnections[e][i]
               \/ Near(e, peersConnections'[e][i])
    <3>1. \/ peersConnections'[e] = peersConnections[e]
          \/ e = c /\ peersConnections'[e] = Append(peersConnections[e], d)
      BY <1>7 DEF P!Connect, PeersTypes, P!TypeOK
    <3>2. peersConnections[e] \in Seq(Clients)
      BY DEF PeersTypes, P!TypeOK
    <3>3. CASE peersConnections'[e] = peersConnections[e]
      BY <3>3
    <3>4. CASE e = c /\ peersConnections'[e] = Append(peersConnections[e], d)
      <4>1. i \in DOMAIN peersConnections[e] \/ i = Len(peersConnections[e]) + 1
        BY <3>2, <3>4
      <4> QED
        BY <1>7, <3>2, <3>4, <4>1
    <3> QED
      BY <3>1, <3>3, <3>4
  <2> QED
    BY <2>1, <2>2, PeersLivesStay
<1>8. ASSUME NEW c \in Clients, P!AskVersion(c) PROVE PeersLives'
  <2>1. P!Current(c) = peersConnections[c][at[c]] /\ at[c] \in DOMAIN peersConnections[c]
    BY <1>8, CurrentIsClient DEF P!AskVersion, P!Current
  <2>2. Near(c, P!Current(c))
    BY <2>1 DEF PeersLives
  <2>3. \A m \in calls' : m \in calls \/ Near(m.from, m.to)
    BY <1>8, <2>2 DEF P!AskVersion, P!Ask
  <2> QED
    BY <1>2, <1>8, <2>3 DEF P!AskVersion
<1>9. ASSUME NEW c \in Clients, P!AskChain(c) PROVE PeersLives'
  <2>1. Near(c, best[c].peer)
    BY <1>9 DEF P!AskChain, PeersLives
  <2>2. \A m \in calls' : m \in calls \/ Near(m.from, m.to)
    BY <1>9, <2>1 DEF P!AskChain, P!Ask
  <2> QED
    BY <1>2, <1>9, <2>2 DEF P!AskChain
<1>10. ASSUME NEW c \in Clients, P!TakeVersion(c) PROVE PeersLives'
  <2>1. PICK a \in P!Incoming(c, P!Current(c)) :
          /\ best' = IF a.type = "VERSION" /\ best[c].version < a.version
                     THEN [best EXCEPT ![c] = [peer |-> a.from, version |-> a.version]]
                     ELSE best
          /\ answers' = answers \ {a}
    BY <1>10 DEF P!TakeVersion
  <2>2. Near(c, a.from)
    BY <2>1 DEF P!Incoming, PeersLives, Near
  <2>3. \A d \in Clients : best'[d].peer = best[d].peer \/ (d = c /\ best'[d].peer = a.from)
    BY <2>1 DEF PeersTypes, P!TypeOK
  <2>4. UNCHANGED <<peersConnections, chain, writing, calls>>
    BY <1>10 DEF P!TakeVersion
  <2>5. \A d \in Clients : best'[d].peer = best[d].peer \/ Near(d, best'[d].peer)
    BY <2>2, <2>3
  <2> QED
    BY <2>1, <2>4, <2>5, PeersLivesStay
<1>11. ASSUME NEW c \in Clients, P!TakeChain(c) PROVE PeersLives'
  <2>1. PICK a \in P!Incoming(c, best[c].peer) : /\ answers' = answers \ {a}
                                                 /\ writing' = [writing EXCEPT ![c] = a.chain]
    BY <1>11 DEF P!TakeChain
  <2>2. NearChain(c, a.chain)
    BY <2>1 DEF P!Incoming, PeersLives
  <2>3. \A d \in Clients : writing'[d] = writing[d] \/ (d = c /\ writing'[d] = a.chain)
    BY <2>1 DEF PeersTypes, P!TypeOK
  <2>4. UNCHANGED <<peersConnections, best, chain, calls>>
    BY <1>11 DEF P!TakeChain
  <2>5. \A d \in Clients : writing'[d] \in {writing[d], <<>>} \/ NearChain(d, writing'[d])
    BY <2>2, <2>3
  <2> QED
    BY <2>1, <2>4, <2>5, PeersLivesStay
<1>12. ASSUME NEW c \in Clients, P!Store(c) PROVE PeersLives'
  <2>1. /\ UNCHANGED <<peersConnections, best, calls, answers>>
        /\ \A d \in Clients : /\ chain'[d] \in {chain[d], writing[d]}
                              /\ writing'[d] \in {writing[d], <<>>}
    BY <1>12 DEF P!Store, PeersTypes, P!TypeOK
  <2> QED
    BY <2>1, PeersLivesStay
<1>13. ASSUME NEW m \in calls, P!BlockchainVersion(m) \/ P!BlockchainSync(m) PROVE PeersLives'
  <2>1. PICK blocks \in {<<>>, chain[m.to]} : \E version : P!Reply(m, version, blocks)
    BY <1>13 DEF P!BlockchainVersion, P!BlockchainSync
  <2>2. m.from \in Clients /\ m.to \in Clients /\ Near(m.from, m.to)
    BY PartyTypes DEF PeersLives
  <2>3. Near(m.to, m.from)
    BY <2>2 DEF Near
  <2>4. NearChain(m.from, blocks)
    <3>1. NearChain(m.to, blocks)
      BY <2>1, <2>2 DEF PeersLives, NearChain
    <3> QED
      BY <2>2, <3>1 DEF NearChain, Near
  <2>5. /\ calls' \subseteq calls
        /\ \A a \in answers' : a \in answers \/ (a.from = m.to /\ a.to = m.from /\ a.chain = blocks)
    BY <2>1 DEF P!Reply
  <2>6. UNCHANGED <<peersConnections, best, chain, writing>>
    BY <1>13 DEF P!BlockchainVersion, P!BlockchainSync
  <2> QED
    BY <1>2, <2>3, <2>4, <2>5, <2>6
<1>14. ASSUME NEW m \in calls, P!BlockchainSyncCrash(m) PROVE PeersLives'
  BY <1>5, <1>14, PartyTypes DEF P!BlockchainSyncCrash
<1>15. CASE UNCHANGED peersVars
  BY <1>2, <1>15 DEF peersVars
<1> QED
  BY <1>3, <1>4, <1>5, <1>6, <1>7, <1>8, <1>9, <1>10, <1>11, <1>12, <1>13, <1>14, <1>15
     DEF PeersStep, P!SyncStep

(* ------------------------- with the tracker ---------------------------- *)

LEMMA InLifeStays ==
  ASSUME SinceKept, NEW k, NEW n, n # 0, InLife(k, n)
  PROVE  \E d \in Clients : KeyOf[d] = k /\ since'[d] = n
BY DEF SinceKept, InLife

LEMMA TrackerLivesStay ==
  ASSUME TrackerLives, SinceKept, life' # 0 \/ Clients = {},
         \A c \in Clients : conn'[c] # "new" => since[c] # 0 \/ since'[c] # 0,
         \A k \in KeysOf(peers') : InLife(k, life'),
         \A c \in Clients :
           pc'[c] = "listing" /\ incoming'[c] # <<>> =>
             since[c] # 0 /\ \A k \in KeysOf(Head(incoming'[c]).body) : InLife(k, since[c]),
         \A c \in Clients : \A k \in KeysOf(untried'[c]) : since[c] # 0 /\ InLife(k, since[c])
  PROVE  TrackerLives'
<1>1. (\A c \in Clients : conn[c] # "new" => since[c] # 0)'
  BY DEF SinceKept
<1>2. (\A k \in KeysOf(peers) : InLife(k, life))'
  <2>1. ASSUME NEW k \in KeysOf(peers')
        PROVE  \E d \in Clients : KeyOf[d] = k /\ since'[d] = life'
    <3>1. InLife(k, life')
      OBVIOUS
    <3> QED
      BY <3>1, InLifeStays DEF InLife
  <2>2. KeysOf(peers)' = KeysOf(peers')
    BY DEF KeysOf
  <2> QED
    BY <2>1, <2>2 DEF InLife
<1>3. (\A c \in Clients :
         pc[c] = "listing" /\ incoming[c] # <<>> =>
           \A k \in KeysOf(Head(incoming[c]).body) : InLife(k, since[c]))'
  <2> SUFFICES ASSUME NEW c \in Clients, pc'[c] = "listing", incoming'[c] # <<>>,
                      NEW k \in KeysOf(Head(incoming'[c]).body)
               PROVE  \E d \in Clients : KeyOf[d] = k /\ since'[d] = since'[c]
    BY DEF InLife, KeysOf
  <2>1. since[c] # 0 /\ InLife(k, since[c])
    OBVIOUS
  <2> QED
    BY <2>1, InLifeStays DEF SinceKept
<1>4. (\A c \in Clients : \A k \in KeysOf(untried[c]) : since[c] # 0 /\ InLife(k, since[c]))'
  <2> SUFFICES ASSUME NEW c \in Clients, NEW k \in KeysOf(untried'[c])
               PROVE  since'[c] # 0 /\ \E d \in Clients : KeyOf[d] = k /\ since'[d] = since'[c]
    BY DEF InLife, KeysOf
  <2>1. since[c] # 0 /\ InLife(k, since[c])
    OBVIOUS
  <2> QED
    BY <2>1, InLifeStays DEF SinceKept
<1> QED
  BY <1>1, <1>2, <1>3, <1>4 DEF TrackerLives

\* Who waits on the tracker has come to it.
LEMMA ListerHasCome ==
  ASSUME Discipline, TrackerLives, NEW c \in Clients, pc[c] = "listing"
  PROVE  since[c] # 0
BY DEF Discipline, Orderly, Bound, TrackerLives

\* Of the steps of a client only TakeList makes peers to be tried.
LEMMA UntriedFrom ==
  ASSUME TypesInv, NEW e \in Clients, ClientStep(e), NEW c \in Clients,
         NEW k \in KeysOf(untried'[c])
  PROVE  \/ k \in KeysOf(untried[c])
         \/ /\ pc[c] = "listing" /\ incoming[c] # <<>>
            /\ k \in KeysOf(Head(incoming[c]).body)
<1> USE DEF TrackerCall, PeersCall, Move, Keep
<1>1. CASE MainStep(e) /\ ~TakeList(e) /\ ~ConnectPeer(e)
  BY <1>1
     DEF MainStep, Ping, Register, List, TakeStatus, StartServer, InitializeChain, SyncStep,
         Initialized, Update, Fail, Timeout, appVars
<1>2. CASE \/ Connect(e) \/ Miss(e) \/ Exit(e) \/ LoseConnection(e) \/ BreakPeer(e)
  BY <1>2 DEF Connect, Miss, Exit, LoseConnection, BreakPeer, appVars
<1>3. CASE ConnectPeer(e)
  BY <1>3 DEF ConnectPeer, KeysOf, TypesInv, AppTypes
<1>4. CASE TakeList(e)
  <2>1. CASE Head(incoming[e]).status = "SUCCESS"
    <3>1. PICK listed \in FromJson(Head(incoming[e]).body) :
            untried' = [untried EXCEPT ![e] = Erase(listed, info[e])]
      BY <1>4, <2>1 DEF TakeList
    <3>2. untried'[c] = untried[c] \/ (c = e /\ untried'[c] \subseteq listed)
      BY <3>1 DEF Erase, TypesInv, AppTypes
    <3>3. KeysOf(listed) = KeysOf(Head(incoming[e]).body)
      BY <3>1 DEF FromJson
    <3>4. k \in KeysOf(untried[c]) \/ (c = e /\ k \in KeysOf(listed))
      BY <3>2 DEF KeysOf
    <3> QED
      BY <1>4, <3>3, <3>4 DEF TakeList
  <2>2. CASE Head(incoming[e]).status # "SUCCESS"
    BY <1>4, <2>2 DEF TakeList
  <2> QED
    BY <2>1, <2>2
<1> QED
  BY <1>1, <1>2, <1>3, <1>4 DEF ClientStep

LEMMA ClientConn ==
  ASSUME TypesInv, Discipline, NEW e \in Clients, ClientStep(e), NEW c \in Clients,
         conn'[c] # "new"
  PROVE  conn[c] # "new" \/ since'[c] # 0
<1> USE DEF TrackerCall, PeersCall, Move, T!serverVars, T!lifeVars, trackerVars
<1>1. CASE Connect(e) /\ T!Connect(e)
  <2>1. /\ conn' = [conn EXCEPT ![e] = "up"] /\ since' = [since EXCEPT ![e] = life]
        /\ life # 0
    BY <1>1 DEF T!Connect, Discipline, Orderly, Bound
  <2> QED
    BY <2>1 DEF TypesInv, TrackerTypes
<1>2. CASE Connect(e) /\ ~T!Connect(e)
  BY <1>2 DEF Connect
<1>3. CASE MainStep(e)
  <2>1. CASE Ping(e) \/ Register(e) \/ List(e)
    BY <2>1 DEF Ping, Register, List, T!ServerPing, T!Registration, T!PeersList, T!Send
  <2>2. CASE \/ TakeStatus(e, "pinging", "register") \/ TakeStatus(e, "registering", "start")
             \/ TakeList(e) \/ Update(e)
    BY <2>2 DEF TakeStatus, TakeList, T!WaitingResponse, Update
  <2>3. CASE \/ StartServer(e) \/ ConnectPeer(e) \/ InitializeChain(e) \/ SyncStep(e)
             \/ Initialized(e) \/ Fail(e) \/ Timeout(e)
    BY <2>3
       DEF StartServer, ConnectPeer, InitializeChain, SyncStep, Initialized, Fail, Timeout
  <2> QED
    BY <1>3, <2>1, <2>2, <2>3 DEF MainStep
<1>4. CASE Miss(e) \/ BreakPeer(e)
  BY <1>4 DEF Miss, BreakPeer
<1>5. CASE Exit(e) \/ LoseConnection(e)
  BY <1>5 DEF Exit, CutOff, LoseConnection, T!LoseConnection, TypesInv, TrackerTypes
<1> QED
  BY <1>1, <1>2, <1>3, <1>4, <1>5 DEF ClientStep

LEMMA ClientKeepsLives ==
  ASSUME TypesInv, Discipline, TrackerLives, SinceKept, NEW e \in Clients, ClientStep(e)
  PROVE  TrackerLives'
<1>1. UNCHANGED <<peers, life>> /\ life # 0
  <2>1. UNCHANGED <<peers, job, grants, life>>
    BY ClientKeepsServer
  <2> QED
    BY <2>1 DEF Discipline, Orderly, Bound
<1>2. ASSUME NEW c \in Clients, pc'[c] = "listing", incoming'[c] # <<>>
      PROVE  since[c] # 0 /\ \A k \in KeysOf(Head(incoming'[c]).body) : InLife(k, since[c])
  BY <1>2, ClientLists, ListerHasCome DEF TrackerLives
<1>3. ASSUME NEW c \in Clients, NEW k \in KeysOf(untried'[c])
      PROVE  since[c] # 0 /\ InLife(k, since[c])
  BY <1>3, UntriedFrom, ListerHasCome DEF TrackerLives
<1>4. \A k \in KeysOf(peers') : InLife(k, life')
  BY <1>1 DEF TrackerLives
<1>5. \A c \in Clients : conn'[c] # "new" => since[c] # 0 \/ since'[c] # 0
  BY ClientConn DEF TrackerLives
<1> QED
  BY <1>1, <1>2, <1>3, <1>4, <1>5, TrackerLivesStay

LEMMA ServerKeepsLives ==
  ASSUME TypesInv, Discipline, TrackerLives, SinceKept, TrackerStep
  PROVE  TrackerLives'
<1>1. UNCHANGED <<appVars, peersVars>> /\ (life # 0 \/ Clients = {})
  BY DEF TrackerStep, Discipline, Orderly, Bound
<1>2. \A c \in Clients : \A k \in KeysOf(untried'[c]) : since[c] # 0 /\ InLife(k, since[c])
  BY <1>1 DEF TrackerLives, appVars
<1>3. ASSUME NEW w \in Workers, NEW c \in Clients, Handles(w, c) PROVE TrackerLives'
  <2>1. UNCHANGED <<peers, conn, life, since>>
    BY <1>3, DispatchEffect DEF TypesInv
  <2>2. ASSUME NEW d \in Clients, pc'[d] = "listing", incoming'[d] # <<>>
        PROVE  since[d] # 0 /\ \A k \in KeysOf(Head(incoming'[d]).body) : InLife(k, since[d])
    <3>1. pc[d] = "listing" /\ since[d] # 0
      BY <1>1, <2>2, ListerHasCome DEF appVars
    <3>2. CASE d # c
      <4>1. incoming'[d] = incoming[d]
        BY <1>3, <3>2, HandleStays DEF Stays, TypesInv
      <4> QED
        BY <2>2, <3>1, <4>1 DEF TrackerLives
    <3>3. CASE d = c
      <4>1. incoming[c] = <<>> /\ Head(requests[c]) = Asked(c)
        BY <1>3, <3>1, <3>3, TakesAsked DEF TypesInv, InQueue
      <4>2. Answered(c, Create("REGISTRATION_PEER", "SUCCESS", peers))
        BY <1>3, <3>1, <3>3, <4>1, HandleEffect DEF TypesInv, Asked, Create
      <4>3. conn[c] = "up" /\ Head(incoming'[c]).body = peers
        BY <2>2, <3>3, <4>1, <4>2 DEF Answered, Create
      <4>4. since[c] = life
        BY <4>3 DEF Discipline, Orderly, Bound
      <4> QED
        BY <3>1, <3>3, <4>3, <4>4 DEF TrackerLives
    <3> QED
      BY <3>2, <3>3
  <2> QED
    BY <1>1, <1>2, <2>1, <2>2, TrackerLivesStay DEF TrackerLives
<1>4. ASSUME NEW w \in Workers, T!RegistrationAdd(w) PROVE TrackerLives'
  <2>1. /\ UNCHANGED <<conn, life, since>>
        /\ KeysOf(peers') = KeysOf(peers) \union {job[w].info.key}
        /\ job[w] \in Job
    BY <1>4, AddEffect DEF TypesInv
  <2>2. InLife(job[w].info.key, life)
    <3>1. job[w].client \in Clients /\ w \in T!Handling(job[w].client)
      BY <1>4, <2>1 DEF Job, T!Handling, T!RegistrationAdd
    <3>2. /\ job[w].info.key = KeyOf[job[w].client]
          /\ since[job[w].client] = life
      BY <3>1 DEF Discipline, Orderly, Bound
    <3> QED
      BY <3>1, <3>2 DEF InLife
  <2>3. \A k \in KeysOf(peers') : InLife(k, life')
    BY <2>1, <2>2 DEF TrackerLives
  <2>4. ASSUME NEW d \in Clients, pc'[d] = "listing", incoming'[d] # <<>>
        PROVE  since[d] # 0 /\ \A k \in KeysOf(Head(incoming'[d]).body) : InLife(k, since[d])
    <3>1. pc[d] = "listing" /\ since[d] # 0
      BY <1>1, <2>4, ListerHasCome DEF appVars
    <3>2. incoming'[d] = incoming[d]
      BY <1>1, <1>4, <3>1, AddPlace
    <3> QED
      BY <2>4, <3>1, <3>2 DEF TrackerLives
  <2> QED
    BY <1>1, <1>2, <2>1, <2>3, <2>4, TrackerLivesStay DEF TrackerLives
<1>5. CASE T!Restart
  <2>1. /\ peers' = {} /\ UNCHANGED incoming /\ (life' # 0 \/ Clients = {})
        /\ \A c \in Clients : conn'[c] # "new" => conn[c] # "new"
    BY <1>5 DEF T!Restart, T!Cut, Discipline, Orderly, Bound, TypesInv, TrackerTypes
  <2>2. KeysOf(peers') = {}
    BY <2>1 DEF KeysOf
  <2>3. ASSUME NEW d \in Clients, pc'[d] = "listing", incoming'[d] # <<>>
        PROVE  since[d] # 0 /\ \A k \in KeysOf(Head(incoming'[d]).body) : InLife(k, since[d])
    BY <1>1, <2>1, <2>3, ListerHasCome DEF TrackerLives, appVars
  <2> QED
    BY <1>2, <2>1, <2>2, <2>3, TrackerLivesStay DEF TrackerLives
<1> QED
  BY <1>3, <1>4, <1>5 DEF TrackerStep, T!ServerStep, T!Handle, Handles

LEMMA RestKeepsLives ==
  ASSUME TypesInv, Discipline, TrackerLives, SinceKept,
         UNCHANGED <<peers, life, incoming, untried>>,
         \A c \in Clients : /\ pc'[c] \in {pc[c], "gone"}
                            /\ conn'[c] # "new" => conn[c] # "new"
  PROVE  TrackerLives'
<1>1. life # 0 \/ Clients = {}
  BY DEF Discipline, Orderly, Bound
<1>2. ASSUME NEW d \in Clients, pc'[d] = "listing", incoming'[d] # <<>>
      PROVE  since[d] # 0 /\ \A k \in KeysOf(Head(incoming'[d]).body) : InLife(k, since[d])
  BY <1>2, ListerHasCome DEF TrackerLives
<1> QED
  BY <1>1, <1>2, TrackerLivesStay DEF TrackerLives

(* ------------------------- together ------------------------------------ *)

LivesInv == TrackerLives /\ PeersLives

LEMMA TrackerLivesStep ==
  ASSUME TypesInv, Discipline, TrackerLives, SinceKept, [Next]_vars
  PROVE  TrackerLives'
<1>1. ASSUME NEW m \in calls, Serve(m) PROVE TrackerLives'
  <2>1. m.to \in Clients
    BY PartyTypes DEF TypesInv
  <2>2. \A c \in Clients : pc'[c] \in {pc[c], "gone"}
    BY <1>1, <2>1 DEF Serve, Goto, TypesInv, AppTypes, appVars
  <2>3. UNCHANGED <<peers, life, incoming, untried>>
    BY <1>1
       DEF Serve, Keep, CutOff, T!LoseConnection, T!serverVars, T!lifeVars, trackerVars, appVars
  <2>4. \A c \in Clients : conn'[c] # "new" => conn[c] # "new"
    BY <1>1, <2>1
       DEF Serve, CutOff, T!LoseConnection, trackerVars, TypesInv, TrackerTypes
  <2> QED
    BY <2>2, <2>3, <2>4, RestKeepsLives
<1>2. CASE UNCHANGED vars
  BY <1>2, RestKeepsLives DEF vars, appVars, trackerVars
<1> QED
  BY <1>1, <1>2, ClientKeepsLives, ServerKeepsLives DEF Next, ClientStep

LEMMA AppPeersStep ==
  ASSUME Distinct, TypesInv, Discipline, TrackerLives, [Next]_vars
  PROVE  PeersStep
<1> USE DEF PeersStep, TrackerCall, PeersCall, Move
<1>1. ASSUME NEW c \in Clients, MainStep(c) PROVE PeersStep
  <2>1. CASE Ping(c) \/ Register(c) \/ List(c)
    BY <2>1 DEF Ping, Register, List
  <2>2. CASE \/ TakeStatus(c, "pinging", "register") \/ TakeStatus(c, "registering", "start")
             \/ TakeList(c)
    BY <2>2 DEF TakeStatus, TakeList
  <2>3. CASE Update(c) \/ Initialized(c) \/ Fail(c) \/ Timeout(c)
    BY <2>3 DEF Update, Initialized, Fail, Timeout
  <2>4. CASE StartServer(c) \/ SyncStep(c)
    BY <2>4 DEF StartServer, SyncStep
  <2>5. CASE InitializeChain(c)
    <3>1. since[c] # 0
      BY <2>5 DEF InitializeChain, Discipline, Orderly, Bound, TrackerLives
    <3> QED
      BY <2>5, <3>1 DEF InitializeChain
  <2>6. CASE ConnectPeer(c)
    <3>1. PICK peer \in untried[c] : \/ \E d \in Clients : KeyOf[d] = peer.key /\ P!Connect(c, d)
                                     \/ UNCHANGED peersVars
      BY <2>6 DEF ConnectPeer
    <3>2. peer.key \in KeysOf(untried[c])
      BY DEF KeysOf
    <3>3. since[c] # 0 /\ \E d \in Clients : KeyOf[d] = peer.key /\ since[d] = since[c]
      BY <3>2 DEF TrackerLives, InLife
    <3>4. ASSUME NEW d \in Clients, KeyOf[d] = peer.key PROVE Near(c, d)
      BY <3>3, <3>4 DEF Distinct, Near
    <3> QED
      BY <3>1, <3>4
  <2> QED
    BY <1>1, <2>1, <2>2, <2>3, <2>4, <2>5, <2>6 DEF MainStep
<1>2. ASSUME NEW c \in Clients,
             Connect(c) \/ Miss(c) \/ Exit(c) \/ LoseConnection(c) \/ BreakPeer(c)
      PROVE  PeersStep
  BY <1>2 DEF Connect, Miss, Exit, LoseConnection, BreakPeer
<1>3. CASE TrackerStep
  BY <1>3 DEF TrackerStep
<1>4. ASSUME NEW m \in calls, Serve(m) PROVE PeersStep
  BY <1>4 DEF Serve
<1>5. CASE UNCHANGED vars
  BY <1>5 DEF vars
<1> QED
  BY <1>1, <1>2, <1>3, <1>4, <1>5 DEF Next

LEMMA LivesInit == Init => LivesInv
<1> SUFFICES ASSUME Init PROVE LivesInv
  OBVIOUS
<1>1. TrackerLives
  BY DEF Init, T!Init, TrackerLives, KeysOf
<1>2. PeersLives
  BY DEF Init, P!Init, PeersLives, NearChain
<1> QED
  BY <1>1, <1>2 DEF LivesInv

LEMMA LivesInvariant ==
  ASSUME Distinct
  PROVE  Spec => [](TypesInv /\ Discipline /\ LivesInv)
<1>1. TypesInv /\ TypesInv' /\ Discipline /\ LivesInv /\ [Next]_vars => LivesInv'
  <2> SUFFICES ASSUME TypesInv, TypesInv', Discipline, LivesInv, [Next]_vars PROVE LivesInv'
    OBVIOUS
  <2>1. SinceKept
    BY SinceIsKept
  <2>2. TrackerLives'
    BY <2>1, TrackerLivesStep DEF LivesInv
  <2>3. PeersStep
    BY AppPeersStep DEF LivesInv
  <2>4. PeersLives'
    BY <2>1, <2>3, PeersLivesStep DEF LivesInv, TypesInv
  <2> QED
    BY <2>2, <2>4 DEF LivesInv
<1> QED
  BY <1>1, LivesInit, DisciplineInvariant, PTL DEF Spec

\* A client holds no chain but one founded by a client that came to the tracker
\* in the same life of it, however often the tracker is started again and
\* whoever stays running: there is no other way to a peer than the tracker's
\* list, and no list names a peer of another life.
THEOREM LivesStayApart ==
  ASSUME Distinct
  PROVE  Spec => []ChainsKeepToTheirLife
<1>1. LivesInv => ChainsKeepToTheirLife
  BY DEF LivesInv, PeersLives, NearChain, Near, ChainsKeepToTheirLife
<1> QED
  BY <1>1, LivesInvariant, PTL

(* ------------------------- the ledger of those who work ----------------- *)

\* d still has the chain of which it told the size, or is gone.
Has(d) == chain[d] # <<>> \/ stage[d] = "gone"

\* best[c] is final once c has asked for a chain.
Misled(c) == best[c].version = Torn
Settled(c, d) ==
  /\ stage[c] \notin {"idle", "ask", "version"}
  /\ best[c].peer = d /\ best[c].version # 0

\* Versions are true, and the chain is asked of the peer that gave the best one.
VersionsTrue ==
  /\ \A c \in Clients : chain[c] # <<>> => stage[c] = "done"
  /\ \A c \in Clients : c \in serving => stage[c] # "gone"
  /\ \A a \in answers : a.type = "VERSION" /\ a.version \notin {0, Torn} => Has(a.from)
  /\ \A c \in Clients :
       best[c].version \notin {0, Torn} => best[c].peer \in Clients /\ Has(best[c].peer)

\* So the chain that comes of it is not empty.
ChainsFound ==
  /\ \A m \in calls : m.type = "SYNC" => Settled(m.from, m.to)
  /\ \A a \in answers :
       a.type = "SYNC" => Settled(a.to, a.from) /\ (Misled(a.to) \/ a.chain # <<>>)
  /\ \A c \in Clients : stage[c] = "store" => Misled(c) \/ writing[c] # <<>>
  /\ \A c \in Clients : stage[c] = "done" => Misled(c) \/ chain[c] # <<>>

FoundInv == VersionsTrue /\ ChainsFound

\* How a client may move through BlockchainSync.
Pace(c) ==
  \/ stage'[c] = stage[c] /\ best'[c] = best[c] /\ chain'[c] = chain[c] /\ writing'[c] = writing[c]
  \/ stage'[c] = "gone" /\ best'[c] = best[c] /\ chain'[c] = <<>>
  \/ /\ stage[c] \in {"idle", "ask", "version"}
     /\ stage'[c] \in {"ask", "version", "sync", "failed"}
     /\ chain'[c] = chain[c]
     /\ \/ best'[c] = best[c]
        \/ best'[c].version \notin {0, Torn} => best'[c].peer \in Clients /\ Has(best'[c].peer)
  \/ /\ stage[c] \in {"idle", "sync"} /\ stage'[c] = "store"
     /\ best'[c] = best[c] /\ chain'[c] = chain[c]
     /\ Misled(c) \/ writing'[c] # <<>>
  \/ /\ stage[c] = "sync" /\ stage'[c] = "failed" /\ best'[c] = best[c] /\ chain'[c] = chain[c]
  \/ /\ stage[c] = "store" /\ stage'[c] = "done"
     /\ best'[c] = best[c] /\ chain'[c] = writing[c]

\* What is new in the queues.
NewCalls ==
  \A m \in calls' :
    m \in calls \/ (m.type = "SYNC" => Settled(m.from, m.to)')
NewAnswers ==
  \A a \in answers' :
    \/ a \in answers
    \/ /\ a.type = "VERSION" /\ a.version \notin {0, Torn} => chain[a.from] # <<>>
       /\ a.type = "SYNC" => Settled(a.to, a.from) /\ (Misled(a.to) \/ a.chain # <<>>)

LEMMA FoundStay ==
  ASSUME PeersTypes, PeersTypes', FoundInv, \A c \in Clients : Pace(c),
         \A c \in serving' : stage'[c] # "gone", NewCalls, NewAnswers
  PROVE  FoundInv'
<1> USE DEF FoundInv, VersionsTrue
<1>1. ASSUME NEW d \in Clients, Has(d) PROVE Has(d)'
  BY <1>1 DEF Has, Pace
<1>2. ASSUME NEW c \in Clients, NEW d \in Clients, Settled(c, d)
      PROVE  Settled(c, d)' /\ best'[c] = best[c]
  BY <1>2 DEF Settled, Pace
<1>3. \A m \in calls' : m.from \in Clients /\ m.to \in Clients
  BY DEF PeersTypes, P!TypeOK, P!Request
<1>4. \A a \in answers' : a.from \in Clients /\ a.to \in Clients
  BY DEF PeersTypes, P!TypeOK, P!Answer
<1>5. VersionsTrue'
  <2>1. (\A c \in Clients : chain[c] # <<>> => stage[c] = "done")'
    BY DEF Pace
  <2>2. (\A a \in answers : a.type = "VERSION" /\ a.version \notin {0, Torn} => Has(a.from))'
    BY <1>1, <1>4 DEF NewAnswers, Has
  <2>3. ASSUME NEW c \in Clients, best'[c].version \notin {0, Torn}
        PROVE  best'[c].peer \in Clients /\ Has(best'[c].peer)
    BY <2>3 DEF Pace
  <2>4. (\A c \in Clients : best[c].version \notin {0, Torn} =>
                              best[c].peer \in Clients /\ Has(best[c].peer))'
    BY <1>1, <2>3 DEF Has
  <2> QED
    BY <2>1, <2>2, <2>4
<1>6. ChainsFound'
  <2> USE DEF ChainsFound, Misled
  <2>1. (\A m \in calls : m.type = "SYNC" => Settled(m.from, m.to))'
    BY <1>2, <1>3 DEF NewCalls, Settled
  <2>2. (\A a \in answers :
           a.type = "SYNC" => Settled(a.to, a.from) /\ (Misled(a.to) \/ a.chain # <<>>))'
    BY <1>2, <1>4 DEF NewAnswers, Settled
  <2>3. (\A c \in Clients : stage[c] = "store" => Misled(c) \/ writing[c] # <<>>)'
    BY DEF Pace
  <2>4. (\A c \in Clients : stage[c] = "done" => Misled(c) \/ chain[c] # <<>>)'
    BY DEF Pace
  <2> QED
    BY <2>1, <2>2, <2>3, <2>4
<1> QED
  BY <1>5, <1>6

LEMMA FoundStep ==
  ASSUME PeersTypes, PeersTypes', FoundInv, PeersStep
  PROVE  FoundInv'
<1> USE DEF P!chainVars, P!syncVars, P!msgVars, P!Goto
<1> DEFINE Same(c) == /\ stage'[c] = stage[c] /\ best'[c] = best[c]
                      /\ chain'[c] = chain[c] /\ writing'[c] = writing[c]
           ServersLive == \A c \in serving' : stage'[c] # "gone"
<1>0. /\ stage \in [Clients -> P!Stages] /\ chain \in [Clients -> P!Chain]
      /\ writing \in [Clients -> P!Chain] /\ DOMAIN best = Clients
      /\ serving \subseteq Clients /\ serving' \subseteq Clients
  BY DEF PeersTypes, P!TypeOK
<1>1. ASSUME UNCHANGED <<serving, calls, answers>>, NEW c \in Clients, Pace(c),
             \A d \in Clients : d # c => Same(d), stage'[c] # "gone"
      PROVE  FoundInv'
  <2>1. \A d \in Clients : Pace(d)
    BY <1>1 DEF Pace
  <2>2. ServersLive /\ NewCalls /\ NewAnswers
    BY <1>0, <1>1 DEF FoundInv, VersionsTrue, NewCalls, NewAnswers
  <2> QED
    BY <2>1, <2>2, FoundStay
<1>2. ASSUME NEW c \in Clients, P!Start(c) PROVE FoundInv'
  <2>1. \A d \in Clients : Pace(d)
    BY <1>2 DEF P!Start, Pace
  <2>2. ServersLive /\ NewCalls /\ NewAnswers
    BY <1>0, <1>2 DEF P!Start, FoundInv, VersionsTrue, NewCalls, NewAnswers
  <2> QED
    BY <2>1, <2>2, FoundStay
<1>3. ASSUME NEW c \in Clients, P!Join(c) \/ P!MissVersion(c) \/ P!NoChainFound(c) \/ P!MissChain(c)
      PROVE  FoundInv'
  <2>1. /\ UNCHANGED <<serving, calls, answers, chain, writing, best>>
        /\ stage'[c] # "gone" /\ Pace(c)
        /\ \A d \in Clients : d # c => Same(d)
    BY <1>0, <1>3
       DEF P!Join, P!MissVersion, P!NoChainFound, P!MissChain, P!AskedAll, Pace
  <2> QED
    BY <1>1, <2>1
<1>4. ASSUME NEW c \in Clients, P!Genesis(c) PROVE FoundInv'
  <2>1. /\ UNCHANGED <<serving, calls, answers, chain, best>>
        /\ stage[c] = "idle" /\ stage'[c] = "store" /\ writing'[c] = <<c>>
        /\ \A d \in Clients : d # c => Same(d)
    BY <1>0, <1>4 DEF P!Genesis
  <2>2. Pace(c) /\ stage'[c] # "gone"
    BY <2>1 DEF Pace
  <2> QED
    BY <1>1, <2>1, <2>2
<1>5. ASSUME NEW c \in Clients, P!Store(c) PROVE FoundInv'
  <2>1. /\ UNCHANGED <<serving, calls, answers>>
        /\ stage'[c] # "gone" /\ Pace(c)
        /\ \A d \in Clients : d # c => Same(d)
    BY <1>0, <1>5 DEF P!Store, Pace
  <2> QED
    BY <1>1, <2>1
<1>6. ASSUME NEW c \in Clients, P!Exit(c) PROVE FoundInv'
  <2>1. \A d \in Clients : Pace(d)
    BY <1>0, <1>6 DEF P!Exit, Pace
  <2>2. ServersLive /\ NewCalls /\ NewAnswers
    BY <1>0, <1>6 DEF P!Exit, FoundInv, VersionsTrue, NewCalls, NewAnswers
  <2> QED
    BY <2>1, <2>2, FoundStay
<1>7. ASSUME UNCHANGED <<serving, stage, best, chain, writing>>, NewCalls, NewAnswers
      PROVE  FoundInv'
  <2>1. (\A d \in Clients : Pace(d)) /\ ServersLive
    BY <1>0, <1>7 DEF Pace, FoundInv, VersionsTrue
  <2> QED
    BY <1>7, <2>1, FoundStay
<1>8. ASSUME NEW c \in Clients, NEW d \in Clients, P!Connect(c, d) \/ P!Break(c, d)
      PROVE  FoundInv'
  <2>1. UNCHANGED <<serving, stage, best, chain, writing>> /\ NewCalls /\ NewAnswers
    BY <1>8 DEF P!Connect, P!Break, P!Incoming, NewCalls, NewAnswers
  <2> QED
    BY <1>7, <2>1
<1>9. ASSUME NEW c \in Clients, P!AskVersion(c) PROVE FoundInv'
  <2>1. /\ \A d \in Clients : Pace(d)
        /\ ServersLive /\ NewCalls /\ NewAnswers
    BY <1>0, <1>9
       DEF P!AskVersion, P!Ask, Pace, FoundInv, VersionsTrue, NewCalls, NewAnswers
  <2> QED
    BY <2>1, FoundStay
<1>10. ASSUME NEW c \in Clients, P!AskChain(c) PROVE FoundInv'
  <2>1. /\ stage[c] = "ask" /\ stage' = [stage EXCEPT ![c] = "sync"]
        /\ best[c].version # 0
        /\ UNCHANGED <<serving, chain, writing, best, answers>>
    BY <1>10 DEF P!AskChain, P!AskedAll
  <2>2. (\A d \in Clients : Pace(d)) /\ ServersLive /\ NewAnswers
    BY <1>0, <2>1 DEF Pace, FoundInv, VersionsTrue, NewAnswers
  <2>3. \A m \in calls' : \/ m \in calls
                          \/ m.from = c /\ m.to = best[c].peer
    BY <1>10 DEF P!AskChain, P!Ask
  <2>4. NewCalls
    BY <1>0, <2>1, <2>3 DEF NewCalls, Settled
  <2> QED
    BY <2>2, <2>4, FoundStay
<1>11. ASSUME NEW c \in Clients, P!TakeVersion(c) PROVE FoundInv'
  <2>1. PICK a \in P!Incoming(c, P!Current(c)) :
          /\ best' = IF a.type = "VERSION" /\ best[c].version < a.version
                     THEN [best EXCEPT ![c] = [peer |-> a.from, version |-> a.version]]
                     ELSE best
          /\ answers' = answers \ {a}
    BY <1>11 DEF P!TakeVersion
  <2>2. a \in answers /\ a.from \in Clients
    BY <2>1 DEF P!Incoming, PeersTypes, P!TypeOK, P!Answer
  <2>3. \/ best' = best
        \/ /\ best' = [best EXCEPT ![c] = [peer |-> a.from, version |-> a.version]]
           /\ a.version \notin {0, Torn} => Has(a.from)
    BY <2>1, <2>2 DEF FoundInv, VersionsTrue
  <2>4. /\ stage[c] = "version" /\ stage' = [stage EXCEPT ![c] = "ask"]
        /\ UNCHANGED <<serving, chain, writing, calls>>
    BY <1>11 DEF P!TakeVersion
  <2>5. \/ best'[c] = best[c]
        \/ best'[c].version \notin {0, Torn} => best'[c].peer \in Clients /\ Has(best'[c].peer)
    BY <1>0, <2>2, <2>3
  <2>6. Pace(c)
    BY <1>0, <2>4, <2>5 DEF Pace
  <2>7. \A d \in Clients : d # c => Pace(d)
    BY <1>0, <2>3, <2>4 DEF Pace
  <2>8. ServersLive /\ NewCalls /\ NewAnswers
    BY <1>0, <2>1, <2>4 DEF FoundInv, VersionsTrue, NewCalls, NewAnswers
  <2> QED
    BY <2>6, <2>7, <2>8, FoundStay
<1>12. ASSUME NEW c \in Clients, P!TakeChain(c) PROVE FoundInv'
  <2>1. PICK a \in P!Incoming(c, best[c].peer) : /\ a.type = "SYNC"
                                                 /\ answers' = answers \ {a}
                                                 /\ writing' = [writing EXCEPT ![c] = a.chain]
    BY <1>12 DEF P!TakeChain
  <2>2. Misled(c) \/ a.chain # <<>>
    BY <2>1 DEF P!Incoming, FoundInv, ChainsFound
  <2>3. /\ stage[c] = "sync" /\ stage' = [stage EXCEPT ![c] = "store"]
        /\ UNCHANGED <<serving, chain, best, calls>>
    BY <1>12 DEF P!TakeChain
  <2>4. \A d \in Clients : Pace(d)
    BY <1>0, <2>1, <2>2, <2>3 DEF Pace
  <2>5. ServersLive /\ NewCalls /\ NewAnswers
    BY <1>0, <2>1, <2>3 DEF FoundInv, VersionsTrue, NewCalls, NewAnswers
  <2> QED
    BY <2>4, <2>5, FoundStay
<1>13. ASSUME NEW m \in calls, P!BlockchainVersion(m) PROVE FoundInv'
  <2>1. PICK version \in {Len(chain[m.to]), Torn} : P!Reply(m, version, <<>>)
    BY <1>13 DEF P!BlockchainVersion
  <2>2. version \notin {0, Torn} => chain[m.to] # <<>>
    BY <2>1
  <2>3. NewCalls /\ NewAnswers
    BY <1>13, <2>1, <2>2 DEF P!BlockchainVersion, P!Reply, NewCalls, NewAnswers
  <2>4. UNCHANGED <<serving, stage, best, chain, writing>>
    BY <1>13 DEF P!BlockchainVersion
  <2> QED
    BY <1>7, <2>3, <2>4
<1>14. ASSUME NEW m \in calls, P!BlockchainSync(m) PROVE FoundInv'
  <2>1. m.type = "SYNC" /\ m.to \in serving /\ P!Reply(m, 0, chain[m.to])
    BY <1>14 DEF P!BlockchainSync
  <2>2. m.from \in Clients /\ m.to \in Clients /\ Settled(m.from, m.to)
    BY <2>1, PartyTypes DEF FoundInv, ChainsFound
  <2>3. Misled(m.from) \/ chain[m.to] # <<>>
    BY <2>1, <2>2 DEF Settled, Misled, Has, FoundInv, VersionsTrue
  <2>4. NewCalls /\ NewAnswers
    BY <2>1, <2>2, <2>3 DEF P!Reply, NewCalls, NewAnswers
  <2>5. UNCHANGED <<serving, stage, best, chain, writing>>
    BY <1>14 DEF P!BlockchainSync
  <2> QED
    BY <1>7, <2>4, <2>5
<1>15. ASSUME NEW m \in calls, P!BlockchainSyncCrash(m) PROVE FoundInv'
  BY <1>6, <1>15, PartyTypes DEF P!BlockchainSyncCrash
<1>16. CASE UNCHANGED peersVars
  BY <1>7, <1>16 DEF peersVars, NewCalls, NewAnswers
<1> QED
  BY <1>2, <1>3, <1>4, <1>5, <1>6, <1>8, <1>9, <1>10, <1>11, <1>12, <1>13, <1>14, <1>15, <1>16
     DEF PeersStep, P!SyncStep

\* Who works is done with BlockchainSync.
WorkInv == \A c \in Clients : pc[c] = "working" => stage[c] = "done"

\* Only its end takes a client out of "done".
LEMMA DoneStays ==
  ASSUME PeersTypes, PeersStep, NEW c \in Clients, stage[c] = "done"
  PROVE  stage'[c] \in {"done", "gone"}
<1> USE DEF P!Goto, P!syncVars
<1>1. stage \in [Clients -> P!Stages]
  BY DEF PeersTypes, P!TypeOK
<1>2. ASSUME NEW d \in Clients, P!Exit(d) PROVE stage'[c] \in {"done", "gone"}
  BY <1>1, <1>2 DEF P!Exit
<1>3. ASSUME NEW d \in Clients, P!Start(d) \/ P!Join(d) \/ P!Genesis(d) PROVE stage'[c] = "done"
  BY <1>1, <1>3 DEF P!Start, P!Join, P!Genesis
<1>4. ASSUME NEW d \in Clients, P!SyncStep(d) \/ P!MissVersion(d) \/ P!MissChain(d)
      PROVE  stage'[c] = "done"
  BY <1>1, <1>4
     DEF P!SyncStep, P!AskVersion, P!TakeVersion, P!NoChainFound, P!AskChain, P!TakeChain,
         P!Store, P!AskedAll, P!MissVersion, P!MissChain
<1>5. ASSUME NEW d \in Clients, NEW e \in Clients, P!Connect(d, e) \/ P!Break(d, e)
      PROVE  stage'[c] = "done"
  BY <1>5 DEF P!Connect, P!Break
<1>6. ASSUME NEW m \in calls,
             P!BlockchainVersion(m) \/ P!BlockchainSync(m) \/ P!BlockchainSyncCrash(m)
      PROVE  stage'[c] \in {"done", "gone"}
  BY <1>2, <1>6, PartyTypes DEF P!BlockchainVersion, P!BlockchainSync, P!BlockchainSyncCrash
<1> QED
  BY <1>2, <1>3, <1>4, <1>5, <1>6 DEF PeersStep, peersVars

\* Initialize returns true in one place.
LEMMA WorkersFrom ==
  ASSUME TypesInv, [Next]_vars, NEW c \in Clients, pc'[c] = "working"
  PROVE  pc[c] = "working" \/ (stage[c] = "done" /\ stage' = stage)
<1> USE DEF TrackerCall, PeersCall, Move, Goto, Keep, TypesInv, AppTypes
<1>1. ASSUME NEW e \in Clients, MainStep(e)
      PROVE  pc[c] = "working" \/ (stage[c] = "done" /\ stage' = stage)
  <2>1. CASE Ping(e) \/ Register(e) \/ List(e) \/ StartServer(e) \/ InitializeChain(e)
    BY <2>1 DEF Ping, Register, List, StartServer, InitializeChain
  <2>2. CASE TakeStatus(e, "pinging", "register") \/ TakeStatus(e, "registering", "start")
    BY <2>2 DEF TakeStatus
  <2>3. CASE TakeList(e)
    BY <2>3 DEF TakeList
  <2>4. CASE ConnectPeer(e) \/ SyncStep(e) \/ Update(e)
    BY <2>4 DEF ConnectPeer, SyncStep, Update, appVars
  <2>5. CASE Initialized(e)
    BY <2>5 DEF Initialized, peersVars
  <2>6. CASE Fail(e) \/ Timeout(e)
    BY <2>6 DEF Fail, Timeout
  <2> QED
    BY <1>1, <2>1, <2>2, <2>3, <2>4, <2>5, <2>6 DEF MainStep
<1>2. ASSUME NEW e \in Clients,
             Connect(e) \/ Miss(e) \/ Exit(e) \/ LoseConnection(e) \/ BreakPeer(e)
      PROVE  pc[c] = "working"
  BY <1>2 DEF Connect, Miss, Exit, LoseConnection, BreakPeer, appVars
<1>3. CASE TrackerStep
  BY <1>3 DEF TrackerStep, appVars
<1>4. ASSUME NEW m \in calls, Serve(m) PROVE pc[c] = "working"
  BY <1>4 DEF Serve, appVars
<1>5. CASE UNCHANGED vars
  BY <1>5 DEF vars, appVars
<1> QED
  BY <1>1, <1>2, <1>3, <1>4, <1>5 DEF Next

LEMMA WorkStep ==
  ASSUME TypesInv, PeersStep, WorkInv, Acquaintance', FoundInv', [Next]_vars
  PROVE  WorkInv'
<1> SUFFICES ASSUME NEW c \in Clients, pc'[c] = "working"
             PROVE  stage'[c] = "done"
  BY DEF WorkInv
<1>1. CASE stage[c] = "done" /\ stage' = stage
  BY <1>1
<1>2. CASE pc[c] = "working"
  <2>1. stage'[c] \in {"done", "gone"}
    BY <1>2, DoneStays DEF WorkInv, TypesInv
  <2>2. c \in serving'
    BY DEF Acquaintance, Social, InStep
  <2>3. stage'[c] # "gone"
    BY <2>2 DEF FoundInv, VersionsTrue
  <2> QED
    BY <2>1, <2>3
<1> QED
  BY <1>1, <1>2, WorkersFrom

LEMMA FoundInit == Init => FoundInv /\ WorkInv
<1> SUFFICES ASSUME Init PROVE FoundInv /\ WorkInv
  OBVIOUS
<1>1. VersionsTrue /\ ChainsFound
  BY DEF Init, P!Init, VersionsTrue, ChainsFound
<1>2. WorkInv
  BY DEF Init, WorkInv
<1> QED
  BY <1>1, <1>2 DEF FoundInv

\* The clients that came to the tracker in one life of it, and believed no torn
\* version, work on one and the same chain, although Initialize never looks at
\* the chain it received: the peer asked for its chain is the one whose version
\* was true, it still has that chain or is gone, and chains neither differ in a
\* life nor come from another one.
THEOREM WorkersShareTheLedger ==
  ASSUME Distinct
  PROVE  Spec => []WorkingShareLedger
<1>1. /\ TypesInv /\ TypesInv' /\ Discipline /\ LivesInv /\ Acquaintance'
      /\ FoundInv /\ WorkInv /\ [Next]_vars
      => FoundInv' /\ WorkInv'
  <2> SUFFICES ASSUME TypesInv, TypesInv', Discipline, LivesInv, Acquaintance', FoundInv,
                      WorkInv, [Next]_vars
               PROVE  FoundInv' /\ WorkInv'
    OBVIOUS
  <2>1. PeersStep
    BY AppPeersStep DEF LivesInv
  <2>2. FoundInv'
    BY <2>1, FoundStep DEF TypesInv
  <2> QED
    BY <2>1, <2>2, WorkStep
<1>2. TypesInv /\ FoundInv /\ WorkInv /\ Agreement /\ ChainsKeepToTheirLife
      => WorkingShareLedger
  <2> SUFFICES ASSUME TypesInv, FoundInv, WorkInv, Agreement, ChainsKeepToTheirLife,
                      NEW c \in Clients, NEW d \in Clients, Joined(c), Joined(d),
                      since[c] = since[d]
               PROVE  chain[c] = chain[d] /\ chain[c] # <<>>
    BY DEF WorkingShareLedger
  <2>1. chain[c] # <<>> /\ chain[d] # <<>>
    BY DEF Joined, WorkInv, FoundInv, ChainsFound, Misled
  <2>2. since[chain[c][1]] = since[chain[d][1]]
    BY <2>1 DEF ChainsKeepToTheirLife
  <2>3. chain[c] \in Chains /\ chain[d] \in Chains
    BY <2>1 DEF Chains
  <2> QED
    BY <2>1, <2>2, <2>3 DEF Agreement
<1>3. Spec => [](FoundInv /\ WorkInv)
  BY <1>1, FoundInit, LivesInvariant, AcquaintanceInvariant, PTL DEF Spec
<1> QED
  BY <1>2, <1>3, LivesInvariant, LivesStayApart, OneChain, PTL
=============================================================================
