------------------------- MODULE ConnectionPoolProofs -------------------------
(***************************************************************************)
(* What the ownership of pooled connections guarantees for any number of   *)
(* operations, connections, servers and topologies, proved with TLAPS.     *)
(*                                                                         *)
(* The argument is about references.  A connection that is being closed is *)
(* referenced by nobody, or it is the seed in ~RemoteCache(); a request    *)
(* that a connection still carries, or that its read thread has in hand,   *)
(* is waited for by a future that refers to this very connection, or its   *)
(* future was dropped.  IInv says so for every thread at every point.      *)
(***************************************************************************)
EXTENDS ConnectionPool, TLAPS

-----------------------------------------------------------------------------
(* The inductive invariant *)

\* 0 is no topology.
TopologyIds == 0..Len(View)

TypeInv ==
    /\ topologyId \in TopologyIds /\ clusterId \in TopologyIds \ {0}
    /\ applier \in Conns \cup {NoConn}
    /\ pool \in [Servers -> Conns \cup {NoConn}]
    /\ seedOwned \in BOOLEAN /\ cpc \in {"alive", "members", "gone"}
    /\ server \in [Conns -> Servers \cup {NoServer}]
    /\ connected \in [Conns -> BOOLEAN] /\ stopReadLoop \in [Conns -> BOOLEAN]
    /\ known \in [Conns -> TopologyIds]
    /\ pending \in [Conns -> SUBSET [op : Ops, topo : TopologyIds]]
    /\ closer \in [Conns -> Threads \cup {Nobody}]
    /\ rpc \in [Conns -> {"none", "receive", "callback", "evict", "deliver", "draining", "done"}]
    /\ rtopo \in [Conns -> TopologyIds] /\ rop \in [Conns -> Ops \cup {Nobody}]
    /\ opc \in [Ops -> {"idle", "locked", "execute", "waiting", "done", "forgotten"}]
    /\ held \in [Ops -> Conns \cup {NoConn}]
    /\ target \in [Ops -> Servers \cup {NoServer}]
    /\ outcome \in [Ops -> {"none", "answered", "closed", "lost"}]

\* Somebody refers to c.
InUse(c) == Referenced(c, pool, held, seedOwned)

\* c is on its way out: nobody refers to it, or it is the seed in ~RemoteCache().
Ending(c) == ~InUse(c) \/ (c = Seed /\ cpc # "alive")

\* What exists, and what may end.
ObjectInv ==
    /\ NoThreadWithoutObject
    /\ \A c \in Conns : InUse(c) => server[c] # NoServer
    /\ \A c \in Conns : closer[c] # Nobody => server[c] # NoServer /\ Ending(c)
    /\ \A c \in Conns : stopReadLoop[c] => closer[c] # Nobody \/ (c = Seed /\ cpc # "alive")
    /\ \A c \in Conns : rpc[c] = "draining" => c \notin up \/ stopReadLoop[c]
    /\ cpc # "gone" => seedOwned

\* Who waits for the request of o on connection c: a future that refers to c, or nobody.
Awaited(o, c) ==
    \/ opc[o] = "waiting" /\ held[o] = c /\ outcome[o] = "none"
    \/ opc[o] = "forgotten"

\* A request is with one connection, once.
RequestInv ==
    /\ \A c \in Conns : \A q \in pending[c] : Awaited(q.op, c) /\ \A d \in Conns : rop[d] # q.op
    /\ \A c, d \in Conns : \A q \in pending[c], r \in pending[d] :
          q.op = r.op => c = d /\ q = r
    /\ \A c \in Conns : rop[c] # Nobody => Awaited(rop[c], c)
    /\ \A c \in Conns : rpc[c] \in {"callback", "evict", "deliver"} <=> rop[c] # Nobody
    /\ \A o \in Ops : opc[o] \in {"execute", "waiting"} <=> held[o] # NoConn
    /\ \A o \in Ops : opc[o] \in {"idle", "locked", "execute"} => outcome[o] = "none"
    /\ cpc # "alive" => \A o \in Ops : opc[o] \in {"idle", "done", "forgotten"}
    /\ EvictionSparesRequests

\* What each side knows of the topology.
TopologyInv ==
    /\ AppliedTopologyIsKnown
    /\ \A c \in Conns : rpc[c] = "callback" => rtopo[c] = known[c] /\ rtopo[c] # 0
    /\ \A o \in Ops : opc[o] = "locked" => topologyId # 0

\* Only the thread of a request whose future was dropped can end its own connection.
SelfInv ==
    /\ \A c \in Conns : closer[c] = c => Forgotten
    /\ dead # "no" => Forgotten

\* The inductive invariant of ConnectionPool.
IInv == TypeInv /\ ObjectInv /\ RequestInv /\ TopologyInv /\ SelfInv

-----------------------------------------------------------------------------
(* The steps *)

\* What the constants are.
LEMMA Constants ==
    /\ Seed \in Conns /\ NoConn \notin Conns
    /\ SeedServer \in Servers /\ NoServer \notin Servers
    /\ \A o \in Ops : o \notin Conns /\ o # Nobody /\ o # Owner
    /\ \A c \in Conns : c # Nobody /\ c # Owner
    /\ Owner # Nobody
    /\ Nobody \notin Ops
    /\ 0 \in TopologyIds /\ 1 \in TopologyIds
    /\ \A i \in TopologyIds \ {0} : View[i] \subseteq Servers
BY PoolAssumption DEF TopologyIds

\* The candidates are servers.
LEMMA CandidateServers ==
    ASSUME IInv, NEW o \in Ops, opc[o] = "locked"
    PROVE  Candidates(o) \subseteq Servers
BY Constants DEF IInv, TypeInv, TopologyInv, Candidates

\* No step leaves the types.
LEMMA TypeStep ==
    ASSUME IInv, Next
    PROVE  TypeInv'
<1> USE Constants DEF IInv, TypeInv, Threads, cacheVars, connVars, readVars, opVars, netVars
<1>1. ASSUME NEW o \in Ops, Select(o) PROVE TypeInv'
    BY <1>1 DEF Select
<1>2. ASSUME NEW o \in Ops, TakePooled(o) PROVE TypeInv'
    BY <1>2, CandidateServers DEF TakePooled, HandOut
<1>3. ASSUME NEW o \in Ops, RemoveDead(o) PROVE TypeInv'
    BY <1>3, CandidateServers DEF RemoveDead, Release
<1>4. ASSUME NEW o \in Ops, ConnectNew(o) PROVE TypeInv'
    BY <1>4, CandidateServers DEF ConnectNew, HandOut
<1>5. ASSUME NEW o \in Ops, ConnectFails(o) PROVE TypeInv'
    BY <1>5 DEF ConnectFails
<1>6. ASSUME NEW o \in Ops, NoServers(o) PROVE TypeInv'
    BY <1>6 DEF NoServers
<1>7. ASSUME NEW o \in Ops, Execute(o) PROVE TypeInv'
  <2>1. held[o] \in Conns
    BY <1>7 DEF Execute, RequestInv
  <2>2. [op |-> o, topo |-> known[held[o]]] \in [op : Ops, topo : TopologyIds]
    BY <2>1
  <2> QED
    BY <1>7, <2>1, <2>2 DEF Execute
<1>8. ASSUME NEW o \in Ops, ExecuteThrows(o) PROVE TypeInv'
    BY <1>8 DEF ExecuteThrows, LetGo, Release
<1>9. ASSUME NEW o \in Ops, Get(o) PROVE TypeInv'
    BY <1>9 DEF Get, LetGo, Release
<1>10. ASSUME NEW o \in Ops, Forget(o) PROVE TypeInv'
    BY <1>10 DEF Forget, LetGo, Release
<1>11. ASSUME NEW c \in Conns, ReadResponse(c) PROVE TypeInv'
    BY <1>11 DEF ReadResponse
<1>12. ASSUME NEW c \in Conns, ApplyTopology(c) PROVE TypeInv'
    BY <1>12 DEF ApplyTopology
<1>13. ASSUME NEW c \in Conns, cleanupStaleConnections(c) PROVE TypeInv'
    BY <1>13 DEF cleanupStaleConnections, Release, Stale
<1>14. ASSUME NEW c \in Conns, EndCallback(c) PROVE TypeInv'
    BY <1>14 DEF EndCallback
<1>15. ASSUME NEW c \in Conns, Deliver(c) PROVE TypeInv'
    BY <1>15 DEF Deliver
<1>16. ASSUME NEW c \in Conns, ReadThrows(c) PROVE TypeInv'
    BY <1>16 DEF ReadThrows
<1>17. ASSUME NEW c \in Conns, ReadDrain(c) PROVE TypeInv'
    BY <1>17 DEF ReadDrain, DropPending
<1>18. ASSUME NEW c \in Conns, CloseStop(c) PROVE TypeInv'
    BY <1>18 DEF CloseStop
<1>19. ASSUME NEW c \in Conns, CloseJoin(c) PROVE TypeInv'
  <2>1. outcome' \in [Ops -> {"none", "answered", "closed", "lost"}]
    BY <1>19 DEF CloseJoin, DropPending
  <2>2. /\ server' \in [Conns -> Servers \cup {NoServer}] /\ applier' \in Conns \cup {NoConn}
        /\ stopReadLoop' \in [Conns -> BOOLEAN] /\ known' \in [Conns -> TopologyIds]
    <3>1. CASE Referenced(c, pool, held, seedOwned)
      BY <1>19, <3>1 DEF CloseJoin
    <3>2. CASE ~Referenced(c, pool, held, seedOwned)
      <4>1. /\ server' = [server EXCEPT ![c] = NoServer] /\ known' = [known EXCEPT ![c] = 0]
            /\ stopReadLoop' = [stopReadLoop EXCEPT ![c] = FALSE]
            /\ applier' \in {applier, NoConn}
        BY <1>19, <3>2 DEF CloseJoin
      <4> QED
        BY <4>1
    <3> QED
      BY <3>1, <3>2
  <2>3. /\ pending' \in [Conns -> SUBSET [op : Ops, topo : TopologyIds]]
        /\ connected' \in [Conns -> BOOLEAN]
        /\ closer' \in [Conns -> Threads \cup {Nobody}]
        /\ rpc' \in [Conns -> {"none", "receive", "callback", "evict", "deliver", "draining",
                               "done"}]
    BY <1>19 DEF CloseJoin, DropPending
  <2> QED
    BY <1>19, <2>1, <2>2, <2>3 DEF CloseJoin
<1>20. ASSUME NEW c \in Conns, JoinsItself(c) PROVE TypeInv'
    BY <1>20 DEF JoinsItself
<1>21. ASSUME NEW c \in Conns, PeerDrop(c) PROVE TypeInv'
    BY <1>21 DEF PeerDrop
<1>22. CASE Disconnect
    BY <1>22 DEF Disconnect
<1>23. CASE DestroyPool
    BY <1>23 DEF DestroyPool, Release
<1>24. CASE DestroySeed
    BY <1>24 DEF DestroySeed, Release
<1>25. CASE ClusterChange
    BY <1>25, PoolAssumption DEF ClusterChange, TopologyIds
<1> QED
    BY <1>1, <1>2, <1>3, <1>4, <1>5, <1>6, <1>7, <1>8, <1>9, <1>10, <1>11, <1>12, <1>13, <1>14,
       <1>15, <1>16, <1>17, <1>18, <1>19, <1>20, <1>21, <1>22, <1>23, <1>24, <1>25
    DEF Next, Operation, readLoop, close, DestroyMembers

\* A thread lets go of what it refers to, and closes only what nobody refers to.
LEMMA ObjectStep ==
    ASSUME IInv, Next, TypeInv'
    PROVE  ObjectInv'
<1> USE Constants DEF IInv, TypeInv, Threads, cacheVars, connVars, readVars, opVars, netVars,
                       ObjectInv, NoThreadWithoutObject, InUse, Ending, Referenced
<1>1. ASSUME NEW o \in Ops, Select(o) PROVE ObjectInv'
    BY <1>1 DEF Select, RequestInv
<1>2. ASSUME NEW o \in Ops, TakePooled(o) PROVE ObjectInv'
    BY <1>2, CandidateServers DEF TakePooled, HandOut
<1>3. ASSUME NEW o \in Ops, RemoveDead(o) PROVE ObjectInv'
    BY <1>3, CandidateServers DEF RemoveDead, Release
<1>4. ASSUME NEW o \in Ops, ConnectNew(o) PROVE ObjectInv'
    BY <1>4, CandidateServers DEF ConnectNew, HandOut
<1>5. ASSUME NEW o \in Ops, ConnectFails(o) PROVE ObjectInv'
    BY <1>5 DEF ConnectFails
<1>6. ASSUME NEW o \in Ops, NoServers(o) PROVE ObjectInv'
    BY <1>6 DEF NoServers
<1>7. ASSUME NEW o \in Ops, Execute(o) PROVE ObjectInv'
    BY <1>7 DEF Execute
<1>8. ASSUME NEW o \in Ops, ExecuteThrows(o) PROVE ObjectInv'
    BY <1>8 DEF ExecuteThrows, LetGo, Release
<1>9. ASSUME NEW o \in Ops, Get(o) PROVE ObjectInv'
    BY <1>9 DEF Get, LetGo, Release
<1>10. ASSUME NEW o \in Ops, Forget(o) PROVE ObjectInv'
    BY <1>10 DEF Forget, LetGo, Release
<1>11. ASSUME NEW c \in Conns, ReadResponse(c) PROVE ObjectInv'
    BY <1>11 DEF ReadResponse
<1>12. ASSUME NEW c \in Conns, ApplyTopology(c) PROVE ObjectInv'
    BY <1>12 DEF ApplyTopology
<1>13. ASSUME NEW c \in Conns, cleanupStaleConnections(c) PROVE ObjectInv'
    BY <1>13 DEF cleanupStaleConnections, Release, Stale
<1>14. ASSUME NEW c \in Conns, EndCallback(c) PROVE ObjectInv'
    BY <1>14 DEF EndCallback
<1>15. ASSUME NEW c \in Conns, Deliver(c) PROVE ObjectInv'
    BY <1>15 DEF Deliver
<1>16. ASSUME NEW c \in Conns, ReadThrows(c) PROVE ObjectInv'
    BY <1>16 DEF ReadThrows
<1>17. ASSUME NEW c \in Conns, ReadDrain(c) PROVE ObjectInv'
    BY <1>17 DEF ReadDrain, DropPending
<1>18. ASSUME NEW c \in Conns, CloseStop(c) PROVE ObjectInv'
    BY <1>18 DEF CloseStop
<1>19. ASSUME NEW c \in Conns, CloseJoin(c) PROVE ObjectInv'
    BY <1>19 DEF CloseJoin, DropPending, Joined
<1>20. ASSUME NEW c \in Conns, JoinsItself(c) PROVE ObjectInv'
    BY <1>20 DEF JoinsItself
<1>21. ASSUME NEW c \in Conns, PeerDrop(c) PROVE ObjectInv'
    BY <1>21 DEF PeerDrop
<1>22. CASE Disconnect
    BY <1>22 DEF Disconnect
<1>23. CASE DestroyPool
    BY <1>23 DEF DestroyPool, Release
<1>24. CASE DestroySeed
    BY <1>24 DEF DestroySeed, Release
<1>25. CASE ClusterChange
    BY <1>25 DEF ClusterChange
<1> QED
    BY <1>1, <1>2, <1>3, <1>4, <1>5, <1>6, <1>7, <1>8, <1>9, <1>10, <1>11, <1>12, <1>13, <1>14,
       <1>15, <1>16, <1>17, <1>18, <1>19, <1>20, <1>21, <1>22, <1>23, <1>24, <1>25
    DEF Next, Operation, readLoop, close, DestroyMembers

\* A connection that closes carries only requests whose futures were dropped.
LEMMA ClosingSpares ==
    ASSUME IInv, NEW c \in Conns, closer[c] # Nobody \/ stopReadLoop[c], NEW q \in pending[c]
    PROVE  opc[q.op] = "forgotten"
<1>1. Ending(c)
    BY DEF IInv, ObjectInv, Ending
<1>2. q.op \in Ops /\ Awaited(q.op, c)
    BY DEF IInv, TypeInv, RequestInv
<1>3. ~(opc[q.op] = "waiting" /\ held[q.op] = c)
    BY <1>1, <1>2 DEF IInv, RequestInv, Ending, InUse, Referenced
<1> QED
    BY <1>2, <1>3 DEF Awaited

\* The request that a read thread has in hand.
LEMMA InHand ==
    ASSUME IInv, NEW c \in Conns, rop[c] # Nobody
    PROVE  rop[c] \in Ops /\ Awaited(rop[c], c)
BY DEF IInv, TypeInv, RequestInv

\* What becomes of the requests when a connection has ended.
LEMMA DropStep ==
    ASSUME IInv, NEW c \in Conns, DropPending(c), UNCHANGED <<opc, held, rop>>,
           c \in up => closer[c] # Nobody \/ stopReadLoop[c]
    PROVE  /\ \A d \in Conns : \A q \in pending'[d] :
                 Awaited(q.op, d)' /\ \A b \in Conns : rop'[b] # q.op
           /\ \A d, b \in Conns : \A q \in pending'[d], r \in pending'[b] :
                 q.op = r.op => d = b /\ q = r
           /\ \A d \in Conns : rop'[d] # Nobody => Awaited(rop[d], d)'
           /\ \A o \in Ops : opc'[o] \in {"idle", "locked", "execute"} => outcome'[o] = "none"
           /\ EvictionSparesRequests'
<1> USE DEF IInv, TypeInv, RequestInv
<1>1. /\ \A d \in Conns : pending'[d] \subseteq pending[d] /\ (d = c => pending'[d] = {})
      /\ \A d \in Conns : \A q \in pending[d] : q.op \in Ops
    BY DEF DropPending
<1>2. \A o \in Ops : outcome'[o] = outcome[o] \/ \E q \in pending[c] : q.op = o
    BY DEF DropPending
<1>3. ASSUME NEW o \in Ops, NEW d \in Conns, Awaited(o, d), d # c \/ rop[d] = o
      PROVE  Awaited(o, d)'
  <2>1. CASE opc[o] = "forgotten"
    BY <2>1 DEF Awaited
  <2>2. CASE opc[o] = "waiting" /\ held[o] = d /\ outcome[o] = "none"
    <3>1. ~\E q \in pending[c] : q.op = o
      BY <1>3, <2>2 DEF Awaited
    <3> QED
      BY <1>2, <2>2, <3>1 DEF Awaited
  <2> QED
    BY <1>3, <2>1, <2>2 DEF Awaited
<1>4. \A o \in Ops : outcome'[o] = "closed" => opc'[o] = "forgotten"
  <2> SUFFICES ASSUME NEW o \in Ops, outcome'[o] = "closed" PROVE opc[o] = "forgotten"
    OBVIOUS
  <2>1. CASE outcome[o] = "closed"
    BY <2>1 DEF EvictionSparesRequests
  <2>2. CASE outcome[o] # "closed"
    <3>1. c \in up /\ \E q \in pending[c] : q.op = o
      BY <2>2 DEF DropPending
    <3> QED
      BY <3>1, ClosingSpares
  <2> QED
    BY <2>1, <2>2
<1>5. \A d \in Conns : \A q \in pending'[d] :
          Awaited(q.op, d)' /\ \A b \in Conns : rop'[b] # q.op
    BY <1>1, <1>3
<1>6. ASSUME NEW d \in Conns, rop'[d] # Nobody
      PROVE  Awaited(rop[d], d)'
  <2>1. PICK o \in Ops : o = rop[d] /\ o = rop'[d]
    BY <1>6
  <2>2. Awaited(o, d)'
    BY <1>3, <1>6, <2>1
  <2> QED
    BY <2>1, <2>2
<1>7. \A o \in Ops : opc'[o] \in {"idle", "locked", "execute"} => outcome'[o] = "none"
    BY <1>2 DEF Awaited
<1> QED
    BY <1>1, <1>4, <1>5, <1>6, <1>7 DEF EvictionSparesRequests

\* A request stays with its connection and with the future that waits for it.
LEMMA RequestStep ==
    ASSUME IInv, Next, TypeInv'
    PROVE  RequestInv'
<1> USE Constants DEF IInv, TypeInv, Threads, cacheVars, connVars, readVars, opVars, netVars,
                       RequestInv, EvictionSparesRequests, Awaited
<1>1. ASSUME NEW o \in Ops, Select(o) PROVE RequestInv'
  <2>1. /\ opc[o] = "idle" /\ cpc = "alive"
        /\ UNCHANGED <<pending, rop, rpc, outcome, cpc>>
        /\ \/ opc' = [opc EXCEPT ![o] = "execute"] /\ held' = [held EXCEPT ![o] = Seed]
           \/ opc' = [opc EXCEPT ![o] = "locked"] /\ held' = held
    BY <1>1 DEF Select
  <2>2. \A p \in Ops : p # o => opc'[p] = opc[p] /\ held'[p] = held[p]
    BY <2>1
  <2>3. ASSUME NEW d \in Conns
        PROVE  rop[d] # o /\ \A q \in pending[d] : q.op # o
    <3>1. ~Awaited(o, d)
      BY <2>1
    <3> HIDE DEF Awaited
    <3> QED
      BY <3>1
  <2>4. opc'[o] \in {"execute", "locked"} /\ (opc'[o] = "execute" <=> held'[o] # NoConn)
    BY <2>1
  <2>5. \A p \in Ops, d \in Conns : p # o => (Awaited(p, d)' <=> Awaited(p, d))
    BY <2>1, <2>2
  <2>6. /\ \A d \in Conns : \A q \in pending[d] : q.op \in Ops /\ Awaited(q.op, d)'
        /\ \A d \in Conns : rop[d] # Nobody => Awaited(rop[d], d)'
    <3> HIDE DEF Awaited
    <3>1. \A d \in Conns : \A q \in pending[d] : q.op \in Ops /\ Awaited(q.op, d)'
      BY <2>3, <2>5
    <3>2. ASSUME NEW d \in Conns, rop[d] # Nobody PROVE Awaited(rop[d], d)'
      <4>1. PICK p \in Ops : p = rop[d] /\ p = rop'[d] /\ p # o
        BY <2>1, <2>3, <3>2
      <4>2. Awaited(p, d)
        <5>1. rop[d] # Nobody
          BY <3>2
        <5>2. Awaited(rop[d], d)
          BY <5>1, InHand
        <5>3. p = rop[d]
          BY <4>1
        <5> QED
          BY <5>2, <5>3
      <4>3. Awaited(p, d)'
        BY <2>5, <4>1, <4>2
      <4> QED
        BY <4>1, <4>3
    <3> QED
      BY <3>1, <3>2
  <2>7. ASSUME NEW p \in Ops
        PROVE  /\ opc'[p] \in {"execute", "waiting"} <=> held'[p] # NoConn
               /\ opc'[p] \in {"idle", "locked", "execute"} => outcome'[p] = "none"
               /\ outcome'[p] = "closed" => opc'[p] = "forgotten"
    <3>1. CASE p = o
      BY <2>1, <2>4, <3>1
    <3>2. CASE p # o
      BY <2>1, <2>2, <3>2
    <3> QED
      BY <3>1, <3>2
  <2>8. EvictionSparesRequests'
    BY <2>7
  <2> HIDE DEF Awaited, EvictionSparesRequests
  <2> QED
    BY <2>1, <2>6, <2>7, <2>8
<1>2. ASSUME NEW o \in Ops, TakePooled(o) PROVE RequestInv'
    BY <1>2, CandidateServers DEF TakePooled, HandOut
<1>3. ASSUME NEW o \in Ops, RemoveDead(o) PROVE RequestInv'
    BY <1>3, CandidateServers DEF RemoveDead, Release
<1>4. ASSUME NEW o \in Ops, ConnectNew(o) PROVE RequestInv'
    BY <1>4, CandidateServers DEF ConnectNew, HandOut, ObjectInv, NoThreadWithoutObject
<1>5. ASSUME NEW o \in Ops, ConnectFails(o) PROVE RequestInv'
    BY <1>5 DEF ConnectFails
<1>6. ASSUME NEW o \in Ops, NoServers(o) PROVE RequestInv'
    BY <1>6 DEF NoServers
<1>7. ASSUME NEW o \in Ops, Execute(o) PROVE RequestInv'
    BY <1>7 DEF Execute
<1>8. ASSUME NEW o \in Ops, ExecuteThrows(o) PROVE RequestInv'
    BY <1>8 DEF ExecuteThrows, LetGo, Release
<1>9. ASSUME NEW o \in Ops, Get(o) PROVE RequestInv'
    BY <1>9 DEF Get, LetGo, Release
<1>10. ASSUME NEW o \in Ops, Forget(o) PROVE RequestInv'
    BY <1>10 DEF Forget, LetGo, Release
<1>11. ASSUME NEW c \in Conns, ReadResponse(c) PROVE RequestInv'
  <2>1. PICK q \in pending[c] : /\ pending' = [pending EXCEPT ![c] = @ \ {q}]
                                /\ rop' = [rop EXCEPT ![c] = q.op]
    BY <1>11 DEF ReadResponse
  <2>2. /\ rpc[c] = "receive" /\ rpc'[c] \in {"callback", "deliver"}
        /\ \A d \in Conns : d # c => rpc'[d] = rpc[d]
        /\ UNCHANGED <<opc, held, outcome, cpc>>
    BY <1>11 DEF ReadResponse
  <2>3. q.op \in Ops /\ Awaited(q.op, c)
    BY <2>1
  <2>4. \A d \in Conns : rop'[d] = IF d = c THEN q.op ELSE rop[d]
    BY <2>1
  <2>5. \A d \in Conns : pending'[d] \subseteq pending[d] /\ q \notin pending'[c]
    BY <2>1
  <2>6. ASSUME NEW d \in Conns, NEW r \in pending'[d]
        PROVE  r.op # q.op
    BY <2>1, <2>5
  <2>7. \A o \in Ops, d \in Conns : Awaited(o, d)' <=> Awaited(o, d)
    BY <2>2
  <2>8. ASSUME NEW d \in Conns, rop'[d] # Nobody PROVE Awaited(rop[d], d)'
    BY <2>3, <2>4, <2>7, <2>8
  <2>9. \A d \in Conns : \A r \in pending'[d] :
           Awaited(r.op, d)' /\ \A b \in Conns : rop'[b] # r.op
    BY <2>4, <2>5, <2>6, <2>7
  <2>10. \A d \in Conns : rpc'[d] \in {"callback", "evict", "deliver"} <=> rop'[d] # Nobody
    BY <2>2, <2>3, <2>4
  <2>11. \A d, b \in Conns : \A r \in pending'[d], t \in pending'[b] :
            r.op = t.op => d = b /\ r = t
    BY <2>5
  <2> QED
    BY <2>2, <2>8, <2>9, <2>10, <2>11
<1>12. ASSUME NEW c \in Conns, ApplyTopology(c) PROVE RequestInv'
    BY <1>12 DEF ApplyTopology
<1>13. ASSUME NEW c \in Conns, cleanupStaleConnections(c) PROVE RequestInv'
    BY <1>13 DEF cleanupStaleConnections, Release, Stale
<1>14. ASSUME NEW c \in Conns, EndCallback(c) PROVE RequestInv'
    BY <1>14 DEF EndCallback
<1>15. ASSUME NEW c \in Conns, Deliver(c) PROVE RequestInv'
    BY <1>15 DEF Deliver
<1>16. ASSUME NEW c \in Conns, ReadThrows(c) PROVE RequestInv'
    BY <1>16 DEF ReadThrows
<1>17. ASSUME NEW c \in Conns, ReadDrain(c) PROVE RequestInv'
  <2>1. DropPending(c) /\ UNCHANGED <<opc, held, rop>> /\ cpc' = cpc
    BY <1>17 DEF ReadDrain
  <2>2. c \in up => stopReadLoop[c]
    BY <1>17 DEF ReadDrain, ObjectInv
  <2>3. rpc[c] = "draining" /\ rpc' = [rpc EXCEPT ![c] = "done"]
    BY <1>17 DEF ReadDrain
  <2>4. /\ \A d \in Conns : rpc'[d] \in {"callback", "evict", "deliver"} <=> rop'[d] # Nobody
        /\ \A o \in Ops : opc'[o] \in {"execute", "waiting"} <=> held'[o] # NoConn
    BY <2>1, <2>3
  <2> HIDE DEF Awaited, EvictionSparesRequests
  <2> QED
    BY <2>1, <2>2, <2>4, DropStep
<1>18. ASSUME NEW c \in Conns, CloseStop(c) PROVE RequestInv'
    BY <1>18 DEF CloseStop
<1>19. ASSUME NEW c \in Conns, CloseJoin(c) PROVE RequestInv'
  <2>1. DropPending(c) /\ UNCHANGED <<opc, held, rop>> /\ cpc' = cpc /\ closer[c] # Nobody
    BY <1>19 DEF CloseJoin
  <2>2. rpc[c] \in {"none", "done"} /\ rpc' = [rpc EXCEPT ![c] = IF @ = "done" THEN "none" ELSE @]
    BY <1>19 DEF CloseJoin, Joined
  <2>3. /\ \A d \in Conns : rpc'[d] \in {"callback", "evict", "deliver"} <=> rop'[d] # Nobody
        /\ \A o \in Ops : opc'[o] \in {"execute", "waiting"} <=> held'[o] # NoConn
    BY <2>1, <2>2
  <2> HIDE DEF Awaited, EvictionSparesRequests
  <2> QED
    BY <2>1, <2>3, DropStep
<1>20. ASSUME NEW c \in Conns, JoinsItself(c) PROVE RequestInv'
    BY <1>20 DEF JoinsItself
<1>21. ASSUME NEW c \in Conns, PeerDrop(c) PROVE RequestInv'
    BY <1>21 DEF PeerDrop
<1>22. CASE Disconnect
    BY <1>22 DEF Disconnect, Ended
<1>23. CASE DestroyPool
    BY <1>23 DEF DestroyPool, Release
<1>24. CASE DestroySeed
    BY <1>24 DEF DestroySeed, Release
<1>25. CASE ClusterChange
    BY <1>25 DEF ClusterChange
<1> QED
    BY <1>1, <1>2, <1>3, <1>4, <1>5, <1>6, <1>7, <1>8, <1>9, <1>10, <1>11, <1>12, <1>13, <1>14,
       <1>15, <1>16, <1>17, <1>18, <1>19, <1>20, <1>21, <1>22, <1>23, <1>24, <1>25
    DEF Next, Operation, readLoop, close, DestroyMembers

\* The topology that is applied is the one its connection has stored.
LEMMA TopologyStep ==
    ASSUME IInv, Next, TypeInv'
    PROVE  TopologyInv'
<1> USE Constants DEF IInv, TypeInv, Threads, cacheVars, connVars, readVars, opVars, netVars,
                       TopologyInv, AppliedTopologyIsKnown
<1>1. ASSUME NEW o \in Ops, Select(o) PROVE TopologyInv'
    BY <1>1 DEF Select
<1>2. ASSUME NEW o \in Ops, TakePooled(o) PROVE TopologyInv'
    BY <1>2, CandidateServers DEF TakePooled, HandOut
<1>3. ASSUME NEW o \in Ops, RemoveDead(o) PROVE TopologyInv'
    BY <1>3, CandidateServers DEF RemoveDead, Release
<1>4. ASSUME NEW o \in Ops, ConnectNew(o) PROVE TopologyInv'
    BY <1>4, CandidateServers DEF ConnectNew, HandOut, ObjectInv, NoThreadWithoutObject
<1>5. ASSUME NEW o \in Ops, ConnectFails(o) PROVE TopologyInv'
    BY <1>5 DEF ConnectFails
<1>6. ASSUME NEW o \in Ops, NoServers(o) PROVE TopologyInv'
    BY <1>6 DEF NoServers
<1>7. ASSUME NEW o \in Ops, Execute(o) PROVE TopologyInv'
    BY <1>7 DEF Execute
<1>8. ASSUME NEW o \in Ops, ExecuteThrows(o) PROVE TopologyInv'
    BY <1>8 DEF ExecuteThrows, LetGo, Release
<1>9. ASSUME NEW o \in Ops, Get(o) PROVE TopologyInv'
    BY <1>9 DEF Get, LetGo, Release
<1>10. ASSUME NEW o \in Ops, Forget(o) PROVE TopologyInv'
    BY <1>10 DEF Forget, LetGo, Release
<1>11. ASSUME NEW c \in Conns, ReadResponse(c) PROVE TopologyInv'
    BY <1>11 DEF ReadResponse
<1>12. ASSUME NEW c \in Conns, ApplyTopology(c) PROVE TopologyInv'
    BY <1>12 DEF ApplyTopology
<1>13. ASSUME NEW c \in Conns, cleanupStaleConnections(c) PROVE TopologyInv'
    BY <1>13 DEF cleanupStaleConnections, Release, Stale
<1>14. ASSUME NEW c \in Conns, EndCallback(c) PROVE TopologyInv'
    BY <1>14 DEF EndCallback
<1>15. ASSUME NEW c \in Conns, Deliver(c) PROVE TopologyInv'
    BY <1>15 DEF Deliver
<1>16. ASSUME NEW c \in Conns, ReadThrows(c) PROVE TopologyInv'
    BY <1>16 DEF ReadThrows
<1>17. ASSUME NEW c \in Conns, ReadDrain(c) PROVE TopologyInv'
    BY <1>17 DEF ReadDrain, DropPending
<1>18. ASSUME NEW c \in Conns, CloseStop(c) PROVE TopologyInv'
    BY <1>18 DEF CloseStop
<1>19. ASSUME NEW c \in Conns, CloseJoin(c) PROVE TopologyInv'
    BY <1>19 DEF CloseJoin, DropPending, Joined
<1>20. ASSUME NEW c \in Conns, JoinsItself(c) PROVE TopologyInv'
    BY <1>20 DEF JoinsItself
<1>21. ASSUME NEW c \in Conns, PeerDrop(c) PROVE TopologyInv'
    BY <1>21 DEF PeerDrop
<1>22. CASE Disconnect
    BY <1>22 DEF Disconnect
<1>23. CASE DestroyPool
    BY <1>23 DEF DestroyPool, Release
<1>24. CASE DestroySeed
    BY <1>24 DEF DestroySeed, Release
<1>25. CASE ClusterChange
    BY <1>25 DEF ClusterChange
<1> QED
    BY <1>1, <1>2, <1>3, <1>4, <1>5, <1>6, <1>7, <1>8, <1>9, <1>10, <1>11, <1>12, <1>13, <1>14,
       <1>15, <1>16, <1>17, <1>18, <1>19, <1>20, <1>21, <1>22, <1>23, <1>24, <1>25
    DEF Next, Operation, readLoop, close, DestroyMembers

\* A read thread that still has somebody's request in hand is not the last to refer to
\* its connection.
LEMMA SelfStep ==
    ASSUME IInv, Next, TypeInv'
    PROVE  SelfInv'
<1> USE Constants DEF IInv, TypeInv, Threads, cacheVars, connVars, readVars, opVars, netVars,
                       SelfInv, Forgotten
<1>1. ASSUME NEW o \in Ops, Select(o) PROVE SelfInv'
    BY <1>1 DEF Select
<1>2. ASSUME NEW o \in Ops, TakePooled(o) PROVE SelfInv'
    BY <1>2, CandidateServers DEF TakePooled, HandOut
<1>3. ASSUME NEW o \in Ops, RemoveDead(o) PROVE SelfInv'
    BY <1>3, CandidateServers DEF RemoveDead, Release
<1>4. ASSUME NEW o \in Ops, ConnectNew(o) PROVE SelfInv'
    BY <1>4, CandidateServers DEF ConnectNew, HandOut
<1>5. ASSUME NEW o \in Ops, ConnectFails(o) PROVE SelfInv'
    BY <1>5 DEF ConnectFails
<1>6. ASSUME NEW o \in Ops, NoServers(o) PROVE SelfInv'
    BY <1>6 DEF NoServers
<1>7. ASSUME NEW o \in Ops, Execute(o) PROVE SelfInv'
    BY <1>7 DEF Execute
<1>8. ASSUME NEW o \in Ops, ExecuteThrows(o) PROVE SelfInv'
    BY <1>8 DEF ExecuteThrows, LetGo, Release
<1>9. ASSUME NEW o \in Ops, Get(o) PROVE SelfInv'
    BY <1>9 DEF Get, LetGo, Release
<1>10. ASSUME NEW o \in Ops, Forget(o) PROVE SelfInv'
    BY <1>10 DEF Forget, LetGo, Release
<1>11. ASSUME NEW c \in Conns, ReadResponse(c) PROVE SelfInv'
    BY <1>11 DEF ReadResponse
<1>12. ASSUME NEW c \in Conns, ApplyTopology(c) PROVE SelfInv'
    BY <1>12 DEF ApplyTopology
<1>13. ASSUME NEW c \in Conns, cleanupStaleConnections(c) PROVE SelfInv'
  <2>1. PICK s \in Servers : /\ pool' = [pool EXCEPT ![s] = NoConn] /\ UNCHANGED <<held, cacheVars>>
                             /\ Release(c, pool[s]) /\ pool[s] \in Conns
    BY <1>13 DEF cleanupStaleConnections, Stale
  <2>2. rop[c] \in Ops /\ Awaited(rop[c], c) /\ UNCHANGED <<opc, dead>>
    BY <1>13 DEF cleanupStaleConnections, RequestInv
  <2>3. CASE opc[rop[c]] = "forgotten"
    BY <2>2, <2>3
  <2>4. CASE held[rop[c]] = c
    <3>1. Referenced(c, pool', held', seedOwned')
      BY <2>1, <2>2, <2>4 DEF Referenced
    <3>2. closer'[c] = closer[c] /\ \A d \in Conns : closer'[d] \in {closer[d], c}
      BY <2>1, <3>1 DEF Release
    <3> QED
      BY <2>2, <3>2
  <2> QED
    BY <2>2, <2>3, <2>4 DEF Awaited
<1>14. ASSUME NEW c \in Conns, EndCallback(c) PROVE SelfInv'
    BY <1>14 DEF EndCallback
<1>15. ASSUME NEW c \in Conns, Deliver(c) PROVE SelfInv'
    BY <1>15 DEF Deliver
<1>16. ASSUME NEW c \in Conns, ReadThrows(c) PROVE SelfInv'
    BY <1>16 DEF ReadThrows
<1>17. ASSUME NEW c \in Conns, ReadDrain(c) PROVE SelfInv'
    BY <1>17 DEF ReadDrain, DropPending
<1>18. ASSUME NEW c \in Conns, CloseStop(c) PROVE SelfInv'
    BY <1>18 DEF CloseStop
<1>19. ASSUME NEW c \in Conns, CloseJoin(c) PROVE SelfInv'
    BY <1>19 DEF CloseJoin, DropPending, Joined
<1>20. ASSUME NEW c \in Conns, JoinsItself(c) PROVE SelfInv'
    BY <1>20 DEF JoinsItself
<1>21. ASSUME NEW c \in Conns, PeerDrop(c) PROVE SelfInv'
    BY <1>21 DEF PeerDrop
<1>22. CASE Disconnect
    BY <1>22 DEF Disconnect
<1>23. CASE DestroyPool
    BY <1>23 DEF DestroyPool, Release
<1>24. CASE DestroySeed
    BY <1>24 DEF DestroySeed, Release
<1>25. CASE ClusterChange
    BY <1>25 DEF ClusterChange
<1> QED
    BY <1>1, <1>2, <1>3, <1>4, <1>5, <1>6, <1>7, <1>8, <1>9, <1>10, <1>11, <1>12, <1>13, <1>14,
       <1>15, <1>16, <1>17, <1>18, <1>19, <1>20, <1>21, <1>22, <1>23, <1>24, <1>25
    DEF Next, Operation, readLoop, close, DestroyMembers

-----------------------------------------------------------------------------
(* The invariant *)

LEMMA InitInv == Init => IInv
<1> SUFFICES ASSUME Init PROVE IInv
    OBVIOUS
<1> USE Constants DEF Init
<1>1. TypeInv
    BY DEF TypeInv, Threads
<1>2. ObjectInv
    BY DEF ObjectInv, NoThreadWithoutObject, InUse, Ending, Referenced
<1>3. RequestInv
    BY DEF RequestInv, EvictionSparesRequests
<1>4. TopologyInv
    BY DEF TopologyInv, AppliedTopologyIsKnown
<1>5. SelfInv
    BY DEF SelfInv
<1> QED
    BY <1>1, <1>2, <1>3, <1>4, <1>5 DEF IInv

LEMMA StutterStep ==
    ASSUME IInv, UNCHANGED vars
    PROVE  IInv'
<1> USE DEF IInv, vars, cacheVars, connVars, readVars, opVars, netVars
<1>1. TypeInv'
    BY DEF TypeInv
<1>2. ObjectInv'
    BY DEF ObjectInv, NoThreadWithoutObject, InUse, Ending, Referenced
<1>3. RequestInv'
    BY DEF RequestInv, EvictionSparesRequests, Awaited
<1>4. TopologyInv'
    BY DEF TopologyInv, AppliedTopologyIsKnown
<1>5. SelfInv'
    BY DEF SelfInv, Forgotten
<1> QED
    BY <1>1, <1>2, <1>3, <1>4, <1>5

LEMMA Invariance == Spec => []IInv
<1>1. IInv /\ [Next]_vars => IInv'
  <2> SUFFICES ASSUME IInv, [Next]_vars PROVE IInv'
    OBVIOUS
  <2>1. CASE Next
    BY <2>1, TypeStep, ObjectStep, RequestStep, TopologyStep, SelfStep DEF IInv
  <2> QED
    BY <2>1, StutterStep
<1> QED
    BY <1>1, InitInv, PTL DEF Spec

-----------------------------------------------------------------------------
(* What the pool guarantees *)

\* "a connection handed to an in-flight operation stays alive even if a concurrent
\* topology update evicts it from the pool" (RemoteCache.h:476-478): no topology
\* update, reconnect or destructor, on whatever thread, fails a request whose future
\* is kept.
THEOREM RequestsSpared == Spec => []EvictionSparesRequests
<1>1. IInv => EvictionSparesRequests
    BY DEF IInv, RequestInv
<1> QED
    BY <1>1, Invariance, PTL

\* ~MultiplexedConnection() joins the read thread on every path (close() in
\* MultiplexedConnection.cpp): none outlives its connection, though connections are
\* created, evicted and destroyed on any thread and connected_ may be false already.
THEOREM ThreadsJoined == Spec => []NoThreadWithoutObject
<1>1. IInv => NoThreadWithoutObject
    BY DEF IInv, ObjectInv
<1> QED
    BY <1>1, Invariance, PTL

\* handleTopologyUpdate() leaves in topology_ the topology whose id the connection
\* that brought it sends with its next request, in whatever order the updates of
\* several connections are applied.
THEOREM TopologyKnown == Spec => []AppliedTopologyIsKnown
<1>1. IInv => AppliedTopologyIsKnown
    BY DEF IInv, TopologyInv
<1> QED
    BY <1>1, Invariance, PTL

\* Once ~RemoteCache() runs, no read thread is in handleTopologyUpdate() of the cache
\* that goes, unless a caller dropped a future: a thread in the callback has a request
\* in hand, somebody waits for it, and the cache is destroyed when nobody does.
THEOREM TeardownUndisturbed == Spec => []NoUpdateDuringTeardown
<1>1. ASSUME IInv PROVE NoUpdateDuringTeardown
  <2> SUFFICES ASSUME cpc # "alive", ~Forgotten, NEW c \in Conns,
                      rpc[c] \in {"callback", "evict"}
               PROVE  FALSE
    BY DEF NoUpdateDuringTeardown
  <2>1. rop[c] # Nobody
    BY <1>1 DEF IInv, RequestInv
  <2>2. rop[c] \in Ops /\ Awaited(rop[c], c)
    BY <1>1, <2>1, InHand
  <2> QED
    BY <1>1, <2>2 DEF IInv, RequestInv, Awaited, Forgotten
<1> QED
    BY <1>1, Invariance, PTL

\* The cycle of waiting that the locks could form (docs/DECISIONS.md:394-398): a
\* connection is joined, by a thread that may hold stateMutex_, while its read thread
\* waits for stateMutex_ in the callback; or a read thread joins itself.
NoCycle ==
    ~Forgotten =>
        /\ dead = "no"
        /\ \A c \in Conns : closer[c] # Nobody => closer[c] # c /\ rpc[c] # "callback"

\* With every future kept until get(), no thread joins a connection whose read thread
\* is on its way into handleTopologyUpdate(), and none joins itself: the read thread
\* has the request of a future in hand, which refers to the connection, so that it is
\* nobody's to destroy (cleanupStaleConnections(), getOrCreateConnection()).
THEOREM NoCycleIfKept == Spec => []NoCycle
<1>1. ASSUME IInv PROVE NoCycle
  <2> SUFFICES ASSUME ~Forgotten
               PROVE  /\ dead = "no"
                      /\ \A c \in Conns : closer[c] # Nobody =>
                            closer[c] # c /\ rpc[c] # "callback"
    BY DEF NoCycle
  <2>1. dead = "no" /\ \A c \in Conns : closer[c] # c
    BY <1>1 DEF IInv, SelfInv
  <2>2. ASSUME NEW c \in Conns, closer[c] # Nobody, rpc[c] = "callback"
        PROVE  FALSE
    <3>1. rop[c] # Nobody
      BY <1>1, <2>2 DEF IInv, RequestInv
    <3>2. rop[c] \in Ops /\ Awaited(rop[c], c)
      BY <1>1, <3>1, InHand
    <3>3. opc[rop[c]] = "waiting" /\ held[rop[c]] = c
      BY <3>2 DEF Awaited, Forgotten
    <3>4. InUse(c) /\ cpc = "alive"
      BY <1>1, <3>2, <3>3 DEF IInv, RequestInv, InUse, Referenced
    <3> QED
      BY <1>1, <2>2, <3>4 DEF IInv, ObjectInv, Ending
  <2> QED
    BY <2>1, <2>2
<1> QED
    BY <1>1, Invariance, PTL
===============================================================================
