--------------------------- MODULE ConnectionPool ---------------------------
(***************************************************************************)
(* Who keeps a pooled connection alive, and which thread ends it           *)
(* (src/src/operations/RemoteCache.cpp, MultiplexedConnection.cpp).        *)
(*                                                                         *)
(* A MultiplexedConnection is owned by shared_ptrs: the pool's, the        *)
(* cache's (connection_), and one in every future that an operation has    *)
(* returned.  Whoever drops the last one runs the destructor, which joins  *)
(* the read thread.  That may be a caller, the thread that destroys the    *)
(* cache, or the read thread of another connection: topology updates run   *)
(* on read threads, and evict connections with stateMutex_ held.           *)
(*                                                                         *)
(* A connection's own steps are those of MultiplexedConnection, taken      *)
(* together where no other thread can tell: execute() is one step here.    *)
(* An operation is a thread of its own.  Candidates come in any order,     *)
(* for every order is that of some key.                                    *)
(***************************************************************************)
EXTENDS Naturals, Sequences, FiniteSets

CONSTANTS
    Ops,               \* the operations, each called once
    Conns, Seed,       \* the connection objects, each with its read thread; connection_
    Servers,           \* the addresses
    SeedServer,        \* the address the cache was built with
    Owner,             \* the thread that destroys the cache
    Nobody, NoConn, NoServer,
    View,              \* the servers of each topology, by topology id
    MaxDrops           \* bound: how many connections break

ASSUME PoolAssumption ==
    /\ Seed \in Conns /\ NoConn \notin Conns
    /\ SeedServer \in Servers /\ NoServer \notin Servers
    /\ Ops \cap Conns = {} /\ Owner \notin Ops \cup Conns
    /\ Nobody \notin Ops \cup Conns \cup {Owner}
    /\ View \in Seq(SUBSET Servers \ {{}}) /\ View # <<>>
    /\ MaxDrops \in Nat

Threads == Ops \cup Conns \cup {Owner}

VARIABLES
    \* the cache
    stateMutex,    \* the thread that holds stateMutex_
    topologyId,    \* topology_ and consistentHash_, by topology id; 0 is none
    applier,       \* history: the connection that brought it, while that lives
    pool,          \* connectionPool_
    seedOwned,     \* connection_ still holds its reference
    cpc,           \* where ~RemoteCache() stands
    \* the connections
    server,        \* where a connection leads; NoServer: no such object
    connected, stopReadLoop, known,    \* connected_, stopReadLoop_, topologyId_
    pending,       \* the requests it carries: [op, topo], topo being the id it sent
    closer,        \* the thread that runs its close()
    rpc, rtopo, rop,    \* its read thread: where it is, the update and request in hand
    \* the operations
    opc, held,     \* where each stands, the connection it refers to
    tried, target, \* the candidates that failed, the one being replaced
    outcome,       \* what its promise was set to
    \* the rest of the world
    clusterId, up, drops,    \* the cluster's topology; connections whose peer is there
    dead           \* the process was killed

cacheVars == <<topologyId, applier, seedOwned, cpc>>
connVars  == <<connected, stopReadLoop, known, pending>>
readVars  == <<rpc, rtopo, rop>>
opVars    == <<opc, tried, target>>
netVars   == <<clusterId, up, drops>>
vars == <<stateMutex, pool, held, server, closer, outcome, dead,
          cacheVars, connVars, readVars, opVars, netVars>>

\* After RemoteCache::connect() the seed is connected and nothing else is known; after
\* a first ping it has brought the first topology.
Init ==
    /\ stateMutex = Nobody
    /\ topologyId \in {0, 1}
    /\ applier = IF topologyId = 0 THEN NoConn ELSE Seed
    /\ pool = [s \in Servers |-> NoConn]
    /\ seedOwned = TRUE /\ cpc = "alive" /\ dead = "no"
    /\ server = [c \in Conns |-> IF c = Seed THEN SeedServer ELSE NoServer]
    /\ connected = [c \in Conns |-> c = Seed]
    /\ stopReadLoop = [c \in Conns |-> FALSE]
    /\ known = [c \in Conns |-> IF c = Seed THEN topologyId ELSE 0]
    /\ pending = [c \in Conns |-> {}]
    /\ closer = [c \in Conns |-> Nobody]
    /\ rpc = [c \in Conns |-> IF c = Seed THEN "receive" ELSE "none"]
    /\ rtopo = [c \in Conns |-> 0] /\ rop = [c \in Conns |-> Nobody]
    /\ opc = [o \in Ops |-> "idle"]
    /\ held = [o \in Ops |-> NoConn]
    /\ tried = [o \in Ops |-> {}] /\ target = [o \in Ops |-> NoServer]
    /\ outcome = [o \in Ops |-> "none"]
    /\ clusterId = 1 /\ up = {Seed} /\ drops = 0

-----------------------------------------------------------------------------
(* References and close() *)

\* Somebody holds a shared_ptr to c.
Referenced(c, inPool, inFutures, inCache) ==
    \/ \E s \in Servers : inPool[s] = c
    \/ \E o \in Ops : inFutures[o] = c
    \/ c = Seed /\ inCache

\* Thread x lets go of c, after pool, held and seedOwned have their new values:
\* with the last reference goes the object, and x runs its destructor.
Release(x, c) ==
    closer' = IF Referenced(c, pool', held', seedOwned') THEN closer
              ELSE [closer EXCEPT ![c] = x]

\* A thread inside close() does nothing else.
Closing(x) == \E c \in Conns : closer[c] = x
Runs(x) == dead = "no" /\ ~Closing(x)

\* stopReadLoop_ = true and Connection::shutdown()
CloseStop(c) ==
    /\ dead = "no" /\ closer[c] # Nobody /\ ~stopReadLoop[c]
    /\ stopReadLoop' = [stopReadLoop EXCEPT ![c] = TRUE]
    /\ UNCHANGED <<stateMutex, pool, held, server, closer, outcome, dead, cacheVars,
                   connected, known, pending, readVars, opVars, netVars>>

\* closeAllPending(): futures still open learn that the connection was lost, or
\* that this end closed it.
DropPending(c) ==
    /\ outcome' = [o \in Ops |->
           IF \E q \in pending[c] : q.op = o
           THEN IF c \in up THEN "closed" ELSE "lost"
           ELSE outcome[o]]
    /\ pending' = [pending EXCEPT ![c] = {}]

\* Mutant: a connection that has noticed its end is not joined.
Bug_JoinIfConnected(c) == connected[c] => rpc[c] \in {"none", "done"}

\* join() has nothing to wait for.
Joined(c) == rpc[c] \in {"none", "done"}

\* The rest of close(): join, close the socket, fail what is pending.  In a
\* destructor the object goes too.
CloseJoin(c) ==
    /\ dead = "no" /\ closer[c] \notin {Nobody, c} /\ stopReadLoop[c]
    /\ Joined(c)
    /\ DropPending(c)
    /\ connected' = [connected EXCEPT ![c] = FALSE]
    /\ rpc' = [rpc EXCEPT ![c] = IF @ = "done" THEN "none" ELSE @]
    /\ closer' = [closer EXCEPT ![c] = Nobody]
    /\ IF Referenced(c, pool, held, seedOwned)
       THEN UNCHANGED <<server, stopReadLoop, known, applier>>
       ELSE /\ server' = [server EXCEPT ![c] = NoServer]
            /\ stopReadLoop' = [stopReadLoop EXCEPT ![c] = FALSE]
            /\ known' = [known EXCEPT ![c] = 0]
            /\ applier' = IF applier = c THEN NoConn ELSE applier
    /\ up' = up \ {c}
    /\ UNCHANGED <<stateMutex, pool, held, dead, topologyId, seedOwned, cpc, rtopo,
                   rop, opVars, clusterId, drops>>

\* A read thread that destroys its own connection: join() throws, out of a
\* destructor, and std::terminate() ends the process.
JoinsItself(c) ==
    /\ dead = "no" /\ closer[c] = c /\ stopReadLoop[c]
    /\ dead' = "terminate"
    /\ UNCHANGED <<stateMutex, pool, held, server, closer, outcome, cacheVars,
                   connVars, readVars, opVars, netVars>>

-----------------------------------------------------------------------------
(* An operation, on its caller's thread *)

\* selectServerForKey(), selectAnyServer(): without a topology the seed serves.
Select(o) ==
    /\ Runs(o) /\ opc[o] = "idle" /\ cpc = "alive" /\ stateMutex = Nobody
    /\ IF topologyId = 0
       THEN /\ held' = [held EXCEPT ![o] = Seed]
            /\ opc' = [opc EXCEPT ![o] = "execute"]
            /\ UNCHANGED stateMutex
       ELSE /\ stateMutex' = o
            /\ opc' = [opc EXCEPT ![o] = "locked"]
            /\ UNCHANGED held
    /\ UNCHANGED <<pool, server, closer, outcome, dead, cacheVars, connVars, readVars,
                   tried, target, netVars>>

\* The candidates left; one whose dead connection was removed is tried next.
Candidates(o) ==
    IF target[o] # NoServer THEN {target[o]} ELSE View[topologyId] \ tried[o]

\* The connection is handed to the operation, and the lock released.
HandOut(o, c) ==
    /\ held' = [held EXCEPT ![o] = c]
    /\ opc' = [opc EXCEPT ![o] = "execute"]
    /\ target' = [target EXCEPT ![o] = NoServer]
    /\ tried' = [tried EXCEPT ![o] = {}]
    /\ stateMutex' = Nobody

TakePooled(o) ==
    /\ Runs(o) /\ opc[o] = "locked"
    /\ \E s \in Candidates(o) :
          /\ pool[s] # NoConn /\ connected[pool[s]]
          /\ HandOut(o, pool[s])
    /\ UNCHANGED <<pool, server, closer, outcome, dead, cacheVars, connVars, readVars,
                   netVars>>

\* "Connection is dead, remove it and create a new one"
RemoveDead(o) ==
    /\ Runs(o) /\ opc[o] = "locked"
    /\ \E s \in Candidates(o) :
          /\ pool[s] # NoConn /\ ~connected[pool[s]]
          /\ pool' = [pool EXCEPT ![s] = NoConn]
          /\ target' = [target EXCEPT ![o] = s]
          /\ UNCHANGED <<held, cacheVars>>
          /\ Release(o, pool[s])
    /\ UNCHANGED <<stateMutex, server, outcome, dead, connVars, readVars,
                   opc, tried, netVars>>

\* A new connection, with the lock held while it connects.
ConnectNew(o) ==
    /\ Runs(o) /\ opc[o] = "locked"
    /\ \E s \in Candidates(o), c \in Conns :
          /\ pool[s] = NoConn
          /\ server[c] = NoServer /\ c = CHOOSE d \in Conns : server[d] = NoServer
          /\ server' = [server EXCEPT ![c] = s]
          /\ connected' = [connected EXCEPT ![c] = TRUE]
          /\ rpc' = [rpc EXCEPT ![c] = "receive"]
          /\ up' = up \cup {c}
          /\ pool' = [pool EXCEPT ![s] = c]
          /\ HandOut(o, c)
    /\ UNCHANGED <<closer, outcome, dead, cacheVars, stopReadLoop, known, pending,
                   rtopo, rop, clusterId, drops>>

\* connect() throws: on to the next candidate.
ConnectFails(o) ==
    /\ Runs(o) /\ opc[o] = "locked"
    /\ \E s \in Candidates(o) :
          /\ pool[s] = NoConn
          /\ tried' = [tried EXCEPT ![o] = @ \cup {s}]
    /\ target' = [target EXCEPT ![o] = NoServer]
    /\ UNCHANGED <<stateMutex, pool, held, server, closer, outcome, dead, cacheVars,
                   connVars, readVars, opc, netVars>>

NoServers(o) ==
    /\ Runs(o) /\ opc[o] = "locked" /\ Candidates(o) = {}
    /\ stateMutex' = Nobody
    /\ opc' = [opc EXCEPT ![o] = "done"]
    /\ tried' = [tried EXCEPT ![o] = {}]
    /\ UNCHANGED <<pool, held, server, closer, outcome, dead, cacheVars, connVars,
                   readVars, target, netVars>>

\* execute(): the request is registered and sent with the topology id its
\* connection knows.
Execute(o) ==
    LET c == held[o] IN
    /\ Runs(o) /\ opc[o] = "execute" /\ connected[c]
    /\ pending' = [pending EXCEPT ![c] = @ \cup {[op |-> o, topo |-> known[c]]}]
    /\ opc' = [opc EXCEPT ![o] = "waiting"]
    /\ UNCHANGED <<stateMutex, pool, held, server, closer, outcome, dead, cacheVars,
                   connected, stopReadLoop, known, readVars, tried, target, netVars>>

\* The operation's reference goes.
LetGo(o, place) ==
    /\ held' = [held EXCEPT ![o] = NoConn]
    /\ opc' = [opc EXCEPT ![o] = place]
    /\ UNCHANGED <<pool, cacheVars>>
    /\ Release(o, held[o])
    /\ UNCHANGED <<stateMutex, server, outcome, dead, connVars, readVars, tried,
                   target, netVars>>

\* execute() throws "Not connected"; get() returns or throws; or the caller does not
\* keep the future at all ("fire-and-forget for max throughput").
ExecuteThrows(o) ==
    /\ Runs(o) /\ opc[o] = "execute" /\ ~connected[held[o]]
    /\ LetGo(o, "done")
Get(o) ==
    /\ Runs(o) /\ opc[o] = "waiting" /\ outcome[o] # "none"
    /\ LetGo(o, "done")
Forget(o) ==
    /\ Runs(o) /\ opc[o] = "waiting" /\ outcome[o] = "none"
    /\ LetGo(o, "forgotten")

-----------------------------------------------------------------------------
(* A connection's read thread *)

\* Mutant: the promise is satisfied before the callback runs.
Bug_DeliverFirst(c) ==
    /\ Runs(c) /\ rpc[c] = "receive" /\ c \in up
    /\ \E q \in pending[c] :
          /\ pending' = [pending EXCEPT ![c] = @ \ {q}]
          /\ rop' = [rop EXCEPT ![c] = q.op]
          /\ outcome' = [outcome EXCEPT ![q.op] = "answered"]
          /\ IF q.topo # clusterId
             THEN /\ known' = [known EXCEPT ![c] = clusterId]
                  /\ rtopo' = [rtopo EXCEPT ![c] = clusterId]
                  /\ rpc' = [rpc EXCEPT ![c] = "callback"]
             ELSE /\ rpc' = [rpc EXCEPT ![c] = "deliver"]
                  /\ UNCHANGED <<known, rtopo>>
    /\ UNCHANGED <<stateMutex, pool, held, server, closer, dead, cacheVars,
                   connected, stopReadLoop, opVars, netVars>>

\* A response: topologyId_ is stored if it brings a topology, the pending entry is
\* taken, and the callback comes before the promise.
ReadResponse(c) ==
    /\ Runs(c) /\ rpc[c] = "receive" /\ c \in up
    /\ \E q \in pending[c] :
          /\ pending' = [pending EXCEPT ![c] = @ \ {q}]
          /\ rop' = [rop EXCEPT ![c] = q.op]
          /\ IF q.topo # clusterId
             THEN /\ known' = [known EXCEPT ![c] = clusterId]
                  /\ rtopo' = [rtopo EXCEPT ![c] = clusterId]
                  /\ rpc' = [rpc EXCEPT ![c] = "callback"]
             ELSE /\ rpc' = [rpc EXCEPT ![c] = "deliver"]
                  /\ UNCHANGED <<known, rtopo>>
    /\ UNCHANGED <<stateMutex, pool, held, server, closer, outcome, dead, cacheVars,
                   connected, stopReadLoop, opVars, netVars>>

\* Mutant: the first topology stays.
Bug_FirstTopologyStays(c) ==
    /\ Runs(c) /\ rpc[c] = "callback" /\ stateMutex = Nobody
    /\ stateMutex' = c /\ applier' = c
    /\ topologyId' = IF topologyId = 0 THEN rtopo[c] ELSE topologyId
    /\ rpc' = [rpc EXCEPT ![c] = "evict"]
    /\ UNCHANGED <<pool, held, server, closer, outcome, dead, seedOwned, cpc, connVars,
                   rtopo, rop, opVars, netVars>>

\* handleTopologyUpdate(): any topology replaces the one before.
ApplyTopology(c) ==
    /\ Runs(c) /\ rpc[c] = "callback" /\ stateMutex = Nobody
    /\ stateMutex' = c /\ topologyId' = rtopo[c] /\ applier' = c
    /\ rpc' = [rpc EXCEPT ![c] = "evict"]
    /\ UNCHANGED <<pool, held, server, closer, outcome, dead, seedOwned, cpc, connVars,
                   rtopo, rop, opVars, netVars>>

\* Pooled connections to servers that have left.
Stale == {s \in Servers : pool[s] # NoConn /\ s \notin View[topologyId]}

\* Mutant: an evicted connection is closed, whoever still uses it.
Bug_EvictCloses(c) ==
    /\ Runs(c) /\ rpc[c] = "evict"
    /\ \E s \in Stale :
          /\ pool' = [pool EXCEPT ![s] = NoConn]
          /\ closer' = [closer EXCEPT ![pool[s]] = c]
    /\ UNCHANGED <<stateMutex, held, server, outcome, dead, cacheVars, connVars,
                   readVars, opVars, netVars>>

\* One erase() of cleanupStaleConnections(), with stateMutex_ held.
cleanupStaleConnections(c) ==
    /\ Runs(c) /\ rpc[c] = "evict"
    /\ \E s \in Stale :
          /\ pool' = [pool EXCEPT ![s] = NoConn]
          /\ UNCHANGED <<held, cacheVars>>
          /\ Release(c, pool[s])
    /\ UNCHANGED <<stateMutex, server, outcome, dead, connVars, readVars, opVars, netVars>>

EndCallback(c) ==
    /\ Runs(c) /\ rpc[c] = "evict" /\ Stale = {}
    /\ stateMutex' = Nobody
    /\ rpc' = [rpc EXCEPT ![c] = "deliver"]
    /\ UNCHANGED <<pool, held, server, closer, outcome, dead, cacheVars, connVars,
                   rtopo, rop, opVars, netVars>>

\* promise.set_value(), and the test at the head of the loop.
Deliver(c) ==
    /\ Runs(c) /\ rpc[c] = "deliver"
    /\ outcome' = [outcome EXCEPT ![rop[c]] = "answered"]
    /\ rpc' = [rpc EXCEPT ![c] = IF stopReadLoop[c] THEN "done" ELSE "receive"]
    /\ rop' = [rop EXCEPT ![c] = Nobody]
    /\ rtopo' = [rtopo EXCEPT ![c] = 0]
    /\ UNCHANGED <<stateMutex, pool, held, server, closer, dead, cacheVars, connVars,
                   opVars, netVars>>

\* Mutant: close() does not interrupt a blocked receive().
Bug_NotInterrupted(c) ==
    /\ Runs(c) /\ rpc[c] = "receive" /\ c \notin up
    /\ connected' = [connected EXCEPT ![c] = @ /\ stopReadLoop[c]]
    /\ rpc' = [rpc EXCEPT ![c] = "draining"]
    /\ UNCHANGED <<stateMutex, pool, held, server, closer, outcome, dead, cacheVars,
                   stopReadLoop, known, pending, rtopo, rop, opVars, netVars>>

\* receive() throws: the peer is gone, or close() has shut the socket down.
ReadThrows(c) ==
    /\ Runs(c) /\ rpc[c] = "receive" /\ (c \notin up \/ stopReadLoop[c])
    /\ connected' = [connected EXCEPT ![c] = @ /\ stopReadLoop[c]]
    /\ rpc' = [rpc EXCEPT ![c] = "draining"]
    /\ UNCHANGED <<stateMutex, pool, held, server, closer, outcome, dead, cacheVars,
                   stopReadLoop, known, pending, rtopo, rop, opVars, netVars>>

ReadDrain(c) ==
    /\ Runs(c) /\ rpc[c] = "draining"
    /\ DropPending(c)
    /\ rpc' = [rpc EXCEPT ![c] = "done"]
    /\ UNCHANGED <<stateMutex, pool, held, server, closer, dead, cacheVars, connected,
                   stopReadLoop, known, rtopo, rop, opVars, netVars>>

-----------------------------------------------------------------------------
(* ~RemoteCache(), once every call has returned *)

Ended(o) == opc[o] \in {"idle", "done", "forgotten"} /\ ~Closing(o)

\* disconnect(), if the seed is connected
Disconnect ==
    /\ Runs(Owner) /\ cpc = "alive" /\ \A o \in Ops : Ended(o)
    /\ closer' = IF connected[Seed] THEN [closer EXCEPT ![Seed] = Owner] ELSE closer
    /\ cpc' = "members"
    /\ UNCHANGED <<stateMutex, pool, held, server, outcome, dead, topologyId, applier,
                   seedOwned, connVars, readVars, opVars, netVars>>

\* The members go, the pool first, one connection after the other ...
DestroyPool ==
    /\ Runs(Owner) /\ cpc = "members"
    /\ \E s \in Servers :
          /\ pool[s] # NoConn
          /\ pool' = [pool EXCEPT ![s] = NoConn]
          /\ UNCHANGED <<held, cacheVars>>
          /\ Release(Owner, pool[s])
    /\ UNCHANGED <<stateMutex, server, outcome, dead, connVars, readVars, opVars, netVars>>

\* ... and connection_ last.
DestroySeed ==
    /\ Runs(Owner) /\ cpc = "members" /\ \A s \in Servers : pool[s] = NoConn
    /\ seedOwned' = FALSE /\ cpc' = "gone"
    /\ UNCHANGED <<pool, held, topologyId, applier>>
    /\ Release(Owner, Seed)
    /\ UNCHANGED <<stateMutex, server, outcome, dead, connVars, readVars, opVars, netVars>>

-----------------------------------------------------------------------------
(* The cluster (external) *)

PeerDrop(c) ==
    /\ dead = "no" /\ c \in up /\ drops < MaxDrops
    /\ up' = up \ {c} /\ drops' = drops + 1
    /\ UNCHANGED <<stateMutex, pool, held, server, closer, outcome, dead, cacheVars,
                   connVars, readVars, opVars, clusterId>>

ClusterChange ==
    /\ dead = "no" /\ clusterId < Len(View)
    /\ clusterId' = clusterId + 1
    /\ UNCHANGED <<stateMutex, pool, held, server, closer, outcome, dead, cacheVars,
                   connVars, readVars, opVars, up, drops>>

-----------------------------------------------------------------------------
Operation(o) ==
    \/ Select(o) \/ TakePooled(o) \/ RemoveDead(o) \/ ConnectNew(o) \/ ConnectFails(o)
    \/ NoServers(o) \/ Execute(o) \/ ExecuteThrows(o) \/ Get(o)

readLoop(c) ==
    \/ ReadResponse(c) \/ ApplyTopology(c) \/ cleanupStaleConnections(c)
    \/ EndCallback(c) \/ Deliver(c) \/ ReadThrows(c) \/ ReadDrain(c)

close(c) == CloseStop(c) \/ CloseJoin(c) \/ JoinsItself(c)

DestroyMembers == DestroyPool \/ DestroySeed

Next ==
    \/ \E o \in Ops : Operation(o) \/ Forget(o)
    \/ \E c \in Conns : readLoop(c) \/ close(c) \/ PeerDrop(c)
    \/ Disconnect \/ DestroyMembers
    \/ ClusterChange

Spec == Init /\ [][Next]_vars

\* Threads that can run do, and a server that is there answers.  Nobody is obliged to
\* call an operation, to drop a future or to destroy the cache.
Fairness ==
    /\ \A o \in Ops : WF_vars(opc[o] # "idle" /\ Operation(o))
    /\ \A c \in Conns : WF_vars(readLoop(c)) /\ WF_vars(close(c))
    /\ WF_vars(DestroyMembers)
FairSpec == Spec /\ Fairness

-----------------------------------------------------------------------------
(* Safety *)

\* Some caller has dropped a future without get().
Forgotten == \E o \in Ops : opc[o] = "forgotten"

\* "a connection handed to an in-flight operation stays alive even if a concurrent
\* topology update evicts it from the pool" (RemoteCache.h:476-478): a request whose
\* future is kept fails because its peer went away, never because this client closed
\* its connection.
EvictionSparesRequests ==
    \A o \in Ops : outcome[o] = "closed" => opc[o] = "forgotten"

\* A destructor leaves no thread behind: a read thread runs only while its
\* connection exists, though the destructor may run on any thread and the read loop
\* may be ending by itself ("ALWAYS join, even if connected_ is already false").
NoThreadWithoutObject ==
    \A c \in Conns : rpc[c] # "none" => server[c] # NoServer

\* topology_ holds the topology that the connection which brought it tells the server
\* it knows.  So however late and out of order updates were applied, a stale
\* topology is replaced with the next answer on that connection.
AppliedTopologyIsKnown ==
    applier # NoConn /\ rpc[applier] # "callback" => topologyId = known[applier]

\* Callers that take the results of their calls may destroy the cache: no read thread
\* is then inside handleTopologyUpdate() or on its way to it.
NoUpdateDuringTeardown ==
    cpc # "alive" /\ ~Forgotten =>
        \A c \in Conns : rpc[c] \notin {"callback", "evict"}

-----------------------------------------------------------------------------
(* Liveness *)

\* "There is thus no cycle with selectServerForKey" (docs/DECISIONS.md:394-398): a
\* thread that takes stateMutex_ gives it back.
MutexReleased ==
    stateMutex # Nobody ~> (stateMutex = Nobody \/ dead # "no")

\* The same, as long as every caller keeps its future until get(): connections are
\* joined under stateMutex_, but then never one whose read thread waits for it.
MutexReleasedIfKept ==
    stateMutex # Nobody ~> (stateMutex = Nobody \/ Forgotten)

\* The destructor of the cache ends, with every connection gone.
TeardownEnds ==
    cpc # "alive" ~> ((\A c \in Conns : server[c] = NoServer) \/ Forgotten)
==============================================================================
