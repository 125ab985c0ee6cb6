----------------------------- MODULE RemoteCache -----------------------------
(***************************************************************************)
(* Routing, the connection pool and user-decided retry                     *)
(* (src/src/operations/RemoteCache.cpp, src/include/hotrod/RetryView.h).   *)
(*                                                                         *)
(* Each member of Ops is one operation a caller performs with the retry    *)
(* loop of RetryContext.h and examples/quickstart/retry.cpp: call, catch   *)
(* HotRodClientException, give up or call again with excludeNodes set to   *)
(* the triedNodes of the exception.  All keyed operations use one key.     *)
(*                                                                         *)
(* A connection is its server and a condition: "live"; "broken", the       *)
(* transport is gone and the read loop has not noticed, so isConnected()   *)
(* still holds; "dead", it has.  stateMutex_ guards topology_, the         *)
(* consistent hash and the pool, and is held while a candidate connects.   *)
(***************************************************************************)
EXTENDS ServerSelection, FiniteSets

CONSTANTS
    Ops,              \* the operations
    KeyedOps,         \* the ones that have a key; the others are pings
    Idempotent,       \* the ones their caller replays when the outcome is uncertain
    Servers, Seed,    \* the addresses, and the one the cache was built with
    NoOp, NoServer,
    Views,            \* the topologies servers send: [servers, owners], node lists
    Intelligence,     \* "BASIC", "TOPOLOGY_AWARE" or "HASH_DISTRIBUTION_AWARE"
    ProxyToNonOwner,  \* proxyToNonOwner_
    MaxAttempts,      \* attempts of the retry loop
    MaxFailures       \* bound: how often a server stops

ASSUME RoutingAssumption ==
    /\ KeyedOps \subseteq Ops /\ Idempotent \subseteq Ops /\ NoOp \notin Ops
    /\ Seed \in Servers /\ NoServer \notin Servers
    /\ Views \subseteq [servers : Seq(Servers), owners : Seq(Servers)]
    /\ \A v \in Views : Range(v.owners) \subseteq Range(v.servers)
    /\ Intelligence \in {"BASIC", "TOPOLOGY_AWARE", "HASH_DISTRIBUTION_AWARE"}
    /\ ProxyToNonOwner \in BOOLEAN
    /\ MaxAttempts \in Nat \ {0} /\ MaxFailures \in Nat

VARIABLES
    stateMutex,   \* the operation that holds stateMutex_, or NoOp
    topology,     \* topology_: the server list
    keyOwners,    \* consistentHash_: the owners of the key
    pool,         \* connectionPool_
    seedConn,     \* connection_
    opc,          \* where each operation stands
    attempts,     \* how often it was called
    exclude,      \* ctx.excludeNodes
    cands,        \* the candidates not yet tried
    tried,        \* the nodes this attempt has tried
    target, link, \* the connection the attempt uses: its server, its condition
    error,        \* the exception it threw
    up, failures, \* the servers that run, how many have stopped so far (external)
    applied       \* how often the servers executed the operation (external)

cacheVars == <<stateMutex, topology, keyOwners, pool, seedConn>>
callVars  == <<opc, attempts, exclude, cands, tried, target, link, error>>
vars == <<cacheVars, callVars, up, failures, applied>>

NoError == [phase |-> "none", status |-> "none", tried |-> <<>>,
            ownersExhausted |-> FALSE]
Failure(phase, status, nodes, exhausted) ==
    [phase |-> phase, status |-> status, tried |-> nodes,
     ownersExhausted |-> exhausted]

\* After RemoteCache::connect(): the seed is connected, nothing is known yet.
Init ==
    /\ stateMutex = NoOp
    /\ topology = <<>> /\ keyOwners = <<>>
    /\ pool = [s \in Servers |-> "none"]
    /\ seedConn = "live"
    /\ opc = [o \in Ops |-> "ready"]
    /\ attempts = [o \in Ops |-> 0]
    /\ exclude = [o \in Ops |-> <<>>]
    /\ cands = [o \in Ops |-> <<>>]
    /\ tried = [o \in Ops |-> <<>>]
    /\ target = [o \in Ops |-> NoServer]
    /\ link = [o \in Ops |-> "none"]
    /\ error = [o \in Ops |-> NoError]
    /\ up = Servers /\ failures = 0
    /\ applied = [o \in Ops |-> 0]

-----------------------------------------------------------------------------
(* Server selection: selectServerForKey(), selectAnyServer() and            *)
(* getConnectionForServer()                                                 *)

RoutesByKey(o) ==
    o \in KeyedOps /\ Intelligence = "HASH_DISTRIBUTION_AWARE" /\ keyOwners # <<>>

Candidates(o) ==
    IF o \in KeyedOps
    THEN orderKeyCandidates(keyOwners, topology, exclude[o], ProxyToNonOwner)
    ELSE orderKeyCandidates(<<>>, topology, exclude[o], TRUE)

\* The default connection, whatever ctx excludes: a key without a hash
\* topology, a ping without a topology.
UsesSeed(o) == IF o \in KeyedOps THEN ~RoutesByKey(o) ELSE topology = <<>>

\* One attempt begins.
BeginAttempt(o) ==
    /\ opc[o] = "ready"
    /\ attempts' = [attempts EXCEPT ![o] = @ + 1]
    /\ tried' = [tried EXCEPT ![o] = <<>>]
    /\ error' = [error EXCEPT ![o] = NoError]
    /\ opc' = [opc EXCEPT ![o] = "select"]
    /\ UNCHANGED <<cacheVars, exclude, cands, target, link, up, failures, applied>>

\* Mutant: the default connection does not say where it leads.
Bug_SeedWithoutAddress(o) ==
    /\ opc[o] = "select" /\ stateMutex = NoOp
    /\ UsesSeed(o)
    /\ link' = [link EXCEPT ![o] = seedConn]
    /\ opc' = [opc EXCEPT ![o] = "execute"]
    /\ UNCHANGED <<cacheVars, attempts, exclude, cands, tried, target, error,
                   up, failures, applied>>

SelectSeed(o) ==
    /\ opc[o] = "select" /\ stateMutex = NoOp
    /\ UsesSeed(o)
    /\ target' = [target EXCEPT ![o] = Seed]
    /\ link' = [link EXCEPT ![o] = seedConn]
    /\ opc' = [opc EXCEPT ![o] = "execute"]
    /\ UNCHANGED <<cacheVars, attempts, exclude, cands, tried, error, up, failures, applied>>

SelectCandidates(o) ==
    /\ opc[o] = "select" /\ stateMutex = NoOp
    /\ ~UsesSeed(o)
    /\ stateMutex' = o
    /\ cands' = [cands EXCEPT ![o] = Candidates(o)]
    /\ opc' = [opc EXCEPT ![o] = "acquire"]
    /\ UNCHANGED <<topology, keyOwners, pool, seedConn, attempts, exclude,
                   tried, target, link, error, up, failures, applied>>

\* getConnectionForServer(c): the pooled connection while it looks connected;
\* otherwise a new one, which replaces a dead one.
Acquired(c) == pool[c] \in {"live", "broken"} \/ c \in up

\* Mutant: stateMutex_ is released while a candidate connects.
Bug_ConnectUnlocked(o) ==
    LET c == Head(cands[o]) IN
    /\ opc[o] = "acquire" /\ cands[o] # <<>>
    /\ tried' = [tried EXCEPT ![o] = Append(@, c)]
    /\ stateMutex' = NoOp
    /\ IF Acquired(c)
       THEN /\ pool' = [pool EXCEPT ![c] = IF @ = "broken" THEN "broken" ELSE "live"]
            /\ target' = [target EXCEPT ![o] = c]
            /\ link' = [link EXCEPT ![o] = pool'[c]]
            /\ opc' = [opc EXCEPT ![o] = "execute"]
            /\ cands' = [cands EXCEPT ![o] = <<>>]
       ELSE /\ pool' = [pool EXCEPT ![c] = "none"]
            /\ cands' = [cands EXCEPT ![o] = Tail(@)]
            /\ UNCHANGED <<target, link, opc>>
    /\ UNCHANGED <<topology, keyOwners, seedConn, attempts, exclude, error, up, failures, applied>>

TryCandidate(o) ==
    LET c == Head(cands[o]) IN
    /\ opc[o] = "acquire" /\ cands[o] # <<>>
    /\ tried' = [tried EXCEPT ![o] = Append(@, c)]
    /\ IF Acquired(c)
       THEN /\ pool' = [pool EXCEPT ![c] = IF @ = "broken" THEN "broken" ELSE "live"]
            /\ target' = [target EXCEPT ![o] = c]
            /\ link' = [link EXCEPT ![o] = pool'[c]]
            /\ opc' = [opc EXCEPT ![o] = "execute"]
            /\ stateMutex' = NoOp
            /\ cands' = [cands EXCEPT ![o] = <<>>]
       ELSE /\ pool' = [pool EXCEPT ![c] = "none"]
            /\ cands' = [cands EXCEPT ![o] = Tail(@)]
            /\ UNCHANGED <<target, link, opc, stateMutex>>
    /\ UNCHANGED <<topology, keyOwners, seedConn, attempts, exclude, error, up, failures, applied>>

\* Mutant: only the nodes of this attempt count.
Bug_ExhaustedByTried(o) == o \in KeyedOps /\ Range(keyOwners) \subseteq Range(tried[o])

\* Every owner was tried now, or excluded because it was tried before.
ownersExhausted(o) ==
    o \in KeyedOps /\ Range(keyOwners) \subseteq Range(tried[o]) \cup Range(exclude[o])

\* The attempt is over: its connection is let go.
Release(o) ==
    /\ target' = [target EXCEPT ![o] = NoServer]
    /\ link' = [link EXCEPT ![o] = "none"]

Throw(o, e) ==
    /\ error' = [error EXCEPT ![o] = e]
    /\ opc' = [opc EXCEPT ![o] = "caught"]
    /\ Release(o)

\* "No servers available in topology"
NoServers(o) ==
    /\ opc[o] = "acquire" /\ cands[o] = <<>>
    /\ Throw(o, Failure("BeforeSend", "none", unionNodes(exclude[o], tried[o]),
                        ownersExhausted(o)))
    /\ stateMutex' = NoOp
    /\ UNCHANGED <<topology, keyOwners, pool, seedConn, attempts, exclude, cands,
                   tried, up, failures, applied>>

-----------------------------------------------------------------------------
(* The request on the connection                                            *)

\* execute() returns a future.  On a broken transport the bytes are lost.
Send(o) ==
    /\ opc[o] = "execute" /\ link[o] \in {"live", "broken"}
    /\ opc' = [opc EXCEPT ![o] = "await"]
    /\ UNCHANGED <<cacheVars, attempts, exclude, cands, tried, target, link, error,
                   up, failures, applied>>

\* execute() itself throws, "Not connected" or "Send failed".  The operation
\* does not catch it: its triedNodes is the connection's own address.
SendThrows(o) ==
    /\ opc[o] = "execute"
    /\ \/ /\ link[o] = "dead"
          /\ Throw(o, Failure("BeforeSend", "none", <<target[o]>>, FALSE))
       \/ /\ link[o] = "broken"
          /\ Throw(o, Failure("AfterSend", "none", <<target[o]>>, FALSE))
    /\ UNCHANGED <<cacheVars, attempts, exclude, cands, tried, up, failures, applied>>

\* rethrowWithTriedNodes(): the exception of a response, its triedNodes united
\* with the nodes of this attempt and of the ones before.
Rethrow(o, phase, status) ==
    Throw(o, Failure(phase, status,
                     unionNodes(unionNodes(exclude[o], tried[o]), <<target[o]>>), FALSE))

ServerApplies(o) ==
    /\ opc[o] = "await" /\ link[o] = "live"
    /\ applied' = [applied EXCEPT ![o] = @ + 1]
    /\ opc' = [opc EXCEPT ![o] = "applied"]
    /\ UNCHANGED <<cacheVars, attempts, exclude, cands, tried, target, link, error, up, failures>>

Succeed(o) ==
    /\ opc[o] = "applied" /\ link[o] = "live"
    /\ opc' = [opc EXCEPT ![o] = "done"]
    /\ Release(o)
    /\ UNCHANGED <<cacheVars, attempts, exclude, cands, tried, error, up, failures, applied>>

\* The statuses a server may send of a request that it has executed (external): 0x86,
\* and the request-level ones.  A node that is suspected or not running, 0x87 and
\* 0x88, has not executed it.
AfterExecuting == {"permanent", "timeout"}

Answerable(o) == opc[o] \in {"await", "applied"} /\ link[o] = "live"

\* An ERROR response, before the operation is executed or after it.
ServerFails(o) ==
    /\ Answerable(o)
    /\ \E st \in {"permanent", "suspected", "timeout"} :
          /\ opc[o] = "applied" => st \in AfterExecuting
          /\ Rethrow(o, "ServerError", st)
    /\ UNCHANGED <<cacheVars, attempts, exclude, cands, tried, up, failures, applied>>

\* The response of the operation with a status it does not expect.  The operation
\* itself throws: the connection's address is not among its triedNodes.
UnexpectedStatus(o) ==
    /\ Answerable(o)
    /\ \E st \in {"permanent", "suspected", "timeout"} :
          /\ opc[o] = "applied" => st \in AfterExecuting
          /\ Throw(o, Failure("ServerError", st, unionNodes(exclude[o], tried[o]), FALSE))
    /\ UNCHANGED <<cacheVars, attempts, exclude, cands, tried, up, failures, applied>>

\* The response of another operation: a ServerError without a status, executed or not.
OpcodeMismatch(o) ==
    /\ Answerable(o)
    /\ Rethrow(o, "ServerError", "none")
    /\ UNCHANGED <<cacheVars, attempts, exclude, cands, tried, up, failures, applied>>

\* The connection is lost before the response: closeAllPending().
ConnectionLost(o) ==
    /\ opc[o] \in {"await", "applied"} /\ link[o] = "dead"
    /\ Rethrow(o, "AfterSend", "none")
    /\ UNCHANGED <<cacheVars, attempts, exclude, cands, tried, up, failures, applied>>

\* The connection is lost inside the response body: the future carries the
\* std::runtime_error of receive(), which the retry loop does not catch.
BodyCut(o) ==
    /\ opc[o] = "applied" /\ link[o] = "broken"
    /\ opc' = [opc EXCEPT ![o] = "untyped"]
    /\ Release(o)
    /\ UNCHANGED <<cacheVars, attempts, exclude, cands, tried, error, up, failures, applied>>

-----------------------------------------------------------------------------
(* The caller's retry loop                                                  *)

\* Mutant: the caller retries whatever is transient.
Bug_ReplayAnything(o) ==
    isTransient(error[o]) /\ attempts[o] < MaxAttempts

WorthRetrying(o) ==
    /\ isTransient(error[o])
    /\ outcomeUncertain(error[o]) => o \in Idempotent
    /\ attempts[o] < MaxAttempts

Retry(o) ==
    /\ opc[o] = "caught" /\ WorthRetrying(o)
    /\ exclude' = [exclude EXCEPT ![o] = error[o].tried]
    /\ opc' = [opc EXCEPT ![o] = "ready"]
    /\ UNCHANGED <<cacheVars, attempts, cands, tried, target, link, error, up, failures, applied>>

GiveUp(o) ==
    /\ opc[o] = "caught" /\ ~WorthRetrying(o)
    /\ opc' = [opc EXCEPT ![o] = "failed"]
    /\ UNCHANGED <<cacheVars, attempts, exclude, cands, tried, target, link, error,
                   up, failures, applied>>

Perform(o) ==
    \/ BeginAttempt(o) \/ SelectSeed(o) \/ SelectCandidates(o)
    \/ TryCandidate(o) \/ NoServers(o) \/ Send(o) \/ SendThrows(o)
    \/ ServerApplies(o) \/ Succeed(o) \/ ServerFails(o) \/ UnexpectedStatus(o)
    \/ OpcodeMismatch(o) \/ ConnectionLost(o) \/ BodyCut(o) \/ Retry(o) \/ GiveUp(o)

-----------------------------------------------------------------------------
(* Topology and failures                                                    *)

cleanupStaleConnections(servers) ==
    [s \in Servers |-> IF s \in Range(servers) THEN pool[s] ELSE "none"]

\* A response on a live connection brings a topology; the read thread takes
\* stateMutex_.  Views are applied as they come, older ones included.
handleTopologyUpdate ==
    /\ Intelligence # "BASIC"
    /\ stateMutex = NoOp
    /\ \E o \in Ops : opc[o] \in {"await", "applied"} /\ link[o] = "live"
    /\ \E v \in Views :
          /\ topology' = v.servers
          /\ keyOwners' = IF Intelligence = "HASH_DISTRIBUTION_AWARE"
                          THEN v.owners ELSE keyOwners
          /\ pool' = cleanupStaleConnections(v.servers)
    /\ UNCHANGED <<stateMutex, seedConn, callVars, up, failures, applied>>

\* A server stops (external): every connection to it breaks.
Break(condition) == IF condition = "live" THEN "broken" ELSE condition
ServerDown(s) ==
    /\ s \in up /\ failures < MaxFailures
    /\ up' = up \ {s}
    /\ failures' = failures + 1
    /\ pool' = [pool EXCEPT ![s] = Break(@)]
    /\ seedConn' = IF s = Seed THEN Break(seedConn) ELSE seedConn
    /\ link' = [o \in Ops |-> IF target[o] = s THEN Break(link[o]) ELSE link[o]]
    /\ UNCHANGED <<stateMutex, topology, keyOwners, opc, attempts, exclude, cands,
                   tried, target, error, applied>>

ServerUp(s) ==
    /\ s \notin up
    /\ up' = up \cup {s}
    /\ UNCHANGED <<cacheVars, callVars, failures, applied>>

\* The read loops of the connections to s notice: connected_ = false.
Notice(condition) == IF condition = "broken" THEN "dead" ELSE condition
ReadLoopError(s) ==
    /\ \/ pool[s] = "broken"
       \/ s = Seed /\ seedConn = "broken"
       \/ \E o \in Ops : target[o] = s /\ link[o] = "broken"
    /\ pool' = [pool EXCEPT ![s] = Notice(@)]
    /\ seedConn' = IF s = Seed THEN Notice(seedConn) ELSE seedConn
    /\ link' = [o \in Ops |-> IF target[o] = s THEN Notice(link[o]) ELSE link[o]]
    /\ UNCHANGED <<stateMutex, topology, keyOwners, opc, attempts, exclude, cands,
                   tried, target, error, up, failures, applied>>

Next ==
    \/ \E o \in Ops : Perform(o)
    \/ handleTopologyUpdate
    \/ \E s \in Servers : ServerDown(s) \/ ServerUp(s) \/ ReadLoopError(s)

Spec == Init /\ [][Next]_vars

-----------------------------------------------------------------------------
(* Safety *)

\* Every variable has its type (RemoteCache.h, HotRodClientException.h).
TypeOK ==
    /\ stateMutex \in Ops \cup {NoOp}
    /\ Range(topology) \subseteq Servers /\ Range(keyOwners) \subseteq Servers
    /\ pool \in [Servers -> {"none", "live", "broken", "dead"}]
    /\ seedConn \in {"live", "broken", "dead"}
    /\ opc \in [Ops -> {"ready", "select", "acquire", "execute", "await", "applied",
                        "caught", "done", "failed", "untyped"}]
    /\ target \in [Ops -> Servers \cup {NoServer}]
    /\ link \in [Ops -> {"none", "live", "broken", "dead"}]
    /\ \A o \in Ops :
          /\ error[o].phase \in {"none", "BeforeSend", "AfterSend", "ServerError"}
          /\ error[o].status \in {"none", "permanent", "suspected", "timeout"}
          /\ Range(error[o].tried) \cup Range(exclude[o]) \cup Range(tried[o])
                \subseteq Servers
    /\ up \subseteq Servers
    /\ applied \in [Ops -> Nat] /\ attempts \in [Ops -> Nat]

\* The pool holds connections to servers of the current topology only, however
\* topology updates on the read threads and selections on the callers' threads
\* interleave (stateMutex_, cleanupStaleConnections()).
PoolWithinTopology ==
    \A s \in Servers : pool[s] # "none" => s \in Range(topology)

\* An operation that is not replayed when its outcome is uncertain is executed
\* by the servers at most once: phase and status tell the caller enough.
AppliedAtMostOnce ==
    \A o \in Ops \ Idempotent : applied[o] <= 1

\* A failure that calls for another attempt and is not uncertain (isTransient(),
\* outcomeUncertain()) means that no server has executed the operation, over all its
\* attempts together: the caller may replay it.  Failures that are not transient are
\* left out: an opcode mismatch or a permanent error may follow the execution.
SafeToReplay(e) == isTransient(e) /\ ~outcomeUncertain(e)
ReplayIsSafe ==
    \A o \in Ops \ Idempotent :
        opc[o] \in {"caught", "failed"} /\ SafeToReplay(error[o]) => applied[o] = 0

\* Routing by key: a connection is never taken to an excluded node, and to a
\* node that does not own the key only when proxying is on and every owner was
\* excluded or found unreachable.
Routed(o) == opc[o] = "acquire" /\ opc'[o] = "execute"
RoutingRespectsOwners ==
    [][\A o \in Ops : Routed(o) =>
          /\ target'[o] \notin Range(exclude[o])
          /\ o \in KeyedOps /\ target'[o] \notin Range(keyOwners) =>
                /\ ProxyToNonOwner
                /\ Range(keyOwners) \subseteq Range(exclude[o]) \cup Range(tried'[o])]_vars

\* "all owners of the key are in triedNodes" (HotRodClientException.h:56): when no
\* server is left, ownersExhausted says just that of the list the exception carries,
\* for the topology the selection was made on and whichever attempt tried the owners.
OwnersExhaustedIsTrue ==
    [][\A o \in Ops :
          opc[o] = "acquire" /\ opc'[o] = "caught" =>
              (error'[o].ownersExhausted <=>
                  o \in KeyedOps /\ Range(keyOwners) \subseteq Range(error'[o].tried))]_vars

\* "triedNodes is the union of the context's excludeNodes and the nodes this
\* attempt touched" (RemoteCache.h:447-449).
TriedNodesUnion ==
    \A o \in Ops : opc[o] = "caught" =>
        Range(exclude[o]) \cup Range(tried[o]) \subseteq Range(error[o].tried)
==============================================================================
