-------------------------- MODULE RemoteCacheProofs --------------------------
(***************************************************************************)
(* What RemoteCache guarantees for any number of operations, servers,      *)
(* attempts and failures and any set of topologies: where requests are     *)
(* sent, what the pool holds, what an exception says and how often an      *)
(* operation is executed.                                                  *)
(***************************************************************************)
EXTENDS RemoteCache, ServerSelectionProofs

-----------------------------------------------------------------------------
(* The inductive invariant *)

Errors ==
    [phase : {"none", "BeforeSend", "AfterSend", "ServerError"},
     status : {"none", "permanent", "suspected", "timeout"},
     tried : Seq(Servers), ownersExhausted : BOOLEAN]

Conditions == {"none", "live", "broken", "dead"}

Places == {"ready", "select", "acquire", "execute", "await", "applied",
           "caught", "done", "failed", "untyped"}

\* TypeOK, and the node lists are sequences.  An attempt past its selection has a
\* server.
TypeInv ==
    /\ stateMutex \in Ops \cup {NoOp}
    /\ topology \in Seq(Servers) /\ keyOwners \in Seq(Servers)
    /\ pool \in [Servers -> Conditions]
    /\ seedConn \in {"live", "broken", "dead"}
    /\ opc \in [Ops -> Places]
    /\ attempts \in [Ops -> Nat] /\ applied \in [Ops -> Nat]
    /\ exclude \in [Ops -> Seq(Servers)]
    /\ cands \in [Ops -> Seq(Servers)]
    /\ tried \in [Ops -> Seq(Servers)]
    /\ target \in [Ops -> Servers \cup {NoServer}]
    /\ link \in [Ops -> Conditions]
    /\ error \in [Ops -> Errors]
    /\ up \subseteq Servers
    /\ \A o \in Ops : opc[o] \in {"execute", "await", "applied"} => target[o] \in Servers

\* Nothing but owners is before an owner.
OwnersLead(list) ==
    \A i, j \in DOMAIN list :
        i < j /\ list[j] \in Range(keyOwners) => list[i] \in Range(keyOwners)

\* What holds while o tries its candidates, with stateMutex_ held: they are servers
\* of the current topology and not excluded; owners come first, and one that is
\* neither excluded nor tried is still to come.
Selected(o) ==
    /\ Range(cands[o]) \subseteq Range(topology) \ Range(exclude[o])
    /\ o \in KeyedOps =>
          /\ OwnersLead(cands[o])
          /\ Range(keyOwners) \subseteq Range(exclude[o]) \cup Range(tried[o]) \cup Range(cands[o])
          /\ ~ProxyToNonOwner => Range(cands[o]) \subseteq Range(keyOwners)

\* The lock is held by the operation that selects, and what it selects from is the
\* topology as it is.
RouteInv ==
    /\ \A o \in Ops : opc[o] = "acquire" <=> stateMutex = o
    /\ Range(keyOwners) \subseteq Range(topology)
    /\ Intelligence # "HASH_DISTRIBUTION_AWARE" => keyOwners = <<>>
    /\ \A o \in Ops : opc[o] = "acquire" => Selected(o)

\* An operation that its caller does not replay in doubt has not been applied, unless
\* it has got so far that nobody sends it again.
OnceInv ==
    \A o \in Ops \ Idempotent :
        /\ applied[o] <= 1
        /\ opc[o] \in {"ready", "select", "acquire", "execute", "await"} => applied[o] = 0
        /\ opc[o] \in {"caught", "failed"} /\ SafeToReplay(error[o]) => applied[o] = 0

\* The inductive invariant of RemoteCache.
IInv == TypeInv /\ RouteInv /\ PoolWithinTopology /\ OnceInv

-----------------------------------------------------------------------------
(* Type correctness *)

\* A call of unionNodes() or orderKeyCandidates() returns a list of servers.
LEMMA ListTypes ==
    /\ \A a, b \in Seq(Servers) : unionNodes(a, b) \in Seq(Servers)
    /\ TypeInv => \A o \in Ops : Candidates(o) \in Seq(Servers)
<1>1. ASSUME NEW a \in Seq(Servers), NEW b \in Seq(Servers)
      PROVE  unionNodes(a, b) \in Seq(Servers)
    BY UnionSet
<1>2. ASSUME TypeInv, NEW o \in Ops
      PROVE  Candidates(o) \in Seq(Servers)
  <2>1. /\ keyOwners \in Seq(Servers) /\ topology \in Seq(Servers) /\ <<>> \in Seq(Servers)
        /\ ProxyToNonOwner \in BOOLEAN /\ TRUE \in BOOLEAN
    BY <1>2, RoutingAssumption DEF TypeInv
  <2>2. orderKeyCandidates(keyOwners, topology, exclude[o], ProxyToNonOwner) \in Seq(Servers)
    BY <2>1, CandidateSet
  <2>3. orderKeyCandidates(<<>>, topology, exclude[o], TRUE) \in Seq(Servers)
    BY <2>1, CandidateSet
  <2> QED
    BY <2>2, <2>3 DEF Candidates
<1> QED
    BY <1>1, <1>2

\* Throwing keeps the types, if the exception lists servers.
LEMMA ThrowType ==
    ASSUME TypeInv, NEW o \in Ops, NEW e \in Errors, Throw(o, e),
           UNCHANGED <<topology, keyOwners, pool, seedConn, attempts, exclude, cands,
                       tried, up, applied>>,
           stateMutex' \in Ops \cup {NoOp}
    PROVE  TypeInv'
<1>1. /\ error' \in [Ops -> Errors]
      /\ target' \in [Ops -> Servers \cup {NoServer}]
      /\ link' \in [Ops -> Conditions]
      /\ opc' \in [Ops -> Places]
    BY DEF TypeInv, Throw, Release, Places, Conditions
<1>2. \A p \in Ops : opc'[p] \in {"execute", "await", "applied"} => target'[p] \in Servers
    BY DEF TypeInv, Throw, Release
<1> QED
    BY <1>1, <1>2 DEF TypeInv

\* What an operation throws is an exception.
LEMMA FailureType ==
    ASSUME NEW phase \in {"none", "BeforeSend", "AfterSend", "ServerError"},
           NEW status \in {"none", "permanent", "suspected", "timeout"},
           NEW nodes \in Seq(Servers), NEW exhausted \in BOOLEAN
    PROVE  Failure(phase, status, nodes, exhausted) \in Errors
BY DEF Failure, Errors

\* An operation keeps the types.
LEMMA PerformType ==
    ASSUME TypeInv, NEW o \in Ops, Perform(o)
    PROVE  TypeInv'
<1>1. CASE BeginAttempt(o)
  <2>1. NoError \in Errors
    BY DEF NoError, Errors
  <2>2. /\ attempts' \in [Ops -> Nat] /\ opc' \in [Ops -> Places]
        /\ tried' \in [Ops -> Seq(Servers)] /\ error' \in [Ops -> Errors]
    BY <1>1, <2>1 DEF BeginAttempt, TypeInv, Places
  <2> QED
    BY <1>1, <2>2 DEF BeginAttempt, TypeInv, cacheVars
<1>2. CASE SelectSeed(o)
    BY <1>2, RoutingAssumption DEF SelectSeed, TypeInv, cacheVars, Places, Conditions
<1>3. CASE SelectCandidates(o)
    BY <1>3, ListTypes DEF SelectCandidates, TypeInv, Places
<1>4. CASE TryCandidate(o)
  <2> DEFINE c == Head(cands[o])
  <2>1. c \in Servers /\ Tail(cands[o]) \in Seq(Servers) /\ Append(tried[o], c) \in Seq(Servers)
    BY <1>4 DEF TryCandidate, TypeInv
  <2>2. tried' \in [Ops -> Seq(Servers)]
    BY <1>4, <2>1 DEF TryCandidate, TypeInv
  <2>3. CASE Acquired(c)
    <3>1. /\ pool' = [pool EXCEPT ![c] = IF @ = "broken" THEN "broken" ELSE "live"]
          /\ target' = [target EXCEPT ![o] = c]
          /\ link' = [link EXCEPT ![o] = pool'[c]]
          /\ opc' = [opc EXCEPT ![o] = "execute"]
          /\ stateMutex' = NoOp
          /\ cands' = [cands EXCEPT ![o] = <<>>]
      BY <1>4, <2>3 DEF TryCandidate
    <3> HIDE DEF c
    <3>2. pool' \in [Servers -> Conditions]
      BY <3>1 DEF TypeInv, Conditions
    <3>3. /\ link' \in [Ops -> Conditions] /\ cands' \in [Ops -> Seq(Servers)]
          /\ opc' \in [Ops -> Places] /\ target' \in [Ops -> Servers \cup {NoServer}]
          /\ \A p \in Ops : opc'[p] \in {"execute", "await", "applied"} => target'[p] \in Servers
      BY <2>1, <3>1, <3>2 DEF TypeInv, Places
    <3> QED
      BY <1>4, <2>2, <3>1, <3>2, <3>3 DEF TryCandidate, TypeInv
  <2>4. CASE ~Acquired(c)
    <3>1. /\ pool' = [pool EXCEPT ![c] = "none"]
          /\ cands' = [cands EXCEPT ![o] = Tail(@)]
          /\ UNCHANGED <<target, link, opc, stateMutex>>
      BY <1>4, <2>4 DEF TryCandidate
    <3> HIDE DEF c
    <3>2. pool' \in [Servers -> Conditions] /\ cands' \in [Ops -> Seq(Servers)]
      BY <2>1, <3>1 DEF TypeInv, Conditions
    <3> QED
      BY <1>4, <2>2, <3>1, <3>2 DEF TryCandidate, TypeInv
  <2> QED
    BY <2>3, <2>4
<1>5. CASE NoServers(o)
  <2>1. ownersExhausted(o) \in BOOLEAN
    BY DEF ownersExhausted
  <2>2. unionNodes(exclude[o], tried[o]) \in Seq(Servers)
    BY ListTypes DEF TypeInv
  <2>3. Failure("BeforeSend", "none", unionNodes(exclude[o], tried[o]), ownersExhausted(o))
            \in Errors
    BY <2>1, <2>2, FailureType
  <2> QED
    BY <1>5, <2>3, ThrowType DEF NoServers
<1>6. CASE Send(o)
    BY <1>6 DEF Send, TypeInv, cacheVars, Places
<1>7. CASE SendThrows(o)
  <2>1. opc[o] = "execute" /\ target[o] \in Servers
    BY <1>7 DEF SendThrows, TypeInv
  <2>2. \A phase \in {"BeforeSend", "AfterSend"} :
            Failure(phase, "none", <<target[o]>>, FALSE) \in Errors
    <3>1. <<target[o]>> \in Seq(Servers)
      BY <2>1
    <3> QED
      BY <3>1, FailureType
  <2>3. UNCHANGED <<cacheVars, attempts, exclude, cands, tried, up, failures, applied>>
    BY <1>7 DEF SendThrows
  <2>4. \E e \in Errors : Throw(o, e)
    BY <1>7, <2>2 DEF SendThrows
  <2> QED
    BY <2>3, <2>4, ThrowType DEF cacheVars, TypeInv
<1>8. CASE ServerApplies(o)
  <2>1. applied' \in [Ops -> Nat] /\ opc' \in [Ops -> Places]
    BY <1>8 DEF ServerApplies, TypeInv, Places
  <2> QED
    BY <1>8, <2>1 DEF ServerApplies, TypeInv, cacheVars
<1>9. CASE Succeed(o)
    BY <1>9 DEF Succeed, Release, TypeInv, cacheVars, Places, Conditions
<1>10. ASSUME opc[o] \in {"await", "applied"},
              NEW phase \in {"AfterSend", "ServerError"},
              NEW status \in {"none", "permanent", "suspected", "timeout"},
              Rethrow(o, phase, status),
              UNCHANGED <<cacheVars, attempts, exclude, cands, tried, up, failures, applied>>
       PROVE  TypeInv'
  <2>1. target[o] \in Servers
    BY <1>10 DEF TypeInv
  <2>2. unionNodes(unionNodes(exclude[o], tried[o]), <<target[o]>>) \in Seq(Servers)
    <3>1. unionNodes(exclude[o], tried[o]) \in Seq(Servers) /\ <<target[o]>> \in Seq(Servers)
      BY <2>1, ListTypes DEF TypeInv
    <3> QED
      BY <3>1, ListTypes
  <2>3. Failure(phase, status, unionNodes(unionNodes(exclude[o], tried[o]), <<target[o]>>),
                FALSE) \in Errors
    BY <2>2, FailureType
  <2> QED
    BY <1>10, <2>3, ThrowType DEF Rethrow, cacheVars, TypeInv
<1>11. CASE ServerFails(o) \/ OpcodeMismatch(o)
    BY <1>10, <1>11 DEF ServerFails, OpcodeMismatch, Answerable
<1>16. CASE UnexpectedStatus(o)
  <2>1. unionNodes(exclude[o], tried[o]) \in Seq(Servers)
    BY ListTypes DEF TypeInv
  <2>2. \A st \in {"permanent", "suspected", "timeout"} :
            Failure("ServerError", st, unionNodes(exclude[o], tried[o]), FALSE) \in Errors
    BY <2>1, FailureType
  <2>3. \E e \in Errors : Throw(o, e)
    BY <1>16, <2>2 DEF UnexpectedStatus
  <2> QED
    BY <1>16, <2>3, ThrowType DEF UnexpectedStatus, cacheVars, TypeInv
<1>12. CASE ConnectionLost(o)
    BY <1>10, <1>12 DEF ConnectionLost
<1>13. CASE BodyCut(o)
    BY <1>13 DEF BodyCut, Release, TypeInv, cacheVars, Places, Conditions
<1>14. CASE Retry(o)
  <2>1. error[o].tried \in Seq(Servers)
    BY DEF TypeInv, Errors
  <2> QED
    BY <1>14, <2>1 DEF Retry, TypeInv, cacheVars, Places
<1>15. CASE GiveUp(o)
    BY <1>15 DEF GiveUp, TypeInv, cacheVars, Places
<1> QED
    BY <1>1, <1>2, <1>3, <1>4, <1>5, <1>6, <1>7, <1>8, <1>9, <1>11, <1>12, <1>13,
       <1>14, <1>15, <1>16 DEF Perform

\* A topology update keeps the types.
LEMMA TopologyType ==
    ASSUME TypeInv, handleTopologyUpdate
    PROVE  TypeInv'
<1>1. PICK v \in Views :
          /\ topology' = v.servers
          /\ keyOwners' = IF Intelligence = "HASH_DISTRIBUTION_AWARE"
                          THEN v.owners ELSE keyOwners
          /\ pool' = cleanupStaleConnections(v.servers)
    BY DEF handleTopologyUpdate
<1>2. v.servers \in Seq(Servers) /\ v.owners \in Seq(Servers)
    BY RoutingAssumption
<1>3. topology' \in Seq(Servers) /\ keyOwners' \in Seq(Servers)
    BY <1>1, <1>2 DEF TypeInv
<1>4. pool' \in [Servers -> Conditions]
    BY <1>1 DEF TypeInv, cleanupStaleConnections, Conditions
<1> QED
    BY <1>3, <1>4 DEF handleTopologyUpdate, TypeInv, callVars

\* A connection that breaks, or is found broken, keeps its type.
LEMMA ConditionTypes ==
    /\ \A x \in Conditions : Break(x) \in Conditions /\ Notice(x) \in Conditions
    /\ \A x \in {"live", "broken", "dead"} :
          Break(x) \in {"live", "broken", "dead"} /\ Notice(x) \in {"live", "broken", "dead"}
BY DEF Conditions, Break, Notice

\* Failures keep the types.
LEMMA FailuresType ==
    ASSUME TypeInv, NEW s \in Servers, ServerDown(s) \/ ServerUp(s) \/ ReadLoopError(s)
    PROVE  TypeInv'
<1>1. CASE ServerDown(s)
  <2>1. /\ pool' \in [Servers -> Conditions] /\ link' \in [Ops -> Conditions]
        /\ seedConn' \in {"live", "broken", "dead"}
    BY <1>1, ConditionTypes DEF ServerDown, TypeInv
  <2> QED
    BY <1>1, <2>1 DEF ServerDown, TypeInv
<1>2. CASE ServerUp(s)
    BY <1>2 DEF ServerUp, TypeInv, cacheVars, callVars
<1>3. CASE ReadLoopError(s)
  <2>1. /\ pool' \in [Servers -> Conditions] /\ link' \in [Ops -> Conditions]
        /\ seedConn' \in {"live", "broken", "dead"}
    BY <1>3, ConditionTypes DEF ReadLoopError, TypeInv
  <2> QED
    BY <1>3, <2>1 DEF ReadLoopError, TypeInv
<1> QED
    BY <1>1, <1>2, <1>3

\* The types hold at first.
LEMMA InitType == Init => TypeInv
<1> SUFFICES ASSUME Init PROVE TypeInv
    OBVIOUS
<1>1. NoError \in Errors
    BY DEF NoError, Errors
<1> QED
    BY <1>1 DEF Init, TypeInv, Places, Conditions

\* Every step keeps the types.
LEMMA NextType ==
    ASSUME TypeInv, [Next]_vars
    PROVE  TypeInv'
<1>1. CASE UNCHANGED vars
    BY <1>1 DEF TypeInv, vars, cacheVars, callVars
<1> QED
    BY <1>1, PerformType, TopologyType, FailuresType DEF Next

\* The lists of TypeInv are those of TypeOK.
LEMMA TypeInvImpliesTypeOK == TypeInv => TypeOK
<1> SUFFICES ASSUME TypeInv PROVE TypeOK
    OBVIOUS
<1>1. \A list \in Seq(Servers) : Range(list) \subseteq Servers
    BY DEF Range
<1>2. ASSUME NEW o \in Ops
      PROVE  /\ error[o].phase \in {"none", "BeforeSend", "AfterSend", "ServerError"}
             /\ error[o].status \in {"none", "permanent", "suspected", "timeout"}
             /\ Range(error[o].tried) \cup Range(exclude[o]) \cup Range(tried[o])
                   \subseteq Servers
  <2>1. error[o] \in Errors /\ exclude[o] \in Seq(Servers) /\ tried[o] \in Seq(Servers)
    BY DEF TypeInv
  <2>2. /\ error[o].phase \in {"none", "BeforeSend", "AfterSend", "ServerError"}
        /\ error[o].status \in {"none", "permanent", "suspected", "timeout"}
        /\ error[o].tried \in Seq(Servers)
    BY <2>1 DEF Errors
  <2> QED
    BY <1>1, <2>1, <2>2
<1>3. Range(topology) \subseteq Servers /\ Range(keyOwners) \subseteq Servers
    BY <1>1 DEF TypeInv
<1> QED
    BY <1>2, <1>3 DEF TypeInv, TypeOK, Conditions, Places

-----------------------------------------------------------------------------
(* Routing *)

\* What is left of the candidates, and what was tried, after one more.
LEMMA NextCandidate ==
    ASSUME NEW list \in Seq(Servers), list # <<>>, NEW before \in Seq(Servers)
    PROVE  /\ Head(list) \in Range(list)
           /\ Range(list) = {Head(list)} \cup Range(Tail(list))
           /\ Range(Append(before, Head(list))) = Range(before) \cup {Head(list)}
           /\ OwnersLead(list) => OwnersLead(Tail(list))
           /\ OwnersLead(list) /\ Head(list) \notin Range(keyOwners) =>
                 Range(list) \cap Range(keyOwners) = {}
<1>1. /\ Len(list) \in Nat \ {0} /\ DOMAIN list = 1..Len(list) /\ Head(list) = list[1]
      /\ DOMAIN Tail(list) = 1..(Len(list) - 1)
      /\ \A i \in 1..(Len(list) - 1) : Tail(list)[i] = list[i + 1]
    OBVIOUS
<1>2. /\ 1 \in DOMAIN list
      /\ \A i \in DOMAIN list : i = 1 \/ (i - 1 \in 1..(Len(list) - 1) /\ (i - 1) + 1 = i)
    BY <1>1
<1>3. \A i \in 1..(Len(list) - 1) : i + 1 \in DOMAIN list
    BY <1>1
<1>4. Range(list) = {Head(list)} \cup Range(Tail(list))
  <2>1. ASSUME NEW x \in Range(list)
        PROVE  x \in {Head(list)} \cup Range(Tail(list))
    BY <1>1, <1>2 DEF Range
  <2>2. ASSUME NEW x \in {Head(list)} \cup Range(Tail(list))
        PROVE  x \in Range(list)
    BY <1>1, <1>2, <1>3 DEF Range
  <2> QED
    BY <2>1, <2>2
<1>5. Range(Append(before, Head(list))) = Range(before) \cup {Head(list)}
  <2> DEFINE c == Head(list)
  <2>1. /\ Len(before) \in Nat /\ DOMAIN before = 1..Len(before)
        /\ DOMAIN Append(before, c) = 1..(Len(before) + 1)
        /\ \A i \in 1..Len(before) : Append(before, c)[i] = before[i]
        /\ Append(before, c)[Len(before) + 1] = c
    BY <1>1
  <2> HIDE DEF c
  <2>2. Range(Append(before, c)) = Range(before) \cup {c}
    BY <2>1 DEF Range
  <2> QED
    BY <2>2 DEF c
<1>6. ASSUME OwnersLead(list)
      PROVE  OwnersLead(Tail(list))
    BY <1>1, <1>3, <1>6 DEF OwnersLead
<1>7. ASSUME OwnersLead(list), Head(list) \notin Range(keyOwners)
      PROVE  Range(list) \cap Range(keyOwners) = {}
  <2>1. \A i \in DOMAIN list : list[i] \notin Range(keyOwners)
    BY <1>1, <1>2, <1>7 DEF OwnersLead
  <2> QED
    BY <2>1 DEF Range
<1> QED
    BY <1>1, <1>2, <1>4, <1>5, <1>6, <1>7 DEF Range

\* The candidates as they are selected.
LEMMA CandidatesSelected ==
    ASSUME TypeInv, RouteInv, NEW o \in Ops
    PROVE  /\ Range(Candidates(o)) \subseteq Range(topology) \ Range(exclude[o])
           /\ o \in KeyedOps =>
                 /\ OwnersLead(Candidates(o))
                 /\ Range(keyOwners) \subseteq Range(exclude[o]) \cup Range(Candidates(o))
                 /\ ~ProxyToNonOwner => Range(Candidates(o)) \subseteq Range(keyOwners)
<1>1. /\ keyOwners \in Seq(Servers) /\ topology \in Seq(Servers) /\ <<>> \in Seq(Servers)
      /\ ProxyToNonOwner \in BOOLEAN /\ TRUE \in BOOLEAN
      /\ Range(keyOwners) \subseteq Range(topology)
    BY RoutingAssumption DEF TypeInv, RouteInv
<1>2. CASE o \in KeyedOps
  <2> DEFINE out == orderKeyCandidates(keyOwners, topology, exclude[o], ProxyToNonOwner)
  <2>1. Candidates(o) = out
    BY <1>2 DEF Candidates
  <2>2. Range(out) = (Range(keyOwners) \cup (IF ProxyToNonOwner THEN Range(topology) ELSE {}))
                        \ Range(exclude[o])
    BY <1>1, CandidateSet
  <2>3. OwnersLead(out)
    BY <1>1, OwnersFirst DEF OwnersLead
  <2> HIDE DEF out
  <2> QED
    BY <1>1, <1>2, <2>1, <2>2, <2>3
<1>3. CASE o \notin KeyedOps
  <2> DEFINE out == orderKeyCandidates(<<>>, topology, exclude[o], TRUE)
  <2>1. Candidates(o) = out
    BY <1>3 DEF Candidates
  <2>2. Range(out) = (Range(<<>>) \cup Range(topology)) \ Range(exclude[o])
    <3> DEFINE none == <<>>
               proxy == TRUE
               list == orderKeyCandidates(none, topology, exclude[o], proxy)
    <3>1. none \in Seq(Servers) /\ proxy \in BOOLEAN
      OBVIOUS
    <3>2. Range(list) = (Range(none) \cup (IF proxy THEN Range(topology) ELSE {}))
                           \ Range(exclude[o])
      <4> HIDE DEF none, proxy
      <4> QED
        BY <1>1, <3>1, CandidateSet
    <3> QED
      BY <3>2
  <2>3. Range(<<>>) = {}
    BY DEF Range
  <2> HIDE DEF out
  <2> QED
    BY <1>3, <2>1, <2>2, <2>3
<1> QED
    BY <1>2, <1>3

\* A step of o that neither selects nor changes what selection goes by.
LEMMA QuietStep ==
    ASSUME TypeInv, RouteInv, NEW o \in Ops,
           opc[o] # "acquire", opc' \in [Ops -> Places], opc'[o] # "acquire",
           \A p \in Ops \ {o} : opc'[p] = opc[p] /\ exclude'[p] = exclude[p]
                                /\ tried'[p] = tried[p] /\ cands'[p] = cands[p],
           UNCHANGED <<stateMutex, topology, keyOwners>>
    PROVE  RouteInv'
<1>1. \A p \in Ops : opc'[p] = "acquire" <=> stateMutex' = p
    BY DEF RouteInv
<1>2. ASSUME NEW p \in Ops, opc'[p] = "acquire"
      PROVE  Selected(p)'
  <2>1. p # o /\ opc[p] = "acquire" /\ Selected(p)
    BY <1>2 DEF RouteInv
  <2> QED
    BY <2>1 DEF Selected, OwnersLead
<1> QED
    BY <1>1, <1>2 DEF RouteInv

\* The operations keep the lock and the candidates.
LEMMA PerformRoute ==
    ASSUME TypeInv, RouteInv, NEW o \in Ops, Perform(o)
    PROVE  RouteInv'
<1>0. NoOp \notin Ops /\ opc' \in [Ops -> Places]
    BY RoutingAssumption, PerformType DEF TypeInv
<1>1. CASE SelectCandidates(o)
  <2>1. /\ opc[o] = "select" /\ stateMutex = NoOp /\ stateMutex' = o
        /\ cands' = [cands EXCEPT ![o] = Candidates(o)]
        /\ opc' = [opc EXCEPT ![o] = "acquire"]
        /\ UNCHANGED <<topology, keyOwners, exclude, tried>>
    BY <1>1 DEF SelectCandidates
  <2>2. \A p \in Ops : opc'[p] = "acquire" <=> stateMutex' = p
    BY <1>0, <2>1 DEF RouteInv, TypeInv
  <2>3. cands'[o] = Candidates(o)
    BY <2>1 DEF TypeInv
  <2>4. Selected(o)'
    <3>1. /\ Range(cands'[o]) \subseteq Range(topology) \ Range(exclude[o])
          /\ o \in KeyedOps =>
                /\ OwnersLead(cands'[o])
                /\ Range(keyOwners) \subseteq Range(exclude[o]) \cup Range(cands'[o])
                /\ ~ProxyToNonOwner => Range(cands'[o]) \subseteq Range(keyOwners)
      BY <2>3, CandidatesSelected
    <3> QED
      BY <2>1, <3>1 DEF Selected, OwnersLead
  <2>5. \A p \in Ops : opc'[p] = "acquire" => p = o
    BY <2>1, <2>2
  <2> QED
    BY <2>1, <2>2, <2>4, <2>5 DEF RouteInv
<1>2. CASE TryCandidate(o)
  <2> DEFINE c == Head(cands[o])
  <2>1. /\ opc[o] = "acquire" /\ cands[o] # <<>> /\ stateMutex = o /\ Selected(o)
        /\ tried' = [tried EXCEPT ![o] = Append(@, c)]
        /\ UNCHANGED <<topology, keyOwners, exclude>>
    BY <1>2 DEF TryCandidate, RouteInv
  <2>2. CASE Acquired(c)
    <3>1. opc' = [opc EXCEPT ![o] = "execute"] /\ stateMutex' = NoOp
      BY <1>2, <2>2 DEF TryCandidate
    <3>2. \A p \in Ops : opc'[p] # "acquire"
      BY <2>1, <3>1 DEF RouteInv, TypeInv
    <3> QED
      BY <1>0, <2>1, <3>1, <3>2 DEF RouteInv
  <2>3. CASE ~Acquired(c)
    <3>1. cands' = [cands EXCEPT ![o] = Tail(@)] /\ UNCHANGED <<opc, stateMutex>>
      BY <1>2, <2>3 DEF TryCandidate
    <3>2. cands[o] \in Seq(Servers) /\ tried[o] \in Seq(Servers)
      BY DEF TypeInv
    <3>3. /\ Range(cands[o]) = {c} \cup Range(Tail(cands[o]))
          /\ Range(Append(tried[o], c)) = Range(tried[o]) \cup {c}
          /\ OwnersLead(cands[o]) => OwnersLead(Tail(cands[o]))
      BY <2>1, <3>2, NextCandidate
    <3>4. cands'[o] = Tail(cands[o]) /\ tried'[o] = Append(tried[o], c)
      BY <2>1, <3>1 DEF TypeInv
    <3>5. Selected(o)'
      <4> HIDE DEF c
      <4>1. o \in KeyedOps => OwnersLead(cands'[o])
        BY <2>1, <3>3, <3>4 DEF Selected
      <4> QED
        BY <2>1, <3>3, <3>4, <4>1 DEF Selected, OwnersLead
    <3>6. \A p \in Ops : opc'[p] = "acquire" => p = o
      BY <2>1, <3>1 DEF RouteInv
    <3> QED
      BY <2>1, <3>1, <3>5, <3>6 DEF RouteInv
  <2> QED
    BY <2>2, <2>3
<1>3. CASE NoServers(o)
  <2>1. /\ opc[o] = "acquire" /\ stateMutex = o /\ stateMutex' = NoOp
        /\ opc' = [opc EXCEPT ![o] = "caught"]
        /\ UNCHANGED <<topology, keyOwners>>
    BY <1>3 DEF NoServers, Throw, RouteInv
  <2>2. \A p \in Ops : opc'[p] # "acquire"
    BY <2>1 DEF RouteInv, TypeInv
  <2> QED
    BY <1>0, <2>1, <2>2 DEF RouteInv
<1>4. CASE ~SelectCandidates(o) /\ ~TryCandidate(o) /\ ~NoServers(o)
  <2>1. /\ opc[o] # "acquire" /\ opc'[o] # "acquire"
        /\ \A p \in Ops \ {o} : opc'[p] = opc[p]
    BY <1>4 DEF Perform, BeginAttempt, SelectSeed, Send, SendThrows, ServerApplies, Succeed,
          ServerFails, UnexpectedStatus, OpcodeMismatch, Answerable, ConnectionLost, BodyCut,
          Retry, GiveUp, Rethrow, Throw, TypeInv
  <2>2. /\ UNCHANGED <<stateMutex, topology, keyOwners, cands>>
        /\ \A p \in Ops \ {o} : exclude'[p] = exclude[p] /\ tried'[p] = tried[p]
    BY <1>4 DEF Perform, BeginAttempt, SelectSeed, Send, SendThrows, ServerApplies, Succeed,
          ServerFails, UnexpectedStatus, OpcodeMismatch, ConnectionLost, BodyCut, Retry, GiveUp,
          cacheVars, TypeInv
  <2> QED
    BY <1>0, <2>1, <2>2, QuietStep
<1> QED
    BY <1>1, <1>2, <1>3, <1>4

\* Topology updates and failures keep them, too: an update waits for the lock.
LEMMA WorldRoute ==
    ASSUME TypeInv, RouteInv,
           \/ handleTopologyUpdate
           \/ \E s \in Servers : ServerDown(s) \/ ServerUp(s) \/ ReadLoopError(s)
    PROVE  RouteInv'
<1>1. CASE handleTopologyUpdate
  <2>1. PICK v \in Views :
          /\ topology' = v.servers
          /\ keyOwners' = IF Intelligence = "HASH_DISTRIBUTION_AWARE"
                          THEN v.owners ELSE keyOwners
    BY <1>1 DEF handleTopologyUpdate
  <2>2. stateMutex = NoOp /\ UNCHANGED <<stateMutex, opc>>
    BY <1>1 DEF handleTopologyUpdate, callVars
  <2>3. \A o \in Ops : opc[o] # "acquire"
    BY <2>2, RoutingAssumption DEF RouteInv
  <2>4. Range(keyOwners') \subseteq Range(topology')
    <3>1. Range(v.owners) \subseteq Range(v.servers)
      BY RoutingAssumption
    <3>2. CASE Intelligence = "HASH_DISTRIBUTION_AWARE"
      BY <2>1, <3>1, <3>2
    <3>3. CASE Intelligence # "HASH_DISTRIBUTION_AWARE"
      <4>1. keyOwners' = <<>>
        BY <2>1, <3>3 DEF RouteInv
      <4> QED
        BY <4>1 DEF Range
    <3> QED
      BY <3>2, <3>3
  <2> QED
    BY <2>1, <2>2, <2>3, <2>4 DEF RouteInv
<1>2. CASE \E s \in Servers : ServerDown(s) \/ ServerUp(s) \/ ReadLoopError(s)
  <2>1. UNCHANGED <<stateMutex, topology, keyOwners, opc, exclude, cands, tried>>
    BY <1>2 DEF ServerDown, ServerUp, ReadLoopError, cacheVars, callVars
  <2> QED
    BY <2>1 DEF RouteInv, Selected, OwnersLead
<1> QED
    BY <1>1, <1>2

-----------------------------------------------------------------------------
(* The pool *)

\* Connections are added for candidates only, and evicted with their servers.
LEMMA PoolStep ==
    ASSUME TypeInv, RouteInv, PoolWithinTopology, [Next]_vars
    PROVE  PoolWithinTopology'
<1>1. ASSUME NEW o \in Ops, TryCandidate(o)
      PROVE  PoolWithinTopology'
  <2> DEFINE c == Head(cands[o])
  <2>1. opc[o] = "acquire" /\ cands[o] # <<>> /\ Selected(o) /\ UNCHANGED topology
    BY <1>1 DEF TryCandidate, RouteInv
  <2>2. c \in Range(topology)
    <3>1. cands[o] \in Seq(Servers) /\ <<>> \in Seq(Servers)
      BY DEF TypeInv
    <3>2. c \in Range(cands[o])
      BY <2>1, <3>1, NextCandidate
    <3> QED
      BY <2>1, <3>2 DEF Selected
  <2>3. \A s \in Servers \ {c} : pool'[s] = pool[s]
    BY <1>1 DEF TryCandidate, TypeInv
  <2> HIDE DEF c
  <2> QED
    BY <2>1, <2>2, <2>3 DEF PoolWithinTopology
<1>2. ASSUME NEW o \in Ops, Perform(o), ~TryCandidate(o)
      PROVE  UNCHANGED <<pool, topology>>
    BY <1>2 DEF Perform, BeginAttempt, SelectSeed, SelectCandidates, NoServers, Send, SendThrows,
          ServerApplies, Succeed, ServerFails, UnexpectedStatus, OpcodeMismatch, ConnectionLost,
          BodyCut, Retry, GiveUp, cacheVars
<1>3. CASE handleTopologyUpdate
    BY <1>3 DEF handleTopologyUpdate, cleanupStaleConnections, PoolWithinTopology
<1>4. ASSUME NEW s \in Servers, ServerDown(s) \/ ServerUp(s) \/ ReadLoopError(s)
      PROVE  PoolWithinTopology'
  <2>1. UNCHANGED topology
    BY <1>4 DEF ServerDown, ServerUp, ReadLoopError, cacheVars
  <2>2. \A t \in Servers : pool[t] = "none" => pool'[t] = "none"
    BY <1>4 DEF ServerDown, ServerUp, ReadLoopError, cacheVars, Break, Notice, TypeInv
  <2> QED
    BY <2>1, <2>2 DEF PoolWithinTopology
<1>5. CASE UNCHANGED vars
    BY <1>5 DEF vars, cacheVars, PoolWithinTopology
<1>6. ASSUME NEW o \in Ops, Perform(o)
      PROVE  PoolWithinTopology'
    BY <1>1, <1>2, <1>6 DEF PoolWithinTopology
<1> QED
    BY <1>3, <1>4, <1>5, <1>6 DEF Next

-----------------------------------------------------------------------------
(* Applied at most once *)

\* A server executes an operation only on its way through "await", and whoever
\* comes back from there without knowing is not sent again.
LEMMA OnceStep ==
    ASSUME TypeInv, OnceInv, [Next]_vars
    PROVE  OnceInv'
<1> DEFINE Once(o) ==
        /\ applied[o] <= 1
        /\ opc[o] \in {"ready", "select", "acquire", "execute", "await"} => applied[o] = 0
        /\ opc[o] \in {"caught", "failed"} /\ SafeToReplay(error[o]) => applied[o] = 0
<1>1. ASSUME UNCHANGED <<opc, error, applied>>
      PROVE  OnceInv'
    BY <1>1 DEF OnceInv, SafeToReplay, isTransient, isTransientStatus, outcomeUncertain
<1>2. ASSUME NEW o \in Ops, Perform(o)
      PROVE  OnceInv'
  <2>1. \A p \in Ops \ {o} : opc'[p] = opc[p] /\ error'[p] = error[p] /\ applied'[p] = applied[p]
    BY <1>2 DEF Perform, BeginAttempt, SelectSeed, SelectCandidates, TryCandidate, NoServers,
          Send, SendThrows, ServerApplies, Succeed, ServerFails, UnexpectedStatus, OpcodeMismatch,
          ConnectionLost, BodyCut, Retry, GiveUp, Rethrow, Throw, TypeInv
  <2>2. \A p \in (Ops \ Idempotent) \ {o} : Once(p)'
    BY <2>1 DEF OnceInv, SafeToReplay, isTransient, isTransientStatus, outcomeUncertain
  <2>3. ASSUME o \notin Idempotent
        PROVE  Once(o)'
    <3>0. Once(o) /\ applied[o] \in Nat
      BY <2>3 DEF OnceInv, TypeInv
    <3>1. CASE BeginAttempt(o)
      BY <3>0, <3>1 DEF BeginAttempt, TypeInv
    <3>2. CASE SelectSeed(o) \/ SelectCandidates(o) \/ TryCandidate(o) \/ Send(o)
      BY <3>0, <3>2 DEF SelectSeed, SelectCandidates, TryCandidate, Send, TypeInv
    <3>3. CASE NoServers(o) \/ SendThrows(o)
      BY <3>0, <3>3 DEF NoServers, SendThrows, Throw, TypeInv
    <3>4. CASE ServerApplies(o)
      BY <3>0, <3>4 DEF ServerApplies, TypeInv
    <3>5. CASE Succeed(o) \/ BodyCut(o)
      BY <3>0, <3>5 DEF Succeed, BodyCut, TypeInv
    <3>6. CASE ServerFails(o) \/ UnexpectedStatus(o) \/ OpcodeMismatch(o)
      <4>1. /\ applied' = applied /\ opc'[o] = "caught"
            /\ opc[o] \in {"await", "applied"}
        BY <3>6 DEF ServerFails, UnexpectedStatus, OpcodeMismatch, Answerable, Rethrow, Throw,
              TypeInv
      <4>2. CASE opc[o] = "await"
        BY <3>0, <4>1, <4>2
      <4>3. CASE opc[o] = "applied"
        <5>1. error'[o].phase = "ServerError"
          BY <3>6 DEF ServerFails, UnexpectedStatus, OpcodeMismatch, Rethrow, Throw, Failure,
                TypeInv
        <5>2. error'[o].status \in {"none", "permanent", "timeout"}
          BY <3>6, <4>3 DEF ServerFails, UnexpectedStatus, OpcodeMismatch, AfterExecuting,
                Rethrow, Throw, Failure, TypeInv
        <5>3. ~SafeToReplay(error'[o])
          BY <5>1, <5>2 DEF SafeToReplay, isTransient, isTransientStatus, outcomeUncertain
        <5> QED
          BY <3>0, <4>1, <5>3 DEF SafeToReplay, isTransient, isTransientStatus, outcomeUncertain
      <4> QED
        BY <4>1, <4>2, <4>3
    <3>7. CASE ConnectionLost(o)
      <4>1. applied' = applied /\ opc'[o] = "caught" /\ error'[o].phase = "AfterSend"
        BY <3>7 DEF ConnectionLost, Rethrow, Throw, Failure, TypeInv
      <4> QED
        BY <3>0, <4>1 DEF SafeToReplay, outcomeUncertain
    <3>8. CASE Retry(o)
      <4>1. opc[o] = "caught" /\ SafeToReplay(error[o])
        BY <2>3, <3>8 DEF Retry, WorthRetrying, SafeToReplay
      <4>2. applied' = applied /\ opc'[o] = "ready"
        BY <3>8 DEF Retry, TypeInv
      <4> QED
        BY <3>0, <4>1, <4>2
    <3>9. CASE GiveUp(o)
      <4>1. opc[o] = "caught" /\ opc'[o] = "failed" /\ UNCHANGED <<applied, error>>
        BY <3>9 DEF GiveUp, TypeInv
      <4> QED
        BY <3>0, <4>1 DEF SafeToReplay, isTransient, isTransientStatus, outcomeUncertain
    <3> QED
      BY <1>2, <3>1, <3>2, <3>3, <3>4, <3>5, <3>6, <3>7, <3>8, <3>9 DEF Perform
  <2> QED
    BY <2>2, <2>3 DEF OnceInv
<1>3. CASE handleTopologyUpdate
    BY <1>1, <1>3 DEF handleTopologyUpdate, callVars
<1>4. ASSUME NEW s \in Servers, ServerDown(s) \/ ServerUp(s) \/ ReadLoopError(s)
      PROVE  OnceInv'
    BY <1>1, <1>4 DEF ServerDown, ServerUp, ReadLoopError, callVars
<1>5. CASE UNCHANGED vars
    BY <1>1, <1>5 DEF vars, callVars
<1> QED
    BY <1>2, <1>3, <1>4, <1>5 DEF Next

-----------------------------------------------------------------------------
(* The theorems *)

\* The invariant holds at first.
LEMMA InitInv == Init => IInv
<1> SUFFICES ASSUME Init PROVE IInv
    OBVIOUS
<1>1. TypeInv
    BY InitType
<1>2. RouteInv
  <2>1. Range(<<>>) = {}
    BY DEF Range
  <2>2. \A o \in Ops : opc[o] # "acquire" /\ stateMutex # o
    BY RoutingAssumption DEF Init
  <2> QED
    BY <2>1, <2>2 DEF Init, RouteInv
<1>3. PoolWithinTopology
    BY DEF Init, PoolWithinTopology
<1>4. OnceInv
    BY DEF Init, OnceInv
<1> QED
    BY <1>1, <1>2, <1>3, <1>4 DEF IInv

\* Every step keeps it.
LEMMA StepInv ==
    ASSUME IInv, [Next]_vars
    PROVE  IInv'
<1>1. TypeInv' /\ PoolWithinTopology' /\ OnceInv'
    BY NextType, PoolStep, OnceStep DEF IInv
<1>2. RouteInv'
  <2>1. CASE UNCHANGED vars
    BY <2>1 DEF IInv, RouteInv, Selected, OwnersLead, vars, cacheVars, callVars
  <2> QED
    BY <2>1, PerformRoute, WorldRoute DEF IInv, Next
<1> QED
    BY <1>1, <1>2 DEF IInv

\* The inductive invariant holds.
LEMMA Invariance == Spec => []IInv
<1>1. IInv /\ [Next]_vars => IInv'
    BY StepInv
<1> QED
    BY <1>1, InitInv, PTL DEF Spec

\* Every variable keeps its type (RemoteCache.h, HotRodClientException.h).
THEOREM TypeCorrect == Spec => []TypeOK
<1>1. IInv => TypeOK
    BY TypeInvImpliesTypeOK DEF IInv
<1> QED
    BY <1>1, Invariance, PTL

\* The pool holds connections to servers of the current topology only, however
\* updates and selections interleave (stateMutex_, cleanupStaleConnections()).
THEOREM PoolSafe == Spec => []PoolWithinTopology
<1>1. IInv => PoolWithinTopology
    BY DEF IInv
<1> QED
    BY <1>1, Invariance, PTL

\* An operation that is not replayed in doubt is executed at most once, over all
\* attempts, servers, topologies and failures (isTransient(), outcomeUncertain()).
THEOREM AtMostOnce == Spec => []AppliedAtMostOnce
<1>1. IInv => AppliedAtMostOnce
    BY DEF IInv, OnceInv, AppliedAtMostOnce
<1> QED
    BY <1>1, Invariance, PTL

\* A transient failure that is not uncertain means that no attempt was executed, also
\* when a server answers another opcode, an unexpected status or a permanent error
\* after executing (isTransient(), outcomeUncertain()).
THEOREM ReplaySafe == Spec => []ReplayIsSafe
<1>1. IInv => ReplayIsSafe
    BY DEF IInv, OnceInv, ReplayIsSafe
<1> QED
    BY <1>1, Invariance, PTL

\* Only TryCandidate takes a connection by selection, and only NoServers fails there.
LEMMA LeavesSelection ==
    ASSUME TypeInv, [Next]_vars, NEW o \in Ops, opc[o] = "acquire", opc'[o] # "acquire"
    PROVE  TryCandidate(o) \/ NoServers(o)
<1>1. ~(UNCHANGED opc)
    OBVIOUS
<1>2. PICK p \in Ops : Perform(p)
    BY <1>1 DEF Next, handleTopologyUpdate, ServerDown, ServerUp, ReadLoopError, vars, callVars
<1>3. p = o
    BY <1>2 DEF Perform, BeginAttempt, SelectSeed, SelectCandidates, TryCandidate, NoServers,
          Send, SendThrows, ServerApplies, Succeed, ServerFails, UnexpectedStatus, OpcodeMismatch,
          ConnectionLost, BodyCut, Retry, GiveUp, Rethrow, Throw, TypeInv
<1> QED
    BY <1>2, <1>3 DEF Perform, BeginAttempt, SelectSeed, SelectCandidates,
          Send, SendThrows, ServerApplies, Succeed, ServerFails, UnexpectedStatus, OpcodeMismatch,
          Answerable, ConnectionLost, BodyCut, Retry, GiveUp

\* Routing by key never takes an excluded node, and a node that does not own the key
\* only when proxying is on and every owner was excluded or tried
\* (selectServerForKey(), orderKeyCandidates()).
THEOREM RoutingSafe == Spec => RoutingRespectsOwners
<1> DEFINE Respects(o) ==
        Routed(o) =>
          /\ target'[o] \notin Range(exclude[o])
          /\ o \in KeyedOps /\ target'[o] \notin Range(keyOwners) =>
                /\ ProxyToNonOwner
                /\ Range(keyOwners) \subseteq Range(exclude[o]) \cup Range(tried'[o])
<1>1. ASSUME IInv, [Next]_vars, NEW o \in Ops
      PROVE  Respects(o)
  <2> SUFFICES ASSUME opc[o] = "acquire", opc'[o] = "execute"
               PROVE  /\ target'[o] \notin Range(exclude[o])
                      /\ o \in KeyedOps /\ target'[o] \notin Range(keyOwners) =>
                            /\ ProxyToNonOwner
                            /\ Range(keyOwners) \subseteq Range(exclude[o]) \cup Range(tried'[o])
    BY DEF Routed
  <2>0. TypeInv /\ Selected(o) /\ cands[o] \in Seq(Servers) /\ tried[o] \in Seq(Servers)
    BY <1>1 DEF IInv, RouteInv, TypeInv
  <2> DEFINE c == Head(cands[o])
  <2>1. TryCandidate(o)
    <3>1. ~NoServers(o)
      BY <2>0 DEF NoServers, Throw, TypeInv
    <3> QED
      BY <1>1, <2>0, <3>1, LeavesSelection
  <2>2. /\ cands[o] # <<>> /\ target'[o] = c /\ tried'[o] = Append(tried[o], c)
    BY <2>0, <2>1 DEF TryCandidate, TypeInv
  <2>3. /\ c \in Range(cands[o])
        /\ Range(Append(tried[o], c)) = Range(tried[o]) \cup {c}
        /\ OwnersLead(cands[o]) /\ c \notin Range(keyOwners) =>
              Range(cands[o]) \cap Range(keyOwners) = {}
    BY <2>0, <2>2, NextCandidate
  <2> HIDE DEF c
  <2>4. c \notin Range(exclude[o])
    BY <2>0, <2>3 DEF Selected
  <2>5. ASSUME o \in KeyedOps, c \notin Range(keyOwners)
        PROVE  /\ ProxyToNonOwner
               /\ Range(keyOwners) \subseteq Range(exclude[o]) \cup Range(tried'[o])
    BY <2>0, <2>2, <2>3, <2>5 DEF Selected
  <2> QED
    BY <2>2, <2>4, <2>5
<1>2. IInv /\ [Next]_vars => \A o \in Ops : Respects(o)
    BY <1>1
<1>3. IInv /\ [Next]_vars => [\A o \in Ops : Respects(o)]_vars
    BY <1>2
<1> QED
    BY <1>3, Invariance, PTL DEF Spec, RoutingRespectsOwners

\* When no server is left, ownersExhausted says of the list the exception carries just
\* what HotRodClientException.h says of it, whichever attempt tried the owners.
THEOREM ExhaustedIsTrue == Spec => OwnersExhaustedIsTrue
<1> DEFINE Exhausted(o) ==
          opc[o] = "acquire" /\ opc'[o] = "caught" =>
              (error'[o].ownersExhausted <=>
                  o \in KeyedOps /\ Range(keyOwners) \subseteq Range(error'[o].tried))
<1>1. ASSUME IInv, [Next]_vars, NEW o \in Ops
      PROVE  Exhausted(o)
  <2> SUFFICES ASSUME opc[o] = "acquire", opc'[o] = "caught"
               PROVE  error'[o].ownersExhausted <=>
                         o \in KeyedOps /\ Range(keyOwners) \subseteq Range(error'[o].tried)
    OBVIOUS
  <2>0. TypeInv /\ exclude[o] \in Seq(Servers) /\ tried[o] \in Seq(Servers)
    BY <1>1 DEF IInv, TypeInv
  <2>1. NoServers(o)
    <3>1. ~TryCandidate(o)
      BY <2>0 DEF TryCandidate, TypeInv
    <3> QED
      BY <1>1, <2>0, <3>1, LeavesSelection
  <2>2. error'[o] = Failure("BeforeSend", "none", unionNodes(exclude[o], tried[o]),
                            ownersExhausted(o))
    BY <2>0, <2>1 DEF NoServers, Throw, TypeInv
  <2>3. /\ error'[o].ownersExhausted = ownersExhausted(o)
        /\ error'[o].tried = unionNodes(exclude[o], tried[o])
    BY <2>2 DEF Failure
  <2>4. Range(unionNodes(exclude[o], tried[o])) = Range(exclude[o]) \cup Range(tried[o])
    BY <2>0, UnionSet
  <2> QED
    BY <2>3, <2>4 DEF ownersExhausted
<1>2. IInv /\ [Next]_vars => [\A o \in Ops : Exhausted(o)]_vars
    BY <1>1
<1> QED
    BY <1>2, Invariance, PTL DEF Spec, OwnersExhaustedIsTrue
==============================================================================
