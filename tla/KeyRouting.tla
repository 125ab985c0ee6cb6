------------------------------ MODULE KeyRouting ------------------------------
(***************************************************************************)
(* Where a key is sent: the decision of RemoteCache::selectServerForKey(), *)
(* which composes the hash topology (ConsistentHash) with the candidate    *)
(* order and the exclusion list (ServerSelection).                         *)
(*                                                                         *)
(* One caller retries one key while topology updates arrive: it tries the  *)
(* first candidate, fails, and calls again with what it tried excluded.    *)
(***************************************************************************)
EXTENDS ConsistentHash, ServerSelection

CONSTANT Keys    \* the normalized hashes of the keys that callers use

ASSUME KeyAssumption == Keys \subseteq 0..(HashSpace - 1)

VARIABLES
    key,              \* the hash of the key
    excludeNodes,     \* ctx.excludeNodes
    proxyToNonOwner,  \* proxyToNonOwner_
    attempts          \* history: the nodes tried, in order

callVars == <<key, excludeNodes, proxyToNonOwner, attempts>>
routingVars == <<vars, callVars>>

Owners  == getOwners(key)
Servers == [i \in DOMAIN topology.servers |-> topology.servers[i].address]

\* No owners, no candidates: selection falls back to the default connection.
Candidates ==
    IF Owners = <<>> THEN <<>>
    ELSE orderKeyCandidates(Owners, Servers, excludeNodes, proxyToNonOwner)

RoutingInit ==
    /\ Init
    /\ key \in Keys
    /\ excludeNodes = <<>>
    /\ proxyToNonOwner \in BOOLEAN
    /\ attempts = <<>>

TopologyUpdate == handleTopologyUpdate /\ UNCHANGED callVars

\* The attempt on the first candidate fails, through the future: the exception is
\* given the nodes excluded and tried, and excluding(e) hands them to the next one.
TryFirst ==
    /\ Candidates # <<>>
    /\ attempts' = Append(attempts, Head(Candidates))
    /\ excludeNodes' = unionNodes(excludeNodes, <<Head(Candidates)>>)
    /\ UNCHANGED <<vars, key, proxyToNonOwner>>

RoutingNext == TopologyUpdate \/ TryFirst

RoutingSpec == RoutingInit /\ [][RoutingNext]_routingVars

-----------------------------------------------------------------------------
(* Properties *)

\* "Ordered, de-duplicated candidate list with excluded nodes removed": owners in
\* their order, then the other servers in theirs if proxying is on, however
\* owners, servers and exclusions overlap and repeat.
CandidatesAreOrdered ==
    LET all == Owners \o (IF proxyToNonOwner THEN Servers ELSE <<>>) IN
    Owners # <<>> =>
        /\ Range(Candidates) = Range(all) \ Range(excludeNodes)
        /\ \A i, j \in DOMAIN Candidates :
              i < j => FirstIn(all, Candidates[i]) < FirstIn(all, Candidates[j])

\* A caller that excludes what it tried asks no server twice, even while the owners
\* of its key move and servers join and leave: its loop of retries is over after as
\* many attempts as there are servers.
NoServerTriedTwice == Distinct(attempts)
===============================================================================
