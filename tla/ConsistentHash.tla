---------------------------- MODULE ConsistentHash ----------------------------
(***************************************************************************)
(* The hash topology: how a topology update is parsed                      *)
(* (src/src/topology/TopologyInfo.cpp), turned into the segment table, and *)
(* used to find the owners of a key (src/src/hash/ConsistentHash.cpp).     *)
(*                                                                         *)
(* A key is its normalized hash, a number below HashSpace: MurmurHash3 is  *)
(* external.  An update is what a server sends: its addresses and, for     *)
(* each segment, the indices of the owners, which count from 0.            *)
(***************************************************************************)
EXTENDS Integers, Sequences, FiniteSets, SequencesExt

CONSTANTS
    Address,     \* the servers
    HashSpace,   \* the number of normalized hashes: 2^31 in the code
    Updates      \* what servers send: [servers, segments]

ASSUME HashAssumption ==
    /\ HashSpace \in Nat \ {0}
    /\ Updates \subseteq [servers : Seq(Address), segments : Seq(Seq(Nat))]

VARIABLES
    topology,    \* topology_: the servers [address, hashId] and segmentOwners_
    table,       \* consistentHash_: segmentOwners_, a hash id for each owner
    sent         \* history: the update that was applied last

vars == <<topology, table, sent>>

-----------------------------------------------------------------------------
\* A server becomes [address, hashId], its hash id its place in the update; an
\* address that came before is dropped.
parseServers(list) ==
    FoldLeft(LAMBDA servers, i :
                IF \E s \in Range(servers) : s.address = list[i] THEN servers
                ELSE Append(servers, [address |-> list[i], hashId |-> i - 1]),
             <<>>, [i \in 1..Len(list) |-> i])

parseTopologyInfo(u) ==
    [servers |-> parseServers(u.servers), segmentOwners |-> u.segments]

-----------------------------------------------------------------------------
NoTable == <<>>    \* clear()

\* Mutant: an invalid index is skipped and the rest of the table kept.
Bug_KeepValidRows(t) ==
    LET valid == SelectSeq(t.segmentOwners,
                     LAMBDA row : \A i \in DOMAIN row : row[i] < Len(t.servers))
    IN  [seg \in DOMAIN valid |->
            [i \in DOMAIN valid[seg] |-> t.servers[valid[seg][i] + 1].hashId]]

\* Mutant: the indices of the wire are taken to count from 1.
Bug_CountFromOne(t) ==
    IF \E seg \in DOMAIN t.segmentOwners : \E i \in DOMAIN t.segmentOwners[seg] :
           t.segmentOwners[seg][i] \notin 1..Len(t.servers)
    THEN NoTable
    ELSE [seg \in DOMAIN t.segmentOwners |->
             [i \in DOMAIN t.segmentOwners[seg] |->
                 t.servers[t.segmentOwners[seg][i]].hashId]]

\* Indices become hash ids.  One that names no server clears the table.
updateFromTopology(t) ==
    IF \E seg \in DOMAIN t.segmentOwners : \E i \in DOMAIN t.segmentOwners[seg] :
           ~(t.segmentOwners[seg][i] < Len(t.servers))
    THEN NoTable
    ELSE [seg \in DOMAIN t.segmentOwners |->
             [i \in DOMAIN t.segmentOwners[seg] |->
                 t.servers[t.segmentOwners[seg][i] + 1].hashId]]

hasHashTopology == Len(table) > 0

\* Mutant: a 32-bit 1L << 31 is negative; the range test turns the rest to 0.
Bug_NegativeDivisor(hash, n) ==
    LET segment == -((hash * n) \div HashSpace) IN
    IF segment < 0 \/ segment >= n THEN 0 ELSE segment

\* The segment of a key in a table of n segments, counted from 0.
getSegment(hash, n) ==
    IF n = 0 THEN 0
    ELSE LET segment == (hash * n) \div HashSpace IN
         IF segment < 0 \/ segment >= n THEN 0 ELSE segment

\* The server with this hash id, if there is one: no two have the same.
findServerByHashId(hashId) == {s \in Range(topology.servers) : s.hashId = hashId}

\* The addresses of the owners of a key, the primary one first.
getOwners(hash) ==
    IF ~hasHashTopology THEN <<>>
    ELSE FoldLeft(LAMBDA owners, hashId :
                     LET found == findServerByHashId(hashId) IN
                     IF found = {} THEN owners
                     ELSE Append(owners, (CHOOSE s \in found : TRUE).address),
                  <<>>, table[getSegment(hash, Len(table)) + 1])

-----------------------------------------------------------------------------
Init ==
    /\ topology = [servers |-> <<>>, segmentOwners |-> <<>>]
    /\ table = NoTable
    /\ sent = [servers |-> <<>>, segments |-> <<>>]

\* RemoteCache::handleTopologyUpdate() of a hash-aware client, under stateMutex_.
handleTopologyUpdate ==
    \E u \in Updates :
        /\ topology' = parseTopologyInfo(u)
        /\ table' = updateFromTopology(topology')
        /\ sent' = u

Next == handleTopologyUpdate
Spec == Init /\ [][Next]_vars

-----------------------------------------------------------------------------
(* Properties *)

Hashes == 0..(HashSpace - 1)
Distinct(list) == \A i, j \in DOMAIN list : list[i] = list[j] => i = j
ValidIndices(u) ==
    \A seg \in DOMAIN u.segments : \A i \in DOMAIN u.segments[seg] :
        u.segments[seg][i] < Len(u.servers)

\* The mapping of the other side, as the comment in getSegment() gives Java's:
\* segmentSize = ceil(2^31 / numSegments), segment = normalizedHash / segmentSize.
referenceSegment(hash, n) == hash \div ((HashSpace + (n - 1)) \div n)
Divides(n) == n > 0 /\ HashSpace % n = 0

\* Whatever was known before, a key is routed to the servers that the last update
\* names for the segment it has on the server's side, in their order, if that update
\* lists each server once, its indices are valid and its number of segments divides
\* the hash space: a power of two.
OwnersAsSent ==
    LET n == Len(sent.segments) IN
    Distinct(sent.servers) /\ ValidIndices(sent) /\ Divides(n) =>
        \A hash \in Hashes :
            LET row == sent.segments[referenceSegment(hash, n) + 1]
            IN  getOwners(hash) = [i \in DOMAIN row |-> sent.servers[row[i] + 1]]

\* An update whose table cannot be resolved leaves no table: the client falls
\* back to the default connection, never to a mixture of old and new rows.  A
\* table has a row for each segment sent, resolved in the current server list.
NoPartialTable ==
    hasHashTopology =>
        /\ DOMAIN table = DOMAIN sent.segments
        /\ \A seg \in DOMAIN table : \A i \in DOMAIN sent.segments[seg] :
              /\ sent.segments[seg][i] < Len(topology.servers)
              /\ table[seg][i] = topology.servers[sent.segments[seg][i] + 1].hashId

\* getSegment() against the mapping it stands for: the same segment if the number of
\* segments divides the hash space; otherwise at most the next one, as long as it is
\* small beside the hash space.
SegmentNearReference ==
    LET n == Len(table) IN
    hasHashTopology =>
        \A hash \in Hashes :
            LET reference == referenceSegment(hash, n) IN
            /\ Divides(n) => getSegment(hash, n) = reference
            /\ n * n <= HashSpace =>
                  getSegment(hash, n) \in {reference, reference + 1}

\* "segment = (hash & 0x7FFFFFFF) % numSegments" (ConsistentHash.h:59), or what the
\* comment in getSegment() says its formula is equivalent to (ConsistentHash.cpp:69-73).
SegmentAsDocumented ==
    LET n == Len(table) IN
    hasHashTopology =>
        \A hash \in Hashes :
            getSegment(hash, n) \in {hash % n, referenceSegment(hash, n)}
===============================================================================
