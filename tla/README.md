# Verification of the C++17 Hot Rod client

TLA+ models of the client in this repository, the TLC runs that check them on
small instances, and TLAPS proofs of what matters most for every size of the
instance. `PROJECT.json` lists runs, mutants, the source lines behind each
definition, findings, hazards and theorems.

## 1. Inventory

| Part | State it keeps | Operations | Interacts with |
|---|---|---|---|
| `MultiplexedConnection` | `connected_`, `stopReadLoop_`, `nextMessageId_`, `pending_`, `topologyId_`, the read thread | `connect`, `close`, `execute`, `readLoop`, `closeAllPending` | callers' threads, the read thread, the owner's thread; `Connection` below, topology callback above |
| `Connection` | socket, `connected_` | `connect`, `send`, `receive`, `shutdown`, `close`, readers of body fields | kernel, server |
| `Codec`, `HeaderCodec` | none | fields and headers to and from bytes | every request and response |
| SASL (`SaslAuthenticator`, `SCRAM`) | one exchange: nonce, server-first, completed flag | `authenticate`, inside `connect` | the server, on the stream that the read thread takes over |
| `RemoteCache` (routing and pool) | `topology_`, `consistentHash_`, `connectionPool_`, `connection_`, all under `stateMutex_` | `selectServerForKey`, `selectAnyServer`, `getConnectionForServer`, `handleTopologyUpdate`, `cleanupStaleConnections`, destructor | callers, and the read threads of all its connections through the callback |
| `RemoteCache` (operations) | none | the ten operations: request layout, body parser, result | body parsers run on the read thread; the returned future owns a reference to the connection |
| `RetryView`, `RetryContext` | the nodes to exclude | every operation again, with exclusions | the caller's retry loop |
| `ServerSelection`, `HotRodClientException` | none | candidate order, node union; classification of failures | routing, the caller |
| `TopologyInfo` | server list, segment owners, round-robin index | parse, add, remove, clear, select | read loop, routing |
| `ConsistentHash` | segment table | update, segment of a key, owners of a key | routing |
| `MurmurHash3` | none | a pure function on bytes | `ConsistentHash` |
| `ServerSelector` | an index | selection | not compiled, not used |

What is hard here: several threads call `execute()` while one thread reads
answers in any order and another may close; every response of every operation
must be consumed to its last byte, because the stream is shared; a connection
may be lost between any two bytes; a failure has to tell its caller whether the
operation may have been executed, because the caller, not the client, decides
to retry; topologies arrive on read threads while callers select servers, and
evict connections whose destructor joins a read thread, on whichever thread
drops the last reference.

What makes each part correct:

* connection: a future gets its own answer, once; none is forgotten; failure
  phases can be trusted; `close()` returns and resolves everything;
* bytes: each side decodes what the other encoded, however the kernel splits it;
* handshake: success means that both sides agreed, and nothing is left in the stream;
* routing: owners first, nothing excluded, a pool that follows the topology;
* pool: a connection lives as long as it is used, a thread no longer than its
  object, and locks are given back;
* retry: no write is executed twice unless its caller accepts that; no server is
  asked twice;
* operations: each parser takes exactly the body that was sent, and the result
  means what the header says;
* hash topology: a key goes to the servers that the last update names.

## 2. Modules

| Module | Models |
|---|---|
| `MultiplexedConnection`, `MCMultiplexedConnection` | `MultiplexedConnection.cpp` and the socket operations of `Connection.cpp` |
| `MultiplexedConnectionProofs` | its inductive invariant and theorems, and the proof that it implements `RequestFuture` |
| `RequestFuture` | what a connection promises to the callers of `execute()`: the abstract specification |
| `Wire`, `MCWire` | `Codec.cpp`, the request header of `HeaderCodec.cpp`, `send()`, `receive()` and the field readers of `Connection.cpp`, `writeMutex_` |
| `WireProofs` | its theorems, the codec for values of any width included |
| `SaslHandshake`, `MCSaslHandshake` | `SaslAuthenticator.cpp`, `SCRAM.cpp`, the handshake part of `MultiplexedConnection::connect()` |
| `SaslHandshakeProofs` | its theorems |
| `ServerSelection` | `ServerSelection.h`, the helpers of `HotRodClientException.h` (operators) |
| `ServerSelectionProofs` | theorems about these operators, and the lemmas on induction and folds that other proofs use |
| `RemoteCache`, `MCRemoteCache` | routing, pool, topology updates, and callers that retry |
| `RemoteCacheProofs` | its theorems |
| `ConnectionPool`, `MCConnectionPool` | ownership and destruction of connections, `stateMutex_` across threads, `~RemoteCache()` |
| `ConnectionPoolProofs` | its theorems |
| `Operations` | the operations of `RemoteCache.cpp`: requests, parsers, results |
| `OperationsProofs` | its theorems, for protocol 4.0 and later |
| `ConsistentHash` | parsing of a topology (`TopologyInfo.cpp`), `ConsistentHash.cpp` |
| `KeyRouting`, `MCKeyRouting` | `selectServerForKey()`: the hash topology and the candidate order together, for a caller that retries |
| `KeyRoutingProofs` | the theorems of `ConsistentHash` and `KeyRouting` |

`RemoteCache` extends `ServerSelection`; `KeyRouting` extends `ServerSelection` and
`ConsistentHash`; `MultiplexedConnection` instantiates `RequestFuture`. One
connection appears at three levels of detail: by itself in
`MultiplexedConnection`, with the steps that other connections and the cache can
observe in `ConnectionPool`, and as a condition in `RemoteCache`.

### MultiplexedConnection and RequestFuture

Each member variable of the class is a variable. `pc[r]` is where the call
`execute()` of request `r` stands, `rpc` where the read loop stands, `cpc` where
`connect()` or `close()` stands; an action is one step that the code makes
atomic: an access to an atomic, a section under `pendingMutex_`, a receive, a
write under `writeMutex_`. The stream from the server is a sequence of tokens, a
header and, unless the status has none, a body; the one to the server a
sequence of frames. Tokens carry the request they belong to (`of`, `req`),
which the code never reads and the properties compare.

Abstractions: a body that nobody read is met as an invalid magic byte (its
first byte could by chance be the magic byte; then the stream is out of step
as well, and later). Message ids are 64-bit in the code and unbounded here. The
kernel takes a frame whole, refuses it, or (with `"partialWrite"`) takes a part.
The handshake inside `connect()` succeeds or fails. Obligations on the caller:
`connect()` is not called while another thread is inside `execute()`, which uses
`connection_` without a lock; `close()` and `connect()` are called by one thread.
The data race between `close()` and `send()` on the members of `Connection` shows
as a send that may fail or not.

`RequestFuture` has none of this: a call is idle, running, returned, refused
(`BeforeSend`) or aborted (`AfterSend`), a future open, answered, rejected or
failed, and a request executed or not. `CallState` and `FutureState` are the
refinement mapping; a future that carries the answer to another request is
mapped to a value that no step of `RequestFuture` produces.

### Wire

Bytes are numbers, frames sequences of them. `writeVInt`, `writeLong` and the
others are the functions of `Codec`; the widths (7-bit groups, 32-bit and 64-bit
variable integers, 8-byte longs) are constants, so that the boundaries are met
with short frames. `::send()` takes and `::recv()` gives any non-empty part. The
read thread keeps the field it is in, the bytes it still needs and the partial
value (`sum`: the groups of a variable integer so far, and two to the power of the
shift), as the local variables of `readLoop()` and of the `receive...` functions do. The server parses with the read functions of `Codec` and answers with a byte
array and a long, the two shapes of field that bodies consist of.

### SaslHandshake

`turn` is the exchange (mechanism list, client-first, client-final), `step` the
field that the blocking reads of `authenticate()` have come to. A response is a
sequence of fields, as it has no total length. Cryptography is symbolic: the
result of a function is the tuple of its arguments. A correct server may refuse
at any time; a faulty one sends wrong magic bytes, statuses and opcodes, flags
too early, nonces and signatures of another session, garbled messages. Base64
and the text of the messages are abstracted to whether they parse.

### RemoteCache

An operation is a caller with the retry loop of `examples/quickstart/retry.cpp`:
attempt, catch, give up or go on with the tried nodes excluded. `stateMutex` is
the mutex, held from the moment the candidates are computed to the moment a
connection is acquired or none is left; acquiring a candidate is one step, and
topology updates wait. A connection is `live`, `broken` (the peer is gone, the
read loop has not noticed) or `dead`. The key has one owner list; what the hash
makes of it is in `ConsistentHash`. Views are applied in any order, as the code
does. An answer is a success, an ERROR response (`ServerFails`), a status that the
operation does not expect (`UnexpectedStatus`) or the answer to another operation
(`OpcodeMismatch`), each before or after the server has executed the request. One
assumption is made of servers (`AfterExecuting`): the node-level statuses 0x87 and
0x88 mean that the request was not executed, as `HotRodClientException.h` takes
them; any other status may follow the execution.

### ConnectionPool

Every connection object has a read thread (`rpc`), every operation a thread
(`opc`) and, after `execute()`, a future that holds a reference (`held`). `Release`
is what dropping a reference does: the last one makes the thread that dropped it
the `closer`, which does nothing else until the join is over. `CloseStop` and
`CloseJoin` are `close()`; `JoinsItself` is the case in which the thread would wait
for itself. `Forget` drops a future without `get()`. `cleanupStaleConnections` is
one `erase()` per step, with `stateMutex_` held, on a read thread. Topology ids
travel as in the code: a request carries the id its connection knows, an answer
brings the cluster's topology if that is newer. Candidates come in any order, for
each order is that of some key; exclusion lists are in `RemoteCache`. `execute()`
is one step here. The cache is destroyed only when every call has returned, as
the destructor of an object in use is undefined.

### Operations

Requests and responses are sequences of fields. The server decodes what the
client wrote and sends what the comments in the parsers say for each status and
version, so a parser that takes a field too many or too few is seen at once.
Calls are pipelined; a parser that waits for more than has arrived waits.

### ConsistentHash and KeyRouting

A key is its normalized hash. `referenceSegment` is the mapping of the other side, as
the comment in `getSegment()` gives it; the properties are stated against it, not
against the formula of the code. Updates are enumerated with repeated addresses and
invalid indices. `KeyRouting` adds one caller that tries the first candidate, fails
and calls again with the tried nodes excluded, while updates arrive in between.
The failure comes through the future, which carries the union of excluded and
tried nodes; `cache_tried` shows the path that does not.

## 3. Runs

All bounds are in the cfg files. Deadlock checking is off everywhere: all these
systems may stop (all calls made, connection closed).

| Run | Shows |
|---|---|
| `conn_faults` | two requests, one session, partial writes, repeated answers, unexpected opcodes, SIGPIPE: reported phases can be trusted, and the connection implements `RequestFuture`. Two requests and one repeated answer in the stream are enough for an answer that comes twice, or late, to meet another request |
| `conn_live` | two requests, two sessions, two topologies, a server that follows the protocol, a peer that may vanish: `close()` returns and fails every future; while the peer is up every future is answered; futures get their own answers and none is lost, every response finds its request and the stream stays in step; a recorded topology was handed on (in the first session); and `IInv`, the invariant of the proofs. Two sessions let a request of the first one outlive it |
| `wire` | two threads with two of three payloads (zero and empty; the first value of a second group; the largest of everything and a negative version), split and cut anywhere |
| `sasl` | two sessions, so that nonce and signature of the first can be presented in the second; right and wrong passwords; the mechanism offered first, last or not; correct and faulty servers |
| `cache_routing` | a write and a ping, three servers that may stop and return once, two views that move the key, servers that answer with errors, unexpected statuses or another opcode before and after they execute: pool, routing, at-most-once, and whether a failure that looks safe to replay is. One stop and one exclusion are what leaves a caller without servers |
| `pool_lifetime` | two operations, the seed and two more connections, a cluster that loses a server, one lost connection, to the end of the destructor. Two connections that bring the same update, one of them to be evicted by it, are what a cycle of waiting needs |
| `ops_v41` | all sequences of three operations with all options, protocol 4.1: one writes, one changes, one reads |
| `key_routing` | lists of up to three servers, updates of one segment with up to two owners or two segments with up to one, and tables of 3 to 12 segments over 64 hashes, most of them no power of two; two keys, with and without proxying |

The safety properties of the connection that these runs check with two requests are
proved for any number of requests and sessions (section 4).

Violations, each a disagreement between the code and what it says of itself:

| Run | The code does |
|---|---|
| `conn_hang` | a connection lost between the test of `connected_` and the registration leaves a future that is never resolved |
| `cache_tried` | an exception thrown by `execute()` itself drops the nodes tried before |
| `pool_deadlock` | a caller drops its future; a topology update evicts that connection and joins its read thread with `stateMutex_` held, while that thread waits for `stateMutex_` with its own update. The analysis in `docs/DECISIONS.md` misses this edge, since it looks at `connect()` and not at the destructor. `pool_lifetime` shows that the cycle needs a dropped future |
| `segment_documented` | with a number of segments that is no power of two `getSegment()` gives a segment that neither of its descriptions gives: the modulo of `ConsistentHash.h:59`, or the division by `ceil(2^31 / numSegments)` that `ConsistentHash.cpp:69-73` calls equivalent (five segments, hash 1288490189: segment 3, against 4 and 2). With a power of two it agrees with the division (`OwnersAsSent`, `SegmentNearReference`), and not with the modulo |

Further disagreements seen while modelling, without a run of their own:

* `MultiplexedConnection.cpp:55`: `connect()` after the read loop has ended by itself
  overwrites a joinable `std::thread`, which ends the process;
  `MultiplexedConnection.h:89` does not ask for a `close()` before (modelled:
  `ConnectStartReader`).
* `RemoteCache.cpp:521` and four more parsers call `receiveMetadata()` whatever the
  protocol version, although `:519` says "Protocol 4.0+ returns metadata + value" and
  `put` tests it (`:459`): with `Version = 31` `Operations` violates `TakesItsOwnBody`.
* `HeaderCodec.cpp:35`: the comment says media types are written since "Protocol 2.8+";
  the test, `>= 0x28`, is that of protocol 4.0 (modelled: `writeParams`).
* `MultiplexedConnection.cpp:36-37`: "a failure here throws HotRodClientException"; a
  stream that ends inside the handshake, `RAND_bytes()`, PBKDF2 and base64 throw
  `std::runtime_error` (modelled: `thrown = "untyped"`).
* `Connection.cpp:182`: after a partial write the connection stays in use, and the next
  frame is appended to half of one (modelled: `SendPartial`).
* `Connection.cpp:175`: `send()` on a connection the peer has dropped raises SIGPIPE
  unless the host program ignores it, where `MultiplexedConnection.cpp:158-159` promises
  `AfterSend` (modelled: `SendKills`, explored by `conn_faults`).
* `RemoteCache.cpp:989`: without a hash topology the default connection is used whatever
  is excluded; `RetryContext.h:31` says "don't dispatch here again" (modelled:
  `SelectSeed`).
* `MultiplexedConnection.cpp:268`: a connection lost inside a body puts the parser's
  `std::runtime_error` in the future; `HotRodClientException.h:41` says "Typed exception
  for all Hot Rod client failures" (modelled: `BodyCut`).
* `RemoteCache.cpp:977`: "No servers available" has phase `BeforeSend` and so is transient;
  `docs/ERROR_HANDLING_DESIGN.md:282-284` asks for a non-transient exception so that the
  user's loop stops (modelled: `NoServers`).
* `RemoteCache.cpp:177`, `:219`: parameters of media types in a PING answer are counted and
  not read, although `:130` says the entire body must be consumed; `:230` reads the opcode
  count most significant group first, unlike every other vInt.
* `MultiplexedConnection.cpp:247-260`: an answer with another opcode is a `ServerError`
  without a status, although `HotRodClientException.h:23` says "server replied with an
  ERROR (0x50) status"; the server may have executed the request, and
  `outcomeUncertain()`, "might the operation have applied despite the failure?" (`:105`),
  is false of it, as it is of a permanent error that follows the execution (modelled:
  `OpcodeMismatch`, `ServerFails`). Neither is transient, so a caller that follows the
  retry loop does not replay; `ReplayIsSafe` therefore speaks of transient failures only.
* `RemoteCache.cpp:482-485` and the throws of the parsers (`:529-530`): the exception for an
  unexpected status does not name the connection's address, so with the default
  connection `triedNodes` is empty (modelled: `UnexpectedStatus`).
* `TopologyInfo.cpp:20`: `removeServer()` leaves the round-robin index past the end. Only
  unit tests call it.

Fairness. Weak fairness of each thread that is inside an operation: the
operating system runs threads that can run. Weak fairness of the server's
reading and answering while it is up: the client has no timeouts, so nothing can
be promised against a server that stays silent. No fairness for starting a
call, for `connect()`, `close()`, dropping a future, destroying the cache,
failures or topology changes. In `ConnectionPool` a mutex that is free may be taken
by any thread that wants it, and weak fairness is enough because only finitely
many operations compete for it.

Each property of a passing run has a mutant: a definition changed the way a
plausible bug would change it (`Bug_...`, next to the original), which the run
must refute.

## 4. Proofs

`MultiplexedConnectionProofs`, for any set of requests, any number of sessions and
topologies, with and without each fault, from `ConstantsAssumption` alone:

* `TypeCorrect`: `Spec => []TypeOK`;
* `Invariance`: `Spec => []IInv`;
* `AnswersMatch`: `[]OwnAnswer`; `NothingForgotten`: `[]NoForgottenRequest`;
  `PhasesHonest`: `[]PhaseIsHonest`; `PromisesSetOnce`: `ResolvedOnce`.

None of these invariants is inductive. That a future gets its own answer depends
on message ids being unique (`IdInv`), on each frame and each unanswered request
carrying the id of its owner (`FrameInv`), on response headers in the stream and
in the hands of the read thread doing so (`InboxInv`, `HeaderInv`), on a body
following the header of the same response (`BodyInv`), and on the pending map
holding entries under their owners' ids, disjoint from what the read thread took
out (`PendingInv`). `AnswerInv` says what a set promise may hold. `IInv` is their
conjunction with `TypeInv`. The proof takes one step per action and, for the parts
an action cannot touch, lemmas on what each action changes (`InboxEffect` and
others). `ResolvedOnce` follows from `PendingInv`: a promise in the map, or in the
hands of the read thread, is unset.

The same module has three theorems that need a well-behaved server:

* `NoResponseOrphaned`: without repeated answers, `[]NoOrphan`, whatever other faults
  there are. `FlightInv`: a request is in at most one of the places where its answer
  can come from (frame, server, stream, read thread; `PlaceInv`), in which case its
  frame was sent (`SentInv`) and, while the read loop of the same session runs, it is
  in `pending_` (`ExpectedInv`). `OwnerInv` says where the owner's `connect()` or
  `close()` and the read thread can stand at the same time.
* `StreamStaysInSync`: without repeated answers and wrong opcodes, `[]StreamInSync`.
  `SyncInv`: headers and bodies alternate (`Framed`), the stream goes on where the
  read loop stands (`InStep`), and the header in its hands is an ordinary one
  (`KindInv`).
* `TopologiesReported`: without repeated answers, `[]TopologyReported`, which speaks of
  the first session. A second one may begin with a topology that the first recorded and did
  not report, if it was lost inside an error message (hazard
  `MultiplexedConnection.cpp:211`), so the property says no more.

The hypotheses are the faults that break these properties; `conn_faults` explores
them.

The refinement, from the same assumption and for any faults: `Refinement`,
`Spec => ImplementsFutures`. `InitMaps` maps the initial states. `StepMaps` has one
case per thread. A step of `execute()` begins, ends or leaves a call
(`ExecuteMaps`); a delivery answers or fails the one future in the hands of the read
thread, which `IInv` says is open and, for an answer, of an executed request
(`ReadLoopMaps`); `closeAllPending()`, on either of its two threads, fails a set of
open futures of numbered, hence not refused, requests (`CloseAllMaps`,
`NumberedCall`); the server executes only requests whose frame was sent
(`ServerReceiveMaps`); everything else stutters (`Stutter`). `IInv` is needed in
every case but the last, so the theorem rests on `Invariance`.

`ServerSelectionProofs`, without assumptions, for lists of any length: what
`orderKeyCandidates()` and `unionNodes()` return (`CandidateSet`, `CandidateOrder`,
`OwnersFirst`, `UnionSet`). Both are folds. `FoldExists` and `FoldIterates` turn a
fold into the sequence of values of its accumulator; `InductionUpTo` carries an
invariant along it. It is induction stated for a set of naturals rather than a
predicate, and rests on `LeastNatural`.

`KeyRoutingProofs`, from `HashAssumption` and `KeyAssumption`: `SegmentInRange`, the
segment of every hash is in the table whatever the sizes, so that the range test
after it is never needed; `TableIsWhole` and `RoutedAsSent` (`[]NoPartialTable`,
`[]OwnersAsSent`), from the invariant `HashInv` that servers and table are those of
the last update, repetitions dropped (`OwnersAsSent` itself supposes that each server
is listed once, that indices are valid and that the number of segments divides the
hash space); `SegmentsNear` (`[]SegmentNearReference`), since the code's segment is never
below the reference (`NotBelowReference`), equal to it if the division by the segment
size leaves no rest (`SameSegment`), and at most one above while the square of the
number of segments is within the hash space (`NextSegment`); `CandidatesOrdered` and
`NeverTriedTwice` (`[]CandidatesAreOrdered`, `[]NoServerTriedTwice`), from `RoutingInv`
(what was attempted is excluded) and the theorems on selection; `RoutingKeepsHash`,
`RoutingSpec => Spec`: a caller's attempts are stuttering steps of `ConsistentHash`.

`RemoteCacheProofs`, from `RoutingAssumption`, for any operations, servers, views and
attempts: `TypeCorrect`, `PoolSafe`, `AtMostOnce`, `ReplaySafe` (`[]TypeOK`,
`[]PoolWithinTopology`, `[]AppliedAtMostOnce`, `[]ReplayIsSafe`) and the
action properties `RoutingSafe` and `ExhaustedIsTrue` (`RoutingRespectsOwners`,
`OwnersExhaustedIsTrue`). `RouteInv`: who selects holds the lock, and the candidates
are those of the topology as it is. `OnceInv`: an operation that is not replayed in
doubt has not been applied unless it has got so far that nobody sends it again, and
what it threw is transient and certain only if it was not applied; the number of
executions alone is not inductive.

`SaslHandshakeProofs`, from `HandshakeAssumption`, for any passwords, mechanisms,
sessions and faulty servers: `Agreement` (`[]ConnectedMeansAgreed`), `NothingLeft`
(`[]HandshakeLeavesNothing`), `BlameIsDue` (`[]CorrectServerNotBlamed`). `StreamInv`: a
request is outstanding, or its answer, or neither, and the stream holds the rest of
one answer (`Framed`); a challenge on its way that signs anything signs what `signed`
holds, with the server's secret (`ChallengeOK`); `OfferInv`: how many names are still
to be read, and whether the mechanism was among those read; `NonceInv`: the exchange is
about the nonce of this session; `OutcomeInv`: what `connect()` returned or threw.

`ConnectionPoolProofs`, from `PoolAssumption`, for any operations, connections and
views: `RequestsSpared` (`[]EvictionSparesRequests`), `ThreadsJoined`
(`[]NoThreadWithoutObject`), `TopologyKnown` (`[]AppliedTopologyIsKnown`),
`TeardownUndisturbed` (`[]NoUpdateDuringTeardown`), and `NoCycleIfKept`, the safety half
of `MutexReleasedIfKept`: unless a future was dropped, no thread joins a read thread
that is on its way to `stateMutex_`. `ObjectInv`: which connections exist and which may
be ending, on whose thread; `RequestInv`: a request is with one connection, once, and
its future holds that connection; `TopologyInv`: nobody knows a topology that was not
sent; `SelfInv`: only a dropped future lets a thread end its own connection.

`OperationsProofs`, from `OperationsAssumption` and `Version >= 40`, for any set of the
operations and any number of pipelined calls: `BodiesTaken` (`[]TakesItsOwnBody`),
`EntriesArePrevious` (`[]EntryIsThePreviousOne`), `TrueIsDone` (`[]TrueMeansDone`),
`AskedIsStored` (`[]StoredAsAsked`). `StreamInv` cuts the stream into the answers to the
oldest calls: there are offsets at which each answer begins with a header that the
server sent for that call and holds its body behind it, whole. `RequestInv`: requests on
their way are those of the youngest calls. `DecodedAsMeant` shows that the server decodes
what the client encoded, `BodyTaken`, case by case, that each parser takes what each
status is followed by. Below 4.0 `TakesItsOwnBody` is false (section 3).

`WireProofs`, from `WireAssumption`, for any number of threads, any payloads that fit
their types and any widths of groups, variable integers and longs:

* `VIntRoundTrip`, `ArrayRoundTrip`, `LongRoundTrip`: each read function of `Codec`
  returns what its write function wrote and stops behind it, whatever follows. The
  lemmas they come from (`VIntReadBack`, `ArrayReadBack`, `LongRead`) also say that on a
  buffer that ends too early a value is not read at all, never a part of it. A
  function that is defined by recursion is a `CHOOSE`; `RecursionUpTo` and
  `GroupsExist` show that there is one to be chosen, by induction over a set of
  naturals. A variable integer is read group by group with the invariant `Partly`:
  what was read, and the groups to come shifted by as much, make up the value.
* `DecodedAsEncoded`: `[]ReadAsWritten`. It is not inductive, since it says nothing of
  the bytes that are under way. `Locking`: only the holder of `writeMutex_` sends, and
  a frame that waits for the lock is whole. `Sending`: there is an order of threads,
  the one in which they got the lock, such that the server has parsed the requests
  of the first of them and, until the cut, the bytes on the wire with the unsent
  rest of the holder's frame are what is left of the frames of the others, from the
  field on that the server has come to (`Flowing`). `Receiving`: buffer, kernel and
  what a cut took away are what is left of the answers, from the field on that the
  read thread has come to (`Arriving`, `Owed`). `Chained` names the ends of a stream,
  so that getting the lock appends a piece at one end (`FlowGrows`, `ArriveGrows`),
  reading takes one off at the other (`FlowRead`, `FlowDone`, the `Arrive...` lemmas),
  and `::send()`, `::recv()` and a cut only move the places where it is split.

`WireAssumption` says what the types of the arguments say: ids are of 64 bits, flags and
topology ids of 32, arrays shorter than 2^32, versions of 64 bits with a sign; and that
the protocol is 4.0 or later, whose requests the server of the model parses.

The invariants were checked with TLC on small instances before they were proved; `IInv`
of the connection is part of `conn_live`.

Only model-checked:

* liveness (`CloseReturns`, `CloseResolves`, `AnsweredWhileUp`, `MutexReleasedIfKept`,
  `TeardownEnds`, `HandshakeEnds`, `EverythingArrives`), which is out of the prover's reach.

## 5. Not modelled

* `MurmurHash3`: a pure function with test vectors.
* `ServerSelector`: not compiled.
* `ConsistentHash::parseHashTopology`, `getPrimaryOwner`, the round robin of
  `TopologyInfo` and `HeaderCodec::readResponseHeader`: used by tests only.
* Name resolution and the choice among addresses in `Connection::connect()`: success
  or failure of the whole.
* Cryptographic strength, base64, SASLprep (`saslPrep()` has no caller).
* Overlong variable integers, which only a server that breaks the protocol sends:
  the shift is then undefined.
* A future that outlives its cache: its connection's callback would use a destroyed
  object; `ConnectionPool` destroys the cache after every call has returned, and
  says nothing of dropped futures then (`~Forgotten`).

## 6. Plan

1. Done: the connection, its proofs and its refinement of `RequestFuture`; bytes; the
   handshake; selection; routing and retry; pool and lifetime; operations; hash
   topology. Every safety property that holds in a run is proved.
2. More of the refinements: `RemoteCache` against an abstract specification of what a
   caller that retries may rely on.
