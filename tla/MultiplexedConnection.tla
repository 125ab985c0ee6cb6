------------------------ MODULE MultiplexedConnection ------------------------
(***************************************************************************)
(* One Hot Rod connection shared by many concurrent requests               *)
(* (src/src/transport/MultiplexedConnection.cpp).                          *)
(*                                                                         *)
(* Three kinds of thread run here: the callers of execute(), one per       *)
(* member of Requests; the read thread, which runs readLoop(); and the     *)
(* owner, the thread that calls connect() and close().  Every action is    *)
(* one atomic step of one of them: an access to an atomic member, a        *)
(* section under pendingMutex_ or writeMutex_, or a receive.               *)
(*                                                                         *)
(* The byte stream is two sequences.  outbox holds the request frames the  *)
(* kernel took from send(); inbox holds what recv() will return, as        *)
(* header tokens (message id, opcode, status and the topology when the     *)
(* marker is set) and body tokens (everything after the header).  The      *)
(* server and the network are external: frames are read in order, answers  *)
(* come in any order, and the peer may vanish between any two bytes.       *)
(***************************************************************************)
EXTENDS Naturals, Sequences, FiniteSets

CONSTANTS
    Requests,       \* the calls of execute(), each made once
    NoReq,          \* "no request"
    MaxTopology,    \* bound: the last topology id the server reaches
    MaxSessions,    \* bound: how often connect() is called
    MaxInbox,       \* bound: tokens in the inbox when a faulty server repeats
    Aware,          \* clientIntelligence_ is TOPOLOGY_AWARE or better
    SigPipeIgnored, \* the host program ignores SIGPIPE
    Faults          \* what goes wrong beyond a lost connection

ASSUME ConstantsAssumption ==
    /\ NoReq \notin Requests
    /\ MaxTopology \in Nat \ {0}
    /\ MaxSessions \in Nat \ {0}
    /\ MaxInbox \in Nat
    /\ Aware \in BOOLEAN
    /\ SigPipeIgnored \in BOOLEAN
    /\ Faults \subseteq {"partialWrite", "duplicate", "wrongOp"}

VARIABLES
    \* the members of MultiplexedConnection
    connected,      \* connected_
    stopReadLoop,   \* stopReadLoop_
    nextMessageId,  \* nextMessageId_
    pending,        \* pending_: a set of entries [id, req], unique by id
    topologyId,     \* topologyId_
    \* the callers of execute()
    pc,             \* where each call stands
    msgId,          \* its message id
    sentTopo,       \* the topology id in its request header
    exc,            \* the phase of the exception it threw
    promise,        \* what its promise was set to
    \* the read thread
    rpc,            \* where readLoop() stands
    rhdr,           \* the header it is processing
    rreq,           \* the request whose pending entry it took
    notified,       \* topology id last handed to onTopologyUpdate_
    \* the owner
    cpc,            \* where connect() or close() stands
    sessions,       \* number of sockets opened so far
    dead,           \* why the process was killed, if it was
    \* the socket and the server (external)
    sock, peer, outbox, inbox, unanswered, applied, srvTopology

callVars   == <<nextMessageId, pc, msgId, sentTopo, exc>>
readVars   == <<rpc, rhdr, rreq, notified, topologyId>>
ownVars    == <<stopReadLoop, cpc, sessions>>
netVars    == <<sock, peer, outbox, inbox, unanswered>>
serverVars == <<applied, srvTopology>>
vars == <<connected, pending, promise, dead,
          callVars, readVars, ownVars, netVars, serverVars>>

-----------------------------------------------------------------------------
(* Data *)

NoTopo == 0    \* the topology marker of the response is 0

\* What a response is to the read loop: the expected opcode with a body, the
\* expected opcode with a status that has no body, ERROR_RESPONSE with its
\* message, or an opcode the request did not expect.
AnswerKinds == {"body", "empty", "error"} \cup ({"wrongOp"} \cap Faults)

Header == [token : {"header"}, id : Nat, of : Requests, topo : Nat,
           kind : {"body", "empty", "error", "wrongOp"}]
Body   == [token : {"body"}, of : Requests]
NoHeader == [token |-> "none"]

\* What a future can carry: an answer, a server error, an opcode mismatch, the
\* exception of a body parser cut short, or the AfterSend of closeAllPending().
Unset == [kind |-> "unset", of |-> NoReq]
Outcome == [kind : {"unset", "body", "empty", "serverError", "mismatch",
                    "parseError", "dropped"},
            of : Requests \cup {NoReq}]

Resolved(r) == promise[r] # Unset

\* Mutant: requests failed by closeAllPending() are reported as never sent.
Bug_DroppedIsBeforeSend(r) ==
    IF exc[r] # "none" THEN exc[r]
    ELSE IF promise[r].kind = "dropped" THEN "BeforeSend"
    ELSE IF promise[r].kind \in {"serverError", "mismatch"} THEN "ServerError"
    ELSE "none"

\* The phase a caller is told for a failed request: the exception execute()
\* threw, or the one its future carries.
ReportedPhase(r) ==
    IF exc[r] # "none" THEN exc[r]
    ELSE IF promise[r].kind = "dropped" THEN "AfterSend"
    ELSE IF promise[r].kind \in {"serverError", "mismatch"} THEN "ServerError"
    ELSE "none"

Init ==
    /\ connected = FALSE /\ stopReadLoop = FALSE
    /\ nextMessageId = 0
    /\ pending = {}
    /\ pc = [r \in Requests |-> "idle"]
    /\ msgId = [r \in Requests |-> 0]
    /\ sentTopo = [r \in Requests |-> NoTopo]
    /\ exc = [r \in Requests |-> "none"]
    /\ promise = [r \in Requests |-> Unset]
    /\ rpc = "none" /\ rhdr = NoHeader /\ rreq = NoReq
    /\ topologyId = NoTopo /\ notified = NoTopo
    /\ cpc = "idle" /\ sessions = 0 /\ dead = "no"
    /\ sock = "none" /\ peer = "gone"
    /\ outbox = <<>> /\ inbox = <<>>
    /\ unanswered = {} /\ applied = {}
    /\ srvTopology = 1

-----------------------------------------------------------------------------
(* The pending map *)

\* pending_.find(id)
FindPending(id) == {p \in pending : p.id = id}

\* pending_.erase(id)
Bug_EraseNothing(id) == pending    \* mutant: the entry stays in the map
ErasePending(id) == {p \in pending : p.id # id}

\* Mutant: the map is cleared and the promises are forgotten.
Bug_ClearWithoutFailing == pending' = {} /\ promise' = promise

\* Every registered request gets an AfterSend error, and pending_ is emptied.
\* A promise that is already satisfied is left alone.
closeAllPending ==
    /\ promise' = [r \in Requests |->
           IF promise[r] = Unset /\ \E p \in pending : p.req = r
           THEN [kind |-> "dropped", of |-> NoReq]
           ELSE promise[r]]
    /\ pending' = {}

-----------------------------------------------------------------------------
(* execute(), on the thread of its caller *)

\* Callers whose execute() has passed its connected_ test and not ended.
Executing == {r \in Requests : pc[r] \in {"checked", "numbered", "registered",
                                          "built", "sendFailed"}}

ExecuteCheck(r) ==
    /\ pc[r] = "idle"
    /\ \/ /\ connected
          /\ pc' = [pc EXCEPT ![r] = "checked"]
          /\ exc' = exc
       \/ /\ ~connected
          /\ pc' = [pc EXCEPT ![r] = "threw"]
          /\ exc' = [exc EXCEPT ![r] = "BeforeSend"]
    /\ UNCHANGED <<nextMessageId, msgId, sentTopo, pending, outbox, dead>>

\* Mutant: the id is read and never advanced.
Bug_SameMessageId(r) ==
    /\ pc[r] = "checked"
    /\ msgId' = [msgId EXCEPT ![r] = nextMessageId]
    /\ pc' = [pc EXCEPT ![r] = "numbered"]
    /\ UNCHANGED <<nextMessageId, sentTopo, exc, pending, outbox, dead>>

ExecuteNumber(r) ==
    /\ pc[r] = "checked"
    /\ msgId' = [msgId EXCEPT ![r] = nextMessageId]
    /\ nextMessageId' = nextMessageId + 1
    /\ pc' = [pc EXCEPT ![r] = "numbered"]
    /\ UNCHANGED <<sentTopo, exc, pending, outbox, dead>>

\* pending_[msgId] = ... replaces an entry with the same key.
ExecuteRegister(r) ==
    /\ pc[r] = "numbered"
    /\ pending' = ErasePending(msgId[r]) \cup {[id |-> msgId[r], req |-> r]}
    /\ pc' = [pc EXCEPT ![r] = "registered"]
    /\ UNCHANGED <<nextMessageId, msgId, sentTopo, exc, outbox, dead>>

buildRequest(r) ==
    /\ pc[r] = "registered"
    /\ sentTopo' = [sentTopo EXCEPT ![r] = topologyId]
    /\ pc' = [pc EXCEPT ![r] = "built"]
    /\ UNCHANGED <<nextMessageId, msgId, exc, pending, outbox, dead>>

Frame(r, whole) ==
    [id |-> msgId[r], req |-> r, topo |-> sentTopo[r], whole |-> whole]

\* The kernel takes the whole frame.  Once the peer is gone it still may: the
\* bytes reach nobody.
SendWhole(r) ==
    /\ sock = "open"
    /\ outbox' = IF peer = "up" THEN Append(outbox, Frame(r, TRUE)) ELSE outbox
    /\ pc' = [pc EXCEPT ![r] = "returned"]
    /\ dead' = dead

\* Connection::send() throws: the socket is shut or closed, or the peer reset
\* the connection.
SendThrows(r) ==
    /\ sock # "open" \/ peer = "gone"
    /\ pc' = [pc EXCEPT ![r] = "sendFailed"]
    /\ UNCHANGED <<outbox, dead>>

\* ::send() has no MSG_NOSIGNAL: on a broken pipe a process that does not
\* ignore SIGPIPE dies instead.
SendKills(r) ==
    /\ ~SigPipeIgnored
    /\ sock = "shut" \/ (sock = "open" /\ peer = "gone")
    /\ dead' = "sigpipe"
    /\ UNCHANGED <<outbox, pc>>

\* ::send() takes a part of the frame and then returns -1 (EINTR, ENOBUFS).
SendPartial(r) ==
    /\ "partialWrite" \in Faults
    /\ sock = "open" /\ peer = "up"
    /\ outbox' = Append(outbox, Frame(r, FALSE))
    /\ pc' = [pc EXCEPT ![r] = "sendFailed"]
    /\ dead' = dead

ExecuteSend(r) ==
    /\ pc[r] = "built"
    /\ SendWhole(r) \/ SendThrows(r) \/ SendKills(r) \/ SendPartial(r)
    /\ UNCHANGED <<nextMessageId, msgId, sentTopo, exc, pending>>

\* The catch block: erase the entry, throw AfterSend.  The future goes with it.
ExecuteSendFailed(r) ==
    /\ pc[r] = "sendFailed"
    /\ pending' = ErasePending(msgId[r])
    /\ exc' = [exc EXCEPT ![r] = "AfterSend"]
    /\ pc' = [pc EXCEPT ![r] = "threw"]
    /\ UNCHANGED <<nextMessageId, msgId, sentTopo, outbox, dead>>

\* Mutant: the request is sent first and registered afterwards.
Bug_SendBeforeRegister(r) ==
    /\ dead = "no"
    /\ \/ ExecuteCheck(r) \/ ExecuteNumber(r)
       \/ /\ pc[r] = "numbered" /\ sock = "open" /\ peer = "up"
          /\ outbox' = Append(outbox, Frame(r, TRUE))
          /\ pc' = [pc EXCEPT ![r] = "registered"]
          /\ UNCHANGED <<nextMessageId, msgId, sentTopo, exc, pending, dead>>
       \/ /\ pc[r] = "registered"
          /\ pending' = pending \cup {[id |-> msgId[r], req |-> r]}
          /\ pc' = [pc EXCEPT ![r] = "returned"]
          /\ UNCHANGED <<nextMessageId, msgId, sentTopo, exc, outbox, dead>>
    /\ UNCHANGED <<connected, promise, readVars, ownVars, serverVars,
                   sock, peer, inbox, unanswered>>

execute(r) ==
    /\ dead = "no"
    /\ \/ ExecuteCheck(r) \/ ExecuteNumber(r) \/ ExecuteRegister(r)
       \/ buildRequest(r) \/ ExecuteSend(r) \/ ExecuteSendFailed(r)
    /\ UNCHANGED <<connected, promise, readVars, ownVars, serverVars,
                   sock, peer, inbox, unanswered>>

-----------------------------------------------------------------------------
(* readLoop(), on the read thread *)

\* receive() throws: the stream has ended, or the socket was shut down under it.
StreamEnds == (inbox = <<>> /\ peer = "gone") \/ sock # "open"

\* The next token of the stream is read.
Receive(token) ==
    /\ inbox # <<>>
    /\ Head(inbox).token = token
    /\ inbox' = Tail(inbox)

ReadLoopTest ==
    /\ rpc = "test"
    /\ rpc' = IF ~stopReadLoop /\ connected THEN "header" ELSE "done"
    /\ UNCHANGED <<connected, pending, promise, rhdr, rreq, notified, topologyId, inbox>>

\* Mutant: the message of an ERROR response is left in the stream.
Bug_ErrorBodyNotDrained(h) == "lookup"

\* The message of an ERROR response is drained before the lookup.
AfterHeader(h) == IF h.kind = "error" THEN "errorBody" ELSE "lookup"

\* The response carries a topology that the client parses.
HasTopology(h) == h.topo # NoTopo /\ Aware

\* topologyId_ is stored before the request is looked up.
ReadHeader ==
    /\ rpc = "header"
    /\ Receive("header")
    /\ rhdr' = Head(inbox)
    /\ topologyId' = IF HasTopology(Head(inbox)) THEN Head(inbox).topo ELSE topologyId
    /\ rpc' = AfterHeader(Head(inbox))
    /\ UNCHANGED <<connected, pending, promise, rreq, notified>>

\* A byte that is not the response magic: a body nobody read.
ReadInvalidMagic ==
    /\ rpc = "header"
    /\ Receive("body")
    /\ rpc' = "failing"
    /\ UNCHANGED <<connected, pending, promise, rhdr, rreq, notified, topologyId>>

\* Mutant: the error message overwrites the header being processed.
Bug_ErrorBodyAsHeader ==
    /\ rpc = "errorBody"
    /\ Receive("body")
    /\ rhdr' = Head(inbox)
    /\ rpc' = "test"
    /\ UNCHANGED <<connected, pending, promise, rreq, notified, topologyId>>

ReadErrorBody ==
    /\ rpc = "errorBody"
    /\ Receive("body")
    /\ rpc' = "lookup"
    /\ UNCHANGED <<connected, pending, promise, rhdr, rreq, notified, topologyId>>

ReadThrows ==
    /\ rpc \in {"header", "errorBody"}
    /\ StreamEnds
    /\ rpc' = "failing"
    /\ UNCHANGED <<connected, pending, promise, rhdr, rreq, notified, topologyId, inbox>>

\* Mutant: the topology of an ERROR response is not handed on.
Bug_ErrorSkipsNotify(h) ==
    IF HasTopology(h) /\ h.kind # "error" THEN "notify" ELSE "dispatch"

AfterLookup(h) == IF HasTopology(h) THEN "notify" ELSE "dispatch"

\* Under pendingMutex_: take the entry out of the map.
LookupPending ==
    /\ rpc = "lookup"
    /\ \E p \in FindPending(rhdr.id) : rreq' = p.req
    /\ pending' = ErasePending(rhdr.id)
    /\ rpc' = AfterLookup(rhdr)
    /\ UNCHANGED <<connected, promise, rhdr, notified, topologyId, inbox>>

\* Nobody waits for this response.  Its body stays in the stream, and its
\* topology is not handed on.
SkipOrphan ==
    /\ rpc = "lookup"
    /\ FindPending(rhdr.id) = {}
    /\ rpc' = "test"
    /\ UNCHANGED <<connected, pending, promise, rhdr, rreq, notified, topologyId, inbox>>

\* onTopologyUpdate_, called with no lock held.
NotifyTopology ==
    /\ rpc = "notify"
    /\ notified' = rhdr.topo
    /\ rpc' = "dispatch"
    /\ UNCHANGED <<connected, pending, promise, rhdr, rreq, topologyId, inbox>>

\* promise.set_value(), and on to the next response.
Deliver(outcome) ==
    /\ promise' = [promise EXCEPT ![rreq] = outcome]
    /\ rreq' = NoReq
    /\ rpc' = "test"

\* Mutant: an ERROR ends the read loop (return instead of continue).
Bug_ErrorEndsLoop ==
    /\ rpc = "dispatch"
    /\ rhdr.kind = "error"
    /\ promise' = [promise EXCEPT ![rreq] = [kind |-> "serverError", of |-> rhdr.of]]
    /\ rreq' = NoReq
    /\ rpc' = "done"
    /\ UNCHANGED <<connected, pending, rhdr, notified, topologyId, inbox>>

DeliverServerError ==
    /\ rpc = "dispatch"
    /\ rhdr.kind = "error"
    /\ Deliver([kind |-> "serverError", of |-> rhdr.of])
    /\ UNCHANGED <<connected, pending, rhdr, notified, topologyId, inbox>>

\* The body of the unexpected response stays in the stream.
DeliverMismatch ==
    /\ rpc = "dispatch"
    /\ rhdr.kind = "wrongOp"
    /\ Deliver([kind |-> "mismatch", of |-> rhdr.of])
    /\ UNCHANGED <<connected, pending, rhdr, notified, topologyId, inbox>>

\* The body parser of the request runs on the read thread.  It reads nothing
\* when the status has no body.
DeliverEmpty ==
    /\ rpc = "dispatch"
    /\ rhdr.kind = "empty"
    /\ Deliver([kind |-> "empty", of |-> rhdr.of])
    /\ UNCHANGED <<connected, pending, rhdr, notified, topologyId, inbox>>

DeliverBody ==
    /\ rpc = "dispatch"
    /\ rhdr.kind = "body"
    /\ Receive("body")
    /\ Deliver([kind |-> "body", of |-> Head(inbox).of])
    /\ UNCHANGED <<connected, pending, rhdr, notified, topologyId>>

\* Mutant: the parser's exception is swallowed and the promise dropped.
Bug_ParseErrorSwallowed ==
    /\ rpc = "dispatch"
    /\ rhdr.kind = "body"
    /\ StreamEnds
    /\ rreq' = NoReq
    /\ rpc' = "test"
    /\ UNCHANGED <<connected, pending, promise, rhdr, notified, topologyId, inbox>>

\* The parser's receive() throws: the future gets that exception as it is, and
\* the loop goes on.
DeliverParseError ==
    /\ rpc = "dispatch"
    /\ rhdr.kind = "body"
    /\ StreamEnds
    /\ Deliver([kind |-> "parseError", of |-> NoReq])
    /\ UNCHANGED <<connected, pending, rhdr, notified, topologyId, inbox>>

\* The catch block: mark the connection dead unless this is a normal shutdown.
ReadLoopDisconnect ==
    /\ rpc = "failing"
    /\ connected' = (connected /\ stopReadLoop)
    /\ rpc' = "draining"
    /\ UNCHANGED <<pending, promise, rhdr, rreq, notified, topologyId, inbox>>

ReadLoopCloseAll ==
    /\ rpc = "draining"
    /\ closeAllPending
    /\ rpc' = "done"
    /\ UNCHANGED <<connected, rhdr, rreq, notified, topologyId, inbox>>

readLoop ==
    /\ dead = "no"
    /\ \/ ReadLoopTest \/ ReadHeader \/ ReadInvalidMagic \/ ReadErrorBody
       \/ ReadThrows \/ LookupPending \/ SkipOrphan \/ NotifyTopology
       \/ DeliverServerError \/ DeliverMismatch \/ DeliverEmpty \/ DeliverBody
       \/ DeliverParseError \/ ReadLoopDisconnect \/ ReadLoopCloseAll
    /\ UNCHANGED <<callVars, ownVars, serverVars, dead, sock, peer, outbox, unanswered>>

-----------------------------------------------------------------------------
(* connect() and close(), on the owner's thread *)

\* Connection::connect(): some address of the host accepts, or none does.
OpenSocket ==
    \/ sock' = "open" /\ peer' = "up"
    \/ sock' = "closed" /\ peer' = "gone"

\* A new Connection replaces the old one.  connect() is not safe against calls
\* of execute() in progress, which use connection_ without a lock: callers
\* keep the two apart, and so does this guard.
ConnectSocket ==
    /\ dead = "no" /\ cpc = "idle"
    /\ ~connected
    /\ sessions < MaxSessions
    /\ Executing = {}
    /\ \/ OpenSocket
       \/ sock' = "none" /\ peer' = "gone"    \* authenticate() failed
    /\ cpc' = IF sock' = "open" THEN "publish" ELSE "idle"
    /\ sessions' = sessions + 1
    /\ outbox' = <<>> /\ inbox' = <<>> /\ unanswered' = {}
    /\ UNCHANGED <<connected, pending, promise, dead, stopReadLoop,
                   callVars, readVars, serverVars>>

ConnectPublish ==
    /\ cpc = "publish"
    /\ connected' = TRUE
    /\ cpc' = "allow"
    /\ UNCHANGED <<stopReadLoop, rpc, dead>>

ConnectAllow ==
    /\ cpc = "allow"
    /\ stopReadLoop' = FALSE
    /\ cpc' = "start"
    /\ UNCHANGED <<connected, rpc, dead>>

\* Destroying a std::thread that was never joined, even one that has ended,
\* calls std::terminate().
ConnectStartReader ==
    /\ cpc = "start"
    /\ \/ rpc = "none" /\ rpc' = "test" /\ dead' = dead
       \/ rpc # "none" /\ rpc' = rpc /\ dead' = "terminate"
    /\ cpc' = "idle"
    /\ UNCHANGED <<connected, stopReadLoop>>

connect ==
    /\ dead = "no"
    /\ ConnectPublish \/ ConnectAllow \/ ConnectStartReader
    /\ UNCHANGED <<pending, promise, rhdr, rreq, notified, topologyId, sessions,
                   callVars, netVars, serverVars>>

CloseStop ==
    /\ dead = "no" /\ cpc = "idle"
    /\ sessions > 0
    /\ stopReadLoop' = TRUE
    /\ cpc' = "shutdown"
    /\ UNCHANGED <<connected, pending, promise, dead, sessions,
                   callVars, readVars, netVars, serverVars>>

\* Connection::shutdown()
Bug_NoShutdown == sock      \* mutant: the blocked receive() is not interrupted
ShutdownSocket == IF sock = "open" THEN "shut" ELSE sock

CloseShutdown ==
    /\ cpc = "shutdown"
    /\ sock' = ShutdownSocket
    /\ cpc' = "join"
    /\ UNCHANGED <<connected, rpc, inbox, pending, promise>>

CloseJoin ==
    /\ cpc = "join"
    /\ rpc \in {"none", "done"}
    /\ rpc' = "none"
    /\ cpc' = "closeSocket"
    /\ UNCHANGED <<connected, sock, inbox, pending, promise>>

CloseSocket ==
    /\ cpc = "closeSocket"
    /\ sock' = IF sock = "none" THEN "none" ELSE "closed"
    /\ inbox' = <<>>
    /\ cpc' = "disconnect"
    /\ UNCHANGED <<connected, rpc, pending, promise>>

CloseDisconnect ==
    /\ cpc = "disconnect"
    /\ connected' = FALSE
    /\ cpc' = "drain"
    /\ UNCHANGED <<sock, rpc, inbox, pending, promise>>

CloseDrain ==
    /\ cpc = "drain"
    /\ closeAllPending
    /\ cpc' = "idle"
    /\ UNCHANGED <<connected, sock, rpc, inbox>>

close ==
    /\ dead = "no"
    /\ \/ CloseShutdown \/ CloseJoin \/ CloseSocket
       \/ CloseDisconnect \/ CloseDrain
    /\ UNCHANGED <<stopReadLoop, sessions, dead, rhdr, rreq, notified, topologyId,
                   callVars, serverVars, peer, outbox, unanswered>>

Closing == cpc \in {"shutdown", "join", "closeSocket", "disconnect", "drain"}

-----------------------------------------------------------------------------
(* The server and the network (external) *)

\* Frames are read in the order they were written.  A broken frame blocks the
\* ones behind it.
ServerReceive ==
    /\ peer = "up"
    /\ outbox # <<>>
    /\ Head(outbox).whole
    /\ outbox' = Tail(outbox)
    /\ unanswered' = unanswered \cup {Head(outbox)}
    /\ applied' = applied \cup {Head(outbox).req}
    /\ UNCHANGED <<inbox, peer, srvTopology>>

\* A response: a header, with the topology when the client's is not the
\* current one, and a body unless the status has none.
ResponseHeader(f, kind) ==
    [token |-> "header", id |-> f.id, of |-> f.req, kind |-> kind,
     topo |-> IF Aware /\ f.topo # srvTopology THEN srvTopology ELSE NoTopo]
ResponseTokens(f, kind) ==
    IF kind = "empty" THEN <<ResponseHeader(f, kind)>>
    ELSE <<ResponseHeader(f, kind), [token |-> "body", of |-> f.req]>>

\* Requests are answered in any order.  A faulty server repeats an answer.
ServerAnswer ==
    /\ peer = "up" /\ sock = "open"
    /\ \E f \in unanswered, kind \in AnswerKinds :
          /\ inbox' = inbox \o ResponseTokens(f, kind)
          /\ \/ unanswered' = unanswered \ {f}
             \/ /\ "duplicate" \in Faults /\ Len(inbox) < MaxInbox
                /\ unanswered' = unanswered
    /\ UNCHANGED <<outbox, peer, applied, srvTopology>>

ServerTopologyChange ==
    /\ Aware
    /\ srvTopology < MaxTopology
    /\ srvTopology' = srvTopology + 1
    /\ UNCHANGED <<outbox, inbox, peer, unanswered, applied>>

\* The connection is lost: any suffix of what was on its way never arrives.
PeerDrop ==
    /\ peer = "up"
    /\ peer' = "gone"
    /\ \E n \in 0..Len(inbox) : inbox' = SubSeq(inbox, 1, n)
    /\ outbox' = <<>> /\ unanswered' = {}
    /\ UNCHANGED <<applied, srvTopology>>

External(A) ==
    /\ dead = "no"
    /\ A
    /\ UNCHANGED <<connected, pending, promise, dead, sock,
                   callVars, readVars, ownVars>>

-----------------------------------------------------------------------------
Next ==
    \/ \E r \in Requests : execute(r)
    \/ readLoop
    \/ ConnectSocket \/ connect
    \/ CloseStop \/ close
    \/ External(ServerReceive) \/ External(ServerAnswer)
    \/ External(ServerTopologyChange) \/ External(PeerDrop)

Spec == Init /\ [][Next]_vars

\* The operating system runs every thread that can run, and a server that is
\* up reads and answers.  Nobody is obliged to call execute(), connect() or
\* close(), and nothing obliges the peer to vanish.
Fairness ==
    /\ \A r \in Requests : WF_vars(pc[r] # "idle" /\ execute(r))
    /\ WF_vars(readLoop)
    /\ WF_vars(connect)
    /\ WF_vars(close)
    /\ WF_vars(External(ServerReceive))
    /\ WF_vars(External(ServerAnswer))

FairSpec == Spec /\ Fairness

-----------------------------------------------------------------------------
(* Safety *)

\* Every variable has its type (the members declared in
\* MultiplexedConnection.h, and the places in the code each thread can be at).
TypeOK ==
    /\ connected \in BOOLEAN /\ stopReadLoop \in BOOLEAN
    /\ nextMessageId \in Nat
    /\ pending \subseteq [id : Nat, req : Requests]
    /\ topologyId \in Nat
    /\ pc \in [Requests -> {"idle", "checked", "numbered", "registered", "built",
                            "sendFailed", "returned", "threw"}]
    /\ msgId \in [Requests -> Nat]
    /\ sentTopo \in [Requests -> Nat]
    /\ exc \in [Requests -> {"none", "BeforeSend", "AfterSend"}]
    /\ promise \in [Requests -> Outcome]
    /\ rpc \in {"none", "test", "header", "errorBody", "lookup", "notify",
                "dispatch", "failing", "draining", "done"}
    /\ rhdr \in Header \cup {NoHeader}
    /\ rreq \in Requests \cup {NoReq}
    /\ notified \in Nat
    /\ cpc \in {"idle", "publish", "allow", "start", "shutdown", "join",
                "closeSocket", "disconnect", "drain"}
    /\ sessions \in Nat
    /\ dead \in {"no", "terminate", "sigpipe"}
    /\ sock \in {"none", "open", "shut", "closed"}
    /\ peer \in {"up", "gone"}
    /\ outbox \in Seq([id : Nat, req : Requests, topo : Nat, whole : BOOLEAN])
    /\ inbox \in Seq(Header \cup Body)
    /\ unanswered \subseteq [id : Nat, req : Requests, topo : Nat, whole : BOOLEAN]
    /\ applied \subseteq Requests
    /\ srvTopology \in Nat

\* Message id matching (MultiplexedConnection.h: "request -> response"): what a
\* future carries was sent by the server for that very request, header and
\* body, however the calls and the answers interleave.
OwnAnswer ==
    \A r \in Requests :
        promise[r].kind \in {"body", "empty", "serverError", "mismatch"}
            => promise[r].of = r

\* A promise is set once: no answer, error or closeAllPending() ever touches a
\* promise that the other one has already satisfied.
ResolvedOnce ==
    [][\A r \in Requests : Resolved(r) => promise'[r] = promise[r]]_vars

\* The failure phase can be trusted by a retry: "BeforeSend" is only reported
\* for a request the server never executes ("Nothing has been sent - always
\* safe to retry"), and "ServerError" only for one it has answered.
PhaseIsHonest ==
    \A r \in Requests :
        /\ ReportedPhase(r) = "BeforeSend" => r \notin applied
        /\ ReportedPhase(r) = "ServerError" => r \in applied

\* No promise is lost between the pending map and the read thread: a future
\* that execute() returned and nobody resolved is still registered, or the
\* read thread holds its entry.
NoForgottenRequest ==
    \A r \in Requests :
        pc[r] = "returned" /\ ~Resolved(r) =>
            (\E p \in pending : p.req = r) \/ rreq = r

\* A server that answers each request once never meets the orphan branch of
\* readLoop(): execute() registers a request before its first byte is sent,
\* and takes it back only when no answer can come.
NoOrphan ==
    rpc = "lookup" => \E p \in pending : p.id = rhdr.id

\* The read loop stays in step with the stream: where it expects a response
\* header there is one, so "Invalid magic byte" is never thrown.
StreamInSync ==
    rpc = "header" /\ inbox # <<>> => Head(inbox).token = "header"

\* In the first session of a connection object a topology that the read loop has
\* recorded in topologyId_ (and so will never be sent again) has reached the callback
\* by the time the loop reads on.
TopologyReported ==
    sessions <= 1 /\ rpc \in {"test", "header"} => notified = topologyId

-----------------------------------------------------------------------------
(* Liveness *)

\* close() returns: join() never waits for ever, whatever the read thread was
\* doing when the socket was shut down.
CloseReturns == Closing ~> (cpc = "idle" \/ dead # "no")

\* close() fails every future still open.
CloseResolves ==
    \A r \in Requests :
        (pc[r] = "returned" /\ Closing) ~> (Resolved(r) \/ dead # "no")

\* While the connection holds and the server answers, every future resolves.
AnsweredWhileUp ==
    \A r \in Requests :
        pc[r] = "returned" ~>
            (Resolved(r) \/ peer = "gone" \/ Closing \/ dead # "no")

\* "Future with Response (get() blocks until response received)" and "Close all
\* pending requests with error. Called when connection drops.": every future
\* that execute() returns is resolved in the end.
FutureResolves ==
    \A r \in Requests : pc[r] = "returned" ~> (Resolved(r) \/ dead # "no")

-----------------------------------------------------------------------------
(* Refinement *)

\* The call of r, and its future, as a caller sees them.
CallState(r) ==
    CASE pc[r] = "idle" -> "idle"
      [] pc[r] = "returned" -> "returned"
      [] pc[r] = "threw" -> IF exc[r] = "BeforeSend" THEN "refused" ELSE "aborted"
      [] OTHER -> "running"
FutureState(r) ==
    IF promise[r] = Unset THEN "open"
    ELSE IF promise[r].kind \in {"parseError", "dropped"} THEN "failed"
    ELSE IF promise[r].of # r THEN "somebody else's"
    ELSE IF promise[r].kind \in {"body", "empty"} THEN "answered"
    ELSE "rejected"

Futures == INSTANCE RequestFuture
           WITH call <- [r \in Requests |-> CallState(r)],
                future <- [r \in Requests |-> FutureState(r)],
                executed <- applied

\* The connection keeps the promise of RequestFuture: whatever the threads, the
\* network and a faulty server do, a call is refused only if the server never
\* executes it, and its future is resolved once, with its own answer to a request
\* the server has executed, or with a failure.
ImplementsFutures == Futures!Spec
==============================================================================
