--------------------- MODULE MultiplexedConnectionProofs ---------------------
(***************************************************************************)
(* What MultiplexedConnection guarantees for any number of requests,       *)
(* sessions and topologies, and under any of its faults, proved with       *)
(* TLAPS: type correctness, message id matching (OwnAnswer), promises set  *)
(* once (ResolvedOnce), no future lost (NoForgottenRequest), and failure   *)
(* phases that can be trusted (PhaseIsHonest).  With a server that answers *)
(* each request once, every response finds its request (NoOrphan) and, in  *)
(* the first session, every topology is handed on (TopologyReported); if   *)
(* it answers with the right opcode too, the read loop keeps in step with  *)
(* the stream (StreamInSync).  Under any faults it implements              *)
(* RequestFuture (Refinement).                                             *)
(*                                                                         *)
(* None of them is inductive.  IInv ties the message id that a caller was  *)
(* given to every copy of it: the pending map, the frames and responses    *)
(* on their way, the header in the hands of the read thread.  FlightInv    *)
(* adds that a request is in one place at a time, and registered while an  *)
(* answer may come; SyncInv and ReportInv rest on it.                      *)
(***************************************************************************)
EXTENDS MultiplexedConnection, SequenceTheorems, TLAPS

-----------------------------------------------------------------------------
(* The inductive invariant *)

\* The read thread has a header in its hands.
Processing == rpc \in {"errorBody", "lookup", "notify", "dispatch"}

\* r has been given a message id.
Numbered(r) ==
    \/ pc[r] \in {"numbered", "registered", "built", "sendFailed", "returned"}
    \/ exc[r] = "AfterSend"

\* id was given to r, and only to r.
Owns(r, id) == r \in Requests /\ Numbered(r) /\ msgId[r] = id

TypeInv ==
    /\ TypeOK
    /\ Processing => rhdr \in Header

\* Message ids are unique, and an exception ends execute().
IdInv ==
    /\ \A r \in Requests : Numbered(r) => msgId[r] < nextMessageId
    /\ \A r, s \in Requests :
          Numbered(r) /\ Numbered(s) /\ msgId[r] = msgId[s] => r = s
    /\ \A r \in Requests : exc[r] # "none" <=> pc[r] = "threw"

\* A copy of a message id names its owner, and an answer an applied request.
FrameInv ==
    /\ \A i \in 1..Len(outbox) : Owns(outbox[i].req, outbox[i].id)
    /\ \A f \in unanswered : Owns(f.req, f.id) /\ f.req \in applied
    /\ \A r \in applied : Numbered(r)

InboxInv ==
    \A i \in 1..Len(inbox) :
        inbox[i].token = "header" => Owns(inbox[i].of, inbox[i].id) /\ inbox[i].of \in applied

HeaderInv ==
    Processing => Owns(rhdr.of, rhdr.id) /\ rhdr.of \in applied

\* A body follows the header of the same response, in the stream or in the
\* hands of the read thread.
BodyInv ==
    /\ \A i \in 1..(Len(inbox) - 1) :
          inbox[i + 1].token = "body" =>
              inbox[i].token = "header" /\ inbox[i].of = inbox[i + 1].of
    /\ Processing /\ inbox # <<>> =>
          (inbox[1].token = "body" => inbox[1].of = rhdr.of)

\* A request that is not resolved is in exactly one place: pending_, or the
\* hands of the read thread.
PendingInv ==
    /\ \A p \in pending :
          /\ Owns(p.req, p.id)
          /\ pc[p.req] \in {"registered", "built", "sendFailed", "returned"}
          /\ promise[p.req] = Unset
          /\ p.req # rreq
    /\ rpc \in {"notify", "dispatch"} => rreq = rhdr.of
    /\ rreq # NoReq => /\ rpc \in {"notify", "dispatch"}
                       /\ promise[rreq] = Unset
                       /\ pc[rreq] \notin {"idle", "checked", "numbered"}
    /\ \A r \in Requests :
          pc[r] \in {"idle", "checked", "numbered"} => promise[r] = Unset
    /\ \A r \in Requests :
          pc[r] \in {"registered", "built", "sendFailed", "returned"} /\ promise[r] = Unset
              => (\E p \in pending : p.req = r) \/ rreq = r

\* An answer is for its own request, one that the server has read.
AnswerInv ==
    /\ OwnAnswer
    /\ \A r \in Requests : promise[r].kind \in {"serverError", "mismatch"} => r \in applied

\* The inductive invariant of MultiplexedConnection: message ids, pending
\* entries, frames, responses and promises agree on whose they are.
IInv ==
    /\ TypeInv /\ IdInv /\ FrameInv /\ InboxInv /\ HeaderInv /\ BodyInv /\ PendingInv
    /\ AnswerInv

-----------------------------------------------------------------------------
(* Type correctness *)

Frames == [id : Nat, req : Requests, topo : Nat, whole : BOOLEAN]

\* A token with the tag of a header is a header.
LEMMA TokenKinds ==
    ASSUME NEW t \in Header \cup Body
    PROVE  /\ t.token = "header" => t \in Header
           /\ t.token = "body" => t \in Body
           /\ t.token \in {"header", "body"}
BY DEF Header, Body

\* execute() keeps the types of what it writes.
LEMMA ExecuteType ==
    ASSUME TypeInv, NEW r \in Requests, execute(r)
    PROVE  TypeInv'
<1> USE DEF TypeInv, TypeOK, Processing
<1>0. UNCHANGED <<connected, promise, readVars, ownVars, serverVars,
                   sock, peer, inbox, unanswered>>
    BY DEF execute
<1>1. CASE ExecuteCheck(r)
  <2>1. /\ pc' \in [Requests -> {"idle", "checked", "numbered", "registered", "built",
                            "sendFailed", "returned", "threw"}]
        /\ exc' \in [Requests -> {"none", "BeforeSend", "AfterSend"}]
    BY <1>1 DEF ExecuteCheck
  <2>2. UNCHANGED <<nextMessageId, msgId, sentTopo, pending, outbox, dead>>
    BY <1>1 DEF ExecuteCheck
  <2> QED
    BY <1>0, <2>1, <2>2 DEF readVars, ownVars, serverVars
<1>2. CASE ExecuteNumber(r)
    BY <1>0, <1>2 DEF ExecuteNumber, readVars, ownVars, serverVars
<1>3. CASE ExecuteRegister(r)
    BY <1>0, <1>3 DEF ExecuteRegister, ErasePending, readVars, ownVars, serverVars
<1>4. CASE buildRequest(r)
    BY <1>0, <1>4 DEF buildRequest, readVars, ownVars, serverVars
<1>5. CASE ExecuteSend(r)
  <2>1. /\ Frame(r, TRUE) \in Frames
        /\ Frame(r, FALSE) \in Frames
    BY DEF Frame, Frames
  <2>2. outbox' \in Seq(Frames)
    <3>1. outbox \in Seq(Frames)
      BY DEF Frames
    <3>2. \/ outbox' = outbox
          \/ outbox' = Append(outbox, Frame(r, TRUE))
          \/ outbox' = Append(outbox, Frame(r, FALSE))
      BY <1>5 DEF ExecuteSend, SendWhole, SendThrows, SendKills, SendPartial
    <3>3. ASSUME NEW f \in Frames
          PROVE  Append(outbox, f) \in Seq(Frames)
      <4> HIDE DEF TypeInv
      <4> QED
        BY <3>1, <3>3
    <3> QED
      BY <2>1, <3>1, <3>2, <3>3
  <2>3. /\ pc' \in [Requests -> {"idle", "checked", "numbered", "registered", "built",
                            "sendFailed", "returned", "threw"}]
        /\ dead' \in {"no", "terminate", "sigpipe"}
    BY <1>5 DEF ExecuteSend, SendWhole, SendThrows, SendKills, SendPartial
  <2> QED
    BY <1>0, <1>5, <2>2, <2>3 DEF ExecuteSend, Frames, readVars, ownVars, serverVars
<1>6. CASE ExecuteSendFailed(r)
    BY <1>0, <1>6 DEF ExecuteSendFailed, ErasePending, readVars, ownVars, serverVars
<1> QED
    BY <1>1, <1>2, <1>3, <1>4, <1>5, <1>6 DEF execute

\* closeAllPending() sets promises to outcomes.
LEMMA CloseAllType ==
    ASSUME TypeOK, closeAllPending
    PROVE  /\ promise' \in [Requests -> Outcome]
           /\ pending' = {}
BY DEF TypeOK, closeAllPending, Outcome

\* readLoop() keeps the types of what it writes.
LEMMA ReadLoopType ==
    ASSUME TypeInv, readLoop
    PROVE  TypeInv'
<1> USE DEF TypeInv, TypeOK, Processing, callVars, ownVars, serverVars
<1>0. UNCHANGED <<callVars, ownVars, serverVars, dead, sock, peer, outbox, unanswered>>
    BY DEF readLoop
<1>1. ASSUME NEW t, Receive(t), t \in {"header", "body"}
      PROVE  /\ Head(inbox) \in Header \cup Body
             /\ t = "header" => Head(inbox) \in Header
             /\ t = "body" => Head(inbox) \in Body
             /\ inbox' \in Seq(Header \cup Body)
  <2>1. inbox # <<>> /\ inbox' = Tail(inbox) /\ Head(inbox).token = t
    BY <1>1 DEF Receive
  <2>2. Head(inbox) \in Header \cup Body /\ Tail(inbox) \in Seq(Header \cup Body)
    BY <2>1
  <2> QED
    BY <2>1, <2>2, TokenKinds
<1>2. CASE ReadLoopTest
    BY <1>0, <1>2 DEF ReadLoopTest
<1>3. CASE ReadHeader
  <2>1. Head(inbox) \in Header /\ inbox' \in Seq(Header \cup Body)
    BY <1>1, <1>3 DEF ReadHeader
  <2>2. Head(inbox).topo \in Nat
    BY <2>1 DEF Header
  <2> QED
    <3>1. /\ rhdr' \in Header
          /\ topologyId' \in Nat
          /\ rpc' \in {"errorBody", "lookup"}
      BY <1>3, <2>1, <2>2 DEF ReadHeader, AfterHeader
    <3>2. UNCHANGED <<connected, pending, promise, rreq, notified>>
      BY <1>3 DEF ReadHeader
    <3> QED
      BY <1>0, <2>1, <3>1, <3>2
<1>4. CASE ReadInvalidMagic
    BY <1>0, <1>1, <1>4 DEF ReadInvalidMagic
<1>5. CASE ReadErrorBody
    BY <1>0, <1>1, <1>5 DEF ReadErrorBody
<1>6. CASE ReadThrows
  <2>1. /\ rpc' = "failing"
        /\ UNCHANGED <<connected, pending, promise, rhdr, rreq, notified, topologyId, inbox>>
    BY <1>6 DEF ReadThrows
  <2> QED
    BY <1>0, <2>1
<1>7. CASE LookupPending
  <2>0. pending' \subseteq pending /\ rreq' \in Requests
    BY <1>7 DEF LookupPending, FindPending, ErasePending
  <2>1. pending' \subseteq [id : Nat, req : Requests] /\ rreq' \in Requests \cup {NoReq}
    BY <2>0
  <2>2. /\ rpc = "lookup"
        /\ rpc' = "notify" \/ rpc' = "dispatch"
        /\ UNCHANGED <<connected, promise, rhdr, notified, topologyId, inbox>>
    BY <1>7 DEF LookupPending, AfterLookup
  <2> QED
    BY <1>0, <2>1, <2>2
<1>8. CASE SkipOrphan
    BY <1>0, <1>8 DEF SkipOrphan
<1>9. CASE NotifyTopology
    BY <1>0, <1>9 DEF NotifyTopology, Header
<1>d. ASSUME NEW o \in Outcome, Deliver(o), inbox' \in Seq(Header \cup Body),
             UNCHANGED <<connected, pending, rhdr, notified, topologyId>>
      PROVE  TypeInv'
  <2>1. promise' \in [Requests -> Outcome]
    BY <1>d DEF Deliver
  <2>2. rreq' = NoReq /\ rpc' = "test"
    BY <1>d DEF Deliver
  <2> QED
    BY <1>0, <1>d, <2>1, <2>2
<1>o. ASSUME rpc = "dispatch", NEW k \in {"serverError", "mismatch", "empty"}
      PROVE  [kind |-> k, of |-> rhdr.of] \in Outcome
    BY <1>o DEF Header, Outcome
<1>10. CASE DeliverServerError
    BY <1>10, <1>d, <1>o DEF DeliverServerError
<1>11. CASE DeliverMismatch
    BY <1>11, <1>d, <1>o DEF DeliverMismatch
<1>12. CASE DeliverEmpty
    BY <1>12, <1>d, <1>o DEF DeliverEmpty
<1>13. CASE DeliverBody
  <2>1. Head(inbox) \in Body /\ inbox' \in Seq(Header \cup Body)
    BY <1>1, <1>13 DEF DeliverBody
  <2>2. Head(inbox).of \in Requests
    BY <2>1 DEF Body
  <2>3. [kind |-> "body", of |-> Head(inbox).of] \in Outcome
    BY <2>2 DEF Outcome
  <2> QED
    BY <1>13, <1>d, <2>1, <2>3 DEF DeliverBody
<1>14. CASE DeliverParseError
  <2>1. [kind |-> "parseError", of |-> NoReq] \in Outcome
    BY DEF Outcome
  <2> QED
    BY <1>14, <1>d, <2>1 DEF DeliverParseError
<1>15. CASE ReadLoopDisconnect
    BY <1>0, <1>15 DEF ReadLoopDisconnect
<1>16. CASE ReadLoopCloseAll
    BY <1>0, <1>16, CloseAllType DEF ReadLoopCloseAll
<1> QED
    BY <1>2, <1>3, <1>4, <1>5, <1>6, <1>7, <1>8, <1>9, <1>10, <1>11, <1>12, <1>13,
       <1>14, <1>15, <1>16 DEF readLoop

\* connect() and close() keep the types of what they write.
LEMMA OwnerType ==
    ASSUME TypeInv, ConnectSocket \/ connect \/ CloseStop \/ close
    PROVE  TypeInv'
<1> USE DEF TypeInv, TypeOK, Processing, callVars, readVars, netVars, serverVars
<1>1. CASE ConnectSocket
    BY <1>1 DEF ConnectSocket, OpenSocket
<1>2. CASE connect
  <2>0. UNCHANGED <<pending, promise, rhdr, rreq, notified, topologyId, sessions,
                   callVars, netVars, serverVars>>
    BY <1>2 DEF connect
  <2>1. CASE ConnectPublish
    BY <2>0, <2>1 DEF ConnectPublish
  <2>2. CASE ConnectAllow
    <3>1. /\ stopReadLoop' \in BOOLEAN
          /\ cpc' = "start"
          /\ UNCHANGED <<connected, rpc, dead>>
      BY <2>2 DEF ConnectAllow
    <3> QED
      BY <2>0, <3>1
  <2>3. CASE ConnectStartReader
    <3>1. /\ rpc' = rpc \/ rpc' = "test"
          /\ dead' = dead \/ dead' = "terminate"
          /\ cpc' = "idle"
          /\ UNCHANGED <<connected, stopReadLoop>>
      BY <2>3 DEF ConnectStartReader
    <3> QED
      BY <2>0, <3>1
  <2> QED
    BY <1>2, <2>1, <2>2, <2>3 DEF connect
<1>3. CASE CloseStop
    BY <1>3 DEF CloseStop
<1>4. CASE close
  <2>0. UNCHANGED <<stopReadLoop, sessions, dead, rhdr, rreq, notified, topologyId,
                   callVars, serverVars, peer, outbox, unanswered>>
    BY <1>4 DEF close
  <2>1. CASE CloseShutdown
    BY <2>0, <2>1 DEF CloseShutdown, ShutdownSocket
  <2>2. CASE CloseJoin
    BY <2>0, <2>2 DEF CloseJoin
  <2>3. CASE CloseSocket
    BY <2>0, <2>3 DEF CloseSocket
  <2>4. CASE CloseDisconnect
    <3>1. connected' \in BOOLEAN /\ cpc' = "drain"
      BY <2>4 DEF CloseDisconnect
    <3>2. UNCHANGED <<sock, rpc, inbox, pending, promise>>
      BY <2>4 DEF CloseDisconnect
    <3> QED
      BY <2>0, <3>1, <3>2
  <2>5. CASE CloseDrain
    BY <2>0, <2>5, CloseAllType DEF CloseDrain
  <2> QED
    BY <1>4, <2>1, <2>2, <2>3, <2>4, <2>5 DEF close
<1> QED
    BY <1>1, <1>2, <1>3, <1>4

\* What an answer adds to the inbox.
LEMMA ResponseType ==
    ASSUME TypeInv, NEW f \in unanswered, NEW kind \in AnswerKinds
    PROVE  /\ ResponseTokens(f, kind) \in Seq(Header \cup Body)
           /\ ResponseHeader(f, kind) \in Header
           /\ [token |-> "body", of |-> f.req] \in Body
<1>1. ResponseHeader(f, kind) \in Header
    BY DEF TypeInv, TypeOK, ResponseHeader, Header, AnswerKinds, NoTopo
<1>2. [token |-> "body", of |-> f.req] \in Body
    BY DEF TypeInv, TypeOK, Body
<1> QED
  <2> DEFINE h == ResponseHeader(f, kind)
             b == [token |-> "body", of |-> f.req]
  <2>1. h \in Header \cup Body /\ b \in Header \cup Body
    BY <1>1, <1>2
  <2> HIDE DEF h, b
  <2>2. <<h>> \in Seq(Header \cup Body) /\ <<h, b>> \in Seq(Header \cup Body)
    BY <2>1
  <2> QED
    BY <1>1, <1>2, <2>2 DEF ResponseTokens, h, b

\* The server and the network keep the types of what they write.
LEMMA ExternalType ==
    ASSUME TypeInv,
           \/ External(ServerReceive) \/ External(ServerAnswer)
           \/ External(ServerTopologyChange) \/ External(PeerDrop)
    PROVE  TypeInv'
<1> USE DEF TypeInv, TypeOK, Processing, External, callVars, readVars, ownVars
<1>1. CASE External(ServerReceive)
  <2>0. outbox \in Seq(Frames) /\ outbox # <<>>
    BY <1>1 DEF ServerReceive, Frames
  <2>1. Head(outbox) \in Frames /\ Tail(outbox) \in Seq(Frames)
    BY <2>0
  <2>2. Head(outbox).req \in Requests
    BY <2>1 DEF Frames
  <2> QED
    <3>1. /\ outbox' \in Seq(Frames)
          /\ unanswered' \subseteq Frames
          /\ applied' \subseteq Requests
          /\ UNCHANGED <<inbox, peer, srvTopology>>
      BY <1>1, <2>1, <2>2 DEF ServerReceive, Frames
    <3> QED
      BY <1>1, <3>1 DEF Frames
<1>2. CASE External(ServerAnswer)
  <2>1. PICK f \in unanswered, kind \in AnswerKinds : inbox' = inbox \o ResponseTokens(f, kind)
    BY <1>2 DEF ServerAnswer
  <2>2. ResponseTokens(f, kind) \in Seq(Header \cup Body)
    BY ResponseType
  <2>3. inbox' \in Seq(Header \cup Body)
    BY <2>1, <2>2
  <2> QED
    <3>1. unanswered' \subseteq Frames
      BY <1>2 DEF ServerAnswer, Frames
    <3>2. UNCHANGED <<outbox, peer, applied, srvTopology>>
      BY <1>2 DEF ServerAnswer
    <3>3. UNCHANGED <<connected, pending, promise, dead, sock, callVars, readVars, ownVars>>
      BY <1>2
    <3> QED
      <4>1. unanswered' \subseteq [id : Nat, req : Requests, topo : Nat, whole : BOOLEAN]
        BY <3>1 DEF Frames
      <4>2. (Processing => rhdr \in Header)'
        BY <3>3
      <4>3. TypeOK'
        BY <2>3, <3>2, <3>3, <4>1
      <4> QED
        BY <4>2, <4>3
<1>3. CASE External(ServerTopologyChange)
    BY <1>3 DEF ServerTopologyChange
<1>4. CASE External(PeerDrop)
  <2>1. PICK n \in 0..Len(inbox) : inbox' = SubSeq(inbox, 1, n)
    BY <1>4 DEF PeerDrop
  <2>2. \A i \in 1..n : inbox[i] \in Header \cup Body
    BY <2>1
  <2>3. inbox' \in Seq(Header \cup Body)
    BY <2>1, <2>2, SubSeqProperties
  <2> QED
    BY <1>4, <2>3 DEF PeerDrop
<1> QED
    BY <1>1, <1>2, <1>3, <1>4

\* Every step keeps the types.
LEMMA TypeStep ==
    ASSUME TypeInv, [Next]_vars
    PROVE  TypeInv'
<1>1. CASE UNCHANGED vars
    BY <1>1 DEF TypeInv, TypeOK, Processing, vars, callVars, readVars, ownVars, netVars, serverVars
<1> QED
    BY <1>1, ExecuteType, ReadLoopType, OwnerType, ExternalType DEF Next

\* The members of a new MultiplexedConnection have their types.
LEMMA TypeInit ==
    ASSUME Init
    PROVE  TypeInv
<1> USE DEF Init, NoTopo
<1>1. /\ connected \in BOOLEAN
      /\ stopReadLoop \in BOOLEAN
    OBVIOUS
<1>2. Unset \in Outcome
    BY DEF Unset, Outcome
<1>3. promise \in [Requests -> Outcome]
    BY <1>2
<1>4. /\ outbox \in Seq([id : Nat, req : Requests, topo : Nat, whole : BOOLEAN])
      /\ inbox \in Seq(Header \cup Body)
    OBVIOUS
<1> QED
    BY <1>1, <1>3, <1>4 DEF TypeInv, TypeOK, Processing

\* The types hold in every reachable state of the connection, whatever the
\* number of requests, sessions and topologies.
THEOREM TypeCorrect == Spec => []TypeOK
<1>1. Init => TypeInv
    BY TypeInit
<1>2. TypeInv /\ [Next]_vars => TypeInv'
    BY TypeStep
<1>3. TypeInv => TypeOK
    BY DEF TypeInv
<1> QED
    BY <1>1, <1>2, <1>3, PTL DEF Spec

-----------------------------------------------------------------------------
(* Message ids *)

\* The two ways execute() can leave its connected_ test.
LEMMA CheckEffect ==
    ASSUME NEW r \in Requests, ExecuteCheck(r)
    PROVE  /\ pc[r] = "idle"
           /\ \/ pc' = [pc EXCEPT ![r] = "checked"] /\ exc' = exc
              \/ /\ pc' = [pc EXCEPT ![r] = "threw"]
                 /\ exc' = [exc EXCEPT ![r] = "BeforeSend"]
           /\ UNCHANGED <<nextMessageId, msgId, sentTopo, pending, outbox, dead>>
BY DEF ExecuteCheck

\* The ways a send can end.
LEMMA SendEffect ==
    ASSUME NEW r \in Requests, ExecuteSend(r)
    PROVE  /\ pc[r] = "built"
           /\ \/ pc' = pc
              \/ pc' = [pc EXCEPT ![r] = "returned"]
              \/ pc' = [pc EXCEPT ![r] = "sendFailed"]
           /\ \/ outbox' = outbox
              \/ outbox' = Append(outbox, Frame(r, TRUE))
              \/ outbox' = Append(outbox, Frame(r, FALSE))
           /\ UNCHANGED <<nextMessageId, msgId, sentTopo, exc, pending>>
BY DEF ExecuteSend, SendWhole, SendThrows, SendKills, SendPartial

\* A caller that has a message id keeps it.
LEMMA OwnsKept ==
    ASSUME TypeInv, IdInv, [Next]_vars
    PROVE  \A q \in Requests : Numbered(q) => Numbered(q)' /\ msgId'[q] = msgId[q]
<1> USE DEF TypeInv, TypeOK, IdInv, Numbered
<1>1. CASE UNCHANGED <<pc, msgId, exc>>
    BY <1>1
<1>2. ASSUME NEW r \in Requests, execute(r)
      PROVE  \A q \in Requests : Numbered(q) => Numbered(q)' /\ msgId'[q] = msgId[q]
  <2>1. CASE ExecuteCheck(r)
    BY <2>1, CheckEffect
  <2>2. CASE ExecuteNumber(r)
    BY <2>2 DEF ExecuteNumber
  <2>3. CASE ExecuteRegister(r)
    BY <2>3 DEF ExecuteRegister
  <2>4. CASE buildRequest(r)
    BY <2>4 DEF buildRequest
  <2>5. CASE ExecuteSend(r)
    BY <2>5, SendEffect
  <2>6. CASE ExecuteSendFailed(r)
    BY <2>6 DEF ExecuteSendFailed
  <2> QED
    BY <1>2, <2>1, <2>2, <2>3, <2>4, <2>5, <2>6 DEF execute
<1>3. CASE readLoop \/ ConnectSocket \/ connect \/ CloseStop \/ close
    BY <1>1, <1>3 DEF readLoop, ConnectSocket, OpenSocket, connect, CloseStop, close, callVars
<1>4. CASE \/ External(ServerReceive) \/ External(ServerAnswer)
           \/ External(ServerTopologyChange) \/ External(PeerDrop)
    BY <1>1, <1>4 DEF External, callVars
<1>5. CASE UNCHANGED vars
    BY <1>1, <1>5 DEF vars, callVars
<1> QED
    BY <1>2, <1>3, <1>4, <1>5 DEF Next

\* execute() hands out fresh ids.
LEMMA IdStep ==
    ASSUME TypeInv, IdInv, [Next]_vars
    PROVE  IdInv'
<1> USE DEF TypeInv, TypeOK, IdInv, Numbered
<1>1. CASE UNCHANGED callVars
    BY <1>1 DEF callVars
<1>2. ASSUME NEW r \in Requests, execute(r)
      PROVE  IdInv'
  <2>1. CASE ExecuteCheck(r)
    <3>0. /\ pc \in [Requests -> {"idle", "checked", "numbered", "registered", "built",
                                 "sendFailed", "returned", "threw"}]
          /\ exc \in [Requests -> {"none", "BeforeSend", "AfterSend"}]
      OBVIOUS
    <3> HIDE DEF TypeInv
    <3>1. \A q \in Requests : Numbered(q)' <=> Numbered(q)
      BY <2>1, <3>0, CheckEffect
    <3>2. \A q \in Requests : exc'[q] # "none" <=> pc'[q] = "threw"
      BY <2>1, <3>0, CheckEffect
    <3>3. UNCHANGED <<msgId, nextMessageId>>
      BY <2>1, CheckEffect
    <3> QED
      BY <3>1, <3>2, <3>3
  <2>2. CASE ExecuteNumber(r)
    BY <2>2 DEF ExecuteNumber
  <2>3. CASE ExecuteRegister(r)
    BY <2>3 DEF ExecuteRegister
  <2>4. CASE buildRequest(r)
    BY <2>4 DEF buildRequest
  <2>5. CASE ExecuteSend(r)
    <3>0. /\ pc \in [Requests -> {"idle", "checked", "numbered", "registered", "built",
                                 "sendFailed", "returned", "threw"}]
          /\ exc \in [Requests -> {"none", "BeforeSend", "AfterSend"}]
      OBVIOUS
    <3> HIDE DEF TypeInv
    <3>1. \A q \in Requests : Numbered(q)' <=> Numbered(q)
      BY <2>5, <3>0, SendEffect
    <3>2. \A q \in Requests : exc'[q] # "none" <=> pc'[q] = "threw"
      BY <2>5, <3>0, SendEffect
    <3>3. UNCHANGED <<msgId, nextMessageId>>
      BY <2>5, SendEffect
    <3> QED
      BY <3>1, <3>2, <3>3
  <2>6. CASE ExecuteSendFailed(r)
    BY <2>6 DEF ExecuteSendFailed
  <2> QED
    BY <1>2, <2>1, <2>2, <2>3, <2>4, <2>5, <2>6 DEF execute
<1>3. CASE readLoop \/ ConnectSocket \/ connect \/ CloseStop \/ close
    BY <1>1, <1>3 DEF readLoop, ConnectSocket, OpenSocket, connect, CloseStop, close
<1>4. CASE \/ External(ServerReceive) \/ External(ServerAnswer)
           \/ External(ServerTopologyChange) \/ External(PeerDrop)
    BY <1>1, <1>4 DEF External
<1>5. CASE UNCHANGED vars
    BY <1>1, <1>5 DEF vars
<1> QED
    BY <1>2, <1>3, <1>4, <1>5 DEF Next

-----------------------------------------------------------------------------
(* Frames and responses on their way *)

\* What the server gets, and what it holds, comes from execute().
LEMMA FrameStep ==
    ASSUME TypeInv, IdInv, FrameInv, [Next]_vars
    PROVE  FrameInv'
<1> USE DEF FrameInv
<1>1. /\ \A q, id : Owns(q, id) => Owns(q, id)'
      /\ \A q \in applied : Numbered(q)'
    BY OwnsKept DEF Owns, TypeInv, TypeOK
<1>2. CASE UNCHANGED <<outbox, unanswered, applied>>
    BY <1>1, <1>2
<1>3. ASSUME NEW r \in Requests, execute(r)
      PROVE  FrameInv'
  <2>1. UNCHANGED <<unanswered, applied>>
    BY <1>3 DEF execute, serverVars
  <2>2. CASE ExecuteSend(r)
    <3>1. outbox \in Seq(Frames)
      BY DEF TypeInv, TypeOK, Frames
    <3>2. ASSUME NEW whole \in BOOLEAN, outbox' = Append(outbox, Frame(r, whole))
          PROVE  (\A i \in 1..Len(outbox) : Owns(outbox[i].req, outbox[i].id))'
      <4>1. Owns(r, msgId[r])
        BY <2>2, SendEffect DEF Owns, Numbered
      <4>2. Frame(r, whole).req = r /\ Frame(r, whole).id = msgId[r]
        BY DEF Frame
      <4>3. ASSUME NEW i \in 1..Len(outbox')
            PROVE  \/ i \in 1..Len(outbox) /\ outbox'[i] = outbox[i]
                   \/ outbox'[i] = Frame(r, whole)
        BY <3>1, <3>2
      <4> QED
        BY <1>1, <4>1, <4>2, <4>3
    <3>3. CASE outbox' = outbox
      BY <1>1, <2>1, <3>3
    <3> QED
      BY <1>1, <2>1, <2>2, <3>2, <3>3, SendEffect
  <2>3. CASE outbox' = outbox
    BY <1>2, <2>1, <2>3
  <2> QED
    BY <1>3, <2>2, <2>3
       DEF execute, ExecuteCheck, ExecuteNumber, ExecuteRegister, buildRequest, ExecuteSendFailed
<1>4. CASE outbox' = <<>> /\ unanswered' = {} /\ applied' = applied
    BY <1>1, <1>4
<1>5. CASE External(ServerReceive)
  <2>1. outbox \in Seq(Frames) /\ outbox # <<>>
    BY <1>5 DEF External, ServerReceive, TypeInv, TypeOK, Frames
  <2>2. /\ outbox' = Tail(outbox)
        /\ unanswered' = unanswered \cup {Head(outbox)}
        /\ applied' = applied \cup {Head(outbox).req}
    BY <1>5 DEF External, ServerReceive
  <2>3. PICK f : f = Head(outbox)
    OBVIOUS
  <2>4. f = outbox[1] /\ 1 \in 1..Len(outbox)
    BY <2>1, <2>3
  <2>5. Owns(f.req, f.id)'
    BY <1>1, <2>4
  <2>6. Numbered(f.req)'
    BY <2>5 DEF Owns
  <2>7. (\A i \in 1..Len(outbox) : Owns(outbox[i].req, outbox[i].id))'
    <3>1. ASSUME NEW i \in 1..Len(outbox')
          PROVE  i + 1 \in 1..Len(outbox) /\ outbox'[i] = outbox[i + 1]
      BY <2>1, <2>2
    <3> QED
      BY <1>1, <3>1
  <2> QED
    BY <1>1, <2>2, <2>3, <2>5, <2>6, <2>7
<1>6. CASE External(ServerAnswer)
  <2>1. unanswered' \subseteq unanswered /\ UNCHANGED <<outbox, applied>>
    BY <1>6 DEF External, ServerAnswer
  <2> QED
    BY <1>1, <2>1
<1>7. CASE UNCHANGED vars
    BY <1>2, <1>7 DEF vars, netVars, serverVars
<1>8. CASE readLoop \/ connect \/ CloseStop \/ close \/ External(ServerTopologyChange)
    BY <1>2, <1>8 DEF readLoop, connect, CloseStop, close, External, ServerTopologyChange,
                      netVars, serverVars
<1>9. CASE ConnectSocket \/ External(PeerDrop)
    BY <1>4, <1>9 DEF ConnectSocket, OpenSocket, External, PeerDrop, serverVars
<1> QED
    BY <1>3, <1>5, <1>6, <1>7, <1>8, <1>9 DEF Next

\* How a step can change the inbox: the read thread takes the head, the server
\* appends a response, the network cuts a suffix, a socket is closed.
LEMMA InboxEffect ==
    ASSUME TypeInv, [Next]_vars
    PROVE  \/ inbox' = inbox
           \/ inbox' = <<>>
           \/ inbox # <<>> /\ inbox' = Tail(inbox)
           \/ \E f \in unanswered, kind \in AnswerKinds :
                 inbox' = inbox \o ResponseTokens(f, kind) /\ UNCHANGED <<rpc, rhdr, applied>>
           \/ \E n \in 0..Len(inbox) :
                 inbox' = SubSeq(inbox, 1, n) /\ UNCHANGED <<rpc, rhdr, applied>>
<1>1. ASSUME NEW r \in Requests, execute(r)
      PROVE  inbox' = inbox
    BY <1>1 DEF execute
<1>2. CASE readLoop
    BY <1>2 DEF readLoop, Receive, ReadLoopTest, ReadHeader, ReadInvalidMagic, ReadErrorBody,
                ReadThrows, LookupPending, SkipOrphan, NotifyTopology, DeliverServerError,
                DeliverMismatch, DeliverEmpty, DeliverBody, DeliverParseError,
                ReadLoopDisconnect, ReadLoopCloseAll
<1>3. CASE ConnectSocket \/ connect \/ CloseStop \/ close
    BY <1>3 DEF ConnectSocket, OpenSocket, connect, CloseStop, close, CloseShutdown, CloseJoin,
                CloseSocket, CloseDisconnect, CloseDrain, netVars
<1>4. CASE \/ External(ServerReceive) \/ External(ServerAnswer)
           \/ External(ServerTopologyChange) \/ External(PeerDrop)
    BY <1>4 DEF External, ServerReceive, ServerAnswer, ServerTopologyChange, PeerDrop, readVars
<1>5. CASE UNCHANGED vars
    BY <1>5 DEF vars, netVars
<1> QED
    BY <1>1, <1>2, <1>3, <1>4, <1>5 DEF Next

\* Requests are only ever added to the ones the server has read.
LEMMA AppliedGrows ==
    ASSUME [Next]_vars
    PROVE  applied \subseteq applied'
BY DEF Next, execute, readLoop, ConnectSocket, OpenSocket, connect, CloseStop, close, External,
       ServerReceive, ServerAnswer, ServerTopologyChange, PeerDrop, vars, serverVars

\* What the inbox holds after the server appends a response.
LEMMA AnswerTokens ==
    ASSUME TypeInv, NEW f \in unanswered, NEW kind \in AnswerKinds,
           inbox' = inbox \o ResponseTokens(f, kind)
    PROVE  \A i \in 1..Len(inbox') :
              \/ i \in 1..Len(inbox) /\ inbox'[i] = inbox[i]
              \/ i = Len(inbox) + 1 /\ inbox'[i] = ResponseHeader(f, kind)
              \/ /\ i = Len(inbox) + 2
                 /\ inbox'[i] = [token |-> "body", of |-> f.req]
                 /\ inbox'[i - 1] = ResponseHeader(f, kind)
<1> DEFINE h == ResponseHeader(f, kind)
           b == [token |-> "body", of |-> f.req]
<1>1. h \in Header \cup Body /\ b \in Header \cup Body /\ inbox \in Seq(Header \cup Body)
    BY ResponseType DEF TypeInv, TypeOK
<1>2. inbox' = inbox \o <<h>> \/ inbox' = inbox \o <<h, b>>
    BY DEF ResponseTokens
<1>3. SUFFICES \A i \in 1..Len(inbox') :
              \/ i \in 1..Len(inbox) /\ inbox'[i] = inbox[i]
              \/ i = Len(inbox) + 1 /\ inbox'[i] = h
              \/ i = Len(inbox) + 2 /\ inbox'[i] = b /\ inbox'[i - 1] = h
    OBVIOUS
<1> HIDE DEF h, b
<1> QED
    BY <1>1, <1>2

\* The header of a response carries the id and the request of its frame.
LEMMA AnswerHeader ==
    ASSUME TypeInv, NEW f \in unanswered, NEW kind \in AnswerKinds
    PROVE  /\ ResponseHeader(f, kind).token = "header"
           /\ ResponseHeader(f, kind).id = f.id
           /\ ResponseHeader(f, kind).of = f.req
BY DEF ResponseHeader

\* What the inbox holds after the read thread takes its head.
LEMMA TailTokens ==
    ASSUME TypeInv, inbox # <<>>, inbox' = Tail(inbox)
    PROVE  /\ Len(inbox') = Len(inbox) - 1
           /\ \A i \in 1..Len(inbox') : inbox'[i] = inbox[i + 1]
           /\ Head(inbox) = inbox[1]
<1>1. inbox \in Seq(Header \cup Body)
    BY DEF TypeInv, TypeOK
<1> QED
    BY <1>1

\* What the inbox holds after the network has cut a suffix.
LEMMA PrefixTokens ==
    ASSUME TypeInv, NEW n \in 0..Len(inbox), inbox' = SubSeq(inbox, 1, n)
    PROVE  /\ Len(inbox') = n
           /\ \A i \in 1..n : inbox'[i] = inbox[i]
<1>1. inbox \in Seq(Header \cup Body)
    BY DEF TypeInv, TypeOK
<1>2. \A i \in 1..n : inbox[i] \in Header \cup Body
    BY <1>1
<1>3. /\ Len(SubSeq(inbox, 1, n)) = IF 1 <= n THEN n - 1 + 1 ELSE 0
      /\ \A i \in 1..(n - 1 + 1) : SubSeq(inbox, 1, n)[i] = inbox[1 + i - 1]
    BY <1>2, SubSeqProperties
<1> QED
    BY <1>3

\* Every header in the inbox carries the id of its request.
LEMMA InboxStep ==
    ASSUME TypeInv, IdInv, FrameInv, InboxInv, [Next]_vars
    PROVE  InboxInv'
<1> USE DEF InboxInv
<1>0. Len(inbox) \in Nat
    BY DEF TypeInv, TypeOK
<1>1. \A q, id : Owns(q, id) /\ q \in applied => Owns(q, id)' /\ q \in applied'
    BY OwnsKept, AppliedGrows DEF Owns
<1>2. CASE inbox' = inbox
    BY <1>1, <1>2
<1>3. CASE inbox' = <<>>
    BY <1>3
<1>4. CASE inbox # <<>> /\ inbox' = Tail(inbox)
  <2>1. ASSUME NEW i \in 1..Len(inbox')
        PROVE  i + 1 \in 1..Len(inbox) /\ inbox'[i] = inbox[i + 1]
    BY <1>0, <1>4, TailTokens
  <2> QED
    BY <1>1, <2>1
<1>5. ASSUME NEW f \in unanswered, NEW kind \in AnswerKinds,
             inbox' = inbox \o ResponseTokens(f, kind)
      PROVE  InboxInv'
  <2>1. Owns(f.req, f.id) /\ f.req \in applied
    BY DEF FrameInv
  <2>2. PICK h : h = ResponseHeader(f, kind)
    OBVIOUS
  <2>3. h.id = f.id /\ h.of = f.req
    BY <2>2, AnswerHeader
  <2>4. \A i \in 1..Len(inbox') :
           \/ i \in 1..Len(inbox) /\ inbox'[i] = inbox[i]
           \/ inbox'[i] = h
           \/ inbox'[i].token = "body"
    <3>1. \A i \in 1..Len(inbox') :
              \/ i \in 1..Len(inbox) /\ inbox'[i] = inbox[i]
              \/ i = Len(inbox) + 1 /\ inbox'[i] = ResponseHeader(f, kind)
              \/ /\ i = Len(inbox) + 2
                 /\ inbox'[i] = [token |-> "body", of |-> f.req]
                 /\ inbox'[i - 1] = ResponseHeader(f, kind)
      BY <1>5, AnswerTokens
    <3> QED
      BY <2>2, <3>1
  <2> QED
    BY <1>1, <2>1, <2>3, <2>4
<1>6. ASSUME NEW n \in 0..Len(inbox), inbox' = SubSeq(inbox, 1, n)
      PROVE  InboxInv'
  <2>1. ASSUME NEW i \in 1..Len(inbox')
        PROVE  i \in 1..Len(inbox) /\ inbox'[i] = inbox[i]
    BY <1>0, <1>6, PrefixTokens
  <2> QED
    BY <1>1, <2>1
<1> QED
    BY <1>2, <1>3, <1>4, <1>5, <1>6, InboxEffect

-----------------------------------------------------------------------------
(* The header in the hands of the read thread, and its body *)

\* The read thread gets a header from the inbox only, and while it has one
\* only takes an error message from the inbox.
LEMMA HeaderEffect ==
    ASSUME TypeInv, [Next]_vars, Processing'
    PROVE  \/ ReadHeader
           \/ /\ Processing /\ rhdr' = rhdr
              /\ \/ inbox' = inbox
                 \/ inbox' = <<>>
                 \/ ReadErrorBody
                 \/ \E f \in unanswered, kind \in AnswerKinds :
                       inbox' = inbox \o ResponseTokens(f, kind)
                 \/ \E n \in 0..Len(inbox) : inbox' = SubSeq(inbox, 1, n)
<1> USE DEF Processing
<1>1. ASSUME NEW r \in Requests, execute(r)
      PROVE  Processing /\ rhdr' = rhdr /\ inbox' = inbox
    BY <1>1 DEF execute, readVars
<1>2. CASE readLoop
    BY <1>2 DEF readLoop, ReadLoopTest, ReadInvalidMagic, ReadErrorBody,
                ReadThrows, LookupPending, SkipOrphan, NotifyTopology, DeliverServerError,
                DeliverMismatch, DeliverEmpty, DeliverBody, DeliverParseError, Deliver,
                ReadLoopDisconnect, ReadLoopCloseAll
<1>3. CASE ConnectSocket \/ connect \/ CloseStop \/ close
    BY <1>3 DEF ConnectSocket, OpenSocket, connect, ConnectPublish, ConnectAllow,
                ConnectStartReader, CloseStop, close, CloseShutdown, CloseJoin,
                CloseSocket, CloseDisconnect, CloseDrain, netVars, readVars
<1>4. CASE \/ External(ServerReceive) \/ External(ServerAnswer)
           \/ External(ServerTopologyChange) \/ External(PeerDrop)
    BY <1>4 DEF External, ServerReceive, ServerAnswer, ServerTopologyChange, PeerDrop, readVars
<1>5. CASE UNCHANGED vars
    BY <1>5 DEF vars, netVars, readVars
<1> QED
    BY <1>1, <1>2, <1>3, <1>4, <1>5 DEF Next

\* The header carries the id of its request.
LEMMA HeaderStep ==
    ASSUME TypeInv, IdInv, InboxInv, HeaderInv, [Next]_vars
    PROVE  HeaderInv'
<1> SUFFICES ASSUME Processing'
             PROVE  (Owns(rhdr.of, rhdr.id) /\ rhdr.of \in applied)'
    BY DEF HeaderInv
<1>1. \A q, id : Owns(q, id) /\ q \in applied => Owns(q, id)' /\ q \in applied'
    BY OwnsKept, AppliedGrows DEF Owns
<1>2. CASE Processing /\ rhdr' = rhdr
    BY <1>1, <1>2 DEF HeaderInv
<1>3. CASE ReadHeader
  <2>1. inbox # <<>> /\ Head(inbox).token = "header" /\ rhdr' = Head(inbox)
    BY <1>3 DEF ReadHeader, Receive
  <2>2. Head(inbox) = inbox[1] /\ 1 \in 1..Len(inbox)
    BY <2>1 DEF TypeInv, TypeOK
  <2> QED
    BY <1>1, <2>1, <2>2 DEF InboxInv
<1> QED
    BY <1>2, <1>3, HeaderEffect

\* A body stays behind the header of its response.
LEMMA BodyStep ==
    ASSUME TypeInv, BodyInv, [Next]_vars
    PROVE  BodyInv'
<1> DEFINE Follows(s) ==
        \A i \in 1..(Len(s) - 1) :
            s[i + 1].token = "body" => s[i].token = "header" /\ s[i].of = s[i + 1].of
           Fits(s, h) == s # <<>> => (s[1].token = "body" => s[1].of = h.of)
<1>0. inbox \in Seq(Header \cup Body) /\ Len(inbox) \in Nat
    BY DEF TypeInv, TypeOK
<1>1. Follows(inbox) /\ (Processing => Fits(inbox, rhdr))
    BY DEF BodyInv
<1>2. CASE inbox' = inbox
  <2>1. Follows(inbox')
    BY <1>1, <1>2
  <2>2. Processing' => Processing /\ rhdr' = rhdr
    <3>1. inbox' = Tail(inbox) /\ inbox # <<>> => FALSE
      BY <1>0, <1>2, TailTokens
    <3>2. ReadHeader => FALSE
      BY <3>1 DEF ReadHeader, Receive
    <3> QED
      BY <3>2, HeaderEffect
  <2> QED
    BY <1>1, <1>2, <2>1, <2>2 DEF BodyInv
<1>3. CASE inbox' = <<>>
    BY <1>3 DEF BodyInv
<1>4. CASE inbox # <<>> /\ inbox' = Tail(inbox)
  <2>1. /\ Len(inbox') = Len(inbox) - 1
        /\ \A i \in 1..Len(inbox') : inbox'[i] = inbox[i + 1]
        /\ Head(inbox) = inbox[1]
    BY <1>4, TailTokens
  <2>2. Follows(inbox')
    <3>1. ASSUME NEW i \in 1..(Len(inbox') - 1)
          PROVE  /\ i + 1 \in 1..(Len(inbox) - 1)
                 /\ inbox'[i] = inbox[i + 1]
                 /\ inbox'[i + 1] = inbox[(i + 1) + 1]
      BY <1>0, <2>1
    <3> QED
      BY <1>1, <3>1
  <2>3. ASSUME Processing', inbox' # <<>>, inbox'[1].token = "body"
        PROVE  inbox'[1].of = rhdr'.of
    <3>1. inbox' \in Seq(Header \cup Body)
      BY TypeStep DEF TypeInv, TypeOK
    <3>2. Len(inbox') >= 1 /\ inbox'[1] = inbox[2] /\ 1 \in 1..(Len(inbox) - 1)
      BY <1>0, <2>1, <2>3, <3>1
    <3>3. inbox[1].token = "header" /\ inbox[1].of = inbox[2].of
      BY <1>1, <2>3, <3>2
    <3>4. CASE ReadHeader
      BY <2>1, <3>2, <3>3, <3>4 DEF ReadHeader
    <3>5. ReadErrorBody => FALSE
      BY <2>1, <3>3 DEF ReadErrorBody, Receive
    <3>6. inbox' # inbox /\ Len(inbox') < Len(inbox)
      BY <1>0, <2>1
    <3>7. ASSUME NEW f \in unanswered, NEW kind \in AnswerKinds,
                 inbox' = inbox \o ResponseTokens(f, kind)
          PROVE  FALSE
      BY <1>0, <3>6, <3>7, ResponseType
    <3>8. ASSUME NEW n \in 0..Len(inbox), inbox' = SubSeq(inbox, 1, n), Processing,
                 rhdr' = rhdr
          PROVE  inbox'[1].of = rhdr'.of
      <4>1. inbox'[1] = inbox[1]
        BY <3>2, <3>8, PrefixTokens
      <4> QED
        BY <2>3, <3>3, <4>1
    <3> QED
      BY <2>3, <3>4, <3>5, <3>6, <3>7, <3>8, HeaderEffect
  <2> QED
    BY <2>2, <2>3 DEF BodyInv
<1>5. ASSUME NEW f \in unanswered, NEW kind \in AnswerKinds,
             inbox' = inbox \o ResponseTokens(f, kind), UNCHANGED <<rpc, rhdr>>
      PROVE  BodyInv'
  <2>1. PICK h : h = ResponseHeader(f, kind)
    OBVIOUS
  <2>2. PICK b : b = [token |-> "body", of |-> f.req]
    OBVIOUS
  <2>3. h.token = "header" /\ h.of = f.req /\ b.token = "body" /\ b.of = f.req
    BY <2>1, <2>2, AnswerHeader
  <2>4. \A i \in 1..Len(inbox') :
              \/ i \in 1..Len(inbox) /\ inbox'[i] = inbox[i]
              \/ i = Len(inbox) + 1 /\ inbox'[i] = h
              \/ i = Len(inbox) + 2 /\ inbox'[i] = b /\ inbox'[i - 1] = h
    BY <1>5, <2>1, <2>2, AnswerTokens
  <2>5. Len(inbox') \in Nat /\ (inbox' # <<>> => 1 \in 1..Len(inbox'))
    BY TypeStep DEF TypeInv, TypeOK
  <2>6. ASSUME NEW i \in 1..(Len(inbox') - 1), inbox'[i + 1].token = "body"
        PROVE  inbox'[i].token = "header" /\ inbox'[i].of = inbox'[i + 1].of
    <3>1. i \in 1..Len(inbox') /\ i + 1 \in 1..Len(inbox')
      BY <2>5
    <3>2. CASE i + 1 \in 1..Len(inbox) /\ inbox'[i + 1] = inbox[i + 1]
      <4>1. i \in 1..(Len(inbox) - 1) /\ inbox'[i] = inbox[i]
        BY <1>0, <2>4, <3>1, <3>2
      <4> QED
        BY <1>1, <2>6, <3>2, <4>1
    <3> QED
      BY <1>0, <2>3, <2>4, <2>6, <3>1, <3>2
  <2>7. ASSUME Processing', inbox' # <<>>, inbox'[1].token = "body"
        PROVE  inbox'[1].of = rhdr'.of
    <3>1. Processing
      BY <1>5, <2>7 DEF Processing
    <3>2. 1 \in 1..Len(inbox) /\ inbox'[1] = inbox[1]
      BY <1>0, <2>3, <2>4, <2>5, <2>7
    <3>3. inbox # <<>>
      BY <1>0, <3>2
    <3> QED
      BY <1>1, <1>5, <2>7, <3>1, <3>2, <3>3
  <2> QED
    BY <2>6, <2>7 DEF BodyInv
<1>6. ASSUME NEW n \in 0..Len(inbox), inbox' = SubSeq(inbox, 1, n), UNCHANGED <<rpc, rhdr>>
      PROVE  BodyInv'
  <2>1. Len(inbox') = n /\ \A i \in 1..n : inbox'[i] = inbox[i]
    BY <1>6, PrefixTokens
  <2>2. Follows(inbox')
    BY <1>0, <1>1, <2>1
  <2>3. inbox' # <<>> => 1 \in 1..n
    BY <2>1, TypeStep DEF TypeInv, TypeOK
  <2>4. 1 \in 1..n => inbox # <<>>
    BY <1>0
  <2> QED
    BY <1>1, <1>6, <2>1, <2>2, <2>3, <2>4 DEF BodyInv, Processing
<1> QED
    BY <1>2, <1>3, <1>4, <1>5, <1>6, InboxEffect

-----------------------------------------------------------------------------
(* The pending map, the promises and the read thread *)

Unnumbered == {"idle", "checked", "numbered"}

\* execute() registers a request once, and takes back its own entry only.
LEMMA PendingExecute ==
    ASSUME IInv, NEW r \in Requests, execute(r), IdInv',
           \A q \in Requests : Numbered(q) => Numbered(q)' /\ msgId'[q] = msgId[q]
    PROVE  PendingInv'
<1> USE DEF PendingInv
<1>0. /\ UNCHANGED <<promise, rpc, rhdr, rreq>>
      /\ \A q, id : Owns(q, id) => Owns(q, id)'
      /\ pending \subseteq [id : Nat, req : Requests]
      /\ pc \in [Requests -> {"idle", "checked", "numbered", "registered", "built",
                            "sendFailed", "returned", "threw"}]
      /\ rreq \in Requests \cup {NoReq}
    BY DEF execute, readVars, Owns, IInv, TypeInv, TypeOK
<1>i. PendingInv
    BY DEF IInv
<1>1. CASE ExecuteCheck(r)
    BY <1>0, <1>1, <1>i, CheckEffect
<1>2. CASE ExecuteNumber(r)
    BY <1>0, <1>2, <1>i DEF ExecuteNumber
<1>3. CASE ExecuteRegister(r)
  <2>0. PICK m : m = msgId[r]
    OBVIOUS
  <2>1. /\ pc[r] = "numbered" /\ pc' = [pc EXCEPT ![r] = "registered"]
        /\ pending' = ErasePending(msgId[r]) \cup {[id |-> m, req |-> r]}
    BY <1>3, <2>0 DEF ExecuteRegister
  <2>2. /\ promise[r] = Unset
        /\ r # rreq
    BY <1>0, <1>i, <2>1, ConstantsAssumption
  <2>n. Owns(r, m)'
    BY <1>0, <2>0, <2>1 DEF Owns, Numbered
  <2>3. ErasePending(msgId[r]) = pending
    BY <1>0, <1>i, <2>1 DEF ErasePending, Owns, Numbered, IInv, IdInv
  <2>4. \A p \in pending' : p \in pending \/ (p.id = m /\ p.req = r)
    BY <2>1, <2>3
  <2>5. \A q \in Requests : pc'[q] = IF q = r THEN "registered" ELSE pc[q]
    BY <1>0, <2>1
  <2>6. \A p \in pending' :
          /\ Owns(p.req, p.id)'
          /\ pc'[p.req] \in {"registered", "built", "sendFailed", "returned"}
          /\ promise'[p.req] = Unset
          /\ p.req # rreq'
    BY <1>0, <1>i, <2>2, <2>n, <2>4, <2>5
  <2>7. \A q \in Requests :
          (\E p \in pending : p.req = q) \/ q = r => \E p \in pending' : p.req = q
    <3>1. [id |-> m, req |-> r] \in pending' /\ [id |-> m, req |-> r].req = r
      BY <2>1
    <3>2. pending \subseteq pending'
      BY <2>1, <2>3
    <3> QED
      BY <3>1, <3>2
  <2> QED
    BY <1>0, <1>i, <2>5, <2>6, <2>7
<1>4. CASE buildRequest(r)
    BY <1>0, <1>4, <1>i DEF buildRequest
<1>5. CASE ExecuteSend(r)
  <2>1. /\ pc[r] = "built" /\ pending' = pending
        /\ \A q \in Requests :
              pc'[q] = pc[q] \/ (q = r /\ pc'[q] \in {"returned", "sendFailed"})
    BY <1>0, <1>5, SendEffect
  <2> QED
    BY <1>0, <1>i, <2>1
<1>6. CASE ExecuteSendFailed(r)
  <2>1. /\ pc[r] = "sendFailed" /\ pc' = [pc EXCEPT ![r] = "threw"]
        /\ pending' = ErasePending(msgId[r])
    BY <1>6 DEF ExecuteSendFailed
  <2>2. pending' = {p \in pending : p.req # r}
    BY <1>0, <1>i, <2>1 DEF ErasePending, Owns, Numbered, IInv, IdInv
  <2> QED
    BY <1>0, <1>i, <2>1, <2>2
<1> QED
    BY <1>1, <1>2, <1>3, <1>4, <1>5, <1>6 DEF execute

\* closeAllPending() resolves what is registered and nothing else.
LEMMA PendingCloseAll ==
    ASSUME IInv, closeAllPending, UNCHANGED <<pc, exc, msgId, rhdr, rreq>>,
           rpc' \in {"notify", "dispatch"} <=> rpc \in {"notify", "dispatch"}
    PROVE  PendingInv'
<1>1. /\ PendingInv
      /\ promise \in [Requests -> Outcome]
      /\ rreq \in Requests \cup {NoReq}
      /\ pending \subseteq [id : Nat, req : Requests]
    BY DEF IInv, TypeInv, TypeOK
<1>2. /\ pending' = {}
      /\ \A q \in Requests :
            promise'[q] = IF promise[q] = Unset /\ \E p \in pending : p.req = q
                          THEN [kind |-> "dropped", of |-> NoReq] ELSE promise[q]
    BY <1>1 DEF closeAllPending
<1>3. Unset # [kind |-> "dropped", of |-> NoReq]
    BY DEF Unset
<1>4. \A q \in Requests : pc[q] \in Unnumbered => promise'[q] = promise[q]
    BY <1>1, <1>2 DEF PendingInv, Unnumbered
<1>5. rreq # NoReq => promise'[rreq] = promise[rreq]
    BY <1>1, <1>2 DEF PendingInv
<1>6. \A q \in Requests : promise'[q] = Unset =>
         promise[q] = Unset /\ ~\E p \in pending : p.req = q
    BY <1>2, <1>3
<1> QED
    BY <1>1, <1>2, <1>4, <1>5, <1>6 DEF PendingInv, Unnumbered

\* The read thread moves an entry from pending_ into its hands, and from there
\* into the promise.
LEMMA PendingReadLoop ==
    ASSUME IInv, readLoop
    PROVE  PendingInv'
<1>0. /\ UNCHANGED <<pc, exc, msgId>>
      /\ PendingInv
      /\ pending \subseteq [id : Nat, req : Requests]
      /\ promise \in [Requests -> Outcome]
      /\ rreq \in Requests \cup {NoReq}
    BY DEF readLoop, callVars, IInv, TypeInv, TypeOK
<1>1. ASSUME UNCHANGED <<pending, promise, rhdr, rreq>>,
             rpc' \in {"notify", "dispatch"} <=> rpc \in {"notify", "dispatch"}
      PROVE  PendingInv'
    BY <1>0, <1>1 DEF PendingInv, Owns, Numbered
<1>2. CASE ReadLoopTest \/ ReadInvalidMagic \/ ReadErrorBody \/ ReadThrows
           \/ SkipOrphan \/ NotifyTopology \/ ReadLoopDisconnect
    BY <1>1, <1>2 DEF ReadLoopTest, ReadInvalidMagic, ReadErrorBody, ReadThrows,
                      SkipOrphan, NotifyTopology, ReadLoopDisconnect
<1>3. CASE ReadHeader
  <2>1. /\ rpc = "header" /\ rpc' \in {"errorBody", "lookup"}
        /\ UNCHANGED <<pending, promise, rreq>>
    BY <1>3 DEF ReadHeader, AfterHeader
  <2> QED
    BY <1>0, <2>1 DEF PendingInv, Owns, Numbered
<1>4. CASE LookupPending
  <2>1. PICK p \in pending : p.id = rhdr.id /\ rreq' = p.req
    BY <1>4 DEF LookupPending, FindPending
  <2>2. /\ rpc = "lookup" /\ rpc' \in {"notify", "dispatch"}
        /\ pending' = ErasePending(rhdr.id)
        /\ UNCHANGED <<promise, rhdr>>
    BY <1>4 DEF LookupPending, AfterLookup
  <2>3. Owns(p.req, p.id) /\ Owns(rhdr.of, rhdr.id)
    BY <1>0, <2>2 DEF PendingInv, IInv, HeaderInv, Processing
  <2>4. p.req = rhdr.of
    BY <2>1, <2>3 DEF Owns, IInv, IdInv
  <2>5. pending' = {x \in pending : x.req # p.req}
    <3>1. \A x \in pending : x.id = rhdr.id <=> x.req = p.req
      BY <1>0, <2>1, <2>3 DEF PendingInv, Owns, IInv, IdInv
    <3> QED
      BY <2>2, <3>1 DEF ErasePending
  <2>6. rreq = NoReq
    BY <1>0, <2>2 DEF PendingInv
  <2>7. \A x \in pending' :
          /\ Owns(x.req, x.id)'
          /\ pc'[x.req] \in {"registered", "built", "sendFailed", "returned"}
          /\ promise'[x.req] = Unset
          /\ x.req # rreq'
    BY <1>0, <2>1, <2>2, <2>5 DEF PendingInv, Owns, Numbered
  <2>8. promise'[p.req] = Unset /\ pc'[p.req] \notin {"idle", "checked", "numbered"}
    BY <1>0, <2>2 DEF PendingInv
  <2>9. \A q \in Requests :
          (\E x \in pending : x.req = q) \/ rreq = q
              => (\E x \in pending' : x.req = q) \/ rreq' = q
    BY <2>1, <2>5, <2>6, ConstantsAssumption
  <2> QED
    BY <1>0, <2>1, <2>2, <2>4, <2>7, <2>8, <2>9 DEF PendingInv
<1>d. ASSUME NEW o \in Outcome, o # Unset, Deliver(o), rpc = "dispatch", pending' = pending,
             rreq \in Requests
      PROVE  PendingInv'
  <2>1. /\ rreq' = NoReq /\ rpc' = "test"
        /\ \A q \in Requests : promise'[q] = IF q = rreq THEN o ELSE promise[q]
    BY <1>0, <1>d DEF Deliver
  <2> QED
    BY <1>0, <1>d, <2>1, ConstantsAssumption DEF PendingInv, Owns, Numbered
<1>e. ASSUME rpc = "dispatch"
      PROVE  rreq \in Requests /\ rhdr.of \in Requests
    BY <1>0, <1>e DEF PendingInv, IInv, HeaderInv, Processing, Owns
<1>o. ASSUME NEW k \in {"serverError", "mismatch", "empty", "body", "parseError"},
             NEW q \in Requests \cup {NoReq}
      PROVE  [kind |-> k, of |-> q] \in Outcome /\ [kind |-> k, of |-> q] # Unset
    BY DEF Outcome, Unset
<1>5. CASE DeliverServerError \/ DeliverMismatch \/ DeliverEmpty \/ DeliverParseError
    BY <1>5, <1>d, <1>e, <1>o
       DEF DeliverServerError, DeliverMismatch, DeliverEmpty, DeliverParseError
<1>6. CASE DeliverBody
  <2>1. Head(inbox) \in Body
    BY <1>6, TokenKinds DEF DeliverBody, Receive, IInv, TypeInv, TypeOK
  <2>2. Head(inbox).of \in Requests
    BY <2>1 DEF Body
  <2> QED
    BY <1>6, <1>d, <1>e, <1>o, <2>2 DEF DeliverBody
<1>7. CASE ReadLoopCloseAll
    BY <1>0, <1>7, PendingCloseAll DEF ReadLoopCloseAll
<1> QED
    BY <1>2, <1>3, <1>4, <1>5, <1>6, <1>7 DEF readLoop

\* No other step touches the map or the promises, but for the end of close().
LEMMA PendingStep ==
    ASSUME IInv, [Next]_vars
    PROVE  PendingInv'
<1>0. TypeInv /\ IdInv /\ PendingInv
    BY DEF IInv
<1>1. ASSUME UNCHANGED <<pc, exc, msgId, pending, promise, rhdr, rreq>>,
             rpc' \in {"notify", "dispatch"} <=> rpc \in {"notify", "dispatch"}
      PROVE  PendingInv'
    BY <1>0, <1>1 DEF PendingInv, Owns, Numbered
<1>2. ASSUME NEW r \in Requests, execute(r)
      PROVE  PendingInv'
    BY <1>0, <1>2, PendingExecute, IdStep, OwnsKept
<1>3. CASE ConnectSocket \/ connect \/ CloseStop
    BY <1>1, <1>3 DEF ConnectSocket, OpenSocket, connect, ConnectPublish, ConnectAllow,
                      ConnectStartReader, CloseStop, callVars, readVars
<1>4. CASE close
  <2>1. CASE CloseDrain
    BY <1>4, <2>1, PendingCloseAll DEF close, CloseDrain, callVars
  <2>2. CASE CloseShutdown \/ CloseJoin \/ CloseSocket \/ CloseDisconnect
    BY <1>1, <1>4, <2>2 DEF close, CloseShutdown, CloseJoin, CloseSocket, CloseDisconnect,
                            callVars
  <2> QED
    BY <1>4, <2>1, <2>2 DEF close
<1>5. CASE \/ External(ServerReceive) \/ External(ServerAnswer)
           \/ External(ServerTopologyChange) \/ External(PeerDrop)
    BY <1>1, <1>5 DEF External, callVars, readVars
<1>6. CASE UNCHANGED vars
    BY <1>1, <1>6 DEF vars, callVars, readVars
<1> QED
    BY <1>2, <1>3, <1>4, <1>5, <1>6, PendingReadLoop DEF Next

-----------------------------------------------------------------------------
(* What futures carry *)

\* The read thread delivers what the server sent for the request it has in its
\* hands.
LEMMA AnswerReadLoop ==
    ASSUME IInv, readLoop
    PROVE  AnswerInv'
<1>0. /\ AnswerInv
      /\ applied' = applied
      /\ promise \in [Requests -> Outcome]
    BY DEF readLoop, serverVars, IInv, TypeInv, TypeOK
<1>1. CASE promise' = promise
    BY <1>0, <1>1 DEF AnswerInv, OwnAnswer
<1>2. ASSUME rpc = "dispatch"
      PROVE  rreq = rhdr.of /\ rreq \in Requests /\ rreq \in applied
    BY <1>2 DEF IInv, PendingInv, HeaderInv, Processing, Owns
<1>3. ASSUME rpc = "dispatch", NEW k, Deliver([kind |-> k, of |-> rreq])
      PROVE  AnswerInv'
  <2>1. \A q \in Requests : promise'[q] = IF q = rreq THEN [kind |-> k, of |-> rreq]
                                          ELSE promise[q]
    BY <1>0, <1>3 DEF Deliver
  <2> QED
    BY <1>0, <1>2, <1>3, <2>1 DEF AnswerInv, OwnAnswer
<1>4. CASE DeliverServerError \/ DeliverMismatch \/ DeliverEmpty
    BY <1>2, <1>3, <1>4 DEF DeliverServerError, DeliverMismatch, DeliverEmpty
<1>5. CASE DeliverBody
  <2>1. /\ rpc = "dispatch" /\ inbox # <<>> /\ Head(inbox).token = "body"
        /\ Deliver([kind |-> "body", of |-> Head(inbox).of])
    BY <1>5 DEF DeliverBody, Receive
  <2>2. Head(inbox) = inbox[1]
    BY <2>1 DEF IInv, TypeInv, TypeOK
  <2>3. Head(inbox).of = rhdr.of
    BY <2>1, <2>2 DEF IInv, BodyInv, Processing
  <2> QED
    BY <1>2, <1>3, <2>1, <2>3
<1>6. CASE DeliverParseError
  <2>1. rpc = "dispatch" /\ Deliver([kind |-> "parseError", of |-> NoReq])
    BY <1>6 DEF DeliverParseError
  <2>2. \A q \in Requests : promise'[q] = IF q = rreq THEN [kind |-> "parseError", of |-> NoReq]
                                          ELSE promise[q]
    BY <1>0, <2>1 DEF Deliver
  <2> QED
    BY <1>0, <2>2 DEF AnswerInv, OwnAnswer
<1>7. CASE ReadLoopCloseAll
  <2>1. \A q \in Requests : \/ promise'[q] = promise[q]
                            \/ promise'[q].kind = "dropped"
    BY <1>0, <1>7 DEF ReadLoopCloseAll, closeAllPending
  <2> QED
    BY <1>0, <2>1 DEF AnswerInv, OwnAnswer
<1>8. CASE \/ ReadLoopTest \/ ReadHeader \/ ReadInvalidMagic \/ ReadErrorBody
           \/ ReadThrows \/ LookupPending \/ SkipOrphan \/ NotifyTopology
           \/ ReadLoopDisconnect
    BY <1>1, <1>8 DEF ReadLoopTest, ReadHeader, ReadInvalidMagic, ReadErrorBody, ReadThrows,
                      LookupPending, SkipOrphan, NotifyTopology, ReadLoopDisconnect
<1> QED
    BY <1>4, <1>5, <1>6, <1>7, <1>8 DEF readLoop

\* Only the read loop and closeAllPending() set promises.
LEMMA AnswerStep ==
    ASSUME IInv, [Next]_vars
    PROVE  AnswerInv'
<1>0. /\ AnswerInv
      /\ applied \subseteq applied'
      /\ promise \in [Requests -> Outcome]
    BY AppliedGrows DEF IInv, TypeInv, TypeOK
<1>1. CASE promise' = promise
    BY <1>0, <1>1 DEF AnswerInv, OwnAnswer
<1>2. ASSUME NEW r \in Requests, execute(r)
      PROVE  promise' = promise
    BY <1>2 DEF execute
<1>3. CASE ConnectSocket \/ connect \/ CloseStop
    BY <1>1, <1>3 DEF ConnectSocket, OpenSocket, connect, CloseStop
<1>4. CASE close
  <2>1. CASE CloseDrain
    <3>1. \A q \in Requests : \/ promise'[q] = promise[q]
                              \/ promise'[q].kind = "dropped"
      BY <1>0, <2>1 DEF CloseDrain, closeAllPending
    <3> QED
      BY <1>0, <3>1 DEF AnswerInv, OwnAnswer
  <2> QED
    BY <1>1, <1>4, <2>1 DEF close, CloseShutdown, CloseJoin, CloseSocket, CloseDisconnect
<1>5. CASE \/ External(ServerReceive) \/ External(ServerAnswer)
           \/ External(ServerTopologyChange) \/ External(PeerDrop)
    BY <1>1, <1>5 DEF External
<1>6. CASE UNCHANGED vars
    BY <1>1, <1>6 DEF vars
<1> QED
    BY <1>1, <1>2, <1>3, <1>4, <1>5, <1>6, AnswerReadLoop DEF Next

-----------------------------------------------------------------------------
(* The invariant holds, and what follows from it *)

\* A connection that was never opened satisfies the invariant.
LEMMA InvInit ==
    ASSUME Init
    PROVE  IInv
<1>1. TypeInv
    BY TypeInit
<1>2. IdInv /\ FrameInv /\ InboxInv /\ HeaderInv /\ BodyInv
    BY DEF Init, IdInv, FrameInv, InboxInv, HeaderInv, BodyInv, Processing, Numbered
<1>3. PendingInv /\ AnswerInv
    BY DEF Init, PendingInv, AnswerInv, OwnAnswer, Unset
<1> QED
    BY <1>1, <1>2, <1>3 DEF IInv

\* Every step of every thread, of the server and of the network keeps it.
LEMMA InvStep ==
    ASSUME IInv, [Next]_vars
    PROVE  IInv'
<1>1. TypeInv /\ IdInv /\ FrameInv /\ InboxInv /\ HeaderInv /\ BodyInv
    BY DEF IInv
<1>2. TypeInv' /\ IdInv' /\ FrameInv' /\ InboxInv' /\ HeaderInv' /\ BodyInv'
    BY <1>1, TypeStep, IdStep, FrameStep, InboxStep, HeaderStep, BodyStep
<1> QED
    BY <1>2, PendingStep, AnswerStep DEF IInv

\* The invariant of the connection: ids are unique, every copy of one names its
\* owner, and every unresolved request is in one place.
THEOREM Invariance == Spec => []IInv
    BY InvInit, InvStep, PTL DEF Spec

\* Message id matching: whatever a future carries was sent by the server for
\* that very request, for any number of concurrent calls of execute(), in any
\* order of answers, with answers lost, repeated or of the wrong opcode.
THEOREM AnswersMatch == Spec => []OwnAnswer
<1>1. IInv => OwnAnswer
    BY DEF IInv, AnswerInv
<1> QED
    BY <1>1, Invariance, PTL

\* No promise leaves pending_ without the read thread holding it or setting it.
THEOREM NothingForgotten == Spec => []NoForgottenRequest
<1>1. IInv => NoForgottenRequest
    BY DEF IInv, PendingInv, NoForgottenRequest, Resolved
<1> QED
    BY <1>1, Invariance, PTL

\* The phase of a failure tells a retry loop the truth about the server.
THEOREM PhasesHonest == Spec => []PhaseIsHonest
<1>1. IInv => PhaseIsHonest
  <2> SUFFICES ASSUME IInv, NEW r \in Requests
               PROVE  /\ ReportedPhase(r) = "BeforeSend" => r \notin applied
                      /\ ReportedPhase(r) = "ServerError" => r \in applied
    BY DEF PhaseIsHonest
  <2>1. /\ exc[r] \in {"none", "BeforeSend", "AfterSend"}
        /\ exc[r] # "none" <=> pc[r] = "threw"
        /\ r \in applied => Numbered(r)
        /\ promise[r].kind \in {"serverError", "mismatch"} => r \in applied
    BY DEF IInv, TypeInv, TypeOK, IdInv, FrameInv, AnswerInv
  <2>2. CASE exc[r] # "none"
    BY <2>1, <2>2 DEF ReportedPhase, Numbered
  <2>3. CASE exc[r] = "none"
    BY <2>1, <2>3 DEF ReportedPhase
  <2> QED
    BY <2>2, <2>3
<1> QED
    BY <1>1, Invariance, PTL

\* A promise is set once: the read thread and closeAllPending() never both
\* touch it.
THEOREM PromisesSetOnce == Spec => ResolvedOnce
<1>1. IInv /\ [Next]_vars => [\A r \in Requests : Resolved(r) => promise'[r] = promise[r]]_vars
  <2> SUFFICES ASSUME IInv, [Next]_vars, NEW r \in Requests, Resolved(r)
               PROVE  promise'[r] = promise[r]
    OBVIOUS
  <2>0. promise \in [Requests -> Outcome] /\ promise[r] # Unset
    BY DEF IInv, TypeInv, TypeOK, Resolved
  <2>1. CASE closeAllPending
    BY <2>0, <2>1 DEF closeAllPending
  <2>2. ASSUME NEW o, Deliver(o), rpc = "dispatch"
        PROVE  promise'[r] = promise[r]
    <3>1. rreq \in Requests /\ promise[rreq] = Unset
      BY <2>2, ConstantsAssumption DEF IInv, PendingInv, HeaderInv, Processing, Owns
    <3> QED
      BY <2>0, <2>2, <3>1 DEF Deliver
  <2>3. CASE readLoop
    BY <2>1, <2>2, <2>3
       DEF readLoop, ReadLoopTest, ReadHeader, ReadInvalidMagic, ReadErrorBody, ReadThrows,
           LookupPending, SkipOrphan, NotifyTopology, DeliverServerError, DeliverMismatch,
           DeliverEmpty, DeliverBody, DeliverParseError, ReadLoopDisconnect, ReadLoopCloseAll
  <2>4. CASE close
    BY <2>1, <2>4
       DEF close, CloseShutdown, CloseJoin, CloseSocket, CloseDisconnect, CloseDrain
  <2>5. ASSUME NEW q \in Requests, execute(q)
        PROVE  promise' = promise
    BY <2>5 DEF execute
  <2>6. CASE UNCHANGED vars
    BY <2>6 DEF vars
  <2> QED
    BY <2>3, <2>4, <2>5, <2>6 DEF Next, ConnectSocket, OpenSocket, connect, CloseStop, External
<1> QED
    BY <1>1, Invariance, PTL DEF Spec, ResolvedOnce

-----------------------------------------------------------------------------
(* Responses that find their request, and a stream that stays in step *)

\* connect() has a socket and has not started the read thread.
Connecting == cpc \in {"publish", "allow", "start"}

\* The read thread takes responses.
Active == rpc \in {"test", "header", "errorBody", "lookup", "notify", "dispatch"}

\* Responses on their way will be read.
Serving == Active \/ (Connecting /\ rpc = "none")

\* The owner and the read thread do not get in each other's way.
OwnerInv ==
    /\ Active => connected /\ ~Connecting
    /\ Active /\ sock # "open" => stopReadLoop
    /\ Connecting => sock = "open"
    /\ cpc \in {"allow", "start"} /\ rpc = "none" => connected
    /\ cpc \in {"shutdown", "join"} => stopReadLoop
    /\ cpc \in {"closeSocket", "disconnect", "drain"} => rpc = "none"

\* The places that a request goes through: its frame is on the way to the server, the
\* server owes its answer, the answer is on its way back, the read thread has it.
Sent(r)   == \E i \in 1..Len(outbox) : outbox[i].req = r
Owed(r)   == \E f \in unanswered : f.req = r
Coming(r) == \E i \in 1..Len(inbox) : inbox[i].token = "header" /\ inbox[i].of = r
Taken(r)  == rpc \in {"errorBody", "lookup"} /\ rhdr.of = r

\* A request is in one place, once.
SentOnce == \A i, j \in 1..Len(outbox) : outbox[i].req = outbox[j].req => i = j
OwedOnce == \A f, g \in unanswered : f.req = g.req => f = g
ComingOnce ==
    \A i, j \in 1..Len(inbox) :
        inbox[i].token = "header" /\ inbox[j].token = "header" /\ inbox[i].of = inbox[j].of
            => i = j
Disjoint ==
    \A r \in Requests :
        /\ Sent(r) => ~Owed(r) /\ ~Coming(r) /\ ~Taken(r)
        /\ Owed(r) => ~Coming(r) /\ ~Taken(r)
        /\ Coming(r) => ~Taken(r)
PlaceInv == SentOnce /\ OwedOnce /\ ComingOnce /\ Disjoint

\* It was sent by then.
SentInv ==
    /\ \A i \in 1..Len(outbox) :
          /\ pc[outbox[i].req] \in {"returned", "sendFailed", "threw"}
          /\ outbox[i].whole => pc[outbox[i].req] = "returned"
    /\ \A r \in Requests : Owed(r) \/ Coming(r) \/ Taken(r) => pc[r] = "returned"

\* An answer to r may come.
Expected(r) ==
    \/ pc[r] \in {"registered", "built"}
    \/ Sent(r) /\ pc[r] = "returned"
    \/ Owed(r) \/ Coming(r) \/ Taken(r)

\* Whoever may be answered is registered.
ExpectedInv ==
    Serving => \A r \in Requests : Expected(r) => [id |-> msgId[r], req |-> r] \in pending

\* What a server without duplicate answers keeps.
FlightInv == OwnerInv /\ PlaceInv /\ SentInv /\ ExpectedInv

\* The read loop waits for the body of a response.
ExpectsBody == rpc = "errorBody" \/ (rpc \in {"lookup", "notify", "dispatch"} /\ rhdr.kind = "body")

\* t is a header that a body follows.
Opens(t) == t.token = "header" /\ t.kind # "empty"

\* Headers and bodies alternate as they should, to the end of a response as long as
\* the peer is there, and no response has an opcode that its request did not expect.
Framed ==
    /\ \A i \in 1..(Len(inbox) - 1) : Opens(inbox[i]) <=> inbox[i + 1].token = "body"
    /\ peer = "up" /\ inbox # <<>> => ~Opens(inbox[Len(inbox)])
    /\ \A i \in 1..Len(inbox) : inbox[i].token = "header" => inbox[i].kind # "wrongOp"

\* The stream goes on where the read loop stands.
InStep ==
    /\ Serving /\ inbox # <<>> =>
          (inbox[1].token = "body" <=> ExpectsBody) \/ (rpc = "test" /\ stopReadLoop)
    /\ peer = "up" /\ inbox = <<>> /\ Active => ~ExpectsBody

\* The header in the hands of the read thread is one that the server meant.
KindInv ==
    /\ Processing => rhdr.kind # "wrongOp"
    /\ rpc = "errorBody" => rhdr.kind = "error"

\* The read loop and the stream are in step.
SyncInv == Framed /\ InStep /\ KindInv

\* The first session: what the read loop has recorded and not yet reported is in the
\* header that it has in hand.
ReportInv ==
    sessions <= 1 =>
        /\ sessions = 0 \/ Connecting => rpc = "none" /\ notified = topologyId
        /\ Connecting => sessions # 0
        /\ rpc \in {"test", "header", "dispatch"} => notified = topologyId
        /\ rpc \in {"errorBody", "lookup", "notify"} =>
              IF HasTopology(rhdr) THEN topologyId = rhdr.topo ELSE notified = topologyId
        /\ rpc = "notify" => HasTopology(rhdr)

\* What the owner and the read thread wait for.
LEMMA OwnerStep ==
    ASSUME TypeInv, OwnerInv, [Next]_vars
    PROVE  OwnerInv'
<1> USE DEF OwnerInv, Active, Connecting
<1>1. CASE UNCHANGED <<rpc, connected, stopReadLoop, cpc, sock>>
    BY <1>1
<1>2. ASSUME NEW r \in Requests, execute(r)
      PROVE  OwnerInv'
    BY <1>1, <1>2 DEF execute, readVars, ownVars
<1>3. CASE readLoop
  <2>0. UNCHANGED <<stopReadLoop, cpc, sock>>
    BY <1>3 DEF readLoop, ownVars
  <2>1. CASE rpc' \in {"failing", "done"} /\ connected' = connected
    BY <2>0, <2>1, <1>3 DEF readLoop, ReadLoopTest, ReadHeader, AfterHeader, ReadInvalidMagic,
        ReadErrorBody, ReadThrows, LookupPending, AfterLookup, SkipOrphan, NotifyTopology,
        DeliverServerError, DeliverMismatch, DeliverEmpty, DeliverBody, DeliverParseError, Deliver,
        ReadLoopDisconnect, ReadLoopCloseAll
  <2>2. CASE rpc = "failing" /\ rpc' = "draining"
    BY <2>0, <2>2
  <2>3. CASE Active /\ Active' /\ connected' = connected
    BY <2>0, <2>3
  <2> QED
    BY <1>3, <2>1, <2>2, <2>3 DEF readLoop, ReadLoopTest, ReadHeader, AfterHeader,
        ReadInvalidMagic, ReadErrorBody, ReadThrows, LookupPending, AfterLookup, SkipOrphan,
        NotifyTopology, DeliverServerError, DeliverMismatch, DeliverEmpty, DeliverBody,
        DeliverParseError, Deliver, ReadLoopDisconnect, ReadLoopCloseAll
<1>4. CASE ConnectSocket
  <2>1. /\ ~connected /\ connected' = connected /\ UNCHANGED <<rpc, stopReadLoop>>
        /\ cpc' = IF sock' = "open" THEN "publish" ELSE "idle"
    BY <1>4 DEF ConnectSocket, readVars
  <2> QED
    BY <2>1
<1>5. CASE connect
    BY <1>5 DEF connect, ConnectPublish, ConnectAllow, ConnectStartReader, netVars
<1>6. CASE CloseStop
    BY <1>6 DEF CloseStop, readVars, netVars
<1>7. CASE close
    BY <1>7 DEF close, CloseShutdown, ShutdownSocket, CloseJoin, CloseSocket, CloseDisconnect,
                CloseDrain
<1>8. CASE \/ External(ServerReceive) \/ External(ServerAnswer)
           \/ External(ServerTopologyChange) \/ External(PeerDrop)
    BY <1>1, <1>8 DEF External, readVars, ownVars
<1>9. CASE UNCHANGED vars
    BY <1>1, <1>9 DEF vars, readVars, ownVars, netVars
<1> QED
    BY <1>2, <1>3, <1>4, <1>5, <1>6, <1>7, <1>8, <1>9 DEF Next

\* The read thread takes a token.
LEMMA TakeToken ==
    ASSUME TypeInv, ComingOnce, inbox # <<>>, inbox' = Tail(inbox)
    PROVE  /\ ComingOnce' /\ \A q : Coming(q)' => Coming(q)
           /\ \A q : Head(inbox).token = "header" /\ q = Head(inbox).of =>
                       Coming(q) /\ ~Coming(q)'
<1>1. /\ Len(inbox) \in Nat \ {0} /\ Len(inbox') = Len(inbox) - 1
      /\ \A i \in 1..Len(inbox') : inbox'[i] = inbox[i + 1]
      /\ Head(inbox) = inbox[1]
    BY TailTokens DEF TypeInv, TypeOK
<1>2. \A i \in 1..Len(inbox') :
         i + 1 \in 1..Len(inbox) /\ i + 1 # 1 /\ inbox'[i] = inbox[i + 1] /\ i \in Nat
    BY <1>1
<1>3. ComingOnce'
    BY <1>2 DEF ComingOnce
<1>4. \A q : Coming(q)' => Coming(q)
    BY <1>2 DEF Coming
<1>5. ASSUME NEW x, Head(inbox).token = "header", x = Head(inbox).of
      PROVE  Coming(x) /\ ~Coming(x)'
  <2>2. 1 \in 1..Len(inbox) /\ inbox[1].token = "header" /\ inbox[1].of = x
    BY <1>1, <1>5
  <2>3. ~Coming(x)'
    BY <1>2, <2>2 DEF Coming, ComingOnce
  <2>4. Coming(x)
    BY <2>2 DEF Coming
  <2> QED
    BY <2>3, <2>4
<1> QED
    BY <1>3, <1>4, <1>5

\* The rest of the stream is lost.
LEMMA LoseTokens ==
    ASSUME TypeInv, ComingOnce,
           inbox' = <<>> \/ \E n \in 0..Len(inbox) : inbox' = SubSeq(inbox, 1, n)
    PROVE  ComingOnce' /\ \A q : Coming(q)' => Coming(q)
<1>1. CASE inbox' = <<>>
    BY <1>1 DEF ComingOnce, Coming
<1>2. ASSUME NEW n \in 0..Len(inbox), inbox' = SubSeq(inbox, 1, n)
      PROVE  ComingOnce' /\ \A q : Coming(q)' => Coming(q)
  <2>1. /\ Len(inbox') = n /\ Len(inbox) \in Nat
        /\ \A i \in 1..n : inbox'[i] = inbox[i]
    BY <1>2, PrefixTokens DEF TypeInv, TypeOK
  <2>2. \A i \in 1..Len(inbox') : i \in 1..Len(inbox) /\ inbox'[i] = inbox[i]
    BY <2>1
  <2> QED
    BY <2>2 DEF ComingOnce, Coming
<1> QED
    BY <1>1, <1>2

\* The server answers f.
LEMMA AddTokens ==
    ASSUME TypeInv, ComingOnce, NEW f \in unanswered, NEW kind \in AnswerKinds,
           inbox' = inbox \o ResponseTokens(f, kind), ~Coming(f.req)
    PROVE  ComingOnce' /\ \A q : Coming(q)' => Coming(q) \/ q = f.req
<1>1. PICK h : h = ResponseHeader(f, kind)
    OBVIOUS
<1>2. h.token = "header" /\ h.of = f.req
    BY <1>1, AnswerHeader
<1>3. \A i \in 1..Len(inbox') :
         \/ i \in 1..Len(inbox) /\ inbox'[i] = inbox[i]
         \/ i = Len(inbox) + 1 /\ inbox'[i] = h
         \/ inbox'[i].token = "body"
  <2>1. \A i \in 1..Len(inbox') :
            \/ i \in 1..Len(inbox) /\ inbox'[i] = inbox[i]
            \/ i = Len(inbox) + 1 /\ inbox'[i] = ResponseHeader(f, kind)
            \/ /\ i = Len(inbox) + 2
               /\ inbox'[i] = [token |-> "body", of |-> f.req]
               /\ inbox'[i - 1] = ResponseHeader(f, kind)
    BY AnswerTokens
  <2> QED
    BY <1>1, <2>1
<1>4. \A i \in 1..Len(inbox) : inbox[i].token = "header" => inbox[i].of # f.req
    BY DEF Coming
<1>5. ComingOnce'
  <2> SUFFICES ASSUME NEW i \in 1..Len(inbox'), NEW j \in 1..Len(inbox'),
                      inbox'[i].token = "header", inbox'[j].token = "header",
                      inbox'[i].of = inbox'[j].of
               PROVE  i = j
    BY DEF ComingOnce
  <2>1. /\ (i \in 1..Len(inbox) /\ inbox'[i] = inbox[i]) \/ (i = Len(inbox) + 1 /\ inbox'[i] = h)
        /\ (j \in 1..Len(inbox) /\ inbox'[j] = inbox[j]) \/ (j = Len(inbox) + 1 /\ inbox'[j] = h)
    BY <1>3
  <2> QED
    BY <1>2, <1>4, <2>1 DEF ComingOnce
<1>6. \A q : Coming(q)' => Coming(q) \/ q = f.req
  <2> SUFFICES ASSUME NEW q, NEW i \in 1..Len(inbox'), inbox'[i].token = "header",
                      inbox'[i].of = q, q # f.req
               PROVE  Coming(q)
    BY DEF Coming
  <2> QED
    BY <1>2, <1>3 DEF Coming
<1> QED
    BY <1>5, <1>6

\* A frame goes out.
LEMMA AddFrame ==
    ASSUME TypeInv, SentOnce, NEW r \in Requests, NEW whole \in BOOLEAN,
           outbox' = Append(outbox, Frame(r, whole)), ~Sent(r)
    PROVE  SentOnce' /\ \A q : Sent(q)' => Sent(q) \/ q = r
<1>1. PICK f : f = Frame(r, whole)
    OBVIOUS
<1>2. f.req = r
    BY <1>1 DEF Frame
<1>3. outbox \in Seq(Frames) /\ f \in Frames
    BY <1>1 DEF TypeInv, TypeOK, Frames, Frame
<1>4. /\ Len(outbox') = Len(outbox) + 1 /\ Len(outbox) \in Nat /\ outbox'[Len(outbox) + 1] = f
      /\ \A i \in 1..Len(outbox) : outbox'[i] = outbox[i]
    BY <1>1, <1>3
<1>5. \A i \in 1..Len(outbox') :
         \/ i \in 1..Len(outbox) /\ outbox'[i] = outbox[i]
         \/ i = Len(outbox) + 1 /\ outbox'[i] = f
    BY <1>4
<1> QED
    BY <1>2, <1>5 DEF SentOnce, Sent

\* The server reads a frame.
LEMMA TakeFrame ==
    ASSUME TypeInv, SentOnce, outbox # <<>>, outbox' = Tail(outbox)
    PROVE  /\ SentOnce' /\ \A q : Sent(q)' => Sent(q)
           /\ \A q : q = Head(outbox).req => Sent(q) /\ ~Sent(q)'
           /\ Head(outbox) = outbox[1] /\ 1 \in 1..Len(outbox)
           /\ \A i \in 1..Len(outbox') : i + 1 \in 1..Len(outbox) /\ outbox'[i] = outbox[i + 1]
<1>1. outbox \in Seq(Frames)
    BY DEF TypeInv, TypeOK, Frames
<1>2. /\ Len(outbox) \in Nat \ {0} /\ Len(outbox') = Len(outbox) - 1
      /\ \A i \in 1..(Len(outbox) - 1) : outbox'[i] = outbox[i + 1]
      /\ Head(outbox) = outbox[1]
    BY <1>1
<1>3. \A i \in 1..Len(outbox') :
         i + 1 \in 1..Len(outbox) /\ i + 1 # 1 /\ outbox'[i] = outbox[i + 1] /\ i \in Nat
    BY <1>2
<1>4. PICK x : x = Head(outbox).req
    OBVIOUS
<1>5. 1 \in 1..Len(outbox) /\ outbox[1].req = x
    BY <1>2, <1>4
<1>6. Sent(x) /\ ~Sent(x)'
    BY <1>3, <1>5 DEF SentOnce, Sent
<1>7. SentOnce' /\ \A q : Sent(q)' => Sent(q)
    BY <1>3 DEF SentOnce, Sent
<1> QED
    BY <1>2, <1>3, <1>4, <1>5, <1>6, <1>7

\* The ways a step can move a request x from one place to the next.
Departs(x) ==
    /\ pc[x] = "built"
    /\ \A q \in Requests : /\ Sent(q)' => Sent(q) \/ q = x
                           /\ Owed(q)' => Owed(q)
                           /\ Coming(q)' => Coming(q)
                           /\ Taken(q)' => Taken(q)
Arrives(x) ==
    /\ Sent(x) /\ ~Sent(x)' /\ pc[x] = "returned"
    /\ \A q \in Requests : /\ Sent(q)' => Sent(q)
                           /\ Owed(q)' => Owed(q) \/ q = x
                           /\ Coming(q)' => Coming(q)
                           /\ Taken(q)' => Taken(q)
Answered(x) ==
    /\ Owed(x) /\ ~Owed(x)'
    /\ \A q \in Requests : /\ Sent(q)' => Sent(q)
                           /\ Owed(q)' => Owed(q)
                           /\ Coming(q)' => Coming(q) \/ q = x
                           /\ Taken(q)' => Taken(q)
Returns(x) ==
    /\ Coming(x) /\ ~Coming(x)'
    /\ \A q \in Requests : /\ Sent(q)' => Sent(q)
                           /\ Owed(q)' => Owed(q)
                           /\ Coming(q)' => Coming(q)
                           /\ Taken(q)' => Taken(q) \/ q = x
\* ... or none.
Rests ==
    \A q \in Requests : /\ Sent(q)' => Sent(q)
                        /\ Owed(q)' => Owed(q)
                        /\ Coming(q)' => Coming(q)
                        /\ Taken(q)' => Taken(q)
Moves == Rests \/ \E x \in Requests : Departs(x) \/ Arrives(x) \/ Answered(x) \/ Returns(x)

\* A request goes from place to place, and is in none of them twice.
LEMMA PlaceEffect ==
    ASSUME "duplicate" \notin Faults, TypeInv, PlaceInv, SentInv, [Next]_vars
    PROVE  SentOnce' /\ OwedOnce' /\ ComingOnce' /\ Moves
<1> USE DEF PlaceInv, Disjoint
<1>1. outbox' = outbox => SentOnce' /\ \A q : Sent(q)' => Sent(q)
    BY DEF SentOnce, Sent
<1>2. unanswered' \subseteq unanswered => OwedOnce' /\ \A q : Owed(q)' => Owed(q)
    BY DEF OwedOnce, Owed
<1>3. inbox' = inbox => ComingOnce' /\ \A q : Coming(q)' => Coming(q)
    BY DEF ComingOnce, Coming
<1>4. outbox' = <<>> => SentOnce' /\ \A q : Sent(q)' => Sent(q)
    BY DEF SentOnce, Sent
<1>5. (rhdr' = rhdr /\ rpc' = rpc) \/ rpc' \notin {"errorBody", "lookup"} =>
          \A q : Taken(q)' => Taken(q)
    BY DEF Taken
<1>6. ASSUME NEW r \in Requests, execute(r)
      PROVE  SentOnce' /\ OwedOnce' /\ ComingOnce' /\ Moves
  <2>1. UNCHANGED <<unanswered, inbox, rpc, rhdr>>
    BY <1>6 DEF execute, readVars
  <2>2. CASE outbox' = outbox
    BY <1>1, <1>2, <1>3, <1>5, <2>1, <2>2 DEF Moves, Rests
  <2>3. ASSUME NEW whole \in BOOLEAN, outbox' = Append(outbox, Frame(r, whole)), pc[r] = "built"
        PROVE  SentOnce' /\ OwedOnce' /\ ComingOnce' /\ Moves
    <3>1. ~Sent(r)
      BY <2>3 DEF SentInv, Sent
    <3>2. SentOnce' /\ \A q : Sent(q)' => Sent(q) \/ q = r
      BY <2>3, <3>1, AddFrame
    <3> QED
      BY <1>2, <1>3, <1>5, <2>1, <2>3, <3>2 DEF Moves, Departs
  <2>4. CASE ExecuteSend(r)
    BY <2>2, <2>3, <2>4, SendEffect
  <2> QED
    BY <1>6, <2>2, <2>4 DEF execute, ExecuteCheck, ExecuteNumber, ExecuteRegister, buildRequest,
                            ExecuteSendFailed
<1>7. CASE readLoop
  <2>1. UNCHANGED <<outbox, unanswered>>
    BY <1>7 DEF readLoop
  <2>2. CASE ReadHeader
    <3>1. /\ inbox # <<>> /\ Head(inbox).token = "header" /\ inbox' = Tail(inbox)
          /\ rhdr' = Head(inbox)
      BY <2>2 DEF ReadHeader, Receive
    <3>2. PICK x : x = Head(inbox).of
      OBVIOUS
    <3>3. ComingOnce' /\ (\A q : Coming(q)' => Coming(q)) /\ Coming(x) /\ ~Coming(x)'
      BY <3>1, <3>2, TakeToken
    <3>4. \A q : Taken(q)' => q = x
      BY <3>1, <3>2 DEF Taken
    <3>5. x \in Requests
      <4>1. Head(inbox) \in Header \cup Body
        BY <3>1 DEF TypeInv, TypeOK
      <4>2. Head(inbox) \in Header
        BY <3>1, <4>1, TokenKinds
      <4> QED
        BY <3>2, <4>2 DEF Header
    <3> QED
      BY <1>1, <1>2, <2>1, <3>3, <3>4, <3>5 DEF Moves, Returns
  <2>3. CASE (inbox # <<>> /\ inbox' = Tail(inbox)) /\ (\A q : Taken(q)' => Taken(q))
    BY <1>1, <1>2, <2>1, <2>3, TakeToken DEF Moves, Rests
  <2>4. CASE inbox' = inbox /\ (\A q : Taken(q)' => Taken(q))
    BY <1>1, <1>2, <1>3, <2>1, <2>4 DEF Moves, Rests
  <2>5. CASE ReadErrorBody
    <3>1. inbox # <<>> /\ inbox' = Tail(inbox) /\ rpc = "errorBody" /\ rhdr' = rhdr
      BY <2>5 DEF ReadErrorBody, Receive
    <3>2. \A q : Taken(q)' => Taken(q)
      BY <3>1 DEF Taken
    <3> QED
      BY <2>3, <3>1, <3>2
  <2>6. CASE ReadInvalidMagic \/ DeliverBody
    BY <1>5, <2>3, <2>6 DEF ReadInvalidMagic, DeliverBody, Receive, Deliver
  <2>7. CASE \/ ReadLoopTest \/ ReadThrows \/ LookupPending \/ SkipOrphan \/ NotifyTopology
             \/ DeliverServerError \/ DeliverMismatch \/ DeliverEmpty \/ DeliverParseError
             \/ ReadLoopDisconnect \/ ReadLoopCloseAll
    <3>1. inbox' = inbox /\ rpc' \notin {"errorBody", "lookup"}
      BY <2>7 DEF ReadLoopTest, ReadThrows, LookupPending, AfterLookup, SkipOrphan,
                  NotifyTopology, DeliverServerError, DeliverMismatch, DeliverEmpty,
                  DeliverParseError, Deliver, ReadLoopDisconnect, ReadLoopCloseAll
    <3> QED
      BY <1>5, <2>4, <3>1
  <2> QED
    BY <1>7, <2>2, <2>5, <2>6, <2>7 DEF readLoop
<1>8. CASE ConnectSocket
  <2>1. outbox' = <<>> /\ inbox' = <<>> /\ unanswered' = {} /\ UNCHANGED <<rpc, rhdr>>
    BY <1>8 DEF ConnectSocket, readVars
  <2> QED
    BY <1>2, <1>4, <1>5, <2>1, LoseTokens DEF Moves, Rests
<1>9. CASE connect \/ CloseStop
  <2>1. UNCHANGED <<outbox, unanswered, inbox, rhdr>> /\ (rpc' = rpc \/ rpc' = "test")
    BY <1>9 DEF connect, ConnectPublish, ConnectAllow, ConnectStartReader, CloseStop, netVars,
                readVars
  <2> QED
    BY <1>1, <1>2, <1>3, <1>5, <2>1 DEF Moves, Rests
<1>10. CASE close
  <2>1. /\ UNCHANGED <<outbox, unanswered, rhdr>> /\ (rpc' = rpc \/ rpc' = "none")
        /\ inbox' = inbox \/ inbox' = <<>>
    BY <1>10 DEF close, CloseShutdown, CloseJoin, CloseSocket, CloseDisconnect, CloseDrain
  <2> QED
    BY <1>1, <1>2, <1>3, <1>5, <2>1, LoseTokens DEF Moves, Rests
<1>11. CASE External(ServerReceive)
  <2>1. /\ outbox # <<>> /\ Head(outbox).whole /\ outbox' = Tail(outbox)
        /\ unanswered' = unanswered \cup {Head(outbox)}
        /\ UNCHANGED <<inbox, rpc, rhdr>>
    BY <1>11 DEF External, ServerReceive, readVars
  <2>2. PICK f : f = Head(outbox)
    OBVIOUS
  <2>3. PICK x : x = f.req
    OBVIOUS
  <2>4. /\ SentOnce' /\ (\A q : Sent(q)' => Sent(q)) /\ Sent(x) /\ ~Sent(x)'
        /\ f = outbox[1] /\ 1 \in 1..Len(outbox)
    BY <2>1, <2>2, <2>3, TakeFrame
  <2>5. x \in Requests
    <3>1. outbox \in Seq(Frames)
      BY DEF TypeInv, TypeOK, Frames
    <3>2. f \in Frames
      BY <2>4, <3>1
    <3> QED
      BY <2>3, <3>2 DEF Frames
  <2>6. pc[x] = "returned"
    BY <2>1, <2>2, <2>3, <2>4 DEF SentInv
  <2>7. ~Owed(x)
    BY <2>4, <2>5
  <2>8. OwedOnce' /\ \A q : Owed(q)' => Owed(q) \/ q = x
    BY <2>1, <2>2, <2>3, <2>7 DEF OwedOnce, Owed
  <2> QED
    BY <1>3, <1>5, <2>1, <2>4, <2>5, <2>6, <2>8 DEF Moves, Arrives
<1>12. CASE External(ServerAnswer)
  <2>1. PICK f \in unanswered, kind \in AnswerKinds :
            inbox' = inbox \o ResponseTokens(f, kind) /\ unanswered' = unanswered \ {f}
    BY <1>12 DEF External, ServerAnswer
  <2>2. UNCHANGED <<outbox, rpc, rhdr>>
    BY <1>12 DEF External, ServerAnswer, readVars
  <2>3. PICK x : x = f.req
    OBVIOUS
  <2>4. Owed(x) /\ x \in Requests
    BY <2>1, <2>3 DEF Owed, TypeInv, TypeOK
  <2>5. ~Coming(f.req)
    BY <2>3, <2>4
  <2>6. ComingOnce' /\ \A q : Coming(q)' => Coming(q) \/ q = x
    BY <2>1, <2>3, <2>5, AddTokens
  <2>7. ~Owed(x)'
    BY <2>1, <2>3 DEF Owed, OwedOnce
  <2> QED
    BY <1>1, <1>2, <1>5, <2>1, <2>2, <2>4, <2>6, <2>7 DEF Moves, Answered
<1>13. CASE External(ServerTopologyChange) \/ UNCHANGED vars
  <2>1. UNCHANGED <<outbox, unanswered, inbox, rpc, rhdr>>
    BY <1>13 DEF External, ServerTopologyChange, readVars, netVars, vars
  <2> QED
    BY <1>1, <1>2, <1>3, <1>5, <2>1 DEF Moves, Rests
<1>14. CASE External(PeerDrop)
  <2>1. /\ outbox' = <<>> /\ unanswered' = {} /\ UNCHANGED <<rpc, rhdr>>
        /\ \E n \in 0..Len(inbox) : inbox' = SubSeq(inbox, 1, n)
    BY <1>14 DEF External, PeerDrop, readVars
  <2> QED
    BY <1>2, <1>4, <1>5, <2>1, LoseTokens DEF Moves, Rests
<1> QED
    BY <1>6, <1>7, <1>8, <1>9, <1>10, <1>11, <1>12, <1>13, <1>14 DEF Next

\* A request is in one place, once, after any step.
LEMMA PlaceStep ==
    ASSUME "duplicate" \notin Faults, TypeInv, PlaceInv, SentInv, [Next]_vars
    PROVE  PlaceInv'
<1>1. SentOnce' /\ OwedOnce' /\ ComingOnce' /\ Moves
    BY PlaceEffect
<1>2. Disjoint
    BY DEF PlaceInv, Disjoint
<1>3. \A r \in Requests : pc[r] = "built" => ~Sent(r) /\ ~Owed(r) /\ ~Coming(r) /\ ~Taken(r)
  <2>1. \A r \in Requests : pc[r] = "built" => ~Sent(r)
    BY DEF SentInv, Sent
  <2> QED
    BY <2>1 DEF SentInv
<1>4. Disjoint'
  <2> USE DEF Disjoint
  <2>1. CASE Rests
    BY <1>2, <2>1 DEF Rests
  <2>2. ASSUME NEW x \in Requests, Departs(x)
        PROVE  Disjoint'
    BY <1>2, <1>3, <2>2 DEF Departs
  <2>3. ASSUME NEW x \in Requests, Arrives(x)
        PROVE  Disjoint'
    BY <1>2, <2>3 DEF Arrives
  <2>4. ASSUME NEW x \in Requests, Answered(x)
        PROVE  Disjoint'
    BY <1>2, <2>4 DEF Answered
  <2>5. ASSUME NEW x \in Requests, Returns(x)
        PROVE  Disjoint'
    BY <1>2, <2>5 DEF Returns
  <2> QED
    BY <1>1, <2>1, <2>2, <2>3, <2>4, <2>5 DEF Moves
<1> QED
    BY <1>1, <1>4 DEF PlaceInv, Disjoint

\* Where a call of execute() may go, and when it registers.
LEMMA CallEffect ==
    ASSUME TypeInv, [Next]_vars, NEW r \in Requests
    PROVE  /\ pc[r] = "returned" => pc'[r] = "returned"
           /\ pc[r] \in {"sendFailed", "threw"} => pc'[r] \in {"sendFailed", "threw"}
           /\ pc'[r] = "returned" => pc[r] \in {"built", "returned"}
           /\ pc'[r] = "built" => pc[r] \in {"registered", "built"}
           /\ pc'[r] = "registered" => pc[r] = "registered" \/ ExecuteRegister(r)
           /\ msgId'[r] # msgId[r] => pc'[r] = "numbered"
<1>1. CASE UNCHANGED <<pc, msgId>>
    BY <1>1
<1>2. ASSUME NEW s \in Requests, execute(s)
      PROVE  /\ pc[r] = "returned" => pc'[r] = "returned"
             /\ pc[r] \in {"sendFailed", "threw"} => pc'[r] \in {"sendFailed", "threw"}
             /\ pc'[r] = "returned" => pc[r] \in {"built", "returned"}
             /\ pc'[r] = "built" => pc[r] \in {"registered", "built"}
             /\ pc'[r] = "registered" => pc[r] = "registered" \/ ExecuteRegister(r)
             /\ msgId'[r] # msgId[r] => pc'[r] = "numbered"
  <2>1. CASE s # r /\ pc'[r] = pc[r] /\ msgId'[r] = msgId[r]
    BY <2>1
  <2>2. s # r => pc'[r] = pc[r] /\ msgId'[r] = msgId[r]
    BY <1>2 DEF TypeInv, TypeOK, execute, ExecuteCheck, ExecuteNumber, ExecuteRegister,
        buildRequest, ExecuteSend, SendWhole, SendThrows, SendKills, SendPartial,
        ExecuteSendFailed
  <2>3. CASE s = r
    BY <1>2, <2>3 DEF TypeInv, TypeOK, execute, ExecuteCheck, ExecuteNumber, ExecuteRegister,
        buildRequest, ExecuteSend, SendWhole, SendThrows, SendKills, SendPartial,
        ExecuteSendFailed
  <2> QED
    BY <2>1, <2>2, <2>3
<1>3. CASE ~\E s \in Requests : execute(s)
  <2>1. UNCHANGED <<pc, msgId>>
    BY <1>3 DEF Next, readLoop, ConnectSocket, connect, CloseStop, close, External, callVars, vars
  <2> QED
    BY <1>1, <2>1
<1> QED
    BY <1>2, <1>3

\* The frames on their way after a step were there, or are the one just sent.
LEMMA OutboxEffect ==
    ASSUME TypeInv, [Next]_vars, NEW i \in 1..Len(outbox')
    PROVE  \/ \E j \in 1..Len(outbox) : outbox'[i] = outbox[j]
           \/ \E r \in Requests, whole \in BOOLEAN :
                 /\ outbox'[i].req = r /\ outbox'[i].whole = whole
                 /\ pc'[r] = IF whole THEN "returned" ELSE "sendFailed"
<1>0. outbox \in Seq(Frames)
    BY DEF TypeInv, TypeOK, Frames
<1>1. CASE outbox' = outbox \/ outbox' = <<>>
    BY <1>0, <1>1
<1>2. ASSUME NEW r \in Requests, execute(r)
      PROVE  \/ \E j \in 1..Len(outbox) : outbox'[i] = outbox[j]
             \/ \E s \in Requests, whole \in BOOLEAN :
                   /\ outbox'[i].req = s /\ outbox'[i].whole = whole
                   /\ pc'[s] = IF whole THEN "returned" ELSE "sendFailed"
  <2>1. ASSUME NEW whole \in BOOLEAN, outbox' = Append(outbox, Frame(r, whole)),
               pc'[r] = IF whole THEN "returned" ELSE "sendFailed"
        PROVE  \/ \E j \in 1..Len(outbox) : outbox'[i] = outbox[j]
               \/ \E s \in Requests, w \in BOOLEAN :
                     /\ outbox'[i].req = s /\ outbox'[i].whole = w
                     /\ pc'[s] = IF w THEN "returned" ELSE "sendFailed"
    <3>1. PICK f : f = Frame(r, whole)
      OBVIOUS
    <3>2. f.req = r /\ f.whole = whole
      BY <3>1 DEF Frame
    <3>3. f \in Frames
      BY <3>1 DEF TypeInv, TypeOK, Frames, Frame
    <3>4. outbox'[i] = f \/ \E j \in 1..Len(outbox) : outbox'[i] = outbox[j]
      <4>1. outbox' = Append(outbox, f)
        BY <2>1, <3>1
      <4> QED
        BY <1>0, <3>3, <4>1
    <3> QED
      BY <2>1, <3>2, <3>4
  <2>2. CASE ExecuteSend(r)
    <3>1. CASE SendWhole(r)
      <4>1. pc'[r] = "returned"
        BY <3>1 DEF SendWhole, TypeInv, TypeOK
      <4> QED
        BY <1>1, <2>1, <3>1, <4>1 DEF SendWhole
    <3>2. CASE SendPartial(r)
      <4>1. pc'[r] = "sendFailed"
        BY <3>2 DEF SendPartial, TypeInv, TypeOK
      <4> QED
        BY <2>1, <3>2, <4>1 DEF SendPartial
    <3> QED
      BY <1>1, <2>2, <3>1, <3>2 DEF ExecuteSend, SendThrows, SendKills
  <2> QED
    BY <1>1, <1>2, <2>2 DEF execute, ExecuteCheck, ExecuteNumber, ExecuteRegister, buildRequest,
                            ExecuteSendFailed
<1>3. CASE External(ServerReceive)
  <2>1. outbox # <<>> /\ outbox' = Tail(outbox)
    BY <1>3 DEF External, ServerReceive
  <2> QED
    BY <1>0, <2>1
<1>4. CASE ~(\E r \in Requests : execute(r)) /\ ~External(ServerReceive)
  <2>1. outbox' = outbox \/ outbox' = <<>>
    BY <1>4 DEF Next, readLoop, ConnectSocket, connect, CloseStop, close, External,
        ServerAnswer, ServerTopologyChange, PeerDrop, netVars, vars
  <2> QED
    BY <1>1, <2>1
<1> QED
    BY <1>2, <1>3, <1>4

\* Who is in a place after a step was sent.
LEMMA SentStep ==
    ASSUME "duplicate" \notin Faults, TypeInv, PlaceInv, SentInv, [Next]_vars
    PROVE  SentInv'
<1>1. ASSUME NEW i \in 1..Len(outbox')
      PROVE  /\ pc'[outbox'[i].req] \in {"returned", "sendFailed", "threw"}
             /\ outbox'[i].whole => pc'[outbox'[i].req] = "returned"
  <2>1. ASSUME NEW j \in 1..Len(outbox), outbox'[i] = outbox[j]
        PROVE  /\ pc'[outbox'[i].req] \in {"returned", "sendFailed", "threw"}
               /\ outbox'[i].whole => pc'[outbox'[i].req] = "returned"
    <3>1. outbox \in Seq(Frames)
      BY DEF TypeInv, TypeOK, Frames
    <3>2. outbox[j].req \in Requests
      <4>1. outbox[j] \in Frames
        BY <3>1
      <4> QED
        BY <4>1 DEF Frames
    <3>3. PICK r \in Requests : r = outbox[j].req
      BY <3>2
    <3>4. pc[r] \in {"returned", "sendFailed", "threw"} /\ (outbox[j].whole => pc[r] = "returned")
      BY <3>3 DEF SentInv
    <3> QED
      BY <2>1, <3>3, <3>4, CallEffect
  <2> QED
    BY <2>1, OutboxEffect
<1>2. ASSUME NEW r \in Requests, Owed(r)' \/ Coming(r)' \/ Taken(r)'
      PROVE  pc'[r] = "returned"
  <2>1. Owed(r) \/ Coming(r) \/ Taken(r) \/ pc[r] = "returned"
    <3>1. Moves
      BY PlaceEffect
    <3> QED
      BY <1>2, <3>1 DEF Moves, Rests, Departs, Arrives, Answered, Returns
  <2>2. pc[r] = "returned"
    BY <2>1 DEF SentInv
  <2> QED
    BY <2>2, CallEffect
<1> QED
    BY <1>1, <1>2 DEF SentInv

\* Who may be answered after a step could be before it, or has just registered.
LEMMA ExpectedEffect ==
    ASSUME "duplicate" \notin Faults, TypeInv, PlaceInv, SentInv, [Next]_vars,
           NEW r \in Requests, Expected(r)'
    PROVE  (Expected(r) /\ msgId'[r] = msgId[r]) \/ ExecuteRegister(r)
<1>1. Moves
    BY PlaceEffect
<1>2. Expected(r) \/ ExecuteRegister(r)
  <2>1. CASE pc'[r] \in {"registered", "built"}
    BY <2>1, CallEffect DEF Expected
  <2>2. CASE Sent(r)' /\ pc'[r] = "returned"
    <3>1. pc[r] \in {"built", "returned"}
      BY <2>2, CallEffect
    <3> QED
      BY <1>1, <2>2, <3>1 DEF Moves, Rests, Departs, Arrives, Answered, Returns, Expected
  <2>3. CASE Owed(r)' \/ Coming(r)' \/ Taken(r)'
    BY <1>1, <2>3 DEF Moves, Rests, Departs, Arrives, Answered, Returns, Expected
  <2> QED
    BY <2>1, <2>2, <2>3 DEF Expected
<1>3. pc'[r] # "numbered"
  <2>1. SentInv'
    BY SentStep
  <2> QED
    BY <2>1 DEF Expected, SentInv
<1> QED
    BY <1>2, <1>3, CallEffect

\* A response that is expected finds its request.
LEMMA ExpectedStep ==
    ASSUME "duplicate" \notin Faults, IInv, FlightInv, [Next]_vars
    PROVE  ExpectedInv'
<1> USE DEF IInv, FlightInv
<1> SUFFICES ASSUME Serving', NEW q \in Requests, Expected(q)'
             PROVE  [id |-> msgId'[q], req |-> q] \in pending'
    BY DEF ExpectedInv
<1>1. (Expected(q) /\ msgId'[q] = msgId[q]) \/ ExecuteRegister(q)
    BY ExpectedEffect
<1>2. CASE ExecuteRegister(q)
    BY <1>2 DEF ExecuteRegister
<1>3. CASE Serving /\ pending' = pending
    BY <1>1, <1>2, <1>3 DEF ExpectedInv
<1>4. ASSUME Serving, Expected(q), NEW s \in Requests, Numbered(s), s # q
      PROVE  [id |-> msgId[q], req |-> q] \in pending /\ msgId[q] # msgId[s]
  <2>1. [id |-> msgId[q], req |-> q] \in pending
    BY <1>4 DEF ExpectedInv
  <2>2. Numbered(q)
    BY <2>1 DEF PendingInv, Owns
  <2> QED
    BY <1>4, <2>1, <2>2 DEF IdInv
<1>5. ASSUME NEW r \in Requests, execute(r)
      PROVE  [id |-> msgId'[q], req |-> q] \in pending'
  <2>1. Serving
    BY <1>5 DEF execute, Serving, Active, Connecting, readVars, ownVars
  <2>2. CASE ExecuteRegister(r)
    <3>1. Numbered(r) /\ pending' = ErasePending(msgId[r]) \cup {[id |-> msgId[r], req |-> r]}
      BY <2>2 DEF ExecuteRegister, Numbered
    <3>2. CASE q # r
      <4>1. ~ExecuteRegister(q)
        <5>1. pc'[r] = "registered" /\ pc' = [pc EXCEPT ![r] = "registered"]
          BY <2>2 DEF ExecuteRegister, TypeInv, TypeOK
        <5>2. pc[q] # "numbered" \/ pc'[q] = "numbered"
          BY <3>2, <5>1 DEF TypeInv, TypeOK
        <5> QED
          BY <5>2 DEF ExecuteRegister, TypeInv, TypeOK
      <4>2. [id |-> msgId[q], req |-> q] \in pending /\ msgId[q] # msgId[r]
        BY <1>1, <1>4, <2>1, <3>1, <3>2, <4>1
      <4> QED
        BY <1>1, <3>1, <4>1, <4>2 DEF ErasePending
    <3> QED
      BY <1>2, <2>2, <3>2
  <2>3. CASE ExecuteSendFailed(r)
    <3>1. Numbered(r) /\ pending' = ErasePending(msgId[r]) /\ pc'[r] = "threw"
      BY <2>3 DEF ExecuteSendFailed, Numbered, TypeInv, TypeOK
    <3>2. q # r
      <4>1. SentInv'
        BY SentStep
      <4> QED
        BY <3>1, <4>1 DEF SentInv, Expected
    <3>3. CASE ~ExecuteRegister(q)
      <4>1. [id |-> msgId[q], req |-> q] \in pending /\ msgId[q] # msgId[r]
        BY <1>1, <1>4, <2>1, <3>1, <3>2, <3>3
      <4> QED
        BY <1>1, <3>1, <3>3, <4>1 DEF ErasePending
    <3> QED
      BY <1>2, <3>3
  <2> QED
    BY <1>3, <1>5, <2>1, <2>2, <2>3 DEF execute, ExecuteCheck, ExecuteNumber, buildRequest,
                                        ExecuteSend
<1>6. CASE readLoop
  <2>1. Serving
    BY <1>6 DEF Serving, Active, Connecting, readLoop, ownVars, ReadLoopTest, ReadHeader,
        ReadInvalidMagic, ReadErrorBody, ReadThrows, LookupPending, SkipOrphan, NotifyTopology,
        DeliverServerError, DeliverMismatch, DeliverEmpty, DeliverBody, DeliverParseError,
        Deliver, ReadLoopDisconnect, ReadLoopCloseAll
  <2>2. CASE LookupPending
    <3>1. /\ rpc = "lookup" /\ pending' = ErasePending(rhdr.id)
          /\ rpc' \notin {"errorBody", "lookup"}
          /\ UNCHANGED <<inbox, outbox, unanswered, pc, msgId>>
      BY <1>6, <2>2 DEF readLoop, LookupPending, AfterLookup, callVars
    <3>2. PICK s : s = rhdr.of
      OBVIOUS
    <3>3. s \in Requests /\ Numbered(s) /\ msgId[s] = rhdr.id
      BY <3>1, <3>2 DEF HeaderInv, Processing, Owns
    <3>4. Taken(s)
      BY <3>1, <3>2 DEF Taken
    <3>5. q # s
      <4>1. ~Sent(s) /\ ~Owed(s) /\ ~Coming(s) /\ pc[s] = "returned"
        BY <3>3, <3>4 DEF PlaceInv, Disjoint, SentInv
      <4>2. ~Sent(s)' /\ ~Owed(s)' /\ ~Coming(s)' /\ ~Taken(s)'
        BY <3>1, <4>1 DEF Sent, Owed, Coming, Taken
      <4> QED
        BY <3>1, <4>1, <4>2 DEF Expected
    <3>6. CASE ~ExecuteRegister(q)
      <4>1. [id |-> msgId[q], req |-> q] \in pending /\ msgId[q] # msgId[s]
        BY <1>1, <1>4, <2>1, <3>3, <3>5, <3>6
      <4> QED
        BY <3>1, <3>3, <4>1 DEF ErasePending
    <3> QED
      BY <1>2, <3>6
  <2>3. CASE ReadLoopCloseAll
    BY <2>3 DEF ReadLoopCloseAll, Serving, Active
  <2> QED
    BY <1>3, <1>6, <2>1, <2>2, <2>3 DEF readLoop, ReadLoopTest, ReadHeader, ReadInvalidMagic,
        ReadErrorBody, ReadThrows, SkipOrphan, NotifyTopology, DeliverServerError,
        DeliverMismatch, DeliverEmpty, DeliverBody, DeliverParseError, ReadLoopDisconnect
<1>7. CASE ConnectSocket
  <2>1. /\ ~connected /\ Executing = {} /\ outbox' = <<>> /\ inbox' = <<>> /\ unanswered' = {}
        /\ UNCHANGED <<rpc, pc>>
    BY <1>7 DEF ConnectSocket, readVars, callVars
  <2>2. rpc' = "none"
    BY <2>1 DEF Serving, Active, OwnerInv
  <2>3. ~Sent(q)' /\ ~Owed(q)' /\ ~Coming(q)' /\ ~Taken(q)'
    BY <2>1, <2>2 DEF Sent, Owed, Coming, Taken
  <2>4. pc'[q] \notin {"registered", "built"}
    BY <2>1 DEF Executing
  <2> QED
    BY <2>3, <2>4 DEF Expected
<1>8. CASE connect
    BY <1>3, <1>8 DEF connect, ConnectPublish, ConnectAllow, ConnectStartReader, Serving, Active,
                      Connecting
<1>9. CASE CloseStop
    BY <1>3, <1>9 DEF CloseStop, Serving, Active, Connecting, readVars
<1>10. CASE close
  <2>1. CASE CloseDrain
    BY <2>1 DEF CloseDrain, OwnerInv, Serving, Active, Connecting
  <2> QED
    BY <1>3, <1>10, <2>1 DEF close, CloseShutdown, CloseJoin, CloseSocket, CloseDisconnect,
                             Serving, Active, Connecting
<1>11. CASE \/ External(ServerReceive) \/ External(ServerAnswer)
            \/ External(ServerTopologyChange) \/ External(PeerDrop)
    BY <1>3, <1>11 DEF External, Serving, Active, Connecting, readVars, ownVars
<1>12. CASE UNCHANGED vars
    BY <1>3, <1>12 DEF vars, readVars, ownVars, Serving, Active, Connecting
<1> QED
    BY <1>5, <1>6, <1>7, <1>8, <1>9, <1>10, <1>11, <1>12 DEF Next

\* No request of a single connection is in flight before the first connect().
LEMMA FlightInit ==
    ASSUME Init
    PROVE  FlightInv
BY DEF Init, FlightInv, OwnerInv, PlaceInv, Disjoint, SentInv, ExpectedInv, Serving, Active,
       Connecting, SentOnce, OwedOnce, ComingOnce, Sent, Owed, Coming, Taken

\* Every step keeps the requests in flight in order.
LEMMA FlightStep ==
    ASSUME "duplicate" \notin Faults, IInv, FlightInv, [Next]_vars
    PROVE  FlightInv'
<1>1. OwnerInv'
    BY OwnerStep DEF IInv, FlightInv
<1>2. PlaceInv' /\ SentInv'
    BY PlaceStep, SentStep DEF IInv, FlightInv
<1>3. ExpectedInv'
    BY ExpectedStep
<1> QED
    BY <1>1, <1>2, <1>3 DEF FlightInv

\* A server that answers each request once keeps every expected answer's request
\* registered.
LEMMA FlightKept ==
    ASSUME "duplicate" \notin Faults
    PROVE  Spec => []FlightInv
<1>1. Init => FlightInv
    BY FlightInit
<1>2. IInv /\ FlightInv /\ [Next]_vars => FlightInv'
    BY FlightStep
<1> QED
    BY <1>1, <1>2, Invariance, PTL DEF Spec

\* A server that answers each request once never meets the orphan branch.
THEOREM NoResponseOrphaned ==
    ASSUME "duplicate" \notin Faults
    PROVE  Spec => []NoOrphan
<1>1. IInv /\ FlightInv => NoOrphan
  <2> SUFFICES ASSUME IInv, FlightInv, rpc = "lookup"
               PROVE  \E p \in pending : p.id = rhdr.id
    BY DEF NoOrphan
  <2>1. PICK r : r = rhdr.of
    OBVIOUS
  <2>2. r \in Requests /\ msgId[r] = rhdr.id
    BY <2>1 DEF IInv, HeaderInv, Processing, Owns
  <2>3. Serving /\ Expected(r)
    BY <2>1 DEF Serving, Active, Expected, Taken
  <2>4. [id |-> msgId[r], req |-> r] \in pending
    BY <2>2, <2>3 DEF FlightInv, ExpectedInv
  <2> QED
    BY <2>2, <2>4
<1>2. Spec => []FlightInv
    BY FlightKept
<1> QED
    BY <1>1, <1>2, Invariance, PTL

\* The read thread takes a token: the next one is a body if that was an open header.
LEMMA TakeFramed ==
    ASSUME TypeInv, Framed, inbox # <<>>, inbox' = Tail(inbox), peer' = peer
    PROVE  /\ Framed' /\ Head(inbox) = inbox[1]
           /\ inbox' # <<>> => (inbox'[1].token = "body" <=> Opens(inbox[1]))
           /\ inbox' = <<>> /\ peer = "up" => ~Opens(inbox[1])
           /\ inbox[1] \in Header \cup Body
           /\ inbox[1].token = "header" => inbox[1].kind # "wrongOp"
<1>1. /\ Len(inbox) \in Nat \ {0} /\ Len(inbox') = Len(inbox) - 1
      /\ \A i \in 1..Len(inbox') : inbox'[i] = inbox[i + 1]
      /\ Head(inbox) = inbox[1]
    BY TailTokens DEF TypeInv, TypeOK
<1>2. inbox \in Seq(Header \cup Body) /\ inbox' \in Seq(Header \cup Body)
    BY DEF TypeInv, TypeOK
<1>3. inbox' = <<>> <=> Len(inbox) = 1
  <2>1. inbox' = <<>> <=> Len(inbox') = 0
    BY <1>2, EmptySeq
  <2> QED
    BY <1>1, <2>1
<1>4. \A i \in 1..(Len(inbox') - 1) : Opens(inbox'[i]) <=> inbox'[i + 1].token = "body"
  <2> TAKE i \in 1..(Len(inbox') - 1)
  <2>1. /\ i + 1 \in 1..(Len(inbox) - 1) /\ inbox'[i] = inbox[i + 1]
        /\ inbox'[i + 1] = inbox[(i + 1) + 1]
    BY <1>1
  <2> QED
    BY <2>1 DEF Framed
<1>5. peer = "up" /\ inbox' # <<>> => ~Opens(inbox'[Len(inbox')])
    BY <1>1, <1>3 DEF Framed
<1>6. \A i \in 1..Len(inbox') : inbox'[i].token = "header" => inbox'[i].kind # "wrongOp"
  <2> TAKE i \in 1..Len(inbox')
  <2>1. i + 1 \in 1..Len(inbox) /\ inbox'[i] = inbox[i + 1]
    BY <1>1
  <2> QED
    BY <2>1 DEF Framed
<1>7. Framed'
  <2>1. \A t : Opens(t)' <=> Opens(t)
    BY DEF Opens
  <2> QED
    BY <1>4, <1>5, <1>6 DEF Framed, Opens
<1>8. inbox' # <<>> => (inbox'[1].token = "body" <=> Opens(inbox[1]))
  <2> SUFFICES ASSUME inbox' # <<>>
               PROVE  inbox'[1].token = "body" <=> Opens(inbox[1])
    OBVIOUS
  <2>1. 1 \in 1..(Len(inbox) - 1) /\ inbox'[1] = inbox[1 + 1]
    BY <1>1, <1>3
  <2> QED
    BY <2>1 DEF Framed
<1>9. inbox' = <<>> /\ peer = "up" => ~Opens(inbox[1])
    BY <1>3 DEF Framed
<1>10. inbox[1] \in Header \cup Body
    BY <1>1, <1>2
<1>11. inbox[1].token = "header" => inbox[1].kind # "wrongOp"
    BY <1>1 DEF Framed
<1> QED
    BY <1>1, <1>7, <1>8, <1>9, <1>10, <1>11

\* The peer vanishes: what is left of the stream starts as before.
LEMMA LoseFramed ==
    ASSUME TypeInv, Framed, NEW n \in 0..Len(inbox), inbox' = SubSeq(inbox, 1, n), peer' = "gone"
    PROVE  Framed' /\ (inbox' # <<>> => inbox # <<>> /\ inbox'[1] = inbox[1])
<1>1. /\ Len(inbox') = n /\ Len(inbox) \in Nat /\ n \in Nat /\ n <= Len(inbox)
      /\ \A i \in 1..n : inbox'[i] = inbox[i]
    BY PrefixTokens DEF TypeInv, TypeOK
<1>2. inbox' # <<>> => inbox # <<>> /\ inbox'[1] = inbox[1]
    BY <1>1 DEF TypeInv, TypeOK
<1>3. \A i \in 1..(Len(inbox') - 1) :
         i \in 1..(Len(inbox) - 1) /\ inbox'[i] = inbox[i] /\ inbox'[i + 1] = inbox[i + 1]
    BY <1>1
<1>4. \A i \in 1..Len(inbox') : i \in 1..Len(inbox) /\ inbox'[i] = inbox[i]
    BY <1>1
<1> QED
    BY <1>2, <1>3, <1>4 DEF Framed, Opens

\* The server answers: a whole response behind whole responses.
LEMMA AddFramed ==
    ASSUME "wrongOp" \notin Faults, TypeInv, Framed, peer = "up", peer' = peer,
           NEW f \in unanswered, NEW kind \in AnswerKinds,
           inbox' = inbox \o ResponseTokens(f, kind)
    PROVE  /\ Framed'
           /\ inbox' # <<>>
           /\ IF inbox = <<>> THEN inbox'[1].token = "header" ELSE inbox'[1] = inbox[1]
<1>1. PICK h : h = ResponseHeader(f, kind)
    OBVIOUS
<1>2. PICK b : b = [token |-> "body", of |-> f.req]
    OBVIOUS
<1>3. /\ h.token = "header" /\ h.kind = kind /\ b.token = "body" /\ kind # "wrongOp"
      /\ (Opens(h) <=> kind # "empty") /\ ~Opens(b)
    BY <1>1, <1>2 DEF ResponseHeader, AnswerKinds, Opens
<1>4. h \in Header /\ b \in Body
    BY <1>1, <1>2, <1>3 DEF ResponseHeader, Header, Body, TypeInv, TypeOK, AnswerKinds, NoTopo
<1>5. PICK n \in Nat : n = Len(inbox)
    BY DEF TypeInv, TypeOK
<1>6. /\ \A i \in 1..n : inbox'[i] = inbox[i]
      /\ inbox'[n + 1] = h
      /\ IF kind = "empty" THEN Len(inbox') = n + 1 ELSE Len(inbox') = n + 2 /\ inbox'[n + 2] = b
  <2>0. inbox \in Seq(Header \cup Body)
    BY DEF TypeInv, TypeOK
  <2>1. CASE kind = "empty"
    <3>1. inbox' = inbox \o <<h>>
      BY <1>1, <2>1 DEF ResponseTokens
    <3> QED
      BY <1>4, <1>5, <2>0, <2>1, <3>1
  <2>2. CASE kind # "empty"
    <3>1. inbox' = inbox \o <<h, b>>
      BY <1>1, <1>2, <2>2 DEF ResponseTokens
    <3> QED
      BY <1>4, <1>5, <2>0, <2>2, <3>1
  <2> QED
    BY <2>1, <2>2
<1>7. \A i \in 1..(Len(inbox') - 1) : Opens(inbox'[i]) <=> inbox'[i + 1].token = "body"
  <2> TAKE i \in 1..(Len(inbox') - 1)
  <2>1. CASE i \in 1..(n - 1)
    BY <1>5, <1>6, <2>1 DEF Framed
  <2>2. CASE i = n
    <3>1. inbox # <<>> /\ ~Opens(inbox[n])
      BY <1>5, <2>2 DEF Framed
    <3> QED
      BY <1>3, <1>6, <2>2, <3>1
  <2>3. CASE i = n + 1
    BY <1>3, <1>6, <2>3
  <2>4. Len(inbox') = n + 1 \/ Len(inbox') = n + 2
    BY <1>6
  <2>5. i \in 1..(n - 1) \/ i = n \/ i = n + 1
    BY <2>4
  <2> QED
    BY <2>1, <2>2, <2>3, <2>5
<1>8. inbox' # <<>> /\ ~Opens(inbox'[Len(inbox')])
  <2>1. inbox' # <<>>
    BY <1>6
  <2> QED
    BY <1>3, <1>6, <2>1
<1>9. \A i \in 1..Len(inbox') : inbox'[i].token = "header" => inbox'[i].kind # "wrongOp"
  <2> TAKE i \in 1..Len(inbox')
  <2>1. CASE i \in 1..n
    BY <1>5, <1>6, <2>1 DEF Framed
  <2>2. CASE i = n + 1
    BY <1>3, <1>6, <2>2
  <2>3. CASE i = n + 2
    BY <1>3, <1>6, <2>3
  <2>4. Len(inbox') = n + 1 \/ Len(inbox') = n + 2
    BY <1>6
  <2>5. i \in 1..n \/ i = n + 1 \/ i = n + 2
    BY <2>4
  <2> QED
    BY <2>1, <2>2, <2>3, <2>5
<1>10. Framed'
    BY <1>7, <1>8, <1>9 DEF Framed, Opens
<1>11. IF inbox = <<>> THEN inbox'[1].token = "header" ELSE inbox'[1] = inbox[1]
  <2>1. inbox = <<>> <=> n = 0
    BY <1>5 DEF TypeInv, TypeOK
  <2> QED
    BY <1>3, <1>6, <2>1
<1> QED
    BY <1>8, <1>10, <1>11

\* What InStep and KindInv look at beside the stream.
LEMMA SyncKept ==
    ASSUME SyncInv, UNCHANGED <<inbox, peer, rhdr, rpc>>, Serving' => Serving,
           rpc = "test" /\ stopReadLoop => stopReadLoop'
    PROVE  SyncInv'
BY DEF SyncInv, Framed, InStep, KindInv, Opens, ExpectsBody, Processing, Active

\* The read thread is gone, or never was.
LEMMA SyncIdle ==
    ASSUME Framed', ~Serving', ~Active'
    PROVE  SyncInv'
BY DEF SyncInv, InStep, KindInv, Processing, Active

\* The read loop keeps in step with the stream.
LEMMA SyncReadLoop ==
    ASSUME Faults \cap {"duplicate", "wrongOp"} = {}, TypeInv, OwnerInv, NoOrphan, SyncInv,
           readLoop
    PROVE  SyncInv'
<1>0. UNCHANGED <<peer, sock, cpc, stopReadLoop>>
    BY DEF readLoop, ownVars
<1>1. rpc # "none"
    BY DEF readLoop, ReadLoopTest, ReadHeader, ReadInvalidMagic, ReadErrorBody, ReadThrows,
        LookupPending, SkipOrphan, NotifyTopology, DeliverServerError, DeliverMismatch,
        DeliverEmpty, DeliverBody, DeliverParseError, ReadLoopDisconnect, ReadLoopCloseAll
<1>2. inbox' = inbox => Framed'
    BY <1>0 DEF SyncInv, Framed, Opens
<1>3. CASE inbox' = inbox /\ rpc' \in {"failing", "draining", "done"}
    BY <1>2, <1>3, SyncIdle DEF Serving, Active
<1>4. CASE /\ inbox' = inbox /\ rhdr' = rhdr /\ Active
           /\ rpc' \in {"test", "header", "notify", "dispatch"}
           /\ rpc = "test" => ~stopReadLoop
           /\ rpc' \in {"notify", "dispatch"} => rpc \in {"lookup", "notify", "dispatch"}
           /\ ExpectsBody' <=> ExpectsBody
  <2>1. InStep'
    <3>1. (Serving /\ inbox # <<>> => (inbox[1].token = "body" <=> ExpectsBody))
      BY <1>4 DEF SyncInv, InStep
    <3> QED
      BY <1>0, <1>4, <3>1 DEF SyncInv, InStep, Serving, Active
  <2>2. KindInv'
    BY <1>4 DEF SyncInv, KindInv, Processing
  <2> QED
    BY <1>2, <1>4, <2>1, <2>2 DEF SyncInv
<1>5. ASSUME inbox # <<>>, inbox' = Tail(inbox), rpc' \in {"test", "errorBody", "lookup"},
             ExpectsBody' <=> Opens(inbox[1]), KindInv'
      PROVE  SyncInv'
  <2>1. /\ Framed'
        /\ inbox' # <<>> => (inbox'[1].token = "body" <=> Opens(inbox[1]))
        /\ inbox' = <<>> /\ peer = "up" => ~Opens(inbox[1])
    BY <1>0, <1>5, TakeFramed DEF SyncInv
  <2>2. InStep'
    BY <1>0, <1>5, <2>1 DEF InStep
  <2> QED
    BY <1>5, <2>1, <2>2 DEF SyncInv
<1>6. CASE ReadLoopTest
  <2>1. /\ inbox' = inbox /\ rhdr' = rhdr /\ rpc = "test"
        /\ rpc' = IF ~stopReadLoop /\ connected THEN "header" ELSE "done"
    BY <1>6 DEF ReadLoopTest
  <2>2. CASE rpc' = "header" /\ ~stopReadLoop
    BY <1>4, <2>1, <2>2 DEF Active, ExpectsBody
  <2> QED
    BY <1>3, <2>1, <2>2
<1>7. CASE ReadHeader
  <2>1. /\ inbox # <<>> /\ inbox' = Tail(inbox) /\ rhdr' = Head(inbox)
        /\ Head(inbox).token = "header" /\ rpc' = AfterHeader(Head(inbox))
    BY <1>7 DEF ReadHeader, Receive
  <2>2. PICK h : h = Head(inbox)
    OBVIOUS
  <2>3. /\ h = inbox[1] /\ h \in Header \cup Body
        /\ h.token = "header" /\ h.kind # "wrongOp"
    BY <1>0, <2>1, <2>2, TakeFramed DEF SyncInv
  <2>4. h.kind \in {"body", "empty", "error"}
    BY <2>3, TokenKinds DEF Header
  <2>5. rhdr' = h /\ rpc' = IF h.kind = "error" THEN "errorBody" ELSE "lookup"
    BY <2>1, <2>2 DEF AfterHeader
  <2>6. ExpectsBody' <=> Opens(h)
    BY <2>3, <2>4, <2>5 DEF ExpectsBody, Opens
  <2>7. KindInv'
    BY <2>4, <2>5 DEF KindInv
  <2> QED
    BY <1>5, <2>1, <2>3, <2>5, <2>6, <2>7
<1>8. CASE ReadInvalidMagic
  <2>1. inbox # <<>> /\ inbox' = Tail(inbox) /\ rpc' = "failing"
    BY <1>8 DEF ReadInvalidMagic, Receive
  <2> QED
    BY <1>0, <2>1, TakeFramed, SyncIdle DEF SyncInv, Serving, Active
<1>9. CASE ReadErrorBody
  <2>1. /\ inbox # <<>> /\ inbox' = Tail(inbox) /\ rhdr' = rhdr /\ rpc = "errorBody"
        /\ Head(inbox).token = "body" /\ rpc' = "lookup"
    BY <1>9 DEF ReadErrorBody, Receive
  <2>2. ~Opens(inbox[1])
    BY <1>0, <2>1, TakeFramed DEF SyncInv, Opens
  <2>3. rhdr.kind = "error" /\ ~ExpectsBody' /\ KindInv'
    BY <2>1 DEF SyncInv, KindInv, ExpectsBody
  <2> QED
    BY <1>5, <2>1, <2>2, <2>3
<1>10. CASE LookupPending
  <2>1. /\ inbox' = inbox /\ rhdr' = rhdr /\ rpc = "lookup" /\ rpc' \in {"notify", "dispatch"}
    BY <1>10 DEF LookupPending, AfterLookup
  <2> QED
    BY <1>4, <2>1 DEF Active, ExpectsBody
<1>11. CASE SkipOrphan
    BY <1>11 DEF SkipOrphan, NoOrphan, FindPending
<1>12. CASE NotifyTopology
    BY <1>4, <1>12 DEF NotifyTopology, Active, ExpectsBody
<1>13. CASE DeliverServerError \/ DeliverMismatch \/ DeliverEmpty
    BY <1>4, <1>13 DEF DeliverServerError, DeliverMismatch, DeliverEmpty, Deliver, Active,
        ExpectsBody
<1>14. CASE DeliverBody
  <2>1. /\ inbox # <<>> /\ inbox' = Tail(inbox) /\ Head(inbox).token = "body" /\ rpc' = "test"
    BY <1>14 DEF DeliverBody, Receive, Deliver
  <2>2. ~Opens(inbox[1])
    BY <1>0, <2>1, TakeFramed DEF SyncInv, Opens
  <2>3. ~ExpectsBody' /\ KindInv'
    BY <2>1 DEF KindInv, ExpectsBody, Processing
  <2> QED
    BY <1>5, <2>1, <2>2, <2>3
<1>15. CASE DeliverParseError
  <2>1. rpc = "dispatch" /\ StreamEnds /\ rpc' = "test" /\ inbox' = inbox
    BY <1>15 DEF DeliverParseError, Deliver
  <2>2. KindInv' /\ ~ExpectsBody'
    BY <2>1 DEF KindInv, Processing, ExpectsBody
  <2>3. inbox = <<>> \/ stopReadLoop
    BY <2>1 DEF StreamEnds, OwnerInv, Active
  <2> QED
    BY <1>0, <1>2, <2>1, <2>2, <2>3 DEF SyncInv, InStep
<1>16. CASE ReadThrows \/ ReadLoopDisconnect \/ ReadLoopCloseAll
    BY <1>3, <1>16 DEF ReadThrows, ReadLoopDisconnect, ReadLoopCloseAll
<1> QED
    BY <1>6, <1>7, <1>8, <1>9, <1>10, <1>11, <1>12, <1>13, <1>14, <1>15, <1>16 DEF readLoop

\* Every step keeps the read loop and the stream in step.
LEMMA SyncStep ==
    ASSUME Faults \cap {"duplicate", "wrongOp"} = {}, TypeInv, OwnerInv, NoOrphan, SyncInv,
           [Next]_vars
    PROVE  SyncInv'
<1>1. ASSUME NEW r \in Requests, execute(r)
      PROVE  SyncInv'
    BY <1>1, SyncKept DEF execute, readVars, ownVars, Serving, Active, Connecting
<1>2. CASE readLoop
    BY <1>2, SyncReadLoop
<1>3. CASE ConnectSocket
  <2>1. ~connected /\ inbox' = <<>> /\ UNCHANGED <<rpc, rhdr>>
    BY <1>3 DEF ConnectSocket, readVars
  <2>2. ~Active /\ ~Active'
    BY <2>1 DEF OwnerInv, Active
  <2>3. Framed' /\ InStep'
    BY <2>1, <2>2 DEF Framed, InStep
  <2> QED
    BY <2>1, <2>3 DEF SyncInv, KindInv, Processing
<1>4. CASE connect
  <2>1. UNCHANGED <<inbox, peer, rhdr>> /\ Connecting
    BY <1>4 DEF connect, ConnectPublish, ConnectAllow, ConnectStartReader, Connecting, netVars
  <2>2. CASE rpc' = rpc
    <3>1. Serving' => Serving
      BY <2>1, <2>2 DEF Serving, Active
    <3>2. rpc # "test"
      BY <2>1 DEF OwnerInv, Active
    <3> QED
      BY <2>1, <2>2, <3>1, <3>2, SyncKept
  <2>3. CASE rpc = "none" /\ rpc' = "test"
    <3>1. Framed' /\ KindInv'
      BY <2>1, <2>3 DEF SyncInv, Framed, Opens, KindInv, Processing
    <3>2. InStep'
      BY <2>1, <2>3 DEF SyncInv, InStep, Serving, ExpectsBody
    <3> QED
      BY <3>1, <3>2 DEF SyncInv
  <2> QED
    BY <1>4, <2>2, <2>3 DEF connect, ConnectPublish, ConnectAllow, ConnectStartReader
<1>5. CASE CloseStop
    BY <1>5, SyncKept DEF CloseStop, readVars, netVars, Serving, Active, Connecting
<1>6. CASE close
  <2>1. UNCHANGED <<peer, rhdr, stopReadLoop>> /\ ~Connecting'
    BY <1>6 DEF close, CloseShutdown, CloseJoin, CloseSocket, CloseDisconnect, CloseDrain,
                Connecting
  <2>2. CASE UNCHANGED <<inbox, rpc>>
    BY <2>1, <2>2, SyncKept DEF Serving, Active
  <2>3. CASE CloseJoin
    <3>1. inbox' = inbox /\ rpc' = "none"
      BY <2>3 DEF CloseJoin
    <3>2. Framed'
      BY <2>1, <3>1 DEF SyncInv, Framed, Opens
    <3> QED
      BY <2>1, <3>1, <3>2, SyncIdle DEF Serving, Active
  <2>4. CASE CloseSocket
    <3>1. inbox' = <<>> /\ rpc' = rpc /\ rpc = "none"
      BY <2>4 DEF CloseSocket, OwnerInv
    <3>2. Framed'
      BY <3>1 DEF Framed
    <3> QED
      BY <2>1, <3>1, <3>2, SyncIdle DEF Serving, Active
  <2> QED
    BY <1>6, <2>2, <2>3, <2>4 DEF close, CloseShutdown, CloseDisconnect, CloseDrain
<1>7. CASE External(ServerReceive) \/ External(ServerTopologyChange) \/ UNCHANGED vars
    BY <1>7, SyncKept DEF External, ServerReceive, ServerTopologyChange, vars, readVars, ownVars,
        netVars, Serving, Active, Connecting
<1>8. CASE External(ServerAnswer)
  <2>1. UNCHANGED <<rpc, rhdr, cpc, stopReadLoop, peer>> /\ peer = "up"
    BY <1>8 DEF External, ServerAnswer, readVars, ownVars
  <2>2. PICK f \in unanswered, kind \in AnswerKinds : inbox' = inbox \o ResponseTokens(f, kind)
    BY <1>8 DEF External, ServerAnswer
  <2>3. /\ Framed' /\ inbox' # <<>>
        /\ IF inbox = <<>> THEN inbox'[1].token = "header" ELSE inbox'[1] = inbox[1]
    BY <2>1, <2>2, AddFramed DEF SyncInv
  <2>4. KindInv' /\ (ExpectsBody' <=> ExpectsBody) /\ (Serving' <=> Serving)
    BY <2>1 DEF SyncInv, KindInv, Processing, ExpectsBody, Serving, Active, Connecting
  <2>5. InStep'
    <3>1. CASE inbox = <<>>
      <4>1. Serving => ~ExpectsBody
        BY <2>1, <3>1 DEF SyncInv, InStep, Serving, ExpectsBody
      <4> QED
        BY <2>3, <2>4, <3>1, <4>1 DEF InStep
    <3>2. CASE inbox # <<>>
      BY <2>1, <2>3, <2>4, <3>2 DEF SyncInv, InStep
    <3> QED
      BY <3>1, <3>2
  <2> QED
    BY <2>3, <2>4, <2>5 DEF SyncInv
<1>9. CASE External(PeerDrop)
  <2>1. UNCHANGED <<rpc, rhdr, cpc, stopReadLoop>> /\ peer' = "gone"
    BY <1>9 DEF External, PeerDrop, readVars, ownVars
  <2>2. PICK n \in 0..Len(inbox) : inbox' = SubSeq(inbox, 1, n)
    BY <1>9 DEF External, PeerDrop
  <2>3. Framed' /\ (inbox' # <<>> => inbox # <<>> /\ inbox'[1] = inbox[1])
    BY <2>1, <2>2, LoseFramed DEF SyncInv
  <2>4. KindInv' /\ (ExpectsBody' <=> ExpectsBody) /\ (Serving' <=> Serving)
    BY <2>1 DEF SyncInv, KindInv, Processing, ExpectsBody, Serving, Active, Connecting
  <2>5. InStep'
    BY <2>1, <2>3, <2>4 DEF SyncInv, InStep
  <2> QED
    BY <2>3, <2>4, <2>5 DEF SyncInv
<1> QED
    BY <1>1, <1>2, <1>3, <1>4, <1>5, <1>6, <1>7, <1>8, <1>9 DEF Next

\* The read loop never meets a byte that is not where it should be.
THEOREM StreamStaysInSync ==
    ASSUME Faults \cap {"duplicate", "wrongOp"} = {}
    PROVE  Spec => []StreamInSync
<1>1. TypeInv /\ SyncInv => StreamInSync
  <2> SUFFICES ASSUME TypeInv, SyncInv, rpc = "header", inbox # <<>>
               PROVE  Head(inbox).token = "header"
    BY DEF StreamInSync
  <2>1. Head(inbox) = inbox[1] /\ inbox[1] \in Header \cup Body
    BY DEF TypeInv, TypeOK
  <2>2. inbox[1].token # "body"
    BY DEF SyncInv, InStep, Serving, Active, ExpectsBody
  <2> QED
    BY <2>1, <2>2, TokenKinds
<1>2. "duplicate" \notin Faults
    OBVIOUS
<1>3. Init => SyncInv
    BY DEF Init, SyncInv, Framed, InStep, KindInv, Serving, Active, Processing
<1>4. TypeInv /\ OwnerInv /\ NoOrphan /\ SyncInv /\ [Next]_vars => SyncInv'
    BY SyncStep
<1>5. Spec => []FlightInv
    BY <1>2, FlightKept
<1>6. Spec => []NoOrphan
    BY <1>2, NoResponseOrphaned
<1>7. IInv /\ FlightInv => TypeInv /\ OwnerInv
    BY DEF IInv, FlightInv
<1> QED
    BY <1>1, <1>3, <1>4, <1>5, <1>6, <1>7, Invariance, PTL DEF Spec

\* What the read loop has recorded, it reports, in the first session.
LEMMA ReportStep ==
    ASSUME TypeInv, OwnerInv, NoOrphan, ReportInv, [Next]_vars
    PROVE  ReportInv'
<1>1. CASE UNCHANGED <<sessions, cpc, rpc, notified, topologyId, rhdr>>
    BY <1>1 DEF ReportInv, Connecting, HasTopology
<1>2. ASSUME NEW r \in Requests, execute(r)
      PROVE  ReportInv'
    BY <1>1, <1>2 DEF execute, readVars, ownVars
<1>3. CASE readLoop
  <2>0. UNCHANGED <<sessions, cpc>> /\ rpc # "none"
    BY <1>3 DEF readLoop, ownVars, ReadLoopTest, ReadHeader, ReadInvalidMagic, ReadErrorBody,
        ReadThrows, LookupPending, SkipOrphan, NotifyTopology, DeliverServerError,
        DeliverMismatch, DeliverEmpty, DeliverBody, DeliverParseError, ReadLoopDisconnect,
        ReadLoopCloseAll
  <2> SUFFICES ASSUME sessions <= 1
               PROVE  ReportInv'
    BY <2>0 DEF ReportInv
  <2>1. sessions # 0 /\ ~Connecting /\ ~Connecting'
    BY <2>0 DEF ReportInv, Connecting
  <2>2. CASE rpc' \in {"failing", "draining", "done"}
    BY <2>0, <2>1, <2>2 DEF ReportInv
  <2>3. CASE ReadHeader
    <3>1. /\ rhdr' = Head(inbox) /\ rpc = "header" /\ notified' = notified
          /\ topologyId' = IF HasTopology(Head(inbox)) THEN Head(inbox).topo ELSE topologyId
          /\ rpc' \in {"errorBody", "lookup"}
      BY <2>3 DEF ReadHeader, AfterHeader
    <3>2. PICK h : h = Head(inbox)
      OBVIOUS
    <3>3. /\ rhdr' = h /\ notified = topologyId
          /\ topologyId' = IF HasTopology(h) THEN h.topo ELSE topologyId
      BY <3>1, <3>2 DEF ReportInv
    <3> QED
      BY <2>0, <2>1, <3>1, <3>3 DEF ReportInv, HasTopology
  <2>4. CASE LookupPending \/ ReadErrorBody \/ NotifyTopology
    BY <2>0, <2>1, <2>4 DEF LookupPending, AfterLookup, ReadErrorBody, NotifyTopology, ReportInv,
        HasTopology
  <2>5. CASE SkipOrphan
    BY <2>5 DEF SkipOrphan, NoOrphan, FindPending
  <2>6. CASE \/ ReadLoopTest \/ DeliverServerError \/ DeliverMismatch \/ DeliverEmpty
             \/ DeliverBody \/ DeliverParseError
    <3>1. /\ rpc \in {"test", "dispatch"} /\ rpc' \in {"test", "header", "done"}
          /\ UNCHANGED <<notified, topologyId>>
      BY <2>6 DEF ReadLoopTest, DeliverServerError, DeliverMismatch, DeliverEmpty, DeliverBody,
          DeliverParseError, Deliver
    <3> QED
      BY <2>0, <2>1, <3>1 DEF ReportInv
  <2> QED
    BY <1>3, <2>2, <2>3, <2>4, <2>5, <2>6 DEF readLoop, ReadInvalidMagic, ReadThrows,
        ReadLoopDisconnect, ReadLoopCloseAll
<1>4. CASE ConnectSocket
  <2>1. sessions' = sessions + 1 /\ ~connected /\ UNCHANGED <<rpc, rhdr, notified, topologyId>>
    BY <1>4 DEF ConnectSocket, readVars
  <2>2. sessions' <= 1 => sessions = 0
    BY <2>1 DEF TypeInv, TypeOK
  <2> QED
    BY <2>1, <2>2 DEF ReportInv, TypeInv, TypeOK
<1>5. CASE connect
  <2>1. UNCHANGED <<sessions, notified, topologyId, rhdr>> /\ Connecting
    BY <1>5 DEF connect, ConnectPublish, ConnectAllow, ConnectStartReader, Connecting
  <2>2. rpc' = rpc \/ (rpc' = "test" /\ ~Connecting')
    BY <1>5 DEF connect, ConnectPublish, ConnectAllow, ConnectStartReader, Connecting
  <2> QED
    BY <2>1, <2>2 DEF ReportInv, HasTopology
<1>6. CASE CloseStop
    BY <1>6 DEF CloseStop, ReportInv, Connecting, readVars, HasTopology
<1>7. CASE close
    BY <1>7 DEF close, CloseShutdown, CloseJoin, CloseSocket, CloseDisconnect, CloseDrain,
                ReportInv, Connecting, HasTopology
<1>8. CASE \/ External(ServerReceive) \/ External(ServerAnswer)
           \/ External(ServerTopologyChange) \/ External(PeerDrop)
    BY <1>1, <1>8 DEF External, readVars, ownVars
<1>9. CASE UNCHANGED vars
    BY <1>1, <1>9 DEF vars, readVars, ownVars
<1> QED
    BY <1>2, <1>3, <1>4, <1>5, <1>6, <1>7, <1>8, <1>9 DEF Next

\* In the first session the read loop never goes on with a topology that it has
\* recorded and not handed to the callback.
THEOREM TopologiesReported ==
    ASSUME "duplicate" \notin Faults
    PROVE  Spec => []TopologyReported
<1>1. Init => ReportInv
    BY DEF Init, ReportInv, Connecting
<1>2. TypeInv /\ OwnerInv /\ NoOrphan /\ ReportInv /\ [Next]_vars => ReportInv'
    BY ReportStep
<1>3. ReportInv => TopologyReported
    BY DEF ReportInv, TopologyReported
<1>4. Spec => []FlightInv
    BY FlightKept
<1>5. Spec => []NoOrphan
    BY NoResponseOrphaned
<1>6. IInv /\ FlightInv => TypeInv /\ OwnerInv
    BY DEF IInv, FlightInv
<1> QED
    BY <1>1, <1>2, <1>3, <1>4, <1>5, <1>6, Invariance, PTL DEF Spec

-----------------------------------------------------------------------------
(* The refinement of RequestFuture: every step maps to a step of one call or *)
(* future, to the failure of a set of open futures, or to nothing.  IInv says *)
(* why: what the read thread delivers belongs to a request that is unresolved *)
(* and was executed, and what closeAllPending() fails was registered and is   *)
(* unresolved.                                                                *)

\* The variables of RequestFuture.
Calls   == [r \in Requests |-> CallState(r)]
Answers == [r \in Requests |-> FutureState(r)]

\* A call is as pc and exc say, a future as its promise.
LEMMA CallUnchanged ==
    ASSUME pc' = pc, exc' = exc
    PROVE  Calls' = Calls
BY DEF Calls, CallState

LEMMA AnswersUnchanged ==
    ASSUME promise' = promise
    PROVE  Answers' = Answers
BY DEF Answers, FutureState

\* Nothing that a caller can see changes.
LEMMA Stutter ==
    ASSUME pc' = pc, exc' = exc, promise' = promise, applied' = applied
    PROVE  UNCHANGED Futures!vars
<1>1. Calls' = Calls /\ Answers' = Answers
    BY CallUnchanged, AnswersUnchanged
<1> QED
    BY <1>1 DEF Futures!vars, Calls, Answers

\* A request that has been numbered is one whose call has begun and was not refused.
LEMMA NumberedCall ==
    ASSUME IInv, NEW r \in Requests, Numbered(r)
    PROVE  CallState(r) \notin {"idle", "refused"}
<1>1. exc[r] # "none" <=> pc[r] = "threw"
    BY DEF IInv, IdInv
<1> QED
    BY <1>1 DEF Numbered, CallState

\* execute() begins a call, ends it, or works on.
LEMMA ExecuteMaps ==
    ASSUME IInv, NEW r \in Requests, execute(r)
    PROVE  Futures!Next \/ UNCHANGED Futures!vars
<1>0. /\ promise' = promise /\ applied' = applied
      /\ pc \in [Requests -> {"idle", "checked", "numbered", "registered", "built",
                            "sendFailed", "returned", "threw"}]
      /\ exc \in [Requests -> {"none", "BeforeSend", "AfterSend"}]
    BY DEF execute, serverVars, IInv, TypeInv, TypeOK
<1>1. Answers' = Answers
    BY <1>0, AnswersUnchanged
<1>2. ASSUME NEW next, pc' = [pc EXCEPT ![r] = next], exc' = exc,
             CallState(r)' = CallState(r)
      PROVE  UNCHANGED Futures!vars
  <2>1. \A q \in Requests : CallState(q)' = CallState(q)
    BY <1>0, <1>2 DEF CallState
  <2> QED
    BY <1>0, <1>1, <2>1 DEF Futures!vars, Calls, Answers
<1>3. ASSUME NEW next, \A q \in Requests : q # r => CallState(q)' = CallState(q),
             CallState(r)' = next
      PROVE  Calls' = [Calls EXCEPT ![r] = next]
    BY <1>3 DEF Calls
<1>4. CASE ExecuteCheck(r)
  <2>1. /\ CallState(r) = "idle"
        /\ CallState(r)' \in {"running", "refused"}
        /\ \A q \in Requests : q # r => CallState(q)' = CallState(q)
    BY <1>0, <1>4 DEF ExecuteCheck, CallState
  <2>2. PICK next \in {"running", "refused"} : CallState(r)' = next
    BY <2>1
  <2>3. Futures!Begin(r)
    BY <1>0, <1>1, <1>3, <2>1, <2>2 DEF Futures!Begin, Calls, Answers
  <2> QED
    BY <2>3 DEF Futures!Next
<1>5. CASE ExecuteNumber(r) \/ ExecuteRegister(r) \/ buildRequest(r)
  <2>1. \E next \in {"numbered", "registered", "built"} : pc' = [pc EXCEPT ![r] = next]
    BY <1>5 DEF ExecuteNumber, ExecuteRegister, buildRequest
  <2>2. exc' = exc /\ pc[r] \in {"checked", "numbered", "registered"}
    BY <1>5 DEF ExecuteNumber, ExecuteRegister, buildRequest
  <2>3. CallState(r)' = CallState(r)
    BY <1>0, <2>1, <2>2 DEF CallState
  <2> QED
    BY <1>2, <2>1, <2>2, <2>3
<1>6. CASE ExecuteSend(r)
  <2>1. pc[r] = "built" /\ exc' = exc
    BY <1>6 DEF ExecuteSend
  <2>2. CASE SendWhole(r)
    <3>1. /\ CallState(r) = "running" /\ CallState(r)' = "returned"
          /\ \A q \in Requests : q # r => CallState(q)' = CallState(q)
      BY <1>0, <2>1, <2>2 DEF SendWhole, CallState
    <3>2. Futures!End(r)
      BY <1>0, <1>1, <1>3, <3>1 DEF Futures!End, Calls, Answers
    <3> QED
      BY <3>2 DEF Futures!Next
  <2>3. CASE SendThrows(r) \/ SendPartial(r)
    <3>1. pc' = [pc EXCEPT ![r] = "sendFailed"]
      BY <2>3 DEF SendThrows, SendPartial
    <3>2. CallState(r)' = CallState(r)
      BY <1>0, <2>1, <3>1 DEF CallState
    <3> QED
      BY <1>2, <2>1, <3>1, <3>2
  <2>4. CASE SendKills(r)
    BY <1>0, <2>1, <2>4, Stutter DEF SendKills
  <2> QED
    BY <1>6, <2>2, <2>3, <2>4 DEF ExecuteSend
<1>7. CASE ExecuteSendFailed(r)
  <2>1. /\ CallState(r) = "running" /\ CallState(r)' = "aborted"
        /\ \A q \in Requests : q # r => CallState(q)' = CallState(q)
    BY <1>0, <1>7 DEF ExecuteSendFailed, CallState
  <2>2. Futures!End(r)
    BY <1>0, <1>1, <1>3, <2>1 DEF Futures!End, Calls, Answers
  <2> QED
    BY <2>2 DEF Futures!Next
<1> QED
    BY <1>4, <1>5, <1>6, <1>7 DEF execute

\* closeAllPending() fails the open futures of registered requests.
LEMMA CloseAllMaps ==
    ASSUME IInv, closeAllPending, pc' = pc, exc' = exc, applied' = applied
    PROVE  Futures!Next
<1> DEFINE S == {r \in Requests : promise[r] = Unset /\ \E p \in pending : p.req = r}
<1>1. ASSUME NEW r \in S
      PROVE  CallState(r) \notin {"idle", "refused"} /\ FutureState(r) = "open"
  <2>1. PICK p \in pending : p.req = r
    BY <1>1
  <2>2. pc[r] \in {"registered", "built", "sendFailed", "returned"}
    BY <2>1 DEF IInv, PendingInv
  <2> QED
    BY <1>1, <2>2 DEF CallState, FutureState
<1>2. \A r \in Requests :
          FutureState(r)' = IF r \in S THEN "failed" ELSE FutureState(r)
  <2> TAKE r \in Requests
  <2>1. promise'[r] = IF r \in S THEN [kind |-> "dropped", of |-> NoReq] ELSE promise[r]
    BY DEF closeAllPending
  <2>2. CASE r \in S
    <3>1. promise'[r] # Unset /\ promise'[r].kind = "dropped"
      BY <2>1, <2>2 DEF Unset
    <3> QED
      BY <2>2, <3>1 DEF FutureState, Unset
  <2>3. CASE r \notin S
    BY <2>1, <2>3 DEF FutureState
  <2> QED
    BY <2>2, <2>3
<1>3. Calls' = Calls
    BY CallUnchanged
<1>4. Futures!Fail(S)
    BY <1>1, <1>2, <1>3 DEF Futures!Fail, Calls, Answers
<1>5. S \in SUBSET Requests
    OBVIOUS
<1> QED
    BY <1>4, <1>5 DEF Futures!Next

\* The read thread answers or fails one future, fails all that are registered, or
\* reads on.
LEMMA ReadLoopMaps ==
    ASSUME IInv, readLoop
    PROVE  Futures!Next \/ UNCHANGED Futures!vars
<1>0. /\ pc' = pc /\ exc' = exc /\ applied' = applied
      /\ promise \in [Requests -> Outcome]
    BY DEF readLoop, callVars, serverVars, IInv, TypeInv, TypeOK
<1>1. Calls' = Calls
    BY <1>0, CallUnchanged
<1>2. ASSUME rpc = "dispatch"
      PROVE  /\ rreq = rhdr.of /\ rreq \in Requests /\ rreq \in applied
             /\ FutureState(rreq) = "open"
             /\ CallState(rreq) \notin {"idle", "refused"}
  <2>1. rreq = rhdr.of /\ Owns(rhdr.of, rhdr.id) /\ rhdr.of \in applied
    BY <1>2 DEF IInv, PendingInv, HeaderInv, Processing
  <2>2. promise[rreq] = Unset
    BY <2>1, ConstantsAssumption DEF IInv, PendingInv, Owns
  <2> QED
    BY <2>1, <2>2, NumberedCall DEF Owns, FutureState
<1>3. ASSUME rpc = "dispatch", NEW o, Deliver(o), NEW q \in Requests, q = rreq
      PROVE  /\ promise'[q] = o
             /\ \A s \in Requests : s # q => FutureState(s)' = FutureState(s)
    BY <1>0, <1>3 DEF Deliver, FutureState
<1>4. ASSUME rpc = "dispatch", NEW k \in {"body", "empty", "serverError", "mismatch"},
             Deliver([kind |-> k, of |-> rreq])
      PROVE  Futures!Next
  <2>1. PICK q \in Requests : q = rreq
    BY <1>2, <1>4
  <2>2. /\ promise'[q] = [kind |-> k, of |-> q]
        /\ \A s \in Requests : s # q => FutureState(s)' = FutureState(s)
    BY <1>3, <1>4, <2>1
  <2>3. promise'[q] # Unset /\ promise'[q].kind = k /\ promise'[q].of = q
    BY <1>4, <2>2 DEF Unset
  <2>4. FutureState(q)' \in {"answered", "rejected"}
    BY <1>4, <2>3 DEF FutureState, Unset
  <2>5. Futures!Answer(q)
    BY <1>0, <1>1, <1>2, <1>4, <2>1, <2>2, <2>4 DEF Futures!Answer, Calls, Answers
  <2> QED
    BY <2>5 DEF Futures!Next
<1>5. CASE DeliverServerError \/ DeliverMismatch \/ DeliverEmpty
    BY <1>2, <1>4, <1>5 DEF DeliverServerError, DeliverMismatch, DeliverEmpty
<1>6. CASE DeliverBody
  <2>1. /\ rpc = "dispatch" /\ inbox # <<>> /\ Head(inbox).token = "body"
        /\ Deliver([kind |-> "body", of |-> Head(inbox).of])
    BY <1>6 DEF DeliverBody, Receive
  <2>2. Head(inbox) = inbox[1]
    BY <2>1 DEF IInv, TypeInv, TypeOK
  <2>3. Head(inbox).of = rreq
    BY <1>2, <2>1, <2>2 DEF IInv, BodyInv, Processing
  <2> QED
    BY <1>4, <2>1, <2>3
<1>7. CASE DeliverParseError
  <2>1. rpc = "dispatch" /\ Deliver([kind |-> "parseError", of |-> NoReq])
    BY <1>7 DEF DeliverParseError
  <2>2. PICK q \in Requests : q = rreq
    BY <1>2, <2>1
  <2>3. /\ promise'[q] # Unset /\ promise'[q].kind = "parseError"
        /\ \A s \in Requests : s # q => FutureState(s)' = FutureState(s)
    BY <1>3, <2>1, <2>2 DEF Unset
  <2>4. \A s \in Requests :
            FutureState(s)' = IF s \in {q} THEN "failed" ELSE FutureState(s)
    BY <2>3 DEF FutureState, Unset
  <2>5. Futures!Fail({q})
    BY <1>0, <1>1, <1>2, <2>1, <2>2, <2>4 DEF Futures!Fail, Calls, Answers
  <2> QED
    BY <2>5 DEF Futures!Next
<1>8. CASE ReadLoopCloseAll
    BY <1>0, <1>8, CloseAllMaps DEF ReadLoopCloseAll
<1>9. CASE \/ ReadLoopTest \/ ReadHeader \/ ReadInvalidMagic \/ ReadErrorBody
           \/ ReadThrows \/ LookupPending \/ SkipOrphan \/ NotifyTopology
           \/ ReadLoopDisconnect
  <2>1. promise' = promise
    BY <1>9 DEF ReadLoopTest, ReadHeader, ReadInvalidMagic, ReadErrorBody, ReadThrows,
                LookupPending, SkipOrphan, NotifyTopology, ReadLoopDisconnect
  <2> QED
    BY <1>0, <2>1, Stutter
<1> QED
    BY <1>5, <1>6, <1>7, <1>8, <1>9 DEF readLoop

\* The server executes a request whose call has begun and was not refused.
LEMMA ServerReceiveMaps ==
    ASSUME IInv, External(ServerReceive)
    PROVE  Futures!Next
<1>1. /\ pc' = pc /\ exc' = exc /\ promise' = promise
      /\ outbox # <<>> /\ applied' = applied \cup {Head(outbox).req}
    BY DEF External, ServerReceive, callVars
<1>2. Head(outbox) = outbox[1] /\ Len(outbox) >= 1
    BY <1>1 DEF IInv, TypeInv, TypeOK
<1>3. Owns(Head(outbox).req, Head(outbox).id)
    BY <1>2 DEF IInv, FrameInv
<1>4. PICK r \in Requests : r = Head(outbox).req
    BY <1>3 DEF Owns
<1>5. CallState(r) \notin {"idle", "refused"}
    BY <1>3, <1>4, NumberedCall DEF Owns
<1>6. Calls' = Calls /\ Answers' = Answers
    BY <1>1, CallUnchanged, AnswersUnchanged
<1>7. Futures!Execute(r)
    BY <1>1, <1>4, <1>5, <1>6 DEF Futures!Execute, Calls, Answers
<1> QED
    BY <1>7 DEF Futures!Next

\* Every step of the connection maps to a step of RequestFuture or to none.
LEMMA StepMaps ==
    ASSUME IInv, [Next]_vars
    PROVE  [Futures!Next]_(Futures!vars)
<1>1. ASSUME NEW r \in Requests, execute(r)
      PROVE  Futures!Next \/ UNCHANGED Futures!vars
    BY <1>1, ExecuteMaps
<1>2. CASE ConnectSocket \/ connect \/ CloseStop
    BY <1>2, Stutter DEF ConnectSocket, connect, CloseStop, callVars, serverVars
<1>3. CASE close
  <2>1. pc' = pc /\ exc' = exc /\ applied' = applied
    BY <1>3 DEF close, callVars, serverVars
  <2>2. CASE CloseDrain
    BY <2>1, <2>2, CloseAllMaps DEF CloseDrain
  <2>3. CASE CloseShutdown \/ CloseJoin \/ CloseSocket \/ CloseDisconnect
    BY <2>1, <2>3, Stutter DEF CloseShutdown, CloseJoin, CloseSocket, CloseDisconnect
  <2> QED
    BY <1>3, <2>2, <2>3 DEF close
<1>4. CASE External(ServerAnswer) \/ External(ServerTopologyChange) \/ External(PeerDrop)
    BY <1>4, Stutter DEF External, ServerAnswer, ServerTopologyChange, PeerDrop, callVars
<1>5. CASE UNCHANGED vars
    BY <1>5, Stutter DEF vars, callVars, serverVars
<1> QED
    BY <1>1, <1>2, <1>3, <1>4, <1>5, ReadLoopMaps, ServerReceiveMaps DEF Next

\* Before connect() no call has begun.
LEMMA InitMaps ==
    ASSUME Init
    PROVE  Futures!Init
BY DEF Init, Futures!Init, CallState, FutureState

\* MultiplexedConnection keeps the promise of RequestFuture, with any number of
\* callers, sessions and topologies and under any of its faults: the id map, the
\* read thread and closeAllPending() give every call one answer, its own.
THEOREM Refinement == Spec => ImplementsFutures
<1>1. Init => Futures!Init
    BY InitMaps
<1>2. IInv /\ [Next]_vars => [Futures!Next]_(Futures!vars)
    BY StepMaps
<1> QED
    BY <1>1, <1>2, Invariance, PTL DEF Spec, ImplementsFutures, Futures!Spec
==============================================================================
