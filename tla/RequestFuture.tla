---------------------------- MODULE RequestFuture ----------------------------
(***************************************************************************)
(* What a connection promises to the callers of execute()                  *)
(* (src/include/hotrod/MultiplexedConnection.h, HotRodClientException.h),  *)
(* without message ids, a pending map, a socket or a read thread.          *)
(*                                                                         *)
(* A call throws or returns a future.  A future is resolved at most once,  *)
(* with the server's answer to that request or with a failure, and maybe   *)
(* before the call has returned.  "refused" is an exception with phase     *)
(* BeforeSend: the server never sees that request.  After "aborted"        *)
(* (AfterSend) and "failed" it may have executed it, or may yet.           *)
(***************************************************************************)
EXTENDS Naturals

CONSTANT Requests

VARIABLES
    call,       \* "idle", "running", "returned", "refused" or "aborted"
    future,     \* "open", "answered", "rejected" (a server error) or "failed"
    executed    \* the requests that the server has executed

vars == <<call, future, executed>>

Init ==
    /\ call = [r \in Requests |-> "idle"]
    /\ future = [r \in Requests |-> "open"]
    /\ executed = {}

Begin(r) ==
    /\ call[r] = "idle"
    /\ \E next \in {"running", "refused"} : call' = [call EXCEPT ![r] = next]
    /\ UNCHANGED <<future, executed>>

End(r) ==
    /\ call[r] = "running"
    /\ \E next \in {"returned", "aborted"} : call' = [call EXCEPT ![r] = next]
    /\ UNCHANGED <<future, executed>>

Execute(r) ==
    /\ call[r] \notin {"idle", "refused"}
    /\ executed' = executed \cup {r}
    /\ UNCHANGED <<call, future>>

Answer(r) ==
    /\ r \in executed /\ future[r] = "open"
    /\ \E result \in {"answered", "rejected"} : future' = [future EXCEPT ![r] = result]
    /\ UNCHANGED <<call, executed>>

\* The connection is lost or closed, with every future in S open.
Fail(S) ==
    /\ \A r \in S : call[r] \notin {"idle", "refused"} /\ future[r] = "open"
    /\ future' = [r \in Requests |-> IF r \in S THEN "failed" ELSE future[r]]
    /\ UNCHANGED <<call, executed>>

Next ==
    \/ \E r \in Requests : Begin(r) \/ End(r) \/ Execute(r) \/ Answer(r)
    \/ \E S \in SUBSET Requests : Fail(S)

Spec == Init /\ [][Next]_vars
==============================================================================
