--------------------------- MODULE ServerSelection ---------------------------
(***************************************************************************)
(* The pure routing helpers (src/include/hotrod/ServerSelection.h) and the *)
(* classification of failures (src/include/hotrod/HotRodClientException.h).*)
(* A server address is an opaque value; a node list is a sequence.         *)
(***************************************************************************)
EXTENDS Naturals, Sequences, SequencesExt

\* Mutant: the exclusion list is consulted, duplicates are not.
Bug_PushAlways(excludeNodes, out, s) ==
    IF s \in Range(excludeNodes) THEN out ELSE Append(out, s)

\* pushUnique: skip excluded nodes, and nodes already in the list.
pushUnique(excludeNodes, out, s) ==
    IF s \in Range(excludeNodes) \/ s \in Range(out) THEN out ELSE Append(out, s)

\* Mutant: servers first, owners after them.
Bug_ServersFirst(owners, allServers, excludeNodes, proxyToNonOwner) ==
    FoldLeft(LAMBDA out, s : pushUnique(excludeNodes, out, s), <<>>,
             (IF proxyToNonOwner THEN allServers ELSE <<>>) \o owners)

\* Owners first, in order; then, if allowed, the other servers.
orderKeyCandidates(owners, allServers, excludeNodes, proxyToNonOwner) ==
    FoldLeft(LAMBDA out, s : pushUnique(excludeNodes, out, s), <<>>,
             owners \o (IF proxyToNonOwner THEN allServers ELSE <<>>))

\* Mutant: the second list is forgotten.
Bug_ForgetNew(a, b) == a

\* The members of a, then the members of b not yet present.
unionNodes(a, b) ==
    FoldLeft(LAMBDA out, n : IF n \in Range(out) THEN out ELSE Append(out, n), a, b)

\* The place of s in a preference order: where it first occurs.
FirstIn(list, s) == CHOOSE i \in DOMAIN list :
                        list[i] = s /\ \A j \in 1..(i - 1) : list[j] # s

-----------------------------------------------------------------------------
(* Failures.  The status of a server error is one of four classes: "none"   *)
(* (no status), "permanent" (0x81-0x85 and unknown), "suspected" (0x87,     *)
(* 0x88) and "timeout" (0x86).                                              *)

isTransientStatus(status) == status \in {"timeout", "suspected"}

isTransient(e) ==
    \/ e.phase \in {"BeforeSend", "AfterSend"}
    \/ e.phase = "ServerError" /\ isTransientStatus(e.status)

\* Mutant: only a dropped connection is uncertain.
Bug_TimeoutIsCertain(e) == e.phase = "AfterSend"

outcomeUncertain(e) ==
    \/ e.phase = "AfterSend"
    \/ e.phase = "ServerError" /\ e.status = "timeout"
==============================================================================
