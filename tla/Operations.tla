------------------------------ MODULE Operations ------------------------------
(***************************************************************************)
(* The cache operations of RemoteCache.cpp on one connection and one key:  *)
(* the request each one writes, what its body parser takes from the shared *)
(* stream for each status, and the value the caller's future yields.       *)
(*                                                                         *)
(* Requests and responses are sequences of fields, not of bytes.  The      *)
(* server is external: it decodes requests and answers as the comments of  *)
(* the code describe the protocol, and keeps the one entry.  Calls are     *)
(* pipelined; that a response finds the request it answers is the subject  *)
(* of MultiplexedConnection, so here the oldest call takes it.             *)
(***************************************************************************)
EXTENDS Naturals, Sequences

CONSTANTS
    Version,        \* protocolVersion_: 30, 31, 40 or 41
    Operation,      \* the operations the callers use
    MaxCalls        \* bound: calls made on the connection

ASSUME OperationsAssumption ==
    /\ Version \in {30, 31, 40, 41}
    /\ Operation \subseteq
          {"ping", "get", "getWithMetadata", "containsKey", "put", "putIfAbsent",
           "replace", "remove", "removeWithVersion", "replaceWithVersion"}
    /\ MaxCalls \in Nat \ {0}

VARIABLES
    made,       \* number of calls made
    calls,      \* calls not finished, oldest first
    requests,   \* requests the server has not read
    store,      \* the server's entry for the key, or Absent
    stream,     \* what recv() will return
    last        \* the last finished call: what was sent and what it yields

vars == <<made, calls, requests, store, stream, last>>

-----------------------------------------------------------------------------
(* Operations and statuses *)

Absent == [value |-> 0, lifespan |-> 0, maxIdle |-> 0]   \* calls count from 1

Writes       == {"put", "putIfAbsent", "replace", "replaceWithVersion"}
VersionedOps == {"removeWithVersion", "replaceWithVersion"}
Conditional  == {"putIfAbsent", "replace"}

SUCCESS                    == 0
NOT_EXECUTED               == 1
KEY_DOES_NOT_EXIST         == 2
SUCCESS_WITH_PREVIOUS      == 3
NOT_EXECUTED_WITH_PREVIOUS == 4
UNKNOWN                    == 5    \* any other status of an ordinary response
WithPrevious == {SUCCESS_WITH_PREVIOUS, NOT_EXECUTED_WITH_PREVIOUS}

\* The arguments of a call; the value written is the number of the call, and
\* is also the version of the entry.  0 is the default expiration.
Call ==
    {c \in [op : Operation, previousValue : BOOLEAN, lifespan : {0, 5},
            maxIdle : {0, 9}, version : 0..MaxCalls] :
        /\ c.previousValue => c.op \in {"put", "remove"} \cup Conditional
        /\ c.op \notin Writes => c.lifespan = 0 /\ c.maxIdle = 0
        /\ (c.op \in VersionedOps) = (c.version > 0)}

-----------------------------------------------------------------------------
(* Requests *)

DEFAULT == 7    \* time unit of an expiration that is not given
SECS    == 0    \* SECONDS

\* Mutant: the nibbles of the time unit byte are swapped.
Bug_NibblesSwapped(lifespan, maxIdle) ==
    <<[high |-> IF maxIdle = 0 THEN DEFAULT ELSE SECS,
       low |-> IF lifespan = 0 THEN DEFAULT ELSE SECS]>>
    \o (IF lifespan > 0 THEN <<lifespan>> ELSE <<>>)
    \o (IF maxIdle > 0 THEN <<maxIdle>> ELSE <<>>)

\* The time unit byte, lifespan in the high nibble, then the durations that
\* are not the default.
writeExpiration(lifespan, maxIdle) ==
    <<[high |-> IF lifespan = 0 THEN DEFAULT ELSE SECS,
       low |-> IF maxIdle = 0 THEN DEFAULT ELSE SECS]>>
    \o (IF lifespan > 0 THEN <<lifespan>> ELSE <<>>)
    \o (IF maxIdle > 0 THEN <<maxIdle>> ELSE <<>>)

\* The body after the key, which every operation but ping writes first.
requestBody(c, value) ==
    (IF c.op \in Writes THEN writeExpiration(c.lifespan, c.maxIdle) ELSE <<>>)
    \o (IF c.op \in VersionedOps THEN <<c.version>> ELSE <<>>)
    \o (IF c.op \in Writes THEN <<value>> ELSE <<>>)

\* The server's decoder (external): a duration follows for each unit that is
\* not DEFAULT, lifespan first; then the version; then the value.
Decode(op, body) ==
    LET hasLife == op \in Writes /\ body[1].high # DEFAULT
        hasIdle == op \in Writes /\ body[1].low # DEFAULT
        n == (IF op \in Writes THEN 1 ELSE 0)
                + (IF hasLife THEN 1 ELSE 0) + (IF hasIdle THEN 1 ELSE 0)
    IN  [lifespan |-> IF hasLife THEN body[2] ELSE 0,
         maxIdle |-> IF hasIdle THEN body[IF hasLife THEN 3 ELSE 2] ELSE 0,
         version |-> IF op \in VersionedOps THEN body[n + 1] ELSE 0,
         value |-> IF op \in Writes THEN body[Len(body)] ELSE 0]

-----------------------------------------------------------------------------
(* Body parsers: how many fields of s, the stream after the header, they    *)
(* take for each status.                                                    *)

\* Mutant: the optional fields are read when the bit of the flag is set.
Bug_FlagInverted(s) ==
    IF s = <<>> THEN 2
    ELSE 2 + (IF s[1].field = "flag" /\ s[1].lifeInfinite THEN 2 ELSE 0)
           + (IF s[1].field = "flag" /\ s[1].idleInfinite THEN 2 ELSE 0)

\* The flag, created and lifespan, last_used and max_idle, the version.  A byte
\* that is no flag is read as one: the shortest reading is modelled.
receiveMetadata(s) ==
    IF s = <<>> THEN 2
    ELSE 2 + (IF s[1].field = "flag" /\ ~s[1].lifeInfinite THEN 2 ELSE 0)
           + (IF s[1].field = "flag" /\ ~s[1].idleInfinite THEN 2 ELSE 0)

\* Metadata, then the value.
receiveEntry(s) == receiveMetadata(s) + 1

parseGet(status)                == IF status = SUCCESS THEN 1 ELSE 0
parseGetWithMetadata(status, s) == IF status = SUCCESS THEN receiveEntry(s) ELSE 0

parsePut(status, s) ==
    IF status # SUCCESS_WITH_PREVIOUS THEN 0
    ELSE IF Version >= 40 THEN receiveEntry(s) ELSE 1

\* remove, removeWithVersion, replaceWithVersion, putIfAbsent and replace
parseWithPrevious(status, s) == IF status \in WithPrevious THEN receiveEntry(s) ELSE 0

parseContainsKey == 0    \* only a status

\* Two media types, the server version and the opcodes.  The parameters of a
\* media type are counted and not read: a server that sends none is assumed.
parsePing(status) == IF status = SUCCESS THEN 4 ELSE 0

bodyParser(op, status, s) ==
    CASE op = "get"             -> parseGet(status)
      [] op = "getWithMetadata" -> parseGetWithMetadata(status, s)
      [] op = "containsKey"     -> parseContainsKey
      [] op = "put"             -> parsePut(status, s)
      [] op = "ping"            -> parsePing(status)
      [] OTHER                  -> parseWithPrevious(status, s)

\* The statuses that are not a ServerError, thrown by the parser or, for put, by
\* the continuation of the future.
AcceptedByPing       == {SUCCESS}
AcceptedByReads      == {SUCCESS, NOT_EXECUTED, KEY_DOES_NOT_EXIST}
AcceptedByPut        == {SUCCESS, SUCCESS_WITH_PREVIOUS}
AcceptedWithPrevious == 0..4

Accepted(op) ==
    CASE op = "ping" -> AcceptedByPing
      [] op \in {"get", "getWithMetadata", "containsKey"} -> AcceptedByReads
      [] op = "put" -> AcceptedByPut
      [] OTHER -> AcceptedWithPrevious

\* Mutant: the entry is handed out on success only.
Bug_EntryOnSuccessOnly(op, status) ==
    \/ op \in {"get", "getWithMetadata"} /\ status = SUCCESS
    \/ op \in {"put", "remove"} \cup Conditional /\ status = SUCCESS_WITH_PREVIOUS

\* The caller gets the entry that was parsed, and not std::nullopt.
YieldsEntry(op, status) ==
    \/ op \in {"get", "getWithMetadata"} /\ status = SUCCESS
    \/ op \in {"put", "remove"} /\ status = SUCCESS_WITH_PREVIOUS
    \/ op \in Conditional /\ status \in WithPrevious

\* Mutant: every status but KEY_DOES_NOT_EXIST counts as done.
Bug_AnswerMeansTrue(op, status) ==
    op \in VersionedOps \cup {"containsKey"} /\ status # KEY_DOES_NOT_EXIST

\* What the operations that return a bool return.
YieldsTrue(op, status) ==
    \/ op \in VersionedOps /\ status \in {SUCCESS, SUCCESS_WITH_PREVIOUS}
    \/ op = "containsKey" /\ status = SUCCESS

-----------------------------------------------------------------------------
(* The server (external) *)

\* Does the call change the entry e?
Executes(c, d, e) ==
    CASE c.op = "put" -> TRUE
      [] c.op = "putIfAbsent" -> e = Absent
      [] c.op \in {"replace", "remove"} -> e # Absent
      [] c.op \in VersionedOps -> e # Absent /\ e.value = d.version
      [] OTHER -> FALSE

After(c, d, e) ==
    IF ~Executes(c, d, e) THEN e
    ELSE IF c.op \in Writes
         THEN [value |-> d.value, lifespan |-> d.lifespan, maxIdle |-> d.maxIdle]
         ELSE Absent

\* The previous entry is returned on FORCE_RETURN_VALUE, if there is one.
StatusOf(c, d, e) ==
    LET previous == c.previousValue /\ e # Absent IN
    CASE c.op = "ping" -> SUCCESS
      [] c.op \in {"get", "getWithMetadata", "containsKey"} ->
            IF e = Absent THEN KEY_DOES_NOT_EXIST ELSE SUCCESS
      [] OTHER ->
            IF Executes(c, d, e)
            THEN IF previous THEN SUCCESS_WITH_PREVIOUS ELSE SUCCESS
            ELSE IF c.op \in Conditional
            THEN IF previous THEN NOT_EXECUTED_WITH_PREVIOUS ELSE NOT_EXECUTED
            ELSE IF e = Absent THEN KEY_DOES_NOT_EXIST ELSE NOT_EXECUTED

Field(f, x) == [field |-> f, is |-> x]

Metadata(e) ==
    <<[field |-> "flag", lifeInfinite |-> e.lifespan = 0, idleInfinite |-> e.maxIdle = 0]>>
    \o (IF e.lifespan = 0 THEN <<>> ELSE <<Field("created", 0), Field("lifespan", e.lifespan)>>)
    \o (IF e.maxIdle = 0 THEN <<>> ELSE <<Field("lastUsed", 0), Field("maxIdle", e.maxIdle)>>)
    \o <<Field("version", e.value)>>

\* "Protocol 4.0+ returns metadata + value", earlier versions the value alone.
ResponseBody(c, status, e) ==
    LET value == <<Field("value", e.value)>> IN
    CASE c.op = "ping" /\ status = SUCCESS ->
            <<Field("mediaType", 0), Field("mediaType", 0),
              Field("serverVersion", 0), Field("opcodes", 0)>>
      [] c.op = "get" /\ status = SUCCESS -> value
      [] c.op = "getWithMetadata" /\ status = SUCCESS -> Metadata(e) \o value
      [] status \in WithPrevious -> (IF Version >= 40 THEN Metadata(e) ELSE <<>>) \o value
      [] OTHER -> <<>>

-----------------------------------------------------------------------------
(* Behaviour *)

Nothing == [call |-> "none"]

Init ==
    /\ made = 0 /\ calls = <<>> /\ requests = <<>> /\ stream = <<>>
    /\ store = Absent /\ last = Nothing

MakeCall ==
    /\ made < MaxCalls
    /\ made' = made + 1
    /\ \E c \in Call :
          /\ calls' = Append(calls, c)
          /\ requests' = Append(requests, [call |-> c, body |-> requestBody(c, made + 1)])
    /\ UNCHANGED <<store, stream, last>>

\* The header carries the status; before and after are history: the entry the
\* call met and the one it left.
ServerAnswers ==
    /\ requests # <<>>
    /\ LET q == Head(requests)
           d == Decode(q.call.op, q.body)
       IN  \E refused \in BOOLEAN :
              LET status == IF refused THEN UNKNOWN ELSE StatusOf(q.call, d, store)
                  body == ResponseBody(q.call, status, store)
              IN  /\ store' = IF refused THEN store ELSE After(q.call, d, store)
                  /\ stream' = stream \o
                        <<[field |-> "header", status |-> status, body |-> body,
                           before |-> store, after |-> store']>> \o body
    /\ requests' = Tail(requests)
    /\ UNCHANGED <<made, calls, last>>

\* The read loop takes a header and lets the parser of the call take the body;
\* recv() waits until enough has arrived.  The future yields the result.  The
\* loop ends at anything else than a header: no step is left to it.
ReadResponse ==
    /\ stream # <<>>
    /\ Head(stream).field = "header"
    /\ LET h == Head(stream)
           c == Head(calls)
           rest == Tail(stream)
           n == bodyParser(c.op, h.status, rest)
           threw == h.status \notin Accepted(c.op)
       IN  /\ Len(rest) >= n
           /\ stream' = SubSeq(rest, n + 1, Len(rest))
           /\ last' = [call |-> c, header |-> h, fields |-> SubSeq(rest, 1, n),
                       threw |-> threw,
                       entry |-> ~threw /\ YieldsEntry(c.op, h.status),
                       true |-> ~threw /\ YieldsTrue(c.op, h.status)]
           /\ calls' = Tail(calls)
    /\ UNCHANGED <<made, requests, store>>

Next == MakeCall \/ ServerAnswers \/ ReadResponse

Spec == Init /\ [][Next]_vars

-----------------------------------------------------------------------------
(* Properties *)

Finished == last # Nothing

\* For each status of each operation the body parser of RemoteCache.cpp takes
\* from the stream the fields the server sent with it, no more and no fewer:
\* the next response of the shared read loop starts where this one ends.
TakesItsOwnBody == Finished => last.fields = last.header.body

\* An operation yields an entry iff it was asked for one and the key had one
\* that the protocol returns, and it is the entry the call met: the previous
\* one, not the one the call wrote.
EntryIsThePreviousOne ==
    (Finished /\ ~last.threw) =>
        LET wants == \/ last.call.op \in {"get", "getWithMetadata"}
                     \/ last.call.previousValue
            e == last.header.before
        IN  /\ last.entry = (wants /\ e # Absent)
            /\ last.entry => last.fields[Len(last.fields)] = Field("value", e.value)

\* A conditional operation returns true iff it changed the entry on the server,
\* and containsKey iff there is one; an exception means nothing was changed.
TrueMeansDone ==
    Finished =>
        /\ last.call.op \in VersionedOps =>
              (last.true = (last.header.before # last.header.after))
        /\ (last.call.op = "containsKey" /\ ~last.threw) =>
              (last.true = (last.header.before # Absent))
        /\ last.threw => last.header.before = last.header.after

\* What the caller asked for is what the server stores: the lifespan, the max
\* idle time and the value of the call that wrote the entry, whichever of the
\* optional fields were present, and only if a version that was given matched.
StoredAsAsked ==
    (Finished /\ last.header.after # last.header.before /\ last.call.op \in Writes) =>
        /\ last.header.after.lifespan = last.call.lifespan
        /\ last.header.after.maxIdle = last.call.maxIdle
        /\ last.call.op \in VersionedOps => last.header.before.value = last.call.version
=============================================================================
