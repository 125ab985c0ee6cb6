-------------------------------- MODULE Wire --------------------------------
(***************************************************************************)
(* The bytes of a connection: Codec and HeaderCodec, which encode, send()  *)
(* and receive() of Connection, which meet a kernel that takes and gives   *)
(* any part of what they ask for, and writeMutex_ of MultiplexedConnection,*)
(* which keeps the frames of two threads apart.                            *)
(*                                                                         *)
(* The caller threads write one request each.  The server (external)       *)
(* parses the stream with the read functions of Codec and answers with the *)
(* payload it was sent; the read thread decodes the answers field by field *)
(* as they arrive.  Responses are matched by id in MultiplexedConnection;  *)
(* here only the bytes matter.                                             *)
(*                                                                         *)
(* The sizes of the code are 7-bit groups, 32-bit vInts, 64-bit vLongs and *)
(* 8-byte longs; smaller ones keep the boundaries and shorten the frames.  *)
(***************************************************************************)
EXTENDS Integers, Sequences, SequencesExt, FiniteSetsExt

CONSTANTS
    Threads,        \* the callers of execute()
    Nobody,         \* no thread holds writeMutex_
    Base,           \* 2^7: the values of one group of a vInt
    VIntValues,     \* 2^32: the values of a vInt
    VLongValues,    \* 2^64: the values of a vLong
    Byte,           \* 2^8: the values of a byte of a long
    LongBytes,      \* 8: the bytes of a long
    Versions,       \* the protocol versions
    Payloads        \* the requests: [id, cache, flags, topology, key, version]

VARIABLES
    protocolVersion,    \* protocolVersion_
    payload,        \* what each thread wants to send
    pc,             \* where each thread stands
    rest,           \* its frame from totalSent on
    writeMutex,     \* the holder of writeMutex_
    wire,           \* what the kernel took: from here to the server
    inbox,          \* what the kernel holds for recv()
    cut,            \* the server has gone
    request,        \* the fields of the request that the server is parsing
    parsed,         \* the requests that the server has parsed, in order
    field,          \* the field that the read thread is receiving
    need,           \* length - totalReceived of its receive()
    buffer,         \* what this receive() has got
    sum,            \* the vInt so far, and 2^shift
    response,       \* the fields of the response so far
    decoded         \* the responses it has decoded, in order

senderVars == <<payload, pc, rest, writeMutex, protocolVersion>>
readerVars == <<field, need, buffer, sum, response, decoded>>
vars == <<senderVars, readerVars, wire, inbox, cut, request, parsed>>

-----------------------------------------------------------------------------
(* Codec: writing *)

\* Mutant: off by one, the first value that needs two groups is written as one.
Bug_ContinueAtBase ==
    LET f[v \in 0..(VLongValues - 1)] ==
            IF v <= Base THEN <<v>> ELSE <<(v % Base) + Base>> \o f[v \div Base]
    IN f

\* Seven bits at a time, the low ones first; the high bit says that more follow.
writeVInt ==
    LET f[v \in 0..(VLongValues - 1)] ==
            IF v < Base THEN <<v>> ELSE <<(v % Base) + Base>> \o f[v \div Base]
    IN f

\* The same loop on a wider type.
writeVLong(v) == writeVInt[v % VLongValues]

writeByteArray(bytes) == writeVInt[Len(bytes) % VIntValues] \o bytes
writeString(chars) ==
    IF chars = <<>> THEN writeVInt[0] ELSE writeVInt[Len(chars) % VIntValues] \o chars

\* 2^(8k): to shift by k bytes is to multiply or divide by it.
Shift[k \in 0..LongBytes] == IF k = 0 THEN 1 ELSE Byte * Shift[k - 1]

\* Most significant byte first, in two's complement.
writeLong(n) ==
    [i \in 1..LongBytes |-> (n \div Shift[LongBytes - i]) % Byte]

REQUEST_MAGIC  == 160
RESPONSE_MAGIC == 161

\* The media types and the count of other parameters, since 4.0: all zero.
writeParams(version) == IF version >= 40 THEN <<0, 0>> \o writeVInt[0] ELSE <<>>

\* buildRequest(): the header of writeRequestHeader(), then the body of an
\* operation that names a key and a version.
writeRequest(version, p) ==
    <<REQUEST_MAGIC>> \o writeVLong(p.id) \o <<version, p.opcode>>
    \o writeString(p.cache) \o writeVInt[p.flags] \o <<p.intelligence>>
    \o writeVInt[p.topology] \o writeParams(version)
    \o writeByteArray(p.key) \o writeLong(p.version)

-----------------------------------------------------------------------------
(* Codec: reading from a buffer *)

\* What a read function returns, and the bytes it has used: none when it throws,
\* since the buffer ends too early.
TooShort == [value |-> 0, used |-> 0]

readByte(b) == IF b = <<>> THEN TooShort ELSE [value |-> b[1], used |-> 1]

\* result |= group << shift, where shifted is 2^shift.
addGroup(got, group, size) ==
    [result  |-> (got.result + (group % Base) * got.shifted) % size,
     shifted |-> got.shifted * Base]
NoGroup == [result |-> 0, shifted |-> 1]

\* Groups up to the first without the high bit.
readVInt(b, size) ==
    LET ends == {i \in 1..Len(b) : b[i] < Base}
        loop[i \in 0..Min(ends)] ==
            IF i = 0 THEN NoGroup ELSE addGroup(loop[i - 1], b[i], size)
    IN IF ends = {} THEN TooShort ELSE [value |-> loop[Min(ends)].result, used |-> Min(ends)]

readVLong(b) == readVInt(b, VLongValues)

\* readString() does the same.
readByteArray(b) ==
    LET length == readVInt(b, VIntValues)
        last   == length.used + length.value
    IN IF length.used = 0 \/ last > Len(b) THEN TooShort
       ELSE [value |-> SubSeq(b, length.used + 1, last), used |-> last]

\* result = (result << 8) | byte, as a signed number
longValue(bytes) ==
    LET result[i \in 0..LongBytes] == IF i = 0 THEN 0 ELSE result[i - 1] * Byte + bytes[i]
        n == result[LongBytes]
    IN IF 2 * n >= Shift[LongBytes] THEN n - Shift[LongBytes] ELSE n

readLong(b) ==
    IF Len(b) < LongBytes THEN TooShort
    ELSE [value |-> longValue(SubSeq(b, 1, LongBytes)), used |-> LongBytes]

-----------------------------------------------------------------------------
\* The types of the arguments; an array is shorter than its length can say.
ASSUME WireAssumption ==
    /\ Threads # {} /\ Nobody \notin Threads
    /\ Base \in Nat /\ Base >= 2 /\ Byte \in Nat /\ Byte >= 2 /\ LongBytes \in Nat \ {0}
    /\ VIntValues \in Nat \ {0} /\ VLongValues \in Nat /\ VIntValues <= VLongValues
    /\ Versions \subseteq {v \in Nat : v >= 40}
    /\ Payloads \subseteq
          [id : 0..(VLongValues - 1), opcode : Nat, cache : Seq(Nat),
           flags : 0..(VIntValues - 1), intelligence : Nat, topology : 0..(VIntValues - 1),
           key : Seq(Nat), version : Int]
    /\ \A p \in Payloads :
          /\ Len(p.cache) < VIntValues /\ Len(p.key) < VIntValues
          /\ -Shift[LongBytes] <= 2 * p.version /\ 2 * p.version < Shift[LongBytes]

Init ==
    /\ protocolVersion \in Versions
    /\ payload \in {f \in [Threads -> Payloads] :
                       \A s, t \in Threads : s # t => f[s] # f[t]}
    /\ pc = [t \in Threads |-> "idle"] /\ rest = [t \in Threads |-> <<>>]
    /\ writeMutex = Nobody
    /\ wire = <<>> /\ inbox = <<>> /\ cut = FALSE
    /\ request = <<>> /\ parsed = <<>>
    /\ field = "magic" /\ need = 1 /\ buffer = <<>> /\ sum = NoGroup
    /\ response = <<>> /\ decoded = <<>>

-----------------------------------------------------------------------------
(* The callers: buildRequest() without a lock, send() under writeMutex_ *)

Build(t) ==
    /\ pc[t] = "idle"
    /\ rest' = [rest EXCEPT ![t] = writeRequest(protocolVersion, payload[t])]
    /\ pc' = [pc EXCEPT ![t] = "built"]
    /\ UNCHANGED <<writeMutex, wire>>

Bug_NoWriteMutex(t) ==    \* mutant: nobody is kept out
    /\ pc[t] = "built"
    /\ writeMutex' = t
    /\ pc' = [pc EXCEPT ![t] = "sending"]
    /\ UNCHANGED <<rest, wire>>

LockWrite(t) ==
    /\ pc[t] = "built" /\ writeMutex = Nobody
    /\ writeMutex' = t
    /\ pc' = [pc EXCEPT ![t] = "sending"]
    /\ UNCHANGED <<rest, wire>>

\* ::send() takes any part of the rest, and all of it reaches a server that is up.
SendSome(t) ==
    /\ pc[t] = "sending" /\ rest[t] # <<>>
    /\ \E n \in 1..Len(rest[t]) :
          /\ wire' = IF cut THEN wire ELSE wire \o SubSeq(rest[t], 1, n)
          /\ rest' = [rest EXCEPT ![t] = SubSeq(@, n + 1, Len(@))]
    /\ UNCHANGED <<pc, writeMutex>>

\* ::send() returns -1: send() throws, and the lock_guard unlocks.
SendThrows(t) ==
    /\ pc[t] = "sending" /\ rest[t] # <<>>
    /\ cut
    /\ pc' = [pc EXCEPT ![t] = "threw"]
    /\ writeMutex' = Nobody
    /\ UNCHANGED <<rest, wire>>

UnlockWrite(t) ==
    /\ pc[t] = "sending" /\ rest[t] = <<>>
    /\ pc' = [pc EXCEPT ![t] = "sent"]
    /\ writeMutex' = Nobody
    /\ UNCHANGED <<rest, wire>>

Sender(t) ==
    /\ Build(t) \/ LockWrite(t) \/ SendSome(t) \/ SendThrows(t) \/ UnlockWrite(t)
    /\ UNCHANGED <<protocolVersion, payload, readerVars, inbox, cut, request, parsed>>

-----------------------------------------------------------------------------
(* The server (external) *)

\* A request of version 4.0 and up, field by field.
Grammar == <<"magic", "id", "version", "opcode", "cache", "flags", "intelligence",
             "topology", "keyType", "valueType", "params", "key", "entryVersion">>
readField(f) ==
    CASE f = "id" -> readVLong(wire)
      [] f \in {"flags", "topology", "params"} -> readVInt(wire, VIntValues)
      [] f \in {"cache", "key"} -> readByteArray(wire)
      [] f = "entryVersion" -> readLong(wire)
      [] OTHER -> readByte(wire)

AsPayload(r) ==
    [id |-> r[2], opcode |-> r[4], cache |-> r[5], flags |-> r[6],
     intelligence |-> r[7], topology |-> r[8], key |-> r[12], version |-> r[13]]

\* The answer: magic, id, opcode, status and topology marker, then a byte array
\* and a long.
writeResponse(p) ==
    <<RESPONSE_MAGIC>> \o writeVLong(p.id) \o <<p.opcode + 1, 0, 0>>
    \o writeByteArray(p.key) \o writeLong(p.version)

\* The server takes the next field, once all of it is there.
ServerRead ==
    /\ ~cut /\ Len(request) < Len(Grammar)
    /\ LET got == readField(Grammar[Len(request) + 1])
       IN /\ got.used > 0
          /\ wire' = SubSeq(wire, got.used + 1, Len(wire))
          /\ request' = Append(request, got.value)
    /\ UNCHANGED <<senderVars, readerVars, inbox, cut, parsed>>

ServerAnswer ==
    /\ ~cut /\ Len(request) = Len(Grammar)
    /\ parsed' = Append(parsed, AsPayload(request))
    /\ inbox' = inbox \o writeResponse(AsPayload(request))
    /\ request' = <<>>
    /\ UNCHANGED <<senderVars, readerVars, wire, cut>>

\* The connection is lost: any suffix of what was on its way never arrives.
Cut ==
    /\ ~cut
    /\ cut' = TRUE
    /\ \E n \in 0..Len(inbox) : inbox' = SubSeq(inbox, 1, n)
    /\ wire' = <<>> /\ request' = <<>>
    /\ UNCHANGED <<senderVars, readerVars, parsed>>

-----------------------------------------------------------------------------
(* The read thread *)

\* recv() returns any part of what is there.
Recv ==
    /\ field # "threw" /\ need > 0
    /\ \E n \in 1..Min({need, Len(inbox)}) :
          /\ buffer' = buffer \o SubSeq(inbox, 1, n)
          /\ inbox' = SubSeq(inbox, n + 1, Len(inbox))
          /\ need' = need - n
    /\ UNCHANGED <<field, sum, response, decoded>>

\* recv() returns 0: receive() throws, in whatever field.
RecvThrows ==
    /\ field # "threw" /\ need > 0
    /\ inbox = <<>> /\ cut
    /\ field' = "threw"
    /\ UNCHANGED <<need, buffer, sum, response, decoded, inbox>>

\* The next field begins with a receive() of n bytes.
Await(f, n) ==
    /\ field' = f /\ need' = n /\ buffer' = <<>> /\ sum' = NoGroup

Received(f) == field = f /\ need = 0

ReadMagic ==
    /\ Received("magic")
    /\ buffer = <<RESPONSE_MAGIC>>
    /\ Await("id", 1)
    /\ UNCHANGED <<response, decoded>>

\* receiveVInt() and receiveVLong(): the next group is in the buffer.
Accumulated(size) == addGroup(sum, buffer[1], size)

ReadGroup(f, size) ==
    /\ Received(f)
    /\ buffer[1] >= Base
    /\ sum' = Accumulated(size)
    /\ need' = 1 /\ buffer' = <<>>
    /\ UNCHANGED <<field, response, decoded>>

ReadId ==
    /\ Received("id")
    /\ buffer[1] < Base
    /\ response' = <<Accumulated(VLongValues).result>>
    /\ Await("tail", 3)
    /\ UNCHANGED decoded

\* Opcode, status and topology marker.
ReadTail ==
    /\ Received("tail")
    /\ response' = Append(response, buffer[1])
    /\ Await("length", 1)
    /\ UNCHANGED decoded

\* receiveByteArray(): nothing is received for a length of 0.
ReadLength ==
    /\ Received("length")
    /\ buffer[1] < Base
    /\ LET length == Accumulated(VIntValues).result
       IN \/ length > 0 /\ Await("bytes", length) /\ response' = response
          \/ length = 0 /\ Await("long", LongBytes) /\ response' = Append(response, <<>>)
    /\ UNCHANGED decoded

ReadBytes ==
    /\ Received("bytes")
    /\ response' = Append(response, buffer)
    /\ Await("long", LongBytes)
    /\ UNCHANGED decoded

ReadLongField ==
    /\ Received("long")
    /\ decoded' = Append(decoded, Append(response, longValue(buffer)))
    /\ response' = <<>>
    /\ Await("magic", 1)

Reader ==
    /\ \/ Recv \/ RecvThrows
       \/ /\ inbox' = inbox
          /\ \/ ReadMagic
             \/ ReadGroup("id", VLongValues) \/ ReadId
             \/ ReadTail
             \/ ReadGroup("length", VIntValues) \/ ReadLength
             \/ ReadBytes \/ ReadLongField
    /\ UNCHANGED <<senderVars, wire, cut, request, parsed>>

Next == (\E t \in Threads : Sender(t)) \/ ServerRead \/ ServerAnswer \/ Cut \/ Reader

Spec == Init /\ [][Next]_vars

\* Every thread runs; a server that is up parses what has arrived.
FairSpec == /\ Spec
            /\ \A t \in Threads : WF_vars(Sender(t))
            /\ WF_vars(ServerRead) /\ WF_vars(ServerAnswer) /\ WF_vars(Reader)

-----------------------------------------------------------------------------
(* Properties *)

\* What the server should read of a request, and the read thread of its answer.
Fields(p) == <<REQUEST_MAGIC, p.id, protocolVersion, p.opcode, p.cache, p.flags,
               p.intelligence, p.topology, 0, 0, 0, p.key, p.version>>
Answer(p) == <<p.id, p.opcode + 1, p.key, p.version>>

\* "Send request (protected by write mutex)" and the loops of send() and
\* receive(): what one side decodes is what the other encoded, whole and in order,
\* however the kernel splits the bytes and the threads interleave, up to the
\* largest ids and lengths and the sign of a version; a cut never shortens a value.
ReadAsWritten ==
    /\ \E t \in Threads : IsPrefix(request, Fields(payload[t]))
    /\ \A i \in 1..Len(parsed) : \E t \in Threads : parsed[i] = payload[t]
    /\ \A i, j \in 1..Len(parsed) : parsed[i] = parsed[j] => i = j
    /\ Len(decoded) <= Len(parsed)
    /\ \A i \in 1..Len(decoded) : decoded[i] = Answer(parsed[i])

\* No side waits for bytes that the other will never send: without a cut every
\* request is parsed and its answer decoded.
EverythingArrives ==
    \A t \in Threads :
        <>((\E i \in 1..Len(decoded) : decoded[i] = Answer(payload[t])) \/ cut)
=============================================================================
