---------------------------- MODULE SaslHandshake ----------------------------
(***************************************************************************)
(* The SASL SCRAM handshake that MultiplexedConnection::connect() runs     *)
(* before the read thread exists (src/src/auth/SaslAuthenticator.cpp,      *)
(* SCRAM.cpp).  It blocks: three times a request is sent and the fields of *)
(* its answer are read one by one, since a response has no total length.   *)
(* Then the read thread takes over the same byte stream.                   *)
(*                                                                         *)
(* Cryptography is symbolic: what a function of SCRAM returns is the tuple *)
(* of its arguments, so two results are equal only if those are.           *)
(*                                                                         *)
(* inbox holds the fields of the response on its way.  The server is       *)
(* external: one that follows the protocol, or one that sends anything a   *)
(* response can hold and checks no proof.                                  *)
(***************************************************************************)
EXTENDS Naturals, Sequences

CONSTANTS
    Passwords,      \* the passwords that the client and the server may hold
    Mechanisms,     \* the mechanisms that the client may be configured with
    Offers,         \* the mechanism lists that servers send
    MaxSessions     \* bound: how often connect() is called

ASSUME HandshakeAssumption ==
    /\ Offers \subseteq Seq(STRING) /\ Mechanisms \subseteq STRING
    /\ MaxSessions \in Nat

VARIABLES
    \* the configuration, fixed
    password,       \* auth_.password
    mechanism,      \* auth_.mechanism
    aware,          \* intelligence_ is TOPOLOGY_AWARE or better
    offer,          \* the server's mechanisms
    secret,         \* the password that the server has for the user
    correct,        \* the server follows the protocol
    \* the client
    turn,           \* the exchange: "list", "first" or "final"
    step,           \* where connect() stands in it
    header,         \* the response header it is processing
    left,           \* mechCount - i
    offered,        \* offered
    completed,      \* completed
    nonce,          \* nonce, fresh in every session
    serverFirst,    \* serverFirst
    thrown,         \* the phase of the exception that connect() threw
    sessions,       \* number of sockets opened so far
    \* the network and the server (external)
    peer, outbox, inbox,
    cut,            \* the connection was lost in this session
    first,          \* the server-first message it sent in this session
    signed,         \* the AuthMessage it signed
    accepted,       \* it verified the client's proof
    refused         \* it sent an ERROR

config  == <<password, mechanism, aware, offer, secret, correct>>
local   == <<left, offered, completed, nonce, serverFirst, header>>
network == <<peer, outbox, inbox>>
server  == <<cut, first, signed, accepted, refused>>
vars    == <<config, turn, step, thrown, sessions, local, network, server>>

-----------------------------------------------------------------------------
(* SCRAM *)

NoMessage == [type |-> "none"]

\* SCRAM::digestForMechanism() knows these.
Supported == {"SCRAM-SHA-1", "SCRAM-SHA-256", "SCRAM-SHA-512"}

\* client-first-bare, server-first and client-final-without-proof
authMessage(n, sf) == <<n, sf, sf.nonce>>

\* PBKDF2 over the password and the salt, with the digest of the mechanism.
\* OpenSSL refuses some salts and iteration counts.
SaltedPassword(pwd, sf, mech) == <<pwd, sf.salt, mech>>
Derivable(sf) == sf.salt # "refused"

hmac(key, message) == <<"HMAC", key, message>>
hash(data)         == <<"H", data>>
xorBytes(x, y)     == <<"XOR", x, y>>

ClientProof(pwd, n, sf, mech) ==
    LET clientKey == hmac(SaltedPassword(pwd, sf, mech), "Client Key")
    IN xorBytes(clientKey, hmac(hash(clientKey), authMessage(n, sf)))
ServerSignature(pwd, n, sf, mech) ==
    LET serverKey == hmac(SaltedPassword(pwd, sf, mech), "Server Key")
    IN hmac(serverKey, authMessage(n, sf))

\* parseServerFirstMessage() finds a nonce, a salt and an iteration count.
Parses(sf) == sf.type = "server-first"

\* The combined nonce begins with the client's.
ExtendsNonce(sf) == sf.nonce[1] = nonce

\* "v=" and the signature that the client computes for itself.
verifyServerFinalMessage(final) ==
    /\ final.type = "server-final"
    /\ final.signature = ServerSignature(password, nonce, serverFirst, mechanism)

-----------------------------------------------------------------------------
Init ==
    /\ password \in Passwords /\ secret \in Passwords
    /\ mechanism \in Mechanisms /\ offer \in Offers
    /\ aware \in BOOLEAN /\ correct \in BOOLEAN
    /\ turn = "list" /\ step = "idle" /\ thrown = "none" /\ sessions = 0
    /\ left = 0 /\ offered = FALSE /\ completed = FALSE
    /\ nonce = 0 /\ serverFirst = NoMessage /\ header = NoMessage
    /\ peer = "gone" /\ outbox = <<>> /\ inbox = <<>>
    /\ cut = FALSE /\ first = NoMessage /\ signed = <<>> /\ accepted = FALSE /\ refused = FALSE

-----------------------------------------------------------------------------
(* connect() *)

\* A new Connection, and a new SaslAuthenticator.  The name may not resolve, or
\* no address answer: a plain runtime_error.
Open ==
    /\ step \in {"idle", "failed"}
    /\ sessions < MaxSessions
    /\ sessions' = sessions + 1
    /\ \/ step' = "mechanism" /\ thrown' = "none" /\ peer' = "up"
       \/ step' = "failed" /\ thrown' = "untyped" /\ peer' = "gone"
    /\ turn' = "list" /\ left' = 0 /\ offered' = FALSE /\ completed' = FALSE
    /\ serverFirst' = NoMessage /\ header' = NoMessage
    /\ outbox' = <<>> /\ inbox' = <<>>
    /\ cut' = FALSE /\ first' = NoMessage /\ signed' = <<>>
    /\ accepted' = FALSE /\ refused' = FALSE
    /\ UNCHANGED <<config, nonce>>

\* The catch block of connect(): the socket is closed, the Connection reset, the
\* exception thrown again.
Throw(phase) ==
    /\ thrown' = phase
    /\ step' = "failed"
    /\ peer' = "gone" /\ outbox' = <<>> /\ inbox' = <<>>
    /\ turn' = turn

\* The handshake goes on, at step s of exchange t.
Go(t, s) ==
    /\ turn' = t /\ step' = s
    /\ UNCHANGED thrown

ChooseDigest ==
    /\ step = "mechanism"
    /\ \/ mechanism \in Supported /\ Go("list", "send") /\ UNCHANGED network
       \/ mechanism \notin Supported /\ Throw("BeforeSend")
    /\ UNCHANGED local

\* ConnectionSaslTransport::sendRequest().  Once the peer is gone the bytes reach
\* nobody, or send() throws.
sendRequest(request) ==
    \/ /\ Go(turn, "header")
       /\ outbox' = IF peer = "up" THEN <<request>> ELSE <<>>
       /\ UNCHANGED <<peer, inbox>>
    \/ /\ peer = "gone"
       /\ Throw("AfterSend")

SendMechList ==
    /\ step = "send" /\ turn = "list"
    /\ sendRequest([type |-> "list"])
    /\ UNCHANGED local

\* Fresh in every session.
generateNonce == sessions

\* createClientFirstMessage(), unless RAND_bytes() fails for the nonce.
SendClientFirst ==
    /\ step = "send" /\ turn = "first"
    /\ nonce' = generateNonce
    /\ \/ sendRequest([type |-> "client-first", mech |-> mechanism, nonce |-> nonce'])
       \/ Throw("untyped")
    /\ UNCHANGED <<left, offered, completed, serverFirst, header>>

\* createClientFinalMessage() runs outside of any try block of authenticate().
SendClientFinal ==
    /\ step = "send" /\ turn = "final"
    /\ \/ /\ Derivable(serverFirst)
          /\ sendRequest([type |-> "client-final", mech |-> mechanism,
                          nonce |-> serverFirst.nonce,
                          proof |-> ClientProof(password, nonce, serverFirst, mechanism)])
       \/ /\ ~Derivable(serverFirst)
          /\ Throw("untyped")
    /\ UNCHANGED local
-----------------------------------------------------------------------------
(* readResponseHeader() *)

\* receive() returns the next field.
Receive(field) ==
    /\ inbox # <<>>
    /\ Head(inbox).field = field
    /\ inbox' = Tail(inbox)
    /\ UNCHANGED <<peer, outbox>>

\* receive() throws: the stream has ended.
ReceiveThrows ==
    /\ step \in {"header", "topology", "message", "count", "name", "flag", "challenge"}
    /\ inbox = <<>> /\ peer = "gone"
    /\ Throw("untyped")
    /\ UNCHANGED local

InvalidMagic ==
    /\ step = "header"
    /\ inbox # <<>> /\ Head(inbox).field # "header"
    /\ Throw("AfterSend")
    /\ UNCHANGED local

AfterHeader(h) == IF h.topology /\ aware THEN "topology" ELSE "check"

\* Magic, message id (not compared), opcode, status, topology marker.
ReadHeader ==
    /\ step = "header"
    /\ Receive("header")
    /\ header' = Head(inbox)
    /\ Go(turn, AfterHeader(Head(inbox)))
    /\ UNCHANGED <<left, offered, completed, nonce, serverFirst>>

\* A topology is parsed and thrown away, before anything is tested.
ReadTopology ==
    /\ step = "topology"
    /\ Receive("topology")
    /\ Go(turn, "check")
    /\ UNCHANGED local

Opcode == IF turn = "list" THEN "AUTH_MECH_LIST_RESPONSE" ELSE "AUTH_RESPONSE"

CheckHeader ==
    /\ step = "check"
    /\ \/ /\ header.opcode = "ERROR_RESPONSE"
          /\ Go(turn, "message") /\ UNCHANGED network
       \/ /\ header.opcode # "ERROR_RESPONSE" /\ header.status # "NO_ERROR"
          /\ Throw("ServerError")
       \/ /\ header.opcode \notin {"ERROR_RESPONSE", Opcode} /\ header.status = "NO_ERROR"
          /\ Throw("AfterSend")
       \/ /\ header.opcode = Opcode /\ header.status = "NO_ERROR"
          /\ Go(turn, IF turn = "list" THEN "count" ELSE "flag") /\ UNCHANGED network
    /\ UNCHANGED local

ReadErrorMessage ==
    /\ step = "message"
    /\ inbox # <<>> /\ Head(inbox).field = "message"
    /\ Throw("ServerError")
    /\ UNCHANGED local
-----------------------------------------------------------------------------
(* The body of AUTH_MECH_LIST_RESPONSE *)

ReadCount ==
    /\ step = "count"
    /\ Receive("count")
    /\ left' = Head(inbox).value
    /\ Go(turn, "name")
    /\ UNCHANGED <<offered, completed, nonce, serverFirst, header>>

\* Mutant: the loop ends when the mechanism is found.
Bug_StopWhenFound ==
    /\ step = "name" /\ left > 0
    /\ Receive("name")
    /\ offered' = (Head(inbox).value = mechanism)
    /\ left' = IF offered' THEN 0 ELSE left - 1
    /\ Go(turn, "name")
    /\ UNCHANGED <<completed, nonce, serverFirst, header>>

\* The loop drains the list, whether the mechanism was found or not.
ReadName ==
    /\ step = "name" /\ left > 0
    /\ Receive("name")
    /\ left' = left - 1
    /\ offered' = (offered \/ Head(inbox).value = mechanism)
    /\ Go(turn, "name")
    /\ UNCHANGED <<completed, nonce, serverFirst, header>>

CheckOffered ==
    /\ step = "name" /\ left = 0
    /\ \/ offered /\ Go("first", "send") /\ UNCHANGED network
       \/ ~offered /\ Throw("AfterSend")
    /\ UNCHANGED local
-----------------------------------------------------------------------------
(* readAuth() and what follows it *)

ReadFlag ==
    /\ step = "flag"
    /\ Receive("flag")
    /\ completed' = Head(inbox).value
    /\ Go(turn, "challenge")
    /\ UNCHANGED <<left, offered, nonce, serverFirst, header>>

AtChallenge(t) ==
    /\ step = "challenge" /\ turn = t
    /\ inbox # <<>> /\ Head(inbox).field = "challenge"

Bug_AnyNonce(sf) == ~completed /\ Parses(sf)    \* mutant: nonces not compared
Plausible(sf) == ~completed /\ Parses(sf) /\ ExtendsNonce(sf)

\* Turn 1: the flag, the syntax and the nonce of server-first, in that order.
TakeServerFirst ==
    /\ AtChallenge("first")
    /\ LET sf == Head(inbox).value
       IN \/ /\ Plausible(sf)
             /\ serverFirst' = sf
             /\ Receive("challenge")
             /\ Go("final", "send")
          \/ /\ ~Plausible(sf)
             /\ Throw("ServerError")
             /\ UNCHANGED serverFirst
    /\ UNCHANGED <<left, offered, completed, nonce, header>>

\* Mutant: the client waits for the server to say that the exchange is complete.
Bug_AwaitCompletion ==
    /\ AtChallenge("final")
    /\ Receive("challenge")
    /\ verifyServerFinalMessage(Head(inbox).value)
    /\ Go("final", IF completed THEN "connected" ELSE "header")
    /\ UNCHANGED local

\* Mutant: the completed flag must be set in the end.
Bug_DemandCompletion ==
    /\ AtChallenge("final")
    /\ \/ /\ verifyServerFinalMessage(Head(inbox).value) /\ completed
          /\ Receive("challenge")
          /\ Go("final", "connected")
       \/ /\ ~(verifyServerFinalMessage(Head(inbox).value) /\ completed)
          /\ Throw("ServerError")
    /\ UNCHANGED local

\* Turn 2: an empty answer or a wrong signature fails; base64Decode() of a garbled
\* one may throw.  The completed flag is not looked at.  Then connected_ is set
\* and the read thread started.
TakeServerFinal ==
    /\ AtChallenge("final")
    /\ LET final == Head(inbox).value
       IN \/ /\ verifyServerFinalMessage(final)
             /\ Receive("challenge")
             /\ Go("final", "connected")
          \/ /\ ~verifyServerFinalMessage(final)
             /\ Throw("ServerError")
          \/ /\ final.type = "garbled"
             /\ Throw("untyped")
    /\ UNCHANGED local

Client ==
    /\ \/ ChooseDigest \/ SendMechList \/ SendClientFirst \/ SendClientFinal
       \/ ReceiveThrows \/ InvalidMagic \/ ReadHeader \/ ReadTopology \/ CheckHeader
       \/ ReadErrorMessage \/ ReadCount \/ ReadName \/ CheckOffered \/ ReadFlag
       \/ TakeServerFirst \/ TakeServerFinal
    /\ UNCHANGED <<config, sessions, server>>
-----------------------------------------------------------------------------
(* The server and the network (external) *)

\* A topology comes with any answer to a client that can use it.
Response(opcode, status, body) ==
    {<<[field |-> "header", opcode |-> opcode, status |-> status, topology |-> FALSE]>> \o body}
    \cup
    (IF aware
     THEN {<<[field |-> "header", opcode |-> opcode, status |-> status, topology |-> TRUE],
             [field |-> "topology"]>> \o body}
     ELSE {})

MechList == <<[field |-> "count", value |-> Len(offer)]>>
            \o [i \in 1..Len(offer) |-> [field |-> "name", value |-> offer[i]]]
Auth(done, challenge) == <<[field |-> "flag", value |-> done],
                           [field |-> "challenge", value |-> challenge]>>

Offered(mech) == \E i \in 1..Len(offer) : offer[i] = mech
FirstMessage(nonces, salt) == [type |-> "server-first", nonce |-> nonces, salt |-> salt]
FinalMessage(n, mech) ==
    [type |-> "server-final", signature |-> ServerSignature(secret, n, first, mech)]

Reply(tokens) ==
    /\ peer = "up" /\ outbox # <<>>
    /\ inbox' \in tokens
    /\ outbox' = <<>> /\ peer' = peer
    /\ UNCHANGED <<config, turn, step, thrown, sessions, local>>
Request == Head(outbox)

SendMechs ==
    /\ Reply(Response("AUTH_MECH_LIST_RESPONSE", "NO_ERROR", MechList))
    /\ Request.type = "list"
    /\ UNCHANGED server

\* Refuses a mechanism or a proof, or gives up for reasons of its own.
Refuse ==
    /\ Reply(Response("ERROR_RESPONSE", "SERVER_ERROR", <<[field |-> "message"]>>))
    /\ refused' = TRUE
    /\ UNCHANGED <<cut, first, signed, accepted>>

\* A correct server extends the nonce of the client with one of its own.
SendServerFirst ==
    /\ peer = "up" /\ outbox # <<>> /\ Request.type = "client-first"
    /\ Offered(Request.mech)
    /\ first' = FirstMessage(<<Request.nonce, sessions>>, "salt")
    /\ Reply(Response("AUTH_RESPONSE", "NO_ERROR", Auth(FALSE, first')))
    /\ UNCHANGED <<cut, signed, accepted, refused>>

\* A correct server signs what it has verified.  Infinispan leaves the completed
\* flag unset.
SendServerFinal ==
    /\ peer = "up" /\ outbox # <<>> /\ Request.type = "client-final" /\ first.type # "none"
    /\ LET n == first.nonce[1]
       IN /\ Request.nonce = first.nonce
          /\ Request.proof = ClientProof(secret, n, first, Request.mech)
          /\ signed' = authMessage(n, first)
          /\ Reply(UNION {Response("AUTH_RESPONSE", "NO_ERROR",
                              Auth(done, FinalMessage(n, Request.mech))) : done \in BOOLEAN})
    /\ accepted' = TRUE
    /\ UNCHANGED <<cut, first, refused>>

\* A faulty server: a byte that is not the magic, a status, or another opcode.
Misanswer ==
    /\ ~correct
    /\ Reply({<<[field |-> "garbage"]>>}
             \cup Response("AUTH_RESPONSE", "SERVER_ERROR", <<>>)
             \cup Response("PING_RESPONSE", "NO_ERROR", <<>>))
    /\ UNCHANGED server

\* Its server-first is early, broken, about another nonce, or cannot be used.
MisSendFirst ==
    /\ ~correct
    /\ peer = "up" /\ outbox # <<>> /\ Request.type = "client-first"
    /\ \E n \in {Request.nonce, sessions - 1}, salt \in {"salt", "refused"} :
          first' = FirstMessage(<<n, sessions>>, salt)
    /\ \/ \E done \in BOOLEAN : Reply(Response("AUTH_RESPONSE", "NO_ERROR", Auth(done, first')))
       \/ Reply(Response("AUTH_RESPONSE", "NO_ERROR", Auth(FALSE, [type |-> "unparsable"])))
    /\ UNCHANGED <<cut, signed, accepted, refused>>

\* It checks no proof, and signs this exchange, another one or nothing.
MisSendFinal ==
    /\ ~correct
    /\ peer = "up" /\ outbox # <<>> /\ Request.type = "client-final" /\ first.type # "none"
    /\ \E done \in BOOLEAN :
          \/ \E n \in {nonce, sessions - 1} :
                /\ signed' = authMessage(n, first)
                /\ Reply(Response("AUTH_RESPONSE", "NO_ERROR",
                                  Auth(done, FinalMessage(n, Request.mech))))
          \/ \E type \in {"none", "garbled", "e="} :
                /\ signed' = signed
                /\ Reply(Response("AUTH_RESPONSE", "NO_ERROR", Auth(done, [type |-> type])))
    /\ UNCHANGED <<cut, first, accepted, refused>>

Server == \/ SendMechs \/ Refuse \/ SendServerFirst \/ SendServerFinal
          \/ Misanswer \/ MisSendFirst \/ MisSendFinal

\* The connection is lost: any suffix of the answer never arrives.
PeerDrop ==
    /\ peer = "up" /\ step \notin {"connected", "failed"}
    /\ cut' = TRUE
    /\ peer' = "gone" /\ outbox' = <<>>
    /\ \E n \in 0..Len(inbox) : inbox' = SubSeq(inbox, 1, n)
    /\ UNCHANGED <<config, turn, step, thrown, sessions, local,
                   first, signed, accepted, refused>>

Next == Open \/ Client \/ Server \/ PeerDrop

Spec == Init /\ [][Next]_vars

\* The thread in connect() runs, and a server that is up answers every request.
FairSpec == Spec /\ WF_vars(Client) /\ WF_vars(Server)
-----------------------------------------------------------------------------
(* Properties *)

\* "the exchange completes on the client side once it has verified the server
\* signature" (SaslAuthenticator.cpp:184): a connection is used only with a server
\* that knows the password, over a mechanism it offered, and that has signed this
\* very exchange: the nonce of this session and the server-first that the client
\* saw.  A correct server has accepted the client, too.
ConnectedMeansAgreed ==
    step = "connected" =>
        /\ secret = password
        /\ mechanism \in Supported /\ Offered(mechanism)
        /\ serverFirst.nonce[1] = sessions
        /\ signed = authMessage(nonce, serverFirst)
        /\ correct => accepted

\* "so the byte stream stays in sync" (SaslAuthenticator.cpp:55): nothing of an
\* answer is left when the next request goes out, or when the read thread takes
\* over the stream, whose message ids start at 0 again: a leftover would be the
\* answer to the first operation.
HandshakeLeavesNothing ==
    step \in {"send", "connected"} => inbox = <<>> /\ outbox = <<>>

\* The client has no quarrel with a correct server: connect() blames it
\* (ServerError) only after an ERROR, and gives up after sending (AfterSend) only
\* when the connection was lost or the mechanism is not offered.
CorrectServerNotBlamed ==
    correct =>
        /\ thrown = "ServerError" => refused
        /\ thrown = "AfterSend" => cut \/ ~Offered(mechanism)

\* connect() returns or throws while the server answers or once it is gone.
HandshakeEnds ==
    step \notin {"idle", "connected", "failed"} ~> step \in {"connected", "failed"}
==============================================================================
