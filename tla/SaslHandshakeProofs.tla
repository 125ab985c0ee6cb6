------------------------- MODULE SaslHandshakeProofs -------------------------
(***************************************************************************)
(* What the SASL handshake guarantees for any passwords, mechanisms and    *)
(* offers, any number of sessions, a correct or a faulty server and a      *)
(* connection that may be lost between any two fields.                     *)
(***************************************************************************)
EXTENDS SaslHandshake, TLAPS

-----------------------------------------------------------------------------
(* The inductive invariant *)

IsList(q) == q \in Seq({q[i] : i \in DOMAIN q})

\* What an answer of a correct server has in its header.
HeaderOK(h) ==
    /\ h.opcode \in {"ERROR_RESPONSE", Opcode}
    /\ h.status # "NO_ERROR" => h.opcode = "ERROR_RESPONSE"

\* A signature is the server's, for what it has signed; a correct server answers
\* what was asked.
ChallengeOK(v) ==
    /\ v.type = "server-final" =>
          /\ v.signature[2][2][1] = secret
          /\ v.signature[3] = signed
          /\ correct => accepted
    /\ correct /\ turn = "first" => Parses(v) /\ ExtendsNonce(v)
    /\ correct /\ turn = "final" => verifyServerFinalMessage(v)

\* Field i of q, and how much may follow it.
FieldOK(q, i) ==
    /\ q[i].field = "header" => (correct => HeaderOK(q[i]))
    /\ q[i].field = "message" => refused
    /\ q[i].field = "count" =>
          /\ q[i].value = Len(offer) /\ Len(q) <= i + Len(offer)
          /\ \A j \in (i + 1)..Len(q) : q[j].value = offer[j - i]
    /\ q[i].field = "flag" =>
          /\ Len(q) <= i + 1
          /\ correct /\ turn = "first" => q[i].value = FALSE
    /\ q[i].field = "challenge" => ChallengeOK(q[i].value)

\* The rest of an answer, cut off or not.
Framed(q) == IsList(q) /\ \A i \in 1..Len(q) : FieldOK(q, i)

\* The request that the client sends in this exchange.
Asked(r) ==
    \/ r.type = "list" /\ turn = "list"
    \/ r.type = "client-first" /\ turn = "first" /\ r.nonce = nonce
    \/ /\ r.type = "client-final" /\ turn = "final"
       /\ r.mech = mechanism
       /\ r.proof = ClientProof(password, nonce, serverFirst, mechanism)

Steps == {"idle", "mechanism", "send", "header", "topology", "check", "message",
          "count", "name", "flag", "challenge", "connected", "failed"}

TypeInv ==
    /\ offer \in Seq(STRING) /\ sessions \in Nat /\ left \in Nat
    /\ step \in Steps /\ turn \in {"list", "first", "final"}
    /\ offered \in BOOLEAN

\* Where the stream stands: between two exchanges nothing is under way; a request is
\* outstanding or its answer is, never both.
StreamInv ==
    /\ Framed(inbox)
    /\ step \in {"idle", "mechanism", "send", "connected", "failed"} =>
          inbox = <<>> /\ outbox = <<>>
    /\ outbox # <<>> =>
          /\ step = "header" /\ inbox = <<>>
          /\ outbox = <<outbox[1]>> /\ Asked(outbox[1])
    /\ step = "header" /\ correct /\ inbox # <<>> => inbox[1].field = "header"
    /\ step \in {"topology", "check"} /\ correct => HeaderOK(header)
    /\ step = "challenge" =>
          /\ Len(inbox) <= 1
          /\ correct /\ turn = "first" => ~completed

\* The list of mechanisms: how much of it has been read.
OfferInv ==
    /\ step = "count" => turn = "list"
    /\ step = "name" =>
          /\ turn = "list" /\ left <= Len(offer) /\ Len(inbox) <= left
          /\ \A i \in 1..Len(inbox) : inbox[i].value = offer[(Len(offer) - left) + i]
          /\ offered <=> \E i \in 1..(Len(offer) - left) : offer[i] = mechanism
    /\ turn = "list" /\ step \notin {"name", "failed"} => ~offered
    /\ turn # "list" => offered
    /\ offered => Offered(mechanism)

\* The exchange is about the nonce of this session.
NonceInv ==
    /\ turn = "final" => serverFirst.nonce[1] = nonce
    /\ turn = "final" \/ (turn = "first" /\ step # "send") => nonce = sessions
    /\ step \notin {"idle", "mechanism", "failed"} => mechanism \in Supported
    /\ step = "mechanism" => turn = "list"

\* What was agreed, and whom the exception blames.
OutcomeInv ==
    /\ peer = "gone" /\ step \notin {"idle", "failed"} => cut
    /\ step = "connected" =>
          /\ turn = "final"
          /\ secret = password
          /\ signed = authMessage(nonce, serverFirst)
          /\ correct => accepted
    /\ CorrectServerNotBlamed

\* The inductive invariant of SaslHandshake.
IInv == TypeInv /\ StreamInv /\ OfferInv /\ NonceInv /\ OutcomeInv

-----------------------------------------------------------------------------
(* Answers *)

\* A sequence is a list of its elements.
LEMMA ListType ==
    ASSUME NEW X, NEW q \in Seq(X)
    PROVE  IsList(q)
<1>1. q \in [1..Len(q) -> {q[i] : i \in DOMAIN q}] /\ Len(q) \in Nat
    OBVIOUS
<1> QED
    BY <1>1 DEF IsList

\* Nothing is left.
LEMMA FramedEmpty == Framed(<<>>)
BY DEF Framed, IsList

\* One field is read.
LEMMA FramedTail ==
    ASSUME offer \in Seq(STRING), NEW q, Framed(q), q # <<>>
    PROVE  /\ Framed(Tail(q))
           /\ Len(q) \in Nat \ {0} /\ Len(Tail(q)) = Len(q) - 1 /\ Head(q) = q[1]
           /\ \A i \in 1..(Len(q) - 1) : Tail(q)[i] = q[i + 1]
           /\ FieldOK(q, 1)
<1> DEFINE t == Tail(q)
           n == Len(q)
<1>0. IsList(q)
    BY DEF Framed
<1>1. /\ n \in Nat \ {0} /\ t \in Seq({q[i] : i \in DOMAIN q}) /\ Len(t) = n - 1
      /\ Head(q) = q[1] /\ \A i \in 1..(n - 1) : t[i] = q[i + 1]
    BY <1>0 DEF IsList
<1>2. IsList(t)
    BY <1>1, ListType
<1> HIDE DEF t
<1>3. ASSUME NEW i \in 1..(n - 1)
      PROVE  FieldOK(t, i)
  <2>1. i + 1 \in 1..n /\ t[i] = q[i + 1] /\ i \in Nat
    BY <1>1
  <2>2. FieldOK(q, i + 1)
    BY <2>1 DEF Framed
  <2>3. ASSUME q[i + 1].field = "count"
        PROVE  /\ q[i + 1].value = Len(offer) /\ Len(t) <= i + Len(offer)
               /\ \A j \in (i + 1)..Len(t) : t[j].value = offer[j - i]
    <3>1. /\ q[i + 1].value = Len(offer) /\ n <= (i + 1) + Len(offer)
          /\ \A j \in ((i + 1) + 1)..n : q[j].value = offer[j - (i + 1)]
      BY <2>2, <2>3 DEF FieldOK
    <3>2. Len(offer) \in Nat /\ Len(t) <= i + Len(offer)
      BY <1>1, <2>1, <3>1
    <3>3. ASSUME NEW j \in (i + 1)..Len(t)
          PROVE  t[j].value = offer[j - i]
      <4>1. j + 1 \in ((i + 1) + 1)..n /\ (j + 1) - (i + 1) = j - i /\ t[j] = q[j + 1]
        BY <1>1, <2>1
      <4> QED
        BY <3>1, <4>1
    <3> QED
      BY <3>1, <3>2, <3>3
  <2>4. q[i + 1].field = "flag" => Len(t) <= i + 1
    BY <1>1, <2>1, <2>2 DEF FieldOK
  <2> QED
    BY <2>1, <2>2, <2>3, <2>4 DEF FieldOK
<1>4. FieldOK(q, 1)
    BY <1>1 DEF Framed
<1> QED
    BY <1>1, <1>2, <1>3, <1>4 DEF Framed, t

\* The rest is lost.
LEMMA FramedPrefix ==
    ASSUME offer \in Seq(STRING), NEW q, Framed(q), NEW n \in 0..Len(q)
    PROVE  /\ Framed(SubSeq(q, 1, n)) /\ Len(SubSeq(q, 1, n)) = n /\ Len(q) \in Nat
           /\ \A i \in 1..n : SubSeq(q, 1, n)[i] = q[i]
<1> DEFINE t == SubSeq(q, 1, n)
<1>0. IsList(q)
    BY DEF Framed
<1>1. /\ Len(q) \in Nat /\ n \in Nat /\ n <= Len(q)
      /\ t \in Seq({q[i] : i \in DOMAIN q}) /\ Len(t) = n
      /\ \A i \in 1..n : t[i] = q[i]
    BY <1>0 DEF IsList
<1>2. IsList(t)
    BY <1>1, ListType
<1> HIDE DEF t
<1>3. ASSUME NEW i \in 1..n
      PROVE  FieldOK(t, i)
  <2>1. i \in 1..Len(q) /\ t[i] = q[i] /\ i \in Nat
    BY <1>1
  <2>2. FieldOK(q, i)
    BY <2>1 DEF Framed
  <2>3. ASSUME q[i].field = "count"
        PROVE  /\ Len(t) <= i + Len(offer)
               /\ \A j \in (i + 1)..Len(t) : t[j].value = offer[j - i]
    <3>1. /\ Len(q) <= i + Len(offer)
          /\ \A j \in (i + 1)..Len(q) : q[j].value = offer[j - i]
      BY <2>2, <2>3 DEF FieldOK
    <3>2. ASSUME NEW j \in (i + 1)..Len(t)
          PROVE  t[j].value = offer[j - i]
      <4>1. j \in (i + 1)..Len(q) /\ t[j] = q[j]
        BY <1>1, <2>1
      <4> QED
        BY <3>1, <4>1
    <3>3. Len(offer) \in Nat /\ Len(t) <= i + Len(offer)
      BY <1>1, <2>1, <3>1
    <3> QED
      BY <3>2, <3>3
  <2>4. q[i].field = "flag" => Len(t) <= i + 1
    BY <1>1, <2>1, <2>2 DEF FieldOK
  <2> QED
    BY <2>1, <2>2, <2>3, <2>4 DEF FieldOK
<1> QED
    BY <1>1, <1>2, <1>3 DEF Framed, t

\* What the frame of an answer depends on.
frame == <<config, turn, nonce, serverFirst, signed, accepted, refused>>

\* It is the frame of the same answer as long as this does not change.
LEMMA FrameKept ==
    ASSUME UNCHANGED frame
    PROVE  \A q, i : FieldOK(q, i) => FieldOK(q, i)'
BY DEF frame, config, FieldOK, ChallengeOK, HeaderOK, Opcode, Parses, ExtendsNonce,
       verifyServerFinalMessage

-----------------------------------------------------------------------------
(* The server *)

\* The fields before the body of an answer.
Leads(p, opcode, status) ==
    /\ IsList(p) /\ Len(p) >= 1 /\ p[1].field = "header"
    /\ \A i \in 1..Len(p) :
          \/ p[i].field = "topology"
          \/ p[i].field = "header" /\ p[i].opcode = opcode /\ p[i].status = status

\* A response is such fields, and a body.
LEMMA ResponseIs ==
    ASSUME NEW opcode, NEW status, NEW body, NEW r \in Response(opcode, status, body)
    PROVE  \E p : Leads(p, opcode, status) /\ r = p \o body
<1> DEFINE h == [field |-> "header", opcode |-> opcode, status |-> status, topology |-> FALSE]
           g == [field |-> "header", opcode |-> opcode, status |-> status, topology |-> TRUE]
           t == [field |-> "topology"]
           one == <<h>>
           two == <<g, t>>
<1>1. r = one \o body \/ r = two \o body
    BY DEF Response
<1>2. /\ h.field = "header" /\ h.opcode = opcode /\ h.status = status
      /\ g.field = "header" /\ g.opcode = opcode /\ g.status = status
      /\ t.field = "topology"
    OBVIOUS
<1> HIDE DEF h, g, t
<1>3. one \in Seq({h}) /\ Len(one) = 1 /\ one[1] = h
    OBVIOUS
<1>4. two \in Seq({g, t}) /\ Len(two) = 2 /\ two[1] = g /\ two[2] = t
    OBVIOUS
<1> HIDE DEF one, two
<1>5. Leads(one, opcode, status)
    BY <1>2, <1>3, ListType DEF Leads
<1>6. Leads(two, opcode, status)
  <2>1. \A i \in 1..2 : i = 1 \/ i = 2
    OBVIOUS
  <2> QED
    BY <1>2, <1>4, <2>1, ListType DEF Leads
<1> QED
    BY <1>1, <1>5, <1>6

\* The answer is framed if its header and its body are.
LEMMA AnswerFramed ==
    ASSUME NEW opcode, NEW status, NEW p, NEW q, Leads(p, opcode, status), IsList(q),
           offer' \in Seq(STRING),
           correct' => /\ opcode \in {"ERROR_RESPONSE", Opcode'}
                       /\ status # "NO_ERROR" => opcode = "ERROR_RESPONSE",
           \A i \in 1..Len(q) : FieldOK(q, i)'
    PROVE  /\ IsList(p \o q) /\ p \o q # <<>> /\ (p \o q)[1].field = "header"
           /\ \A i \in 1..Len(p \o q) : FieldOK(p \o q, i)'
<1> DEFINE r == p \o q
           m == Len(p)
           n == Len(q)
           X == {p[i] : i \in DOMAIN p} \cup {q[i] : i \in DOMAIN q}
<1>1. p \in Seq(X) /\ q \in Seq(X)
  <2>1. p \in Seq({p[i] : i \in DOMAIN p}) /\ q \in Seq({q[i] : i \in DOMAIN q})
    BY DEF Leads, IsList
  <2> QED
    BY <2>1
<1> HIDE DEF X
<1>2. /\ m \in Nat /\ n \in Nat /\ r \in Seq(X) /\ Len(r) = m + n
      /\ \A i \in 1..m : r[i] = p[i]
      /\ \A i \in 1..n : r[m + i] = q[i]
    BY <1>1
<1>3. IsList(r)
    BY <1>2, ListType
<1> HIDE DEF r
<1>4. 1 \in 1..m /\ r # <<>> /\ r[1].field = "header"
    BY <1>2 DEF Leads
<1>5. ASSUME NEW i \in 1..m
      PROVE  FieldOK(r, i)'
  <2>1. CASE r[i].field = "topology"
    BY <2>1 DEF FieldOK
  <2>2. CASE r[i].field = "header" /\ r[i].opcode = opcode /\ r[i].status = status
    BY <2>2 DEF FieldOK, HeaderOK
  <2> QED
    BY <1>2, <2>1, <2>2 DEF Leads
<1>6. ASSUME NEW k \in 1..n
      PROVE  FieldOK(r, m + k)'
  <2>1. r[m + k] = q[k] /\ FieldOK(q, k)' /\ k \in Nat /\ Len(offer') \in Nat
    BY <1>2
  <2>2. ASSUME q[k].field = "count"
        PROVE  /\ Len(r) <= (m + k) + Len(offer')
               /\ \A j \in ((m + k) + 1)..Len(r) : r[j].value = offer'[j - (m + k)]
    <3>1. /\ n <= k + Len(offer')
          /\ \A j \in (k + 1)..n : q[j].value = offer'[j - k]
      BY <2>1, <2>2 DEF FieldOK
    <3>2. ASSUME NEW j \in ((m + k) + 1)..Len(r)
          PROVE  r[j].value = offer'[j - (m + k)]
      <4>1. j - m \in (k + 1)..n /\ (j - m) - k = j - (m + k) /\ m + (j - m) = j
        BY <1>2, <2>1
      <4>2. PICK l \in (k + 1)..n : l - k = j - (m + k) /\ m + l = j
        BY <4>1
      <4>3. l \in 1..n /\ r[j] = q[l]
        BY <1>2, <2>1, <4>2
      <4> QED
        BY <3>1, <4>2, <4>3
    <3>3. Len(r) <= (m + k) + Len(offer')
      BY <1>2, <2>1, <3>1
    <3> QED
      BY <3>2, <3>3
  <2>3. q[k].field = "flag" => Len(r) <= (m + k) + 1
    BY <1>2, <2>1 DEF FieldOK
  <2> QED
    BY <2>1, <2>2, <2>3 DEF FieldOK
<1>7. ASSUME NEW i \in 1..Len(r)
      PROVE  FieldOK(r, i)'
  <2>1. CASE i \in 1..m
    BY <1>5, <2>1
  <2>2. CASE i \notin 1..m
    <3>1. i - m \in 1..n /\ m + (i - m) = i
      BY <1>2, <2>2
    <3>2. PICK k \in 1..n : m + k = i
      BY <3>1
    <3> QED
      BY <1>6, <3>2
  <2> QED
    BY <2>1, <2>2
<1>8. \A i \in 1..Len(r) : FieldOK(r, i)'
    BY <1>7
<1> QED
    BY <1>3, <1>4, <1>8 DEF r

\* A server that answers what was asked keeps the invariant.
LEMMA ReplyStep ==
    ASSUME IInv, outbox # <<>>, outbox' = <<>>, peer' = peer,
           UNCHANGED <<config, turn, step, thrown, sessions, local, cut>>,
           refused => refused',
           Framed(inbox)', correct => inbox' # <<>> /\ inbox'[1].field = "header"
    PROVE  IInv'
<1>1. step = "header" /\ step' = "header"
    BY DEF IInv, StreamInv
<1>2. TypeInv'
    BY DEF IInv, TypeInv, config, local
<1>3. StreamInv'
    BY <1>1 DEF StreamInv, config
<1>4. OfferInv'
    BY <1>1 DEF IInv, OfferInv, config, local, Offered
<1>5. NonceInv'
    BY <1>1 DEF IInv, NonceInv, config, local
<1>6. OutcomeInv'
    BY <1>1 DEF IInv, OutcomeInv, CorrectServerNotBlamed, config, Offered
<1> QED
    BY <1>2, <1>3, <1>4, <1>5, <1>6 DEF IInv

\* The same, for an answer of one of the kinds of Response.
LEMMA ResponseStep ==
    ASSUME IInv, NEW opcode, NEW status, NEW body,
           Reply(Response(opcode, status, body)), UNCHANGED cut, refused => refused',
           IsList(body), \A i \in 1..Len(body) : FieldOK(body, i)',
           correct => /\ opcode \in {"ERROR_RESPONSE", Opcode}
                      /\ status # "NO_ERROR" => opcode = "ERROR_RESPONSE"
    PROVE  IInv'
<1>1. /\ outbox # <<>> /\ outbox' = <<>> /\ peer' = peer
      /\ UNCHANGED <<config, turn, step, thrown, sessions, local>>
      /\ inbox' \in Response(opcode, status, body)
    BY DEF Reply
<1>2. PICK p : Leads(p, opcode, status) /\ inbox' = p \o body
    BY <1>1, ResponseIs
<1>3. offer' \in Seq(STRING) /\ correct' = correct /\ Opcode' = Opcode
    BY <1>1 DEF IInv, TypeInv, config, Opcode
<1>4. /\ IsList(p \o body) /\ p \o body # <<>> /\ (p \o body)[1].field = "header"
      /\ \A i \in 1..Len(p \o body) : FieldOK(p \o body, i)'
    BY <1>2, <1>3, AnswerFramed
<1>5. Framed(inbox)' /\ inbox' # <<>> /\ inbox'[1].field = "header"
    BY <1>2, <1>4 DEF Framed, IsList
<1> QED
    BY <1>1, <1>5, ReplyStep

\* The body of an AUTH_RESPONSE is framed if its challenge is right.
LEMMA AuthFramed ==
    ASSUME NEW done, NEW v, correct' /\ turn' = "first" => done = FALSE, ChallengeOK(v)'
    PROVE  IsList(Auth(done, v)) /\ \A i \in 1..Len(Auth(done, v)) : FieldOK(Auth(done, v), i)'
<1> DEFINE f == [field |-> "flag", value |-> done]
           c == [field |-> "challenge", value |-> v]
           q == <<f, c>>
<1>0. Auth(done, v) = q
    BY DEF Auth
<1>1. f.field = "flag" /\ f.value = done /\ c.field = "challenge" /\ c.value = v
    OBVIOUS
<1> HIDE DEF f, c
<1>2. q \in Seq({f, c}) /\ Len(q) = 2 /\ q[1] = f /\ q[2] = c
    OBVIOUS
<1>3. IsList(q)
    BY <1>2, ListType
<1> HIDE DEF q
<1>4. FieldOK(q, 1)'
    BY <1>1, <1>2 DEF FieldOK
<1>5. FieldOK(q, 2)'
    BY <1>1, <1>2 DEF FieldOK
<1>6. \A i \in 1..2 : i = 1 \/ i = 2
    OBVIOUS
<1> QED
    BY <1>0, <1>2, <1>3, <1>4, <1>5, <1>6

\* The elements of a concatenation.
LEMMA ConcatParts ==
    ASSUME NEW X, NEW a \in Seq(X), NEW b \in Seq(X)
    PROVE  /\ a \o b \in Seq(X) /\ Len(a \o b) = Len(a) + Len(b)
           /\ \A i \in 1..(Len(a) + Len(b)) :
                 (a \o b)[i] = IF i <= Len(a) THEN a[i] ELSE b[i - Len(a)]
OBVIOUS

\* The list of mechanisms is framed.
LEMMA MechListFramed ==
    ASSUME offer \in Seq(STRING), offer' = offer
    PROVE  IsList(MechList) /\ \A q : q = MechList => \A i \in 1..Len(q) : FieldOK(q, i)'
<1> DEFINE n == Len(offer)
           c == [field |-> "count", value |-> n]
           name(i) == [field |-> "name", value |-> offer[i]]
           names == [i \in 1..n |-> name(i)]
           X == {c} \cup {name(i) : i \in 1..n}
           one == <<c>>
           r == one \o names
<1>0. MechList = r /\ n \in Nat
    BY DEF MechList
<1>1. /\ c.field = "count" /\ c.value = n
      /\ \A i \in 1..n : name(i).field = "name" /\ name(i).value = offer[i]
    OBVIOUS
<1> HIDE DEF c, name
<1>2. one \in Seq(X) /\ Len(one) = 1 /\ one[1] = c
    OBVIOUS
<1>3. names \in Seq(X) /\ Len(names) = n /\ \A i \in 1..n : names[i] = name(i)
    BY <1>0
<1> HIDE DEF one, names, X
<1>4. /\ r \in Seq(X) /\ Len(r) = n + 1 /\ r[1] = c
      /\ \A i \in 2..(n + 1) : r[i] = name(i - 1)
  <2>1. /\ r \in Seq(X) /\ Len(r) = n + 1
        /\ \A i \in 1..(n + 1) : r[i] = IF i <= 1 THEN one[i] ELSE names[i - 1]
    <3>1. /\ r \in Seq(X) /\ Len(r) = Len(one) + Len(names)
          /\ \A i \in 1..(Len(one) + Len(names)) :
                r[i] = IF i <= Len(one) THEN one[i] ELSE names[i - Len(one)]
      <4> HIDE DEF n
      <4> QED
        BY <1>2, <1>3, ConcatParts
    <3>2. Len(one) + Len(names) = n + 1
      BY <1>0, <1>2, <1>3
    <3> HIDE DEF r, n
    <3> QED
      BY <1>2, <3>1, <3>2
  <2>2. \A i \in 2..(n + 1) : i \in 1..(n + 1) /\ ~(i <= 1) /\ i - 1 \in 1..n
    BY <1>0
  <2>3. 1 \in 1..(n + 1)
    BY <1>0
  <2> HIDE DEF r, n
  <2> QED
    BY <1>2, <1>3, <2>1, <2>2, <2>3
<1>5. IsList(r)
    BY <1>4, ListType
<1> HIDE DEF r, n
<1>6. PICK q : q = r
    OBVIOUS
<1>7. PICK m \in Nat : m = n
    BY <1>0
<1>8. /\ Len(offer') = m /\ Len(q) = m + 1 /\ q[1].field = "count" /\ q[1].value = m
      /\ \A i \in 2..(m + 1) : q[i].field = "name" /\ q[i].value = offer'[i - 1]
  <2>1. \A i \in 2..(n + 1) : i - 1 \in 1..n
    BY <1>0
  <2>2. Len(offer') = n
    BY DEF n
  <2> QED
    BY <1>1, <1>4, <1>6, <1>7, <2>1, <2>2
<1>9. ASSUME NEW i \in 1..(m + 1)
      PROVE  FieldOK(q, i)'
  <2>1. CASE i = 1
    <3>1. \A j \in (i + 1)..Len(q) : j \in 2..(m + 1) /\ q[j].value = offer'[j - i]
      BY <1>8, <2>1
    <3>2. q[i].value = Len(offer') /\ Len(q) <= i + Len(offer') /\ q[i].field = "count"
      BY <1>8, <2>1
    <3> QED
      BY <3>1, <3>2 DEF FieldOK
  <2>2. CASE i # 1
    <3>1. q[i].field = "name"
      BY <1>8, <2>2
    <3> QED
      BY <3>1 DEF FieldOK
  <2> QED
    BY <2>1, <2>2
<1> QED
    BY <1>0, <1>5, <1>6, <1>8, <1>9

\* What equal tuples have in common.
LEMMA TupleEq ==
    \A a, b, c, x, y, z : <<a, b, c>> = <<x, y, z>> => a = x /\ b = y /\ c = z
OBVIOUS

\* A proof tells the password, the salt, the mechanism and the exchange it is for.
LEMMA ProofEq ==
    ASSUME NEW p, NEW n, NEW f, NEW m, NEW q, NEW k, NEW g, NEW l,
           ClientProof(p, n, f, m) = ClientProof(q, k, g, l)
    PROVE  /\ SaltedPassword(p, f, m) = SaltedPassword(q, g, l)
           /\ authMessage(n, f) = authMessage(k, g)
<1> DEFINE a == SaltedPassword(p, f, m)
           b == SaltedPassword(q, g, l)
           x == authMessage(n, f)
           y == authMessage(k, g)
           ka == <<"HMAC", a, "Client Key">>
           kb == <<"HMAC", b, "Client Key">>
           ha == <<"H", ka>>
           hb == <<"H", kb>>
           ma == <<"HMAC", ha, x>>
           mb == <<"HMAC", hb, y>>
<1>1. /\ ClientProof(p, n, f, m) = <<"XOR", ka, ma>>
      /\ ClientProof(q, k, g, l) = <<"XOR", kb, mb>>
    BY DEF ClientProof, hmac, hash, xorBytes
<1> HIDE DEF a, b, x, y
<1>2. ka = kb /\ ma = mb
  <2>1. <<"XOR", ka, ma>> = <<"XOR", kb, mb>>
    BY <1>1
  <2> HIDE DEF ka, kb, ma, mb
  <2> QED
    BY <2>1
<1>3. a = b
    BY <1>2, TupleEq
<1>4. x = y
  <2> HIDE DEF ha, hb
  <2> QED
    BY <1>2, TupleEq
<1> QED
    BY <1>3, <1>4 DEF a, b, x, y

\* A signature tells the password and the exchange it is for.
LEMMA SignatureParts ==
    ASSUME NEW p, NEW n, NEW f, NEW m
    PROVE  /\ ServerSignature(p, n, f, m)[2][2][1] = p
           /\ ServerSignature(p, n, f, m)[3] = authMessage(n, f)
<1> DEFINE a == SaltedPassword(p, f, m)
           x == authMessage(n, f)
           k == <<"HMAC", a, "Server Key">>
           z == <<"HMAC", k, x>>
<1>1. ServerSignature(p, n, f, m) = z
    BY DEF ServerSignature, hmac
<1>2. a[1] = p
    BY DEF SaltedPassword
<1> HIDE DEF a, x
<1>3. k[2] = a
    OBVIOUS
<1> HIDE DEF k
<1>4. z[2] = k /\ z[3] = x
    OBVIOUS
<1> QED
    BY <1>1, <1>2, <1>3, <1>4 DEF x

\* Every step of the server keeps the invariant.
LEMMA ServerStep ==
    ASSUME IInv, Server
    PROVE  IInv'
<1>0. /\ outbox # <<>> /\ UNCHANGED <<config, turn, step, thrown, sessions, local, cut>>
      /\ outbox' = <<>> /\ peer' = peer
  <2>1. UNCHANGED cut
    BY DEF Server, SendMechs, Refuse, SendServerFirst, SendServerFinal, Misanswer, MisSendFirst,
           MisSendFinal, server
  <2>2. \E answers : Reply(answers)
    <3>1. CASE SendMechs
      BY <3>1 DEF SendMechs
    <3>2. CASE Refuse
      BY <3>2 DEF Refuse
    <3>3. CASE SendServerFirst
      BY <3>3 DEF SendServerFirst
    <3>4. CASE SendServerFinal
      BY <3>4 DEF SendServerFinal
    <3>5. CASE Misanswer
      BY <3>5 DEF Misanswer
    <3>6. CASE MisSendFirst
      BY <3>6 DEF MisSendFirst
    <3>7. CASE MisSendFinal
      BY <3>7 DEF MisSendFinal
    <3> QED
      BY <3>1, <3>2, <3>3, <3>4, <3>5, <3>6, <3>7 DEF Server
  <2> QED
    BY <2>1, <2>2 DEF Reply
<1>1. Asked(Request)
  <2>1. outbox = <<outbox[1]>> /\ Asked(outbox[1])
    BY <1>0 DEF IInv, StreamInv
  <2>2. Request = outbox[1]
    BY <2>1 DEF Request
  <2> QED
    BY <2>1, <2>2
<1>2. CASE SendMechs
  <2>1. turn = "list"
    BY <1>1, <1>2 DEF SendMechs, Asked
  <2>2. PICK q : q = MechList
    OBVIOUS
  <2>3. offer \in Seq(STRING) /\ offer' = offer
    BY <1>0 DEF IInv, TypeInv, config
  <2>4. IsList(q) /\ \A i \in 1..Len(q) : FieldOK(q, i)'
    BY <2>2, <2>3, MechListFramed
  <2>5. Reply(Response("AUTH_MECH_LIST_RESPONSE", "NO_ERROR", q)) /\ UNCHANGED <<cut, refused>>
    BY <1>2, <2>2 DEF SendMechs, server
  <2>6. Opcode = "AUTH_MECH_LIST_RESPONSE"
    BY <2>1 DEF Opcode
  <2> QED
    BY <2>4, <2>5, <2>6, ResponseStep
<1>3. CASE Refuse
  <2> DEFINE m == [field |-> "message"]
             q == <<m>>
  <2>1. Reply(Response("ERROR_RESPONSE", "SERVER_ERROR", q)) /\ refused' = TRUE /\ UNCHANGED cut
    BY <1>3 DEF Refuse
  <2>2. m.field = "message"
    OBVIOUS
  <2> HIDE DEF m
  <2>3. q \in Seq({m}) /\ Len(q) = 1 /\ q[1] = m
    OBVIOUS
  <2>4. IsList(q)
    BY <2>3, ListType
  <2> HIDE DEF q
  <2>5. \A i \in 1..Len(q) : FieldOK(q, i)'
    BY <2>1, <2>2, <2>3 DEF FieldOK
  <2> QED
    BY <2>1, <2>4, <2>5, ResponseStep
<1>4. ASSUME NEW done, NEW v, Reply(Response("AUTH_RESPONSE", "NO_ERROR", Auth(done, v))),
             correct /\ turn = "first" => done = FALSE, ChallengeOK(v)',
             correct => turn # "list", UNCHANGED refused
      PROVE  IInv'
  <2>1. PICK q : q = Auth(done, v)
    OBVIOUS
  <2>2. IsList(q) /\ \A i \in 1..Len(q) : FieldOK(q, i)'
    BY <1>0, <1>4, <2>1, AuthFramed DEF config
  <2>3. correct => Opcode = "AUTH_RESPONSE"
    BY <1>4 DEF Opcode
  <2> QED
    BY <1>0, <1>4, <2>1, <2>2, <2>3, ResponseStep
<1>5. CASE SendServerFirst
  <2>1. turn = "first" /\ Request.nonce = nonce
    BY <1>1, <1>5 DEF SendServerFirst, Asked
  <2>2. PICK v : v = first'
    OBVIOUS
  <2>3. /\ Reply(Response("AUTH_RESPONSE", "NO_ERROR", Auth(FALSE, v))) /\ UNCHANGED refused
        /\ v = FirstMessage(<<Request.nonce, sessions>>, "salt")
    BY <1>5, <2>2 DEF SendServerFirst
  <2>4. v.type = "server-first" /\ v.nonce[1] = nonce
    BY <2>1, <2>3 DEF FirstMessage
  <2>5. ChallengeOK(v)'
    BY <1>0, <2>1, <2>4 DEF ChallengeOK, Parses, ExtendsNonce, local
  <2> QED
    BY <1>4, <2>1, <2>3, <2>5
<1>6. CASE SendServerFinal
  <2> DEFINE n == first.nonce[1]
             final == FinalMessage(n, Request.mech)
  <2>1. /\ turn = "final" /\ Request.mech = mechanism
        /\ Request.proof = ClientProof(password, nonce, serverFirst, mechanism)
    BY <1>1, <1>6 DEF SendServerFinal, Asked
  <2>2. /\ Request.proof = ClientProof(secret, n, first, Request.mech)
        /\ signed' = authMessage(n, first) /\ accepted' = TRUE /\ UNCHANGED <<first, refused>>
        /\ Reply(UNION {Response("AUTH_RESPONSE", "NO_ERROR", Auth(done, final)) :
                           done \in BOOLEAN})
    BY <1>6 DEF SendServerFinal
  <2>3. PICK done \in BOOLEAN : Reply(Response("AUTH_RESPONSE", "NO_ERROR", Auth(done, final)))
    BY <2>2 DEF Reply
  <2>4. PICK v : v = final
    OBVIOUS
  <2>5. /\ SaltedPassword(password, serverFirst, mechanism) =
              SaltedPassword(secret, first, Request.mech)
        /\ authMessage(nonce, serverFirst) = authMessage(n, first)
    <3> DEFINE mech == Request.mech
    <3>1. ClientProof(password, nonce, serverFirst, mechanism) = ClientProof(secret, n, first, mech)
      BY <2>1, <2>2
    <3> HIDE DEF n, mech
    <3> QED
      BY <3>1, ProofEq DEF mech
  <2>6. /\ v.type = "server-final"
        /\ v.signature = ServerSignature(secret, n, first, Request.mech)
    BY <2>4 DEF FinalMessage
  <2>7. v.signature[2][2][1] = secret /\ v.signature[3] = signed'
    BY <2>2, <2>6, SignatureParts
  <2>8. v.signature = ServerSignature(password, nonce, serverFirst, mechanism)
    BY <2>5, <2>6 DEF ServerSignature
  <2>9. ChallengeOK(v)'
    <3>1. verifyServerFinalMessage(v)'
      BY <1>0, <2>6, <2>8 DEF verifyServerFinalMessage, config, local, ServerSignature,
                              SaltedPassword, authMessage
    <3> QED
      BY <1>0, <2>1, <2>2, <2>6, <2>7, <3>1 DEF ChallengeOK, config
  <2> QED
    BY <1>4, <2>1, <2>2, <2>3, <2>4, <2>9
<1>7. CASE Misanswer
  <2>0. ~correct /\ UNCHANGED <<refused, cut>>
    BY <1>7 DEF Misanswer, server
  <2> DEFINE none == <<>>
             bad == [field |-> "garbage"]
             garbage == <<bad>>
  <2>1. none \in Seq({}) /\ Len(none) = 0
    OBVIOUS
  <2>2. IsList(none)
    BY <2>1, ListType
  <2>3. \/ inbox' = garbage
        \/ Reply(Response("AUTH_RESPONSE", "SERVER_ERROR", none))
        \/ Reply(Response("PING_RESPONSE", "NO_ERROR", none))
    BY <1>7 DEF Misanswer, Reply
  <2>4. CASE inbox' = garbage
    <3>1. bad.field = "garbage"
      OBVIOUS
    <3> HIDE DEF bad
    <3>2. garbage \in Seq({bad}) /\ Len(garbage) = 1 /\ garbage[1] = bad
      OBVIOUS
    <3>3. IsList(garbage)
      BY <3>2, ListType
    <3> HIDE DEF garbage
    <3>4. \A i \in 1..Len(garbage) : FieldOK(garbage, i)'
      BY <3>1, <3>2 DEF FieldOK
    <3>5. Framed(inbox)'
      BY <2>4, <3>3, <3>4 DEF Framed, IsList
    <3> QED
      BY <1>0, <2>0, <3>5, ReplyStep
  <2>5. CASE ~(inbox' = garbage)
    <3> HIDE DEF none, garbage
    <3>1. \A i \in 1..Len(none) : FieldOK(none, i)'
      BY <2>1
    <3> QED
      BY <2>0, <2>2, <2>3, <2>5, <3>1, ResponseStep
  <2> QED
    BY <2>4, <2>5
<1>8. CASE MisSendFirst
  <2>0. ~correct /\ ~correct' /\ UNCHANGED refused
    BY <1>0, <1>8 DEF MisSendFirst, config
  <2>1. first'.type = "server-first"
    BY <1>8 DEF MisSendFirst, FirstMessage
  <2>2. \E done, v : /\ Reply(Response("AUTH_RESPONSE", "NO_ERROR", Auth(done, v)))
                     /\ v.type # "server-final"
    <3>1. CASE \E done \in BOOLEAN :
                  Reply(Response("AUTH_RESPONSE", "NO_ERROR", Auth(done, first')))
      BY <2>1, <3>1
    <3>2. CASE Reply(Response("AUTH_RESPONSE", "NO_ERROR", Auth(FALSE, [type |-> "unparsable"])))
      <4>1. [type |-> "unparsable"].type # "server-final"
        OBVIOUS
      <4> QED
        BY <3>2, <4>1
    <3>3. \/ \E done \in BOOLEAN :
                Reply(Response("AUTH_RESPONSE", "NO_ERROR", Auth(done, first')))
          \/ Reply(Response("AUTH_RESPONSE", "NO_ERROR", Auth(FALSE, [type |-> "unparsable"])))
      BY <1>8 DEF MisSendFirst
    <3> QED
      BY <3>1, <3>2, <3>3
  <2>3. PICK done, v : /\ Reply(Response("AUTH_RESPONSE", "NO_ERROR", Auth(done, v)))
                       /\ v.type # "server-final"
    BY <2>2
  <2>4. ChallengeOK(v)'
    BY <2>0, <2>3 DEF ChallengeOK
  <2> QED
    BY <1>4, <2>0, <2>3, <2>4
<1>9. CASE MisSendFinal
  <2>0. ~correct /\ ~correct' /\ UNCHANGED <<refused, first, secret>>
    BY <1>0, <1>9 DEF MisSendFinal, config
  <2>1. PICK done \in BOOLEAN :
          \/ \E n \in {nonce, sessions - 1} :
                /\ signed' = authMessage(n, first)
                /\ Reply(Response("AUTH_RESPONSE", "NO_ERROR",
                                  Auth(done, FinalMessage(n, Request.mech))))
          \/ \E type \in {"none", "garbled", "e="} :
                /\ signed' = signed
                /\ Reply(Response("AUTH_RESPONSE", "NO_ERROR", Auth(done, [type |-> type])))
    BY <1>9 DEF MisSendFinal
  <2>2. ASSUME NEW n, signed' = authMessage(n, first),
               Reply(Response("AUTH_RESPONSE", "NO_ERROR",
                              Auth(done, FinalMessage(n, Request.mech))))
        PROVE  IInv'
    <3>1. PICK v : v = FinalMessage(n, Request.mech)
      OBVIOUS
    <3>2. v.signature = ServerSignature(secret, n, first, Request.mech)
      BY <3>1 DEF FinalMessage
    <3>3. v.signature[2][2][1] = secret /\ v.signature[3] = signed'
      BY <2>2, <3>2, SignatureParts
    <3>4. ChallengeOK(v)'
      BY <2>0, <3>3 DEF ChallengeOK
    <3> QED
      BY <1>4, <2>0, <2>2, <3>1, <3>4
  <2>3. ASSUME NEW type \in {"none", "garbled", "e="},
               Reply(Response("AUTH_RESPONSE", "NO_ERROR", Auth(done, [type |-> type])))
        PROVE  IInv'
    <3>1. PICK v : v = [type |-> type]
      OBVIOUS
    <3>2. v.type # "server-final"
      BY <2>3, <3>1
    <3>3. ChallengeOK(v)'
      BY <2>0, <3>2 DEF ChallengeOK
    <3> QED
      BY <1>4, <2>0, <2>3, <3>1, <3>3
  <2> QED
    BY <2>1, <2>2, <2>3
<1> QED
    BY <1>2, <1>3, <1>5, <1>6, <1>7, <1>8, <1>9 DEF Server

-----------------------------------------------------------------------------
(* The client *)

\* Whose fault a phase says it is.
Blames(phase) ==
    correct => /\ phase = "ServerError" => refused
               /\ phase = "AfterSend" => cut \/ ~Offered(mechanism)

\* An exception that blames nobody wrongly keeps the invariant.
LEMMA ThrowStep ==
    ASSUME IInv, NEW phase, Throw(phase), Blames(phase),
           UNCHANGED <<config, sessions, server, left, offered, completed, header, serverFirst>>,
           \/ nonce' = nonce /\ ~(turn = "first" /\ step = "send")
           \/ turn = "first" /\ nonce' = sessions
    PROVE  IInv'
<1>1. step' = "failed" /\ turn' = turn /\ inbox' = <<>> /\ outbox' = <<>> /\ thrown' = phase
    BY DEF Throw
<1>2. TypeInv'
    BY <1>1 DEF IInv, TypeInv, Steps, config
<1>3. StreamInv'
  <2>1. Framed(inbox)'
    BY <1>1 DEF Framed, IsList
  <2> QED
    BY <1>1, <2>1 DEF StreamInv
<1>4. OfferInv'
    BY <1>1 DEF IInv, OfferInv, config, Offered
<1>5. NonceInv'
    BY <1>1 DEF IInv, NonceInv
<1>6. OutcomeInv'
    BY <1>1 DEF IInv, OutcomeInv, CorrectServerNotBlamed, Blames, config, server, Offered
<1> QED
    BY <1>2, <1>3, <1>4, <1>5, <1>6 DEF IInv

\* A field is read: what is left of the answer.
LEMMA ReceiveStep ==
    ASSUME IInv, NEW field, Receive(field), UNCHANGED <<config, server, turn, nonce, serverFirst>>
    PROVE  /\ Framed(inbox)' /\ FieldOK(inbox, 1) /\ inbox[1].field = field
           /\ Head(inbox) = inbox[1] /\ inbox # <<>>
           /\ Len(inbox) \in Nat \ {0} /\ Len(inbox') = Len(inbox) - 1
           /\ \A i \in 1..(Len(inbox) - 1) : inbox'[i] = inbox[i + 1]
           /\ outbox = <<>> /\ outbox' = <<>> /\ peer' = peer
           /\ Len(inbox) = 1 => inbox' = <<>>
<1>1. /\ inbox # <<>> /\ Head(inbox).field = field /\ inbox' = Tail(inbox)
      /\ UNCHANGED <<peer, outbox>>
    BY DEF Receive
<1>2. Framed(inbox) /\ offer \in Seq(STRING) /\ outbox = <<>>
    BY <1>1 DEF IInv, StreamInv, TypeInv
<1>3. /\ Framed(Tail(inbox)) /\ FieldOK(inbox, 1)
      /\ Len(inbox) \in Nat \ {0} /\ Len(Tail(inbox)) = Len(inbox) - 1 /\ Head(inbox) = inbox[1]
      /\ \A i \in 1..(Len(inbox) - 1) : Tail(inbox)[i] = inbox[i + 1]
    BY <1>1, <1>2, FramedTail
<1>4. UNCHANGED frame
    BY DEF frame, server
<1>5. Framed(inbox)'
    BY <1>1, <1>3, <1>4, FrameKept DEF Framed, IsList
<1>6. Len(inbox) = 1 => inbox' = <<>>
  <2>1. \E X : inbox' \in Seq(X)
    BY <1>5 DEF Framed, IsList
  <2>2. Len(inbox) = 1 => Len(inbox') = 0
    BY <1>1, <1>3
  <2> QED
    BY <2>1, <2>2
<1> QED
    BY <1>1, <1>2, <1>3, <1>5, <1>6

\* A request goes out, or the exception of send() does.
LEMMA SendStep ==
    ASSUME IInv, step = "send", NEW request, sendRequest(request), Asked(request)',
           UNCHANGED <<config, sessions, server, left, offered, completed, header, serverFirst>>,
           \/ nonce' = nonce /\ turn # "first"
           \/ turn = "first" /\ nonce' = sessions
    PROVE  IInv'
<1>1. CASE Throw("AfterSend") /\ peer = "gone"
  <2>1. Blames("AfterSend")
    BY <1>1 DEF IInv, OutcomeInv, Blames
  <2> QED
    BY <1>1, <2>1, ThrowStep
<1>2. CASE /\ Go(turn, "header") /\ UNCHANGED <<peer, inbox>>
           /\ outbox' = IF peer = "up" THEN <<request>> ELSE <<>>
  <2>1. /\ step' = "header" /\ turn' = turn /\ thrown' = thrown /\ inbox' = inbox
        /\ inbox = <<>>
    BY <1>2 DEF Go, IInv, StreamInv
  <2>2. TypeInv'
    BY <2>1 DEF IInv, TypeInv, Steps, config
  <2>3. StreamInv'
    <3>1. Framed(inbox)'
      BY <2>1 DEF Framed, IsList
    <3>2. outbox' # <<>> => outbox' = <<outbox'[1]>> /\ outbox'[1] = request
      BY <1>2
    <3> QED
      BY <2>1, <3>1, <3>2 DEF StreamInv, Asked
  <2>4. OfferInv'
    BY <2>1 DEF IInv, OfferInv, config, Offered
  <2>5. NonceInv'
    BY <2>1 DEF IInv, NonceInv, config
  <2>6. OutcomeInv'
    BY <1>2, <2>1 DEF IInv, OutcomeInv, CorrectServerNotBlamed, config, server, Offered
  <2> QED
    BY <2>2, <2>3, <2>4, <2>5, <2>6 DEF IInv
<1> QED
    BY <1>1, <1>2 DEF sendRequest

\* The handshake goes on to a step where no request is out and the stream is read.
Reading == {"topology", "check", "message", "count", "name", "flag", "challenge"}

\* What reading a field, or looking at one, has to establish for the rest to hold.
LEMMA ReadStep ==
    ASSUME IInv, step \in Reading \cup {"header"}, step' \in Reading,
           turn' = turn, thrown' = thrown, peer' = peer, outbox' = <<>>,
           UNCHANGED <<config, sessions, server, nonce, serverFirst>>,
           Framed(inbox)', left' \in Nat, offered' \in BOOLEAN,
           step' \in {"topology", "check"} /\ correct => HeaderOK(header'),
           step' = "challenge" => /\ Len(inbox') <= 1
                                  /\ correct /\ turn = "first" => ~completed',
           OfferInv'
    PROVE  IInv'
<1>1. TypeInv'
    BY DEF IInv, TypeInv, Steps, Reading, config
<1>2. StreamInv'
    BY DEF StreamInv, Reading, HeaderOK, Opcode, config
<1>3. NonceInv'
    BY DEF IInv, NonceInv, Reading, config
<1>4. OutcomeInv'
    BY DEF IInv, OutcomeInv, CorrectServerNotBlamed, Reading, config, server, Offered
<1> QED
    BY <1>1, <1>2, <1>3, <1>4 DEF IInv

\* A step that leaves the list of mechanisms alone.
LEMMA OfferKept ==
    ASSUME IInv, step # "failed", step # "name", step' # "name", turn' = turn,
           step' = "count" => turn = "list",
           UNCHANGED <<config, offered>>
    PROVE  OfferInv'
BY DEF IInv, OfferInv, config, Offered

\* The field that the client looks at.
LEMMA FirstField ==
    ASSUME IInv, inbox # <<>>
    PROVE  /\ FieldOK(inbox, 1) /\ Head(inbox) = inbox[1] /\ outbox = <<>>
           /\ Len(inbox) \in Nat \ {0}
           /\ Len(inbox) <= 1 => Tail(inbox) = <<>>
<1>1. Framed(inbox) /\ offer \in Seq(STRING) /\ outbox = <<>>
    BY DEF IInv, StreamInv, TypeInv
<1>2. /\ Framed(Tail(inbox)) /\ FieldOK(inbox, 1)
      /\ Len(inbox) \in Nat \ {0} /\ Len(Tail(inbox)) = Len(inbox) - 1 /\ Head(inbox) = inbox[1]
    BY <1>1, FramedTail
<1>3. Len(inbox) <= 1 => Len(Tail(inbox)) = 0
    BY <1>2
<1>4. \E X : Tail(inbox) \in Seq(X)
    BY <1>2 DEF Framed, IsList
<1> QED
    BY <1>1, <1>2, <1>3, <1>4

\* The answer has been read up to its end and the next exchange begins, or the read
\* thread takes over.
LEMMA DoneStep ==
    ASSUME IInv, inbox' = <<>>, outbox' = <<>>, peer' = peer, thrown' = thrown,
           UNCHANGED <<config, sessions, server, left, offered, completed, nonce, header>>,
           step \notin {"idle", "mechanism", "failed"},
           \/ step' = "send" /\ turn = "list" /\ offered /\ turn' = "first"
           \/ /\ step' = "send" /\ turn = "first" /\ step # "send" /\ turn' = "final"
              /\ serverFirst'.nonce[1] = nonce
           \/ /\ step' = "connected" /\ turn = "final" /\ turn' = turn
              /\ UNCHANGED serverFirst /\ secret = password
              /\ signed = authMessage(nonce, serverFirst) /\ (correct => accepted)
    PROVE  IInv'
<1>1. TypeInv'
    BY DEF IInv, TypeInv, Steps, config
<1>2. StreamInv'
  <2>1. Framed(inbox)'
    BY DEF Framed, IsList
  <2> QED
    BY <2>1 DEF StreamInv
<1>3. OfferInv'
    BY DEF IInv, OfferInv, config, Offered
<1>4. NonceInv'
    BY DEF IInv, NonceInv, config
<1>5. OutcomeInv'
    BY DEF IInv, OutcomeInv, CorrectServerNotBlamed, config, server, Offered, authMessage
<1> QED
    BY <1>1, <1>2, <1>3, <1>4, <1>5 DEF IInv

\* The requests.
LEMMA RequestStep ==
    ASSUME IInv, UNCHANGED <<config, sessions, server>>,
           SendMechList \/ SendClientFirst \/ SendClientFinal
    PROVE  IInv'
<1>1. CASE SendMechList
  <2> DEFINE r == [type |-> "list"]
  <2>1. step = "send" /\ turn = "list" /\ sendRequest(r) /\ UNCHANGED local /\ turn' = turn
    BY <1>1 DEF SendMechList, sendRequest, Go, Throw
  <2>2. Asked(r)'
    BY <2>1 DEF Asked
  <2> HIDE DEF r
  <2> QED
    BY <2>1, <2>2, SendStep DEF local
<1>2. CASE SendClientFirst
  <2>1. PICK r : r = [type |-> "client-first", mech |-> mechanism, nonce |-> nonce']
    OBVIOUS
  <2>2. /\ step = "send" /\ turn = "first" /\ nonce' = sessions
        /\ UNCHANGED <<left, offered, completed, serverFirst, header>>
        /\ sendRequest(r) \/ Throw("untyped")
    BY <1>2, <2>1 DEF SendClientFirst, generateNonce
  <2>3. CASE sendRequest(r)
    <3>1. Asked(r)'
      BY <2>1, <2>2, <2>3 DEF Asked, sendRequest, Go, Throw
    <3> QED
      BY <2>2, <2>3, <3>1, SendStep
  <2>4. CASE Throw("untyped")
    <3>1. Blames("untyped")
      BY DEF Blames
    <3> QED
      BY <2>2, <2>4, <3>1, ThrowStep
  <2> QED
    BY <2>2, <2>3, <2>4
<1>3. CASE SendClientFinal
  <2>1. PICK r : r = [type |-> "client-final", mech |-> mechanism,
                      nonce |-> serverFirst.nonce,
                      proof |-> ClientProof(password, nonce, serverFirst, mechanism)]
    OBVIOUS
  <2>2. /\ step = "send" /\ turn = "final" /\ UNCHANGED local
        /\ sendRequest(r) \/ Throw("untyped")
    BY <1>3, <2>1 DEF SendClientFinal
  <2>3. CASE sendRequest(r)
    <3>1. turn' = turn
      BY <2>3 DEF sendRequest, Go, Throw
    <3>2. /\ r.type = "client-final" /\ r.mech = mechanism
          /\ r.proof = ClientProof(password, nonce, serverFirst, mechanism)
      BY <2>1
    <3>3. ClientProof(password, nonce, serverFirst, mechanism)' =
              ClientProof(password, nonce, serverFirst, mechanism)
      BY <2>2 DEF config, local, ClientProof, SaltedPassword, authMessage
    <3>4. Asked(r)'
      BY <2>2, <3>1, <3>2, <3>3 DEF Asked, config
    <3> QED
      BY <2>2, <2>3, <3>4, SendStep DEF local
  <2>4. CASE Throw("untyped")
    <3>1. Blames("untyped")
      BY DEF Blames
    <3> QED
      BY <2>2, <2>4, <3>1, ThrowStep DEF local
  <2> QED
    BY <2>2, <2>3, <2>4
<1> QED
    BY <1>1, <1>2, <1>3

\* readResponseHeader(), with the exceptions of receive().
LEMMA HeaderStep ==
    ASSUME IInv, UNCHANGED <<config, sessions, server>>,
           \/ ChooseDigest \/ ReceiveThrows \/ InvalidMagic \/ ReadHeader \/ ReadTopology
           \/ CheckHeader \/ ReadErrorMessage
    PROVE  IInv'
<1>0. Blames("untyped") /\ Blames("BeforeSend")
    BY DEF Blames
<1>1. CASE ChooseDigest
  <2>1. CASE Throw("BeforeSend")
    BY <1>0, <1>1, <2>1, ThrowStep DEF ChooseDigest, local
  <2>2. CASE mechanism \in Supported /\ Go("list", "send") /\ UNCHANGED network
    <3>1. /\ step = "mechanism" /\ turn = "list" /\ inbox = <<>> /\ outbox = <<>>
          /\ step' = "send" /\ turn' = turn /\ UNCHANGED <<thrown, network, local>>
      BY <1>1, <2>2 DEF ChooseDigest, Go, IInv, StreamInv, NonceInv
    <3>2. TypeInv'
      BY <3>1 DEF IInv, TypeInv, Steps, config, local
    <3>3. StreamInv'
      <4>1. Framed(inbox)'
        BY <3>1 DEF Framed, IsList, network
      <4> QED
        BY <3>1, <4>1 DEF StreamInv, network
    <3>4. OfferInv'
      BY <3>1 DEF IInv, OfferInv, config, local, Offered
    <3>5. NonceInv'
      BY <2>2, <3>1 DEF IInv, NonceInv, config, local
    <3>6. OutcomeInv'
      BY <3>1 DEF IInv, OutcomeInv, CorrectServerNotBlamed, config, network, server, Offered
    <3> QED
      BY <3>2, <3>3, <3>4, <3>5, <3>6 DEF IInv
  <2> QED
    BY <1>1, <2>1, <2>2 DEF ChooseDigest
<1>2. CASE ReceiveThrows
  <2>1. Throw("untyped") /\ step # "send" /\ UNCHANGED local
    BY <1>2 DEF ReceiveThrows
  <2> QED
    BY <1>0, <2>1, ThrowStep DEF local
<1>3. CASE InvalidMagic
  <2>1. /\ step = "header" /\ inbox # <<>> /\ Head(inbox).field # "header"
        /\ Throw("AfterSend") /\ UNCHANGED local
    BY <1>3 DEF InvalidMagic
  <2>2. ~correct
    BY <2>1, FirstField DEF IInv, StreamInv
  <2>3. Blames("AfterSend")
    BY <2>2 DEF Blames
  <2> QED
    BY <2>1, <2>3, ThrowStep DEF local
<1>4. CASE ReadHeader
  <2>1. /\ step = "header" /\ Receive("header") /\ header' = Head(inbox)
        /\ step' \in {"topology", "check"} /\ turn' = turn /\ thrown' = thrown
        /\ UNCHANGED <<left, offered, completed, nonce, serverFirst>>
    BY <1>4 DEF ReadHeader, Go, AfterHeader
  <2>2. /\ Framed(inbox)' /\ FieldOK(inbox, 1) /\ inbox[1].field = "header"
        /\ header' = inbox[1] /\ outbox' = <<>> /\ peer' = peer
    BY <2>1, ReceiveStep
  <2>3. correct => HeaderOK(header')
    BY <2>2 DEF FieldOK
  <2>4. OfferInv'
    BY <2>1, OfferKept
  <2>5. left' \in Nat /\ offered' \in BOOLEAN
    BY <2>1 DEF IInv, TypeInv
  <2> QED
    BY <2>1, <2>2, <2>3, <2>4, <2>5, ReadStep DEF Reading
<1>5. CASE ReadTopology
  <2>1. /\ step = "topology" /\ Receive("topology")
        /\ step' = "check" /\ turn' = turn /\ thrown' = thrown
        /\ UNCHANGED <<left, offered, completed, nonce, serverFirst, header>>
    BY <1>5 DEF ReadTopology, Go, local
  <2>2. Framed(inbox)' /\ outbox' = <<>> /\ peer' = peer
    BY <2>1, ReceiveStep
  <2>3. correct => HeaderOK(header')
    BY <2>1 DEF IInv, StreamInv
  <2>4. OfferInv'
    BY <2>1, OfferKept
  <2>5. left' \in Nat /\ offered' \in BOOLEAN
    BY <2>1 DEF IInv, TypeInv
  <2> QED
    BY <2>1, <2>2, <2>3, <2>4, <2>5, ReadStep DEF Reading
<1>6. CASE CheckHeader
  <2>1. step = "check" /\ UNCHANGED local /\ (correct => HeaderOK(header))
    BY <1>6 DEF CheckHeader, IInv, StreamInv
  <2>2. CASE header.opcode # "ERROR_RESPONSE" /\ header.status # "NO_ERROR" /\ Throw("ServerError")
    <3>1. Blames("ServerError")
      BY <2>1, <2>2 DEF Blames, HeaderOK
    <3> QED
      BY <2>1, <2>2, <3>1, ThrowStep DEF local
  <2>3. CASE header.opcode \notin {"ERROR_RESPONSE", Opcode} /\ Throw("AfterSend")
    <3>1. Blames("AfterSend")
      BY <2>1, <2>3 DEF Blames, HeaderOK
    <3> QED
      BY <2>1, <2>3, <3>1, ThrowStep DEF local
  <2>4. ASSUME NEW s \in {"message", "count", "flag"}, Go(turn, s), UNCHANGED network,
               s = "count" => turn = "list"
        PROVE  IInv'
    <3>1. step' = s /\ turn' = turn /\ thrown' = thrown /\ UNCHANGED <<inbox, outbox, peer>>
      BY <2>4 DEF Go, network
    <3>2. outbox = <<>> /\ Framed(inbox)
      BY <2>1 DEF IInv, StreamInv
    <3>3. Framed(inbox)'
      <4>1. UNCHANGED frame
        BY <2>1, <3>1 DEF frame, local, server
      <4> QED
        BY <3>1, <3>2, <4>1, FrameKept DEF Framed, IsList
    <3>4. OfferInv'
      BY <2>1, <2>4, <3>1, OfferKept DEF local
    <3>5. left' \in Nat /\ offered' \in BOOLEAN
      BY <2>1 DEF IInv, TypeInv, local
    <3> QED
      BY <2>1, <3>1, <3>2, <3>3, <3>4, <3>5, ReadStep DEF Reading, local
  <2>5. \/ header.opcode # "ERROR_RESPONSE" /\ header.status # "NO_ERROR" /\ Throw("ServerError")
        \/ header.opcode \notin {"ERROR_RESPONSE", Opcode} /\ Throw("AfterSend")
        \/ \E s \in {"message", "count", "flag"} :
              Go(turn, s) /\ UNCHANGED network /\ (s = "count" => turn = "list")
    BY <1>6 DEF CheckHeader
  <2> QED
    BY <2>2, <2>3, <2>4, <2>5
<1>7. CASE ReadErrorMessage
  <2>1. /\ step = "message" /\ inbox # <<>> /\ Head(inbox).field = "message"
        /\ Throw("ServerError") /\ UNCHANGED local
    BY <1>7 DEF ReadErrorMessage
  <2>2. refused
    BY <2>1, FirstField DEF FieldOK
  <2>3. Blames("ServerError")
    BY <2>2 DEF Blames
  <2> QED
    BY <2>1, <2>3, ThrowStep DEF local
<1> QED
    BY <1>1, <1>2, <1>3, <1>4, <1>5, <1>6, <1>7

\* The list of mechanisms: it is read to its end whether the mechanism is in it or
\* not, so that what is left of it is known at every field.
LEMMA ListStep ==
    ASSUME IInv, UNCHANGED <<config, sessions, server>>, ReadCount \/ ReadName \/ CheckOffered
    PROVE  IInv'
<1>0. /\ offer \in Seq(STRING) /\ Len(offer) \in Nat /\ offer' = offer /\ mechanism' = mechanism
      /\ left \in Nat
    BY DEF IInv, TypeInv, config
<1>1. CASE ReadCount
  <2>1. /\ step = "count" /\ Receive("count") /\ left' = Head(inbox).value
        /\ step' = "name" /\ turn' = turn /\ thrown' = thrown
        /\ UNCHANGED <<offered, completed, nonce, serverFirst, header>>
    BY <1>1 DEF ReadCount, Go
  <2>2. /\ Framed(inbox)' /\ FieldOK(inbox, 1) /\ inbox[1].field = "count"
        /\ Head(inbox) = inbox[1] /\ outbox' = <<>> /\ peer' = peer
        /\ Len(inbox) \in Nat \ {0} /\ Len(inbox') = Len(inbox) - 1
        /\ \A i \in 1..(Len(inbox) - 1) : inbox'[i] = inbox[i + 1]
    BY <2>1, ReceiveStep
  <2>3. /\ left' = Len(offer) /\ Len(inbox) <= 1 + Len(offer)
        /\ \A j \in (1 + 1)..Len(inbox) : inbox[j].value = offer[j - 1]
    BY <2>1, <2>2 DEF FieldOK
  <2>4. OfferInv'
    <3>1. turn = "list" /\ ~offered
      BY <2>1 DEF IInv, OfferInv
    <3>2. ASSUME NEW i \in 1..Len(inbox')
          PROVE  inbox'[i].value = offer[(Len(offer) - left') + i]
      <4>1. i + 1 \in (1 + 1)..Len(inbox) /\ (i + 1) - 1 = i /\ inbox'[i] = inbox[i + 1]
        BY <2>2
      <4>2. (Len(offer) - left') + i = i
        BY <1>0, <2>3
      <4> QED
        BY <2>3, <4>1, <4>2
    <3>3. Len(inbox') <= left' /\ left' <= Len(offer) /\ 1..(Len(offer) - left') = {}
      BY <1>0, <2>2, <2>3
    <3> QED
      BY <1>0, <2>1, <3>1, <3>2, <3>3 DEF OfferInv
  <2>5. left' \in Nat /\ offered' \in BOOLEAN
    BY <1>0, <2>1, <2>3 DEF IInv, TypeInv
  <2> QED
    BY <2>1, <2>2, <2>4, <2>5, ReadStep DEF Reading
<1>2. CASE ReadName
  <2>1. /\ step = "name" /\ left > 0 /\ Receive("name") /\ left' = left - 1
        /\ offered' = (offered \/ Head(inbox).value = mechanism)
        /\ step' = "name" /\ turn' = turn /\ thrown' = thrown
        /\ UNCHANGED <<completed, nonce, serverFirst, header>>
    BY <1>2 DEF ReadName, Go
  <2>2. /\ Framed(inbox)' /\ Head(inbox) = inbox[1] /\ outbox' = <<>> /\ peer' = peer
        /\ Len(inbox) \in Nat \ {0} /\ Len(inbox') = Len(inbox) - 1
        /\ \A i \in 1..(Len(inbox) - 1) : inbox'[i] = inbox[i + 1]
    BY <2>1, ReceiveStep
  <2> DEFINE k == Len(offer) - left
  <2>3. /\ turn = "list" /\ left <= Len(offer) /\ Len(inbox) <= left
        /\ \A i \in 1..Len(inbox) : inbox[i].value = offer[k + i]
        /\ offered <=> \E i \in 1..k : offer[i] = mechanism
    BY <2>1 DEF IInv, OfferInv
  <2>4. /\ k \in Nat /\ Len(offer) - left' = k + 1 /\ k + 1 <= Len(offer)
    BY <1>0, <2>1, <2>3
  <2> HIDE DEF k
  <2>5. inbox[1].value = offer[k + 1]
    BY <2>2, <2>3
  <2>6. offered' <=> \E i \in 1..(k + 1) : offer[i] = mechanism
    <3>1. \A i : i \in 1..(k + 1) <=> i \in 1..k \/ i = k + 1
      BY <2>4
    <3>2. (offered \/ offer[k + 1] = mechanism) <=> \E i \in 1..(k + 1) : offer[i] = mechanism
      BY <2>3, <3>1
    <3> QED
      BY <2>1, <2>2, <2>5, <3>2
  <2>7. OfferInv'
    <3>1. ASSUME NEW i \in 1..Len(inbox')
          PROVE  inbox'[i].value = offer[(k + 1) + i]
      <4>1. i \in Nat /\ i + 1 \in 1..Len(inbox) /\ inbox'[i] = inbox[i + 1]
        BY <2>2
      <4>2. k + (i + 1) = (k + 1) + i
        BY <2>4, <4>1
      <4> QED
        BY <2>3, <4>1, <4>2
    <3>2. Len(inbox') <= left' /\ left' <= Len(offer)
      BY <1>0, <2>1, <2>2, <2>3
    <3>3. offered' => Offered(mechanism)
      <4>1. 1..(k + 1) \subseteq 1..Len(offer)
        BY <1>0, <2>4
      <4> QED
        BY <2>6, <4>1 DEF Offered
    <3> QED
      BY <1>0, <2>1, <2>3, <2>4, <2>6, <3>1, <3>2, <3>3 DEF OfferInv, Offered
  <2>8. left' \in Nat /\ offered' \in BOOLEAN
    BY <1>0, <2>1 DEF IInv, TypeInv
  <2> QED
    BY <2>1, <2>2, <2>7, <2>8, ReadStep DEF Reading
<1>3. CASE CheckOffered
  <2>1. step = "name" /\ left = 0 /\ UNCHANGED local
    BY <1>3 DEF CheckOffered
  <2>2. /\ turn = "list" /\ inbox = <<>> /\ outbox = <<>>
        /\ offered <=> Offered(mechanism)
    <3>1. /\ turn = "list" /\ Len(inbox) <= 0
          /\ offered <=> \E i \in 1..(Len(offer) - 0) : offer[i] = mechanism
      BY <2>1 DEF IInv, OfferInv
    <3>2. inbox = <<>>
      BY <3>1, FirstField
    <3>3. outbox = <<>> /\ Len(offer) - 0 = Len(offer)
      BY <1>0, <2>1 DEF IInv, StreamInv
    <3> QED
      BY <3>1, <3>2, <3>3 DEF Offered
  <2>3. CASE offered /\ Go("first", "send") /\ UNCHANGED network
    <3>1. /\ step' = "send" /\ turn' = "first" /\ thrown' = thrown /\ peer' = peer
          /\ inbox' = <<>> /\ outbox' = <<>>
      BY <2>2, <2>3 DEF Go, network
    <3> QED
      BY <2>1, <2>2, <2>3, <3>1, DoneStep DEF local
  <2>4. CASE ~offered /\ Throw("AfterSend")
    <3>1. Blames("AfterSend")
      BY <2>2, <2>4 DEF Blames
    <3> QED
      BY <2>1, <2>4, <3>1, ThrowStep DEF local
  <2> QED
    BY <1>3, <2>3, <2>4 DEF CheckOffered
<1> QED
    BY <1>1, <1>2, <1>3

\* readAuth() and the two checks of SCRAM.
LEMMA AuthStep ==
    ASSUME IInv, UNCHANGED <<config, sessions, server>>,
           ReadFlag \/ TakeServerFirst \/ TakeServerFinal
    PROVE  IInv'
<1>1. CASE ReadFlag
  <2>1. /\ step = "flag" /\ Receive("flag") /\ completed' = Head(inbox).value
        /\ step' = "challenge" /\ turn' = turn /\ thrown' = thrown
        /\ UNCHANGED <<left, offered, nonce, serverFirst, header>>
    BY <1>1 DEF ReadFlag, Go
  <2>2. /\ Framed(inbox)' /\ FieldOK(inbox, 1) /\ inbox[1].field = "flag"
        /\ Head(inbox) = inbox[1] /\ outbox' = <<>> /\ peer' = peer
        /\ Len(inbox) \in Nat \ {0} /\ Len(inbox') = Len(inbox) - 1
    BY <2>1, ReceiveStep
  <2>3. Len(inbox) <= 1 + 1 /\ (correct /\ turn = "first" => ~completed')
    BY <2>1, <2>2 DEF FieldOK
  <2>4. Len(inbox') <= 1
    BY <2>2, <2>3
  <2>5. OfferInv'
    BY <2>1, OfferKept
  <2>6. left' \in Nat /\ offered' \in BOOLEAN
    BY <2>1 DEF IInv, TypeInv
  <2> QED
    BY <2>1, <2>2, <2>3, <2>4, <2>5, <2>6, ReadStep DEF Reading
<1>2. ASSUME NEW t, AtChallenge(t)
      PROVE  /\ step = "challenge" /\ turn = t /\ inbox # <<>>
             /\ ChallengeOK(Head(inbox).value) /\ Tail(inbox) = <<>> /\ outbox = <<>>
  <2>1. step = "challenge" /\ turn = t /\ inbox # <<>> /\ Head(inbox).field = "challenge"
    BY <1>2 DEF AtChallenge
  <2>2. /\ FieldOK(inbox, 1) /\ Head(inbox) = inbox[1] /\ outbox = <<>>
        /\ Len(inbox) <= 1 => Tail(inbox) = <<>>
    BY <2>1, FirstField
  <2>3. Len(inbox) <= 1
    BY <2>1 DEF IInv, StreamInv
  <2> QED
    BY <2>1, <2>2, <2>3 DEF FieldOK
<1>3. CASE TakeServerFirst
  <2>1. PICK sf : sf = Head(inbox).value
    OBVIOUS
  <2>2. /\ step = "challenge" /\ turn = "first" /\ ChallengeOK(sf)
        /\ Tail(inbox) = <<>> /\ outbox = <<>>
        /\ UNCHANGED <<left, offered, completed, nonce, header>>
    BY <1>2, <1>3, <2>1 DEF TakeServerFirst
  <2>3. CASE Plausible(sf) /\ serverFirst' = sf /\ Receive("challenge") /\ Go("final", "send")
    <3>1. /\ step' = "send" /\ turn' = "final" /\ thrown' = thrown /\ peer' = peer
          /\ inbox' = <<>> /\ outbox' = <<>> /\ serverFirst'.nonce[1] = nonce
      BY <2>2, <2>3 DEF Receive, Go, Plausible, ExtendsNonce
    <3> QED
      BY <2>2, <3>1, DoneStep
  <2>4. CASE ~Plausible(sf) /\ Throw("ServerError") /\ UNCHANGED serverFirst
    <3>1. correct => Plausible(sf)
      BY <2>2 DEF Plausible, ChallengeOK, IInv, StreamInv
    <3>2. Blames("ServerError")
      BY <2>4, <3>1 DEF Blames
    <3> QED
      BY <2>2, <2>4, <3>2, ThrowStep
  <2> QED
    BY <1>3, <2>1, <2>3, <2>4 DEF TakeServerFirst
<1>4. CASE TakeServerFinal
  <2>1. PICK final : final = Head(inbox).value
    OBVIOUS
  <2>2. /\ step = "challenge" /\ turn = "final" /\ ChallengeOK(final)
        /\ Tail(inbox) = <<>> /\ outbox = <<>> /\ UNCHANGED local
    BY <1>2, <1>4, <2>1 DEF TakeServerFinal
  <2>3. CASE verifyServerFinalMessage(final) /\ Receive("challenge") /\ Go("final", "connected")
    <3>1. /\ step' = "connected" /\ turn' = "final" /\ thrown' = thrown /\ peer' = peer
          /\ inbox' = <<>> /\ outbox' = <<>>
      BY <2>2, <2>3 DEF Receive, Go
    <3>2. final.signature = ServerSignature(password, nonce, serverFirst, mechanism)
      BY <2>3 DEF verifyServerFinalMessage
    <3>3. /\ final.signature[2][2][1] = password
          /\ final.signature[3] = authMessage(nonce, serverFirst)
      BY <3>2, SignatureParts
    <3>4. secret = password /\ signed = authMessage(nonce, serverFirst) /\ (correct => accepted)
      BY <2>2, <2>3, <3>3 DEF ChallengeOK, verifyServerFinalMessage
    <3> QED
      BY <2>2, <3>1, <3>4, DoneStep DEF local
  <2>4. CASE ~verifyServerFinalMessage(final) /\ Throw("ServerError")
    <3>1. Blames("ServerError")
      BY <2>2, <2>4 DEF Blames, ChallengeOK
    <3> QED
      BY <2>2, <2>4, <3>1, ThrowStep DEF local
  <2>5. CASE Throw("untyped")
    <3>1. Blames("untyped")
      BY DEF Blames
    <3> QED
      BY <2>2, <2>5, <3>1, ThrowStep DEF local
  <2> QED
    BY <1>4, <2>1, <2>3, <2>4, <2>5 DEF TakeServerFinal
<1> QED
    BY <1>1, <1>3, <1>4

-----------------------------------------------------------------------------
(* The invariant *)

LEMMA InitInv == Init => IInv
<1> SUFFICES ASSUME Init PROVE IInv
    OBVIOUS
<1>1. TypeInv
    BY HandshakeAssumption DEF Init, TypeInv, Steps
<1>2. StreamInv
    BY FramedEmpty DEF Init, StreamInv
<1>3. OfferInv /\ NonceInv
    BY DEF Init, OfferInv, NonceInv
<1>4. OutcomeInv
    BY DEF Init, OutcomeInv, CorrectServerNotBlamed
<1> QED
    BY <1>1, <1>2, <1>3, <1>4 DEF IInv

\* A session starts anew whatever became of the last one.
LEMMA OpenStep ==
    ASSUME IInv, Open
    PROVE  IInv'
<1>1. TypeInv'
  <2>1. sessions' \in Nat /\ offer' \in Seq(STRING)
    BY DEF IInv, Open, TypeInv, config
  <2> QED
    BY <2>1 DEF Open, TypeInv, Steps
<1>2. StreamInv'
  <2>1. Framed(inbox)'
    BY DEF Open, Framed, IsList
  <2> QED
    BY <2>1 DEF Open, StreamInv
<1>3. OfferInv' /\ NonceInv'
    BY DEF Open, OfferInv, NonceInv
<1>4. OutcomeInv'
    BY DEF Open, OutcomeInv, CorrectServerNotBlamed
<1> QED
    BY <1>1, <1>2, <1>3, <1>4 DEF IInv

\* The connection may be lost at any field.
LEMMA DropStep ==
    ASSUME IInv, PeerDrop
    PROVE  IInv'
<1>1. /\ cut' = TRUE /\ outbox' = <<>> /\ step \notin {"connected", "failed"}
      /\ UNCHANGED <<config, turn, step, thrown, sessions, local, first, signed, accepted, refused>>
    BY DEF PeerDrop
<1>2. PICK n \in 0..Len(inbox) : inbox' = SubSeq(inbox, 1, n)
    BY DEF PeerDrop
<1>3. Framed(inbox) /\ offer \in Seq(STRING)
    BY DEF IInv, StreamInv, TypeInv
<1>4. /\ Framed(SubSeq(inbox, 1, n)) /\ Len(inbox') = n /\ Len(inbox) \in Nat
      /\ \A i \in 1..n : inbox'[i] = inbox[i]
    BY <1>2, <1>3, FramedPrefix
<1>5. Framed(inbox)'
  <2>1. UNCHANGED frame
    BY <1>1 DEF frame, local
  <2> QED
    BY <1>2, <1>4, <2>1, FrameKept DEF Framed, IsList
<1>6. inbox = <<>> => inbox' = <<>>
    BY <1>2, <1>4
<1>7. inbox' # <<>> => 1 \in 1..n
  <2>1. \E X : inbox' \in Seq(X)
    BY <1>5 DEF Framed, IsList
  <2>2. n = 0 => inbox' = <<>>
    BY <1>4, <2>1
  <2> QED
    BY <2>2
<1>8. TypeInv'
    BY <1>1 DEF IInv, TypeInv, config, local
<1>9. StreamInv'
  <2>1. n <= Len(inbox) /\ (Len(inbox) <= 1 => Len(inbox') <= 1)
    BY <1>4
  <2>2. inbox' # <<>> => inbox # <<>> /\ inbox'[1] = inbox[1]
    BY <1>4, <1>6, <1>7
  <2> QED
    BY <1>1, <1>5, <1>6, <2>1, <2>2 DEF IInv, StreamInv, config, local, HeaderOK, Opcode
<1>10. OfferInv'
  <2>1. \A m \in Nat : Len(inbox) <= m => Len(inbox') <= m
    BY <1>4
  <2>2. \A i \in 1..Len(inbox') : i \in 1..Len(inbox) /\ inbox'[i] = inbox[i]
    BY <1>4
  <2>3. left \in Nat
    BY DEF IInv, TypeInv
  <2> QED
    BY <1>1, <2>1, <2>2, <2>3 DEF IInv, OfferInv, config, local, Offered
<1>11. NonceInv'
    BY <1>1 DEF IInv, NonceInv, config, local
<1>12. OutcomeInv'
    BY <1>1 DEF IInv, OutcomeInv, CorrectServerNotBlamed, config, Offered
<1> QED
    BY <1>8, <1>9, <1>10, <1>11, <1>12 DEF IInv

LEMMA StutterStep ==
    ASSUME IInv, UNCHANGED vars
    PROVE  IInv'
<1>1. /\ UNCHANGED <<config, turn, step, thrown, sessions, local, network, server>>
      /\ UNCHANGED frame
    BY DEF vars, frame, local, server
<1>2. Framed(inbox)'
    BY <1>1, FrameKept DEF IInv, StreamInv, Framed, IsList, network
<1>3. StreamInv'
  <2>1. \A r : Asked(r) => Asked(r)'
    BY <1>1 DEF Asked, config, local, ClientProof, SaltedPassword, authMessage
  <2> QED
    BY <1>1, <1>2, <2>1 DEF IInv, StreamInv, config, local, network, HeaderOK, Opcode
<1>4. TypeInv' /\ NonceInv'
    BY <1>1 DEF IInv, TypeInv, NonceInv, config, local
<1>5. OfferInv'
    BY <1>1 DEF IInv, OfferInv, config, local, network, Offered
<1>6. OutcomeInv'
    BY <1>1 DEF IInv, OutcomeInv, CorrectServerNotBlamed, config, local, network, server,
                Offered, authMessage
<1> QED
    BY <1>3, <1>4, <1>5, <1>6 DEF IInv

LEMMA Invariance == Spec => []IInv
<1>1. IInv /\ [Next]_vars => IInv'
  <2> SUFFICES ASSUME IInv, [Next]_vars PROVE IInv'
    OBVIOUS
  <2>1. CASE Client
    BY <2>1, RequestStep, HeaderStep, ListStep, AuthStep DEF Client
  <2> QED
    BY <2>1, OpenStep, ServerStep, DropStep, StutterStep DEF Next
<1> QED
    BY <1>1, InitInv, PTL DEF Spec

-----------------------------------------------------------------------------
(* What the handshake guarantees *)

\* connect() returns only when a server that has the password of the client, over a
\* mechanism that it offered and the client supports, has signed this very exchange
\* (verifyServerFinalMessage(), SaslAuthenticator.cpp): the nonce of this session and
\* the server-first that the client saw.  A correct server has accepted the proof.
THEOREM Agreement == Spec => []ConnectedMeansAgreed
<1>1. IInv => ConnectedMeansAgreed
    BY DEF IInv, OfferInv, NonceInv, OutcomeInv, ConnectedMeansAgreed
<1> QED
    BY <1>1, Invariance, PTL

\* Every field of an answer is read before the next request goes out and before the
\* read thread gets the socket: neither side has anything under way then, however
\* long the list of mechanisms is and whatever a faulty server sends.
THEOREM NothingLeft == Spec => []HandshakeLeavesNothing
<1>1. IInv => HandshakeLeavesNothing
    BY DEF IInv, StreamInv, HandshakeLeavesNothing
<1> QED
    BY <1>1, Invariance, PTL

\* The phase of the exception that connect() throws is a true statement about a
\* correct server: it is blamed only after it sent an ERROR, and the client gives up
\* after a send only when the connection was lost or the mechanism is not offered.
THEOREM BlameIsDue == Spec => []CorrectServerNotBlamed
<1>1. IInv => CorrectServerNotBlamed
    BY DEF IInv, OutcomeInv
<1> QED
    BY <1>1, Invariance, PTL
==============================================================================
