-------------------------- MODULE OperationsProofs --------------------------
(***************************************************************************)
(* What the operations of RemoteCache.cpp guarantee with a server of       *)
(* protocol 4.0 or later, for any number of calls in any order, proved     *)
(* with TLAPS: every body parser takes its own body (TakesItsOwnBody), a   *)
(* returned entry is the previous one (EntryIsThePreviousOne), true means  *)
(* done (TrueMeansDone), and what is stored is what was asked for          *)
(* (StoredAsAsked).                                                        *)
(*                                                                         *)
(* The argument has three parts: a request is decoded as it was meant,     *)
(* whichever of its optional fields are present; for each status of each   *)
(* operation the parser takes as many fields as the server sent; and the   *)
(* stream is always a sequence of whole answers to the oldest calls, in    *)
(* their order, so that the parser that runs is the one the body is for.   *)
(***************************************************************************)
EXTENDS Operations, SequenceTheorems, TLAPS

-----------------------------------------------------------------------------
(* Types *)

Units   == [high : Nat, low : Nat]
Names   == {"created", "lifespan", "lastUsed", "maxIdle", "version", "value", "mediaType",
            "serverVersion", "opcodes"}
Plain   == [field : Names, is : Nat]
             \cup [field : {"flag"}, lifeInfinite : BOOLEAN, idleInfinite : BOOLEAN]
Entries == [value : Nat, lifespan : Nat, maxIdle : Nat]
Heads   == [field : {"header"}, status : 0..5, body : Seq(Plain), before : Entries,
            after : Entries]

\* What the arguments of a call can be.
LEMMA CallFields ==
    ASSUME NEW c \in Call
    PROVE  /\ c.previousValue \in BOOLEAN /\ c.lifespan \in {0, 5} /\ c.maxIdle \in {0, 9}
           /\ c.version \in Nat
           /\ c.previousValue => c.op \in {"put", "remove"} \cup Conditional
           /\ c.op \notin Writes => c.lifespan = 0 /\ c.maxIdle = 0
           /\ c.op \notin VersionedOps => c.version = 0
           /\ c.op \in {"ping", "get", "getWithMetadata", "containsKey", "put", "putIfAbsent",
                        "replace", "remove", "removeWithVersion", "replaceWithVersion"}
<1>1. /\ c \in [op : Operation, previousValue : BOOLEAN, lifespan : {0, 5},
                maxIdle : {0, 9}, version : 0..MaxCalls]
      /\ c.previousValue => c.op \in {"put", "remove"} \cup Conditional
      /\ c.op \notin Writes => c.lifespan = 0 /\ c.maxIdle = 0
      /\ (c.op \in VersionedOps) = (c.version > 0)
    BY DEF Call
<1>2. c.version \in Nat /\ c.op \in Operation
    BY <1>1, OperationsAssumption
<1>3. c.op \notin VersionedOps => c.version = 0
    BY <1>1, <1>2
<1>4. c.previousValue \in BOOLEAN /\ c.lifespan \in {0, 5} /\ c.maxIdle \in {0, 9}
    BY <1>1
<1> QED
    BY <1>1, <1>2, <1>3, <1>4, OperationsAssumption

-----------------------------------------------------------------------------
(* What is written is what the server decodes *)

\* One more field is written.
LEMMA FieldAdded ==
    ASSUME NEW S, NEW s \in Seq(S), NEW x \in S, NEW t, t = s \o <<x>>
    PROVE  /\ t \in Seq(S) /\ Len(t) = Len(s) + 1
           /\ \A i \in 1..Len(s) : t[i] = s[i]
           /\ t[Len(s) + 1] = x
<1>1. <<x>> \in Seq(S) /\ Len(<<x>>) = 1 /\ <<x>>[1] = x
    OBVIOUS
<1> QED
    BY <1>1

\* e is the unit byte, then the durations.
Expiring(e, l, m) ==
    /\ e \in Seq(Nat \cup Units)
    /\ Len(e) = 1 + (IF l > 0 THEN 1 ELSE 0) + (IF m > 0 THEN 1 ELSE 0)
    /\ e[1].high = (IF l = 0 THEN DEFAULT ELSE SECS)
    /\ e[1].low = (IF m = 0 THEN DEFAULT ELSE SECS)
    /\ l > 0 => e[2] = l
    /\ m > 0 => e[IF l > 0 THEN 3 ELSE 2] = m

LEMMA ExpirationFields ==
    ASSUME NEW l \in Nat, NEW m \in Nat
    PROVE  Expiring(writeExpiration(l, m), l, m)
<1>1. PICK u : u = [high |-> IF l = 0 THEN DEFAULT ELSE SECS,
                    low |-> IF m = 0 THEN DEFAULT ELSE SECS]
    OBVIOUS
<1>2. /\ u \in Units /\ u.high = (IF l = 0 THEN DEFAULT ELSE SECS)
      /\ u.low = (IF m = 0 THEN DEFAULT ELSE SECS)
    BY <1>1 DEF Units, DEFAULT, SECS
<1>3. PICK g : g = <<u>>
    OBVIOUS
<1>4. g \in Seq(Nat \cup Units) /\ Len(g) = 1 /\ g[1] = u
    BY <1>2, <1>3
<1>5. PICK f : f = g \o (IF l > 0 THEN <<l>> ELSE <<>>)
    OBVIOUS
<1>6. PICK e : e = f \o (IF m > 0 THEN <<m>> ELSE <<>>)
    OBVIOUS
<1>7. e = writeExpiration(l, m)
    BY <1>1, <1>3, <1>5, <1>6 DEF writeExpiration
<1>8. /\ f \in Seq(Nat \cup Units) /\ f[1] = u
      /\ l > 0 => Len(f) = 2 /\ f[2] = l
      /\ ~(l > 0) => Len(f) = 1
  <2>1. CASE l > 0
    <3>1. f = g \o <<l>>
      BY <1>5, <2>1
    <3> QED
      BY <1>4, <2>1, <3>1, FieldAdded
  <2>2. CASE ~(l > 0)
    <3>1. f = g \o <<>>
      BY <1>5, <2>2
    <3>2. f = g
      BY <1>4, <3>1
    <3> QED
      BY <1>4, <2>2, <3>2
  <2> QED
    BY <2>1, <2>2
<1>9. /\ e \in Seq(Nat \cup Units) /\ \A i \in 1..Len(f) : e[i] = f[i]
      /\ m > 0 => Len(e) = Len(f) + 1 /\ e[Len(f) + 1] = m
      /\ ~(m > 0) => Len(e) = Len(f)
  <2>1. CASE m > 0
    <3>1. e = f \o <<m>>
      BY <1>6, <2>1
    <3> QED
      BY <1>8, <2>1, <3>1, FieldAdded
  <2>2. CASE ~(m > 0)
    BY <1>6, <1>8, <2>2
  <2> QED
    BY <2>1, <2>2
<1>10. e[1] = u
    BY <1>8, <1>9
<1>11. l > 0 => e[2] = l
    BY <1>8, <1>9
<1>12. m > 0 => e[IF l > 0 THEN 3 ELSE 2] = m
  <2>1. CASE l > 0
    <3>1. Len(f) = 2
      BY <1>8, <2>1
    <3>2. m > 0 => e[2 + 1] = m
      BY <1>9, <3>1
    <3> QED
      BY <2>1, <3>2
  <2>2. CASE ~(l > 0)
    <3>1. Len(f) + 1 = 2
      BY <1>8, <2>2
    <3>2. m > 0 => e[2] = m
      BY <1>9, <3>1
    <3> QED
      BY <2>2, <3>2
  <2> QED
    BY <2>1, <2>2
<1>13. Len(e) = 1 + (IF l > 0 THEN 1 ELSE 0) + (IF m > 0 THEN 1 ELSE 0)
    BY <1>8, <1>9
<1> QED
    BY <1>2, <1>7, <1>9, <1>10, <1>11, <1>12, <1>13 DEF Expiring

\* What a server that reads c, the v-th call, is asked for.
Asked(c, v) == [lifespan |-> c.lifespan, maxIdle |-> c.maxIdle, version |-> c.version,
                value |-> IF c.op \in Writes THEN v ELSE 0]

\* The fields of a request, whichever of them are present, are decoded as they
\* were meant.
LEMMA DecodedAsMeant ==
    ASSUME NEW c \in Call, NEW v \in Nat
    PROVE  /\ requestBody(c, v) \in Seq(Nat \cup Units)
           /\ Decode(c.op, requestBody(c, v)) = Asked(c, v)
<1>0. /\ c.lifespan \in Nat /\ c.maxIdle \in Nat /\ c.version \in Nat
      /\ c.op \notin Writes => c.lifespan = 0 /\ c.maxIdle = 0
      /\ c.op \notin VersionedOps => c.version = 0
    BY CallFields
<1>1. PICK e : e = IF c.op \in Writes THEN writeExpiration(c.lifespan, c.maxIdle) ELSE <<>>
    OBVIOUS
<1>2. /\ e \in Seq(Nat \cup Units)
      /\ c.op \notin Writes => Len(e) = 0
      /\ c.op \in Writes => Expiring(e, c.lifespan, c.maxIdle)
  <2>1. CASE c.op \in Writes
    <3>1. Expiring(e, c.lifespan, c.maxIdle)
      BY <1>0, <1>1, <2>1, ExpirationFields
    <3> QED
      BY <2>1, <3>1 DEF Expiring
  <2>2. CASE c.op \notin Writes
    BY <1>1, <2>2
  <2> QED
    BY <2>1, <2>2
<1>3. PICK f : f = e \o (IF c.op \in VersionedOps THEN <<c.version>> ELSE <<>>)
    OBVIOUS
<1>4. /\ f \in Seq(Nat \cup Units) /\ Len(f) = Len(e) + (IF c.op \in VersionedOps THEN 1 ELSE 0)
      /\ \A i \in 1..Len(e) : f[i] = e[i]
      /\ c.op \in VersionedOps => f[Len(e) + 1] = c.version
  <2>1. CASE c.op \in VersionedOps
    <3>1. f = e \o <<c.version>> /\ c.version \in Nat \cup Units
      BY <1>0, <1>3, <2>1
    <3> QED
      BY <1>2, <2>1, <3>1, FieldAdded
  <2>2. CASE c.op \notin VersionedOps
    BY <1>2, <1>3, <2>2
  <2> QED
    BY <2>1, <2>2
<1>5. PICK b : b = requestBody(c, v)
    OBVIOUS
<1>6. b = f \o (IF c.op \in Writes THEN <<v>> ELSE <<>>)
    BY <1>1, <1>3, <1>5 DEF requestBody
<1>7. /\ b \in Seq(Nat \cup Units) /\ Len(b) = Len(f) + (IF c.op \in Writes THEN 1 ELSE 0)
      /\ \A i \in 1..Len(f) : b[i] = f[i]
      /\ c.op \in Writes => b[Len(f) + 1] = v
  <2>1. CASE c.op \in Writes
    <3>1. b = f \o <<v>> /\ v \in Nat \cup Units
      BY <1>6, <2>1
    <3> QED
      BY <1>4, <2>1, <3>1, FieldAdded
  <2>2. CASE c.op \notin Writes
    BY <1>4, <1>6, <2>2
  <2> QED
    BY <2>1, <2>2
<1>8. Len(e) \in Nat /\ Len(f) \in Nat /\ Len(e) <= Len(f)
    BY <1>2, <1>4
<1>9. \A i \in 1..Len(e) : b[i] = e[i]
  <2> TAKE i \in 1..Len(e)
  <2>1. i \in 1..Len(f)
    BY <1>8
  <2>2. f[i] = e[i]
    BY <1>4
  <2>3. b[i] = f[i]
    BY <1>7, <2>1
  <2> QED
    BY <2>2, <2>3
<1>10. c.op \in VersionedOps => b[Len(e) + 1] = c.version
    BY <1>4, <1>7, <1>8
<1>11. c.op \in Writes => b[Len(b)] = v
    BY <1>7, <1>8
<1> DEFINE hasLife == c.op \in Writes /\ b[1].high # DEFAULT
           hasIdle == c.op \in Writes /\ b[1].low # DEFAULT
<1>12. (hasLife <=> c.lifespan > 0) /\ (hasIdle <=> c.maxIdle > 0)
  <2>1. CASE c.op \in Writes
    <3>1. b[1] = e[1]
      BY <1>0, <1>2, <1>9, <2>1 DEF Expiring
    <3> QED
      BY <1>0, <1>2, <2>1, <3>1 DEF DEFAULT, SECS, Expiring
  <2> QED
    BY <1>0, <2>1
<1>13. /\ hasLife => b[2] = c.lifespan
       /\ hasIdle => b[IF hasLife THEN 3 ELSE 2] = c.maxIdle
  <2> SUFFICES ASSUME c.op \in Writes
               PROVE  /\ hasLife => b[2] = c.lifespan
                      /\ hasIdle => b[IF hasLife THEN 3 ELSE 2] = c.maxIdle
    OBVIOUS
  <2>1. CASE c.lifespan > 0 /\ c.maxIdle > 0
    BY <1>0, <1>2, <1>9, <1>12, <2>1 DEF Expiring
  <2>2. CASE c.lifespan > 0 /\ c.maxIdle = 0
    BY <1>0, <1>2, <1>9, <1>12, <2>2 DEF Expiring
  <2>3. CASE c.lifespan = 0 /\ c.maxIdle > 0
    BY <1>0, <1>2, <1>9, <1>12, <2>3 DEF Expiring
  <2> QED
    BY <1>0, <1>12, <2>1, <2>2, <2>3
<1>14. (IF c.op \in Writes THEN 1 ELSE 0) + (IF hasLife THEN 1 ELSE 0)
           + (IF hasIdle THEN 1 ELSE 0) = Len(e)
    BY <1>0, <1>2, <1>12 DEF Expiring
<1>15. Decode(c.op, b) = [lifespan |-> IF hasLife THEN b[2] ELSE 0,
                         maxIdle |-> IF hasIdle THEN b[IF hasLife THEN 3 ELSE 2] ELSE 0,
                         version |-> IF c.op \in VersionedOps THEN b[Len(e) + 1] ELSE 0,
                         value |-> IF c.op \in Writes THEN b[Len(b)] ELSE 0]
    BY <1>14 DEF Decode
<1>16. /\ (IF hasLife THEN b[2] ELSE 0) = c.lifespan
       /\ (IF hasIdle THEN b[IF hasLife THEN 3 ELSE 2] ELSE 0) = c.maxIdle
       /\ (IF c.op \in VersionedOps THEN b[Len(e) + 1] ELSE 0) = c.version
       /\ (IF c.op \in Writes THEN b[Len(b)] ELSE 0) = (IF c.op \in Writes THEN v ELSE 0)
  <2> HIDE DEF hasLife, hasIdle
  <2> QED
    BY <1>0, <1>10, <1>11, <1>12, <1>13
<1> HIDE DEF hasLife, hasIdle
<1> QED
    BY <1>5, <1>7, <1>15, <1>16 DEF Asked

-----------------------------------------------------------------------------
(* What is answered is what the parser takes *)

\* Two more fields are sent.
LEMMA PairAdded ==
    ASSUME NEW S, NEW s \in Seq(S), NEW x \in S, NEW y \in S, NEW t, t = s \o <<x, y>>
    PROVE  /\ t \in Seq(S) /\ Len(t) = Len(s) + 2
           /\ \A i \in 1..Len(s) : t[i] = s[i]
<1>1. <<x, y>> \in Seq(S) /\ Len(<<x, y>>) = 2
    OBVIOUS
<1> QED
    BY <1>1

\* A field of a response.
LEMMA PlainField ==
    ASSUME NEW f \in Names, NEW x \in Nat
    PROVE  Field(f, x) \in Plain
BY DEF Field, Plain

\* The flag says which of the optional pairs follow.
LEMMA MetadataFields ==
    ASSUME NEW e \in Entries, NEW m, m = Metadata(e)
    PROVE  /\ m \in Seq(Plain)
           /\ Len(m) = 2 + (IF e.lifespan = 0 THEN 0 ELSE 2) + (IF e.maxIdle = 0 THEN 0 ELSE 2)
           /\ m[1] = [field |-> "flag", lifeInfinite |-> e.lifespan = 0,
                      idleInfinite |-> e.maxIdle = 0]
<1>1. PICK flag : flag = [field |-> "flag", lifeInfinite |-> e.lifespan = 0,
                          idleInfinite |-> e.maxIdle = 0]
    OBVIOUS
<1>2. flag \in Plain
    BY <1>1 DEF Plain
<1>3. e.value \in Nat /\ e.lifespan \in Nat /\ e.maxIdle \in Nat
    BY DEF Entries
<1>4. PICK a : a = <<flag>>
    OBVIOUS
<1>5. a \in Seq(Plain) /\ Len(a) = 1 /\ a[1] = flag
    BY <1>2, <1>4
<1>6. PICK b : b = a \o (IF e.lifespan = 0 THEN <<>>
                         ELSE <<Field("created", 0), Field("lifespan", e.lifespan)>>)
    OBVIOUS
<1>7. PICK c : c = b \o (IF e.maxIdle = 0 THEN <<>>
                         ELSE <<Field("lastUsed", 0), Field("maxIdle", e.maxIdle)>>)
    OBVIOUS
<1>8. m = c \o <<Field("version", e.value)>>
    BY <1>1, <1>4, <1>6, <1>7 DEF Metadata
<1>9. /\ b \in Seq(Plain) /\ b[1] = flag
      /\ e.lifespan = 0 => Len(b) = 1
      /\ e.lifespan # 0 => Len(b) = 3
  <2>1. CASE e.lifespan = 0
    <3>1. b = a
      BY <1>5, <1>6, <2>1
    <3> QED
      BY <1>5, <2>1, <3>1
  <2>2. CASE e.lifespan # 0
    <3>1. PICK x, y : x = Field("created", 0) /\ y = Field("lifespan", e.lifespan)
      OBVIOUS
    <3>2. x \in Plain /\ y \in Plain
      BY <1>3, <3>1, PlainField DEF Names
    <3>3. b = a \o <<x, y>>
      BY <1>6, <2>2, <3>1
    <3>4. b \in Seq(Plain) /\ Len(b) = Len(a) + 2 /\ \A i \in 1..Len(a) : b[i] = a[i]
      <4>1. a \in Seq(Plain)
        BY <1>5
      <4> QED
        BY <3>2, <3>3, <4>1, PairAdded
    <3> QED
      BY <1>5, <2>2, <3>4
  <2> QED
    BY <2>1, <2>2
<1>10. /\ c \in Seq(Plain) /\ c[1] = flag
       /\ e.maxIdle = 0 => Len(c) = Len(b)
       /\ e.maxIdle # 0 => Len(c) = Len(b) + 2
  <2>1. CASE e.maxIdle = 0
    <3>1. c = b
      BY <1>7, <1>9, <2>1
    <3> QED
      BY <1>9, <2>1, <3>1
  <2>2. CASE e.maxIdle # 0
    <3>1. PICK x, y : x = Field("lastUsed", 0) /\ y = Field("maxIdle", e.maxIdle)
      OBVIOUS
    <3>2. x \in Plain /\ y \in Plain
      BY <1>3, <3>1, PlainField DEF Names
    <3>3. c = b \o <<x, y>>
      BY <1>7, <2>2, <3>1
    <3>4. c \in Seq(Plain) /\ Len(c) = Len(b) + 2 /\ \A i \in 1..Len(b) : c[i] = b[i]
      BY <1>9, <3>2, <3>3, PairAdded
    <3>5. 1 \in 1..Len(b)
      BY <1>9
    <3> QED
      BY <1>9, <2>2, <3>4, <3>5
  <2> QED
    BY <2>1, <2>2
<1>11. 1 \in 1..Len(c)
    BY <1>9, <1>10
<1>12. m \in Seq(Plain) /\ Len(m) = Len(c) + 1 /\ m[1] = c[1]
  <2>1. PICK x : x = Field("version", e.value)
    OBVIOUS
  <2>2. x \in Plain /\ m = c \o <<x>>
    BY <1>3, <1>8, <2>1, PlainField DEF Names
  <2>3. m \in Seq(Plain) /\ Len(m) = Len(c) + 1 /\ \A i \in 1..Len(c) : m[i] = c[i]
    BY <1>10, <2>2, FieldAdded
  <2> QED
    BY <1>11, <2>3
<1>13. Len(m) = 2 + (IF e.lifespan = 0 THEN 0 ELSE 2) + (IF e.maxIdle = 0 THEN 0 ELSE 2)
  <2>1. Len(b) = IF e.lifespan = 0 THEN 1 ELSE 3
    BY <1>9
  <2>2. Len(c) = Len(b) + (IF e.maxIdle = 0 THEN 0 ELSE 2)
    BY <1>9, <1>10
  <2>3. Len(m) = Len(c) + 1
    BY <1>12
  <2> QED
    BY <2>1, <2>2, <2>3
<1> QED
    BY <1>1, <1>10, <1>12, <1>13

\* What a status says about the call, the entry and the answer.
LEMMA StatusFacts ==
    ASSUME NEW c \in Call, NEW d, NEW e, NEW s, s = StatusOf(c, d, e)
    PROVE  /\ s \in 0..4 /\ s \in Accepted(c.op)
           /\ s \in WithPrevious => /\ c.previousValue /\ e # Absent
                                    /\ c.op \in {"put", "remove"} \cup Conditional
           /\ c.op = "put" => s # NOT_EXECUTED_WITH_PREVIOUS
           /\ c.op = "remove" => s # NOT_EXECUTED_WITH_PREVIOUS
           /\ c.previousValue /\ e # Absent => s \in WithPrevious
           /\ c.op \in {"get", "getWithMetadata", "containsKey"} => (s = SUCCESS <=> e # Absent)
           /\ c.op \in VersionedOps =>
                 (s \in {SUCCESS, SUCCESS_WITH_PREVIOUS} <=> Executes(c, d, e))
<1> USE CallFields DEF SUCCESS, NOT_EXECUTED, KEY_DOES_NOT_EXIST, SUCCESS_WITH_PREVIOUS,
        NOT_EXECUTED_WITH_PREVIOUS, WithPrevious, Conditional, VersionedOps
<1>1. CASE c.op = "ping"
    BY <1>1 DEF StatusOf, Accepted, AcceptedByPing
<1>2. CASE c.op \in {"get", "getWithMetadata", "containsKey"}
  <2>1. s = IF e = Absent THEN KEY_DOES_NOT_EXIST ELSE SUCCESS
    <3>1. CASE c.op = "get"
      BY <3>1 DEF StatusOf
    <3>2. CASE c.op = "getWithMetadata"
      BY <3>2 DEF StatusOf
    <3>3. CASE c.op = "containsKey"
      BY <3>3 DEF StatusOf
    <3> QED
      BY <1>2, <3>1, <3>2, <3>3
  <2>2. Accepted(c.op) = {0, 1, 2} /\ ~c.previousValue
    BY <1>2 DEF Accepted, AcceptedByReads
  <2> QED
    BY <1>2, <2>1, <2>2
<1>3. CASE c.op = "put"
    BY <1>3 DEF StatusOf, Accepted, AcceptedByPut, Executes
<1>4. CASE c.op \in {"putIfAbsent", "replace"}
    BY <1>4 DEF StatusOf, Accepted, AcceptedWithPrevious
<1>5. CASE c.op = "remove"
    BY <1>5 DEF StatusOf, Accepted, AcceptedWithPrevious,
          Executes
<1>6. CASE c.op \in {"removeWithVersion", "replaceWithVersion"}
    BY <1>6 DEF StatusOf, Accepted, AcceptedWithPrevious
<1> QED
    BY <1>1, <1>2, <1>3, <1>4, <1>5, <1>6

\* b is what a parser that finds it at the start of rest takes n fields of; it ends with
\* the value of e if there is an entry in it.
Takes(b, n, entry, e) ==
    /\ b \in Seq(Plain) /\ Len(b) = n
    /\ entry => Len(b) > 0 /\ b[Len(b)] = Field("value", e.value)

\* The metadata and the value are read whole.
LEMMA EntryTaken ==
    ASSUME NEW e \in Entries, NEW m, m = Metadata(e), NEW v, v = Field("value", e.value),
           NEW b, b = m \o <<v>>, NEW rest, rest # <<>>, rest[1] = b[1]
    PROVE  Takes(b, receiveEntry(rest), TRUE, e)
<1>1. e.value \in Nat /\ e.lifespan \in Nat /\ e.maxIdle \in Nat
    BY DEF Entries
<1>2. v \in Plain
    BY <1>1, PlainField DEF Names
<1>3. /\ m \in Seq(Plain)
      /\ Len(m) = 2 + (IF e.lifespan = 0 THEN 0 ELSE 2) + (IF e.maxIdle = 0 THEN 0 ELSE 2)
      /\ m[1] = [field |-> "flag", lifeInfinite |-> e.lifespan = 0,
                 idleInfinite |-> e.maxIdle = 0]
    BY MetadataFields
<1>4. /\ b \in Seq(Plain) /\ Len(b) = Len(m) + 1
      /\ \A i \in 1..Len(m) : b[i] = m[i]
      /\ b[Len(m) + 1] = v
  <2>1. m \in Seq(Plain)
    BY <1>3
  <2> QED
    BY <1>2, <2>1, FieldAdded
<1>5. 1 \in 1..Len(m) /\ Len(m) \in Nat
    BY <1>3
<1>6. rest[1] = m[1]
    BY <1>4, <1>5
<1>7. /\ rest[1].field = "flag"
      /\ rest[1].lifeInfinite <=> e.lifespan = 0
      /\ rest[1].idleInfinite <=> e.maxIdle = 0
  <2>1. rest[1] = [field |-> "flag", lifeInfinite |-> e.lifespan = 0,
                   idleInfinite |-> e.maxIdle = 0]
    BY <1>3, <1>6
  <2>2. PICK t : t = rest[1]
    OBVIOUS
  <2>3. t = [field |-> "flag", lifeInfinite |-> e.lifespan = 0, idleInfinite |-> e.maxIdle = 0]
    BY <2>1, <2>2
  <2>4. t.field = "flag"
    BY <2>3
  <2>5. t.lifeInfinite <=> e.lifespan = 0
    BY <2>3
  <2>6. t.idleInfinite <=> e.maxIdle = 0
    BY <2>3
  <2> QED
    BY <2>2, <2>4, <2>5, <2>6
<1>8. receiveEntry(rest) = 2 + (IF ~rest[1].lifeInfinite THEN 2 ELSE 0)
                              + (IF ~rest[1].idleInfinite THEN 2 ELSE 0) + 1
    BY <1>7 DEF receiveEntry, receiveMetadata
<1>9. receiveEntry(rest) = Len(m) + 1
  <2>1. Len(m) = 2 + (IF e.lifespan = 0 THEN 0 ELSE 2) + (IF e.maxIdle = 0 THEN 0 ELSE 2)
    BY <1>3
  <2>2. (IF ~rest[1].lifeInfinite THEN 2 ELSE 0) = (IF e.lifespan = 0 THEN 0 ELSE 2)
    BY <1>7
  <2>3. (IF ~rest[1].idleInfinite THEN 2 ELSE 0) = (IF e.maxIdle = 0 THEN 0 ELSE 2)
    BY <1>7
  <2> QED
    BY <1>8, <2>1, <2>2, <2>3
<1>10. Len(b) = receiveEntry(rest) /\ Len(b) > 0
    BY <1>4, <1>5, <1>9
<1>11. b[Len(b)] = v
    BY <1>4
<1> QED
    BY <1>4, <1>10, <1>11 DEF Takes

\* For each status of each operation, the parser takes what the server sent.
LEMMA BodyTaken ==
    ASSUME Version >= 40, NEW c \in Call, NEW d, NEW e \in Entries, NEW s,
           s = UNKNOWN \/ s = StatusOf(c, d, e),
           NEW b, b = ResponseBody(c, s, e),
           NEW rest, b # <<>> => rest # <<>> /\ rest[1] = b[1]
    PROVE  Takes(b, bodyParser(c.op, s, rest), YieldsEntry(c.op, s), e)
<1> USE DEF SUCCESS, NOT_EXECUTED, KEY_DOES_NOT_EXIST, SUCCESS_WITH_PREVIOUS,
            NOT_EXECUTED_WITH_PREVIOUS, UNKNOWN, WithPrevious
<1>0. /\ s \in 0..5
      /\ c.op \in {"ping", "get", "getWithMetadata", "containsKey", "put", "putIfAbsent",
                   "replace", "remove", "removeWithVersion", "replaceWithVersion"}
      /\ s \in WithPrevious => c.op \in {"put", "remove"} \cup Conditional
      /\ c.op \in {"put", "remove"} => s # NOT_EXECUTED_WITH_PREVIOUS
    BY StatusFacts, CallFields
<1>1. PICK v : v = Field("value", e.value)
    OBVIOUS
<1>2. v \in Plain
    BY <1>1, PlainField DEF Names, Entries
<1>3. CASE b = <<>> /\ bodyParser(c.op, s, rest) = 0 /\ ~YieldsEntry(c.op, s)
    BY <1>3 DEF Takes
<1>4. CASE b = <<v>> /\ bodyParser(c.op, s, rest) = 1
  <2>1. b \in Seq(Plain) /\ Len(b) = 1 /\ b[1] = v
    BY <1>2, <1>4
  <2> QED
    BY <1>1, <1>4, <2>1 DEF Takes
<1>5. ASSUME b = Metadata(e) \o <<v>>, bodyParser(c.op, s, rest) = receiveEntry(rest)
      PROVE  Takes(b, bodyParser(c.op, s, rest), YieldsEntry(c.op, s), e)
  <2>1. b # <<>>
    <3>1. Metadata(e) \in Seq(Plain)
      BY MetadataFields
    <3>2. PICK m \in Seq(Plain) : m = Metadata(e)
      BY <3>1
    <3>3. b = m \o <<v>>
      BY <1>5, <3>2
    <3>4. Len(b) = Len(m) + 1 /\ Len(m) \in Nat
      BY <1>2, <3>3, FieldAdded
    <3> QED
      BY <3>4
  <2>2. Takes(b, receiveEntry(rest), TRUE, e)
    BY <1>1, <1>5, <2>1, EntryTaken
  <2> QED
    BY <1>5, <2>2 DEF Takes
<1>6. CASE c.op = "ping"
  <2>1. ~YieldsEntry(c.op, s)
    BY <1>6 DEF YieldsEntry, Conditional
  <2>2. CASE s = SUCCESS
    <3>1. PICK p, q, r : /\ p = Field("mediaType", 0) /\ q = Field("serverVersion", 0)
                         /\ r = Field("opcodes", 0)
      OBVIOUS
    <3>2. p \in Plain /\ q \in Plain /\ r \in Plain
      BY <3>1, PlainField DEF Names
    <3>3. b = <<p, p, q, r>>
      BY <1>6, <2>2, <3>1 DEF ResponseBody
    <3>4. b \in Seq(Plain) /\ Len(b) = 4
      BY <3>2, <3>3
    <3>5. bodyParser(c.op, s, rest) = 4
      BY <1>6, <2>2 DEF bodyParser, parsePing
    <3> QED
      BY <2>1, <3>4, <3>5 DEF Takes
  <2>3. CASE s # SUCCESS
    BY <1>0, <1>3, <1>6, <2>1, <2>3 DEF ResponseBody, bodyParser, parsePing, Conditional
  <2> QED
    BY <2>2, <2>3
<1>7. CASE c.op = "get"
  <2>1. CASE s = SUCCESS
    BY <1>1, <1>4, <1>7, <2>1 DEF ResponseBody, bodyParser, parseGet
  <2>2. CASE s # SUCCESS
    BY <1>0, <1>3, <1>7, <2>2 DEF ResponseBody, bodyParser, parseGet, YieldsEntry, Conditional
  <2> QED
    BY <2>1, <2>2
<1>8. CASE c.op = "getWithMetadata"
  <2>1. CASE s = SUCCESS
    BY <1>1, <1>5, <1>8, <2>1 DEF ResponseBody, bodyParser, parseGetWithMetadata
  <2>2. CASE s # SUCCESS
    BY <1>0, <1>3, <1>8, <2>2 DEF ResponseBody, bodyParser, parseGetWithMetadata, YieldsEntry,
                                  Conditional
  <2> QED
    BY <2>1, <2>2
<1>9. CASE c.op = "containsKey"
    BY <1>0, <1>3, <1>9 DEF ResponseBody, bodyParser, parseContainsKey, YieldsEntry, Conditional
<1>10. CASE c.op = "put"
  <2>1. CASE s = SUCCESS_WITH_PREVIOUS
    BY <1>1, <1>5, <1>10, <2>1 DEF ResponseBody, bodyParser, parsePut
  <2>2. CASE s # SUCCESS_WITH_PREVIOUS
    BY <1>0, <1>3, <1>10, <2>2 DEF ResponseBody, bodyParser, parsePut, YieldsEntry, Conditional
  <2> QED
    BY <2>1, <2>2
<1>11. CASE c.op \in {"putIfAbsent", "replace", "remove", "removeWithVersion",
                      "replaceWithVersion"}
  <2>1. bodyParser(c.op, s, rest) = IF s \in WithPrevious THEN receiveEntry(rest) ELSE 0
    BY <1>11 DEF bodyParser, parseWithPrevious
  <2>2. CASE s \in WithPrevious
    <3>1. b = Metadata(e) \o <<v>>
      BY <1>1, <1>11, <2>2 DEF ResponseBody
    <3> QED
      BY <1>5, <2>1, <2>2, <3>1
  <2>3. CASE s \notin WithPrevious
    <3>1. b = <<>>
      BY <1>11, <2>3 DEF ResponseBody
    <3>2. ~YieldsEntry(c.op, s)
      BY <1>11, <2>3 DEF YieldsEntry, Conditional
    <3> QED
      BY <1>3, <2>1, <2>3, <3>1, <3>2
  <2> QED
    BY <2>2, <2>3
<1> QED
    BY <1>0, <1>6, <1>7, <1>8, <1>9, <1>10, <1>11

-----------------------------------------------------------------------------
(* The inductive invariant *)

\* h is the header of an answer to c: the request was refused, or done to the entry it
\* met, whose version is older than the call.
Honest(c, h) ==
    /\ h \in Heads
    /\ h.body = ResponseBody(c, h.status, h.before)
    /\ \/ h.status = UNKNOWN /\ h.after = h.before
       \/ \E v \in 1..MaxCalls :
             /\ v > h.before.value
             /\ h.status = StatusOf(c, Asked(c, v), h.before)
             /\ h.after = After(c, Asked(c, v), h.before)

\* An answer is honest.
LEMMA AnswerHonest ==
    ASSUME Version >= 40, NEW c \in Call, NEW e \in Entries, NEW v \in 1..MaxCalls, v > e.value,
           NEW st, NEW af,
           \/ st = UNKNOWN /\ af = e
           \/ st = StatusOf(c, Asked(c, v), e) /\ af = After(c, Asked(c, v), e),
           NEW b, b = ResponseBody(c, st, e),
           NEW h, h = [field |-> "header", status |-> st, body |-> b, before |-> e, after |-> af]
    PROVE  Honest(c, h) /\ af \in Entries /\ af.value <= v /\ b \in Seq(Plain)
<1>0. e.value \in Nat /\ e.lifespan \in Nat /\ e.maxIdle \in Nat /\ v \in Nat
    BY OperationsAssumption DEF Entries
<1>1. b \in Seq(Plain)
  <2>1. Takes(b, bodyParser(c.op, st, b), YieldsEntry(c.op, st), e)
    BY BodyTaken
  <2> QED
    BY <2>1 DEF Takes
<1>2. st \in 0..5
    BY StatusFacts DEF UNKNOWN
<1>3. af \in Entries /\ af.value <= v
  <2>1. CASE af = e
    BY <1>0, <2>1
  <2>2. CASE af = After(c, Asked(c, v), e)
    <3>1. PICK d : d = Asked(c, v)
      OBVIOUS
    <3>2. d.value \in Nat /\ d.value <= v /\ d.lifespan \in Nat /\ d.maxIdle \in Nat
      BY <1>0, <3>1, CallFields DEF Asked
    <3>3. \/ af = e \/ af = Absent
          \/ af = [value |-> d.value, lifespan |-> d.lifespan, maxIdle |-> d.maxIdle]
      BY <2>2, <3>1 DEF After
    <3> QED
      BY <1>0, <2>1, <3>2, <3>3 DEF Absent, Entries
  <2> QED
    BY <2>1, <2>2
<1>4. h \in Heads
    BY <1>1, <1>2, <1>3 DEF Heads
<1>5. h.status = st /\ h.body = b /\ h.before = e /\ h.after = af
    OBVIOUS
<1> QED
    BY <1>1, <1>3, <1>4, <1>5 DEF Honest

\* What an honest answer lets the continuation of the future say.
LEMMA AnswerMeans ==
    ASSUME NEW c \in Call, NEW h, Honest(c, h), NEW e, e = h.before, NEW a, a = h.after,
           NEW s, s = h.status
    PROVE  /\ s \notin Accepted(c.op) => a = e
           /\ s \in Accepted(c.op) =>
                 (YieldsEntry(c.op, s) <=>
                    (c.op \in {"get", "getWithMetadata"} \/ c.previousValue) /\ e # Absent)
           /\ c.op \in VersionedOps =>
                 (s \in Accepted(c.op) /\ YieldsTrue(c.op, s) <=> e # a)
           /\ c.op = "containsKey" /\ s \in Accepted(c.op) =>
                 (YieldsTrue(c.op, s) <=> e # Absent)
           /\ a # e /\ c.op \in Writes =>
                 /\ a.lifespan = c.lifespan /\ a.maxIdle = c.maxIdle
                 /\ c.op \in VersionedOps => e.value = c.version
<1>0. /\ c.previousValue => c.op \in {"put", "remove"} \cup Conditional
      /\ c.op \in {"ping", "get", "getWithMetadata", "containsKey", "put", "putIfAbsent",
                   "replace", "remove", "removeWithVersion", "replaceWithVersion"}
    BY CallFields
<1>1. CASE s = UNKNOWN /\ a = e
  <2>1. s \notin Accepted(c.op)
    BY <1>1 DEF Accepted, AcceptedByPing, AcceptedByReads, AcceptedByPut, AcceptedWithPrevious,
          UNKNOWN, SUCCESS, NOT_EXECUTED, KEY_DOES_NOT_EXIST,
                SUCCESS_WITH_PREVIOUS
  <2> QED
    BY <1>1, <2>1
<1>2. ASSUME NEW v \in 1..MaxCalls, v > e.value, s = StatusOf(c, Asked(c, v), e),
             a = After(c, Asked(c, v), e)
      PROVE  /\ s \in Accepted(c.op)
             /\ YieldsEntry(c.op, s) <=>
                    (c.op \in {"get", "getWithMetadata"} \/ c.previousValue) /\ e # Absent
             /\ c.op \in VersionedOps => (YieldsTrue(c.op, s) <=> e # a)
             /\ c.op = "containsKey" => (YieldsTrue(c.op, s) <=> e # Absent)
             /\ a # e /\ c.op \in Writes =>
                 /\ a.lifespan = c.lifespan /\ a.maxIdle = c.maxIdle
                 /\ c.op \in VersionedOps => e.value = c.version
  <2>1. PICK d : d = Asked(c, v)
    OBVIOUS
  <2>2. /\ d.lifespan = c.lifespan /\ d.maxIdle = c.maxIdle /\ d.version = c.version
        /\ c.op \in Writes => d.value = v
    BY <2>1 DEF Asked
  <2>3. /\ s \in 0..4 /\ s \in Accepted(c.op)
        /\ s \in WithPrevious => /\ c.previousValue /\ e # Absent
                                 /\ c.op \in {"put", "remove"} \cup Conditional
        /\ c.op \in {"put", "remove"} => s # NOT_EXECUTED_WITH_PREVIOUS
        /\ c.previousValue /\ e # Absent => s \in WithPrevious
        /\ c.op \in {"get", "getWithMetadata", "containsKey"} => (s = SUCCESS <=> e # Absent)
        /\ c.op \in VersionedOps =>
              (s \in {SUCCESS, SUCCESS_WITH_PREVIOUS} <=> Executes(c, d, e))
    BY <1>2, <2>1, StatusFacts
  <2>4. YieldsEntry(c.op, s) <=>
            (c.op \in {"get", "getWithMetadata"} \/ c.previousValue) /\ e # Absent
    BY <1>0, <2>3 DEF YieldsEntry, Conditional, WithPrevious, SUCCESS, SUCCESS_WITH_PREVIOUS,
                      NOT_EXECUTED_WITH_PREVIOUS
  <2>5. c.op = "containsKey" => (YieldsTrue(c.op, s) <=> e # Absent)
    BY <2>3 DEF YieldsTrue, VersionedOps
  <2>6. a = After(c, d, e)
    BY <1>2, <2>1
  <2>7. ASSUME c.op \in VersionedOps
        PROVE  /\ YieldsTrue(c.op, s) <=> Executes(c, d, e)
               /\ Executes(c, d, e) <=> e # Absent /\ e.value = c.version
               /\ Executes(c, d, e) <=> e # a
    <3>1. YieldsTrue(c.op, s) <=> Executes(c, d, e)
      BY <2>3, <2>7 DEF YieldsTrue, VersionedOps
    <3>2. Executes(c, d, e) <=> e # Absent /\ e.value = c.version
      BY <2>2, <2>7 DEF Executes, VersionedOps
    <3>3. CASE ~Executes(c, d, e)
      BY <2>6, <3>1, <3>2, <3>3 DEF After
    <3>4. CASE Executes(c, d, e) /\ c.op \in Writes
      <4>1. a.value = v
        BY <2>2, <2>6, <3>4 DEF After
      <4>2. e.value \in Nat /\ v \in Nat
        BY OperationsAssumption DEF Honest, Heads, Entries
      <4> QED
        BY <1>2, <3>1, <3>2, <3>4, <4>1, <4>2
    <3>5. CASE Executes(c, d, e) /\ c.op \notin Writes
      BY <2>6, <3>1, <3>2, <3>5 DEF After
    <3> QED
      BY <3>3, <3>4, <3>5
  <2>8. ASSUME a # e, c.op \in Writes
        PROVE  /\ a.lifespan = c.lifespan /\ a.maxIdle = c.maxIdle
               /\ c.op \in VersionedOps => e.value = c.version
    <3>1. a = [value |-> d.value, lifespan |-> d.lifespan, maxIdle |-> d.maxIdle]
      BY <2>6, <2>8 DEF After
    <3> QED
      BY <2>2, <2>7, <2>8, <3>1
  <2> QED
    BY <2>3, <2>4, <2>5, <2>7, <2>8
<1> QED
    BY <1>1, <1>2 DEF Honest

Requested == [call : Call, body : Seq(Nat \cup Units)]

TypeInv ==
    /\ made \in 0..MaxCalls
    /\ calls \in Seq(Call)
    /\ requests \in Seq(Requested)
    /\ store \in Entries
    /\ stream \in Seq(Plain \cup Heads)

\* The number of calls that the server has answered.
Answered == Len(calls) - Len(requests)

\* The requests on their way are those of the youngest calls, numbered as they were
\* made, and the entry is older than all of them.
RequestInv ==
    /\ Len(requests) <= Len(calls) /\ Len(requests) <= made
    /\ store.value <= made - Len(requests)
    /\ \A j \in 1..Len(requests) :
          /\ requests[j].call = calls[Answered + j]
          /\ requests[j].body = requestBody(requests[j].call, made - Len(requests) + j)

\* The answer to calls[i] starts behind off[i] and ends at off[i + 1].
Framing(off) ==
    /\ off[1] = 0 /\ off[Answered + 1] = Len(stream)
    /\ \A i, j \in 1..(Answered + 1) : i <= j => off[i] <= off[j]
    /\ \A i \in 1..Answered :
          /\ off[i] + 1 <= Len(stream)
          /\ Honest(calls[i], stream[off[i] + 1])
          /\ off[i + 1] = off[i] + 1 + Len(stream[off[i] + 1].body)
          /\ \A j \in 1..Len(stream[off[i] + 1].body) :
                stream[off[i] + 1 + j] = stream[off[i] + 1].body[j]

\* The stream is the answers to the oldest calls, whole and in their order.
StreamInv == \E off \in [1..(Answered + 1) -> 0..Len(stream)] : Framing(off)

\* The inductive invariant of Operations, for a server of protocol 4.0 or later.
IInv ==
    /\ TypeInv /\ RequestInv /\ StreamInv
    /\ TakesItsOwnBody /\ EntryIsThePreviousOne /\ TrueMeansDone /\ StoredAsAsked

\* A call adds itself behind the others.
LEMMA MakeCallStep ==
    ASSUME TypeInv, RequestInv, StreamInv, MakeCall
    PROVE  TypeInv' /\ RequestInv' /\ StreamInv'
<1>1. PICK c \in Call : /\ calls' = Append(calls, c)
                        /\ requests' = Append(requests, [call |-> c,
                                                         body |-> requestBody(c, made + 1)])
    BY DEF MakeCall
<1>2. made' = made + 1 /\ made < MaxCalls /\ UNCHANGED <<store, stream>>
    BY DEF MakeCall
<1>3. made \in Nat /\ MaxCalls \in Nat /\ made' \in 0..MaxCalls
    BY <1>2, OperationsAssumption DEF TypeInv
<1>4. PICK q : q = [call |-> c, body |-> requestBody(c, made + 1)]
    OBVIOUS
<1>5. q \in Requested /\ q.call = c /\ q.body = requestBody(c, made + 1)
    BY <1>3, <1>4, DecodedAsMeant DEF Requested
<1>6. /\ calls' \in Seq(Call) /\ Len(calls') = Len(calls) + 1 /\ Len(calls) \in Nat
      /\ calls'[Len(calls) + 1] = c
      /\ \A i \in 1..Len(calls) : calls'[i] = calls[i]
    BY <1>1 DEF TypeInv
<1>7. /\ requests' \in Seq(Requested) /\ Len(requests') = Len(requests) + 1
      /\ Len(requests) \in Nat /\ requests'[Len(requests) + 1] = q
      /\ \A i \in 1..Len(requests) : requests'[i] = requests[i]
    BY <1>1, <1>4, <1>5 DEF TypeInv
<1>8. TypeInv'
    BY <1>2, <1>3, <1>6, <1>7 DEF TypeInv
<1>9. Answered' = Answered /\ Answered \in Nat /\ Answered <= Len(calls)
    BY <1>6, <1>7 DEF Answered, RequestInv
<1>10. RequestInv'
  <2>1. Len(requests') <= Len(calls') /\ Len(requests') <= made'
    BY <1>2, <1>3, <1>6, <1>7 DEF RequestInv
  <2>2. made' - Len(requests') = made - Len(requests)
    BY <1>2, <1>3, <1>7
  <2>3. ASSUME NEW j \in 1..Len(requests')
        PROVE  /\ requests'[j].call = calls'[Answered' + j]
               /\ requests'[j].body = requestBody(requests'[j].call, made' - Len(requests') + j)
    <3>1. CASE j \in 1..Len(requests)
      <4>1. Answered + j \in 1..Len(calls)
        BY <1>6, <1>7, <1>9, <3>1 DEF Answered
      <4> QED
        BY <1>6, <1>7, <1>9, <2>2, <3>1, <4>1 DEF RequestInv
    <3>2. CASE j = Len(requests) + 1
      <4>1. Answered + j = Len(calls) + 1 /\ made - Len(requests) + j = made + 1
        BY <1>3, <1>6, <1>7, <3>2 DEF Answered
      <4> QED
        BY <1>5, <1>6, <1>7, <1>9, <2>2, <3>2, <4>1
    <3> QED
      BY <1>7, <3>1, <3>2
  <2> QED
    BY <1>2, <2>1, <2>2, <2>3 DEF RequestInv
<1>11. StreamInv'
  <2>1. PICK off \in [1..(Answered + 1) -> 0..Len(stream)] : Framing(off)
    BY DEF StreamInv
  <2>2. \A i \in 1..Answered : calls'[i] = calls[i]
    BY <1>6, <1>9
  <2>3. Framing(off)'
    <3>1. stream' = stream /\ Answered' = Answered
      BY <1>2, <1>9
    <3> QED
      BY <2>1, <2>2, <3>1 DEF Framing, Honest
  <2>4. off \in [1..(Answered' + 1) -> 0..Len(stream')]
    BY <1>2, <1>9
  <2> QED
    BY <2>3, <2>4 DEF StreamInv
<1> QED
    BY <1>8, <1>10, <1>11

\* The server reads the oldest request and answers it.
LEMMA ServerStep ==
    ASSUME Version >= 40, TypeInv, RequestInv, StreamInv, ServerAnswers
    PROVE  TypeInv' /\ RequestInv' /\ StreamInv'
<1>1. requests # <<>> /\ requests' = Tail(requests) /\ UNCHANGED <<made, calls>>
    BY DEF ServerAnswers
<1>2. /\ Len(requests) \in Nat \ {0} /\ Len(requests') = Len(requests) - 1
      /\ requests' \in Seq(Requested) /\ Head(requests) = requests[1]
      /\ requests[1] \in Requested
      /\ \A j \in 1..(Len(requests) - 1) : requests'[j] = requests[j + 1]
    BY <1>1 DEF TypeInv
<1>3. PICK c : c = requests[1].call
    OBVIOUS
<1>4. PICK v : v = made - Len(requests) + 1
    OBVIOUS
<1>5. made \in Nat /\ MaxCalls \in Nat /\ made <= MaxCalls /\ Len(calls) \in Nat
    BY OperationsAssumption DEF TypeInv
<1>6. /\ v \in 1..MaxCalls /\ v \in Nat /\ v > store.value /\ store.value \in Nat
    BY <1>2, <1>4, <1>5 DEF RequestInv, TypeInv, Entries
<1>7. Answered \in Nat /\ Answered' = Answered + 1 /\ Answered + 1 \in 1..Len(calls)
    BY <1>1, <1>2, <1>5 DEF Answered, RequestInv
<1>8. c \in Call /\ c = calls[Answered + 1] /\ requests[1].body = requestBody(c, v)
  <2>1. 1 \in 1..Len(requests)
    BY <1>2
  <2> QED
    BY <1>2, <1>3, <1>4, <2>1 DEF RequestInv, Requested
<1>9. PICK d : d = Decode(c.op, requestBody(c, v))
    OBVIOUS
<1>10. d = Asked(c, v)
    BY <1>6, <1>8, <1>9, DecodedAsMeant
<1>11. PICK refused \in BOOLEAN :
          /\ store' = IF refused THEN store ELSE After(c, d, store)
          /\ stream' = stream \o
                <<[field |-> "header",
                   status |-> IF refused THEN UNKNOWN ELSE StatusOf(c, d, store),
                   body |-> ResponseBody(c, IF refused THEN UNKNOWN ELSE StatusOf(c, d, store),
                                         store),
                   before |-> store, after |-> store']>>
                \o ResponseBody(c, IF refused THEN UNKNOWN ELSE StatusOf(c, d, store), store)
  <2>1. Head(requests).call = c /\ Decode(Head(requests).call.op, Head(requests).body) = d
    BY <1>2, <1>3, <1>8, <1>9
  <2> QED
    BY <2>1 DEF ServerAnswers
<1>12. PICK st : st = IF refused THEN UNKNOWN ELSE StatusOf(c, d, store)
    OBVIOUS
<1>13. PICK b : b = ResponseBody(c, st, store)
    OBVIOUS
<1>14. PICK af : af = store'
    OBVIOUS
<1>15. PICK h : h = [field |-> "header", status |-> st, body |-> b, before |-> store,
                     after |-> af]
    OBVIOUS
<1>16. stream' = stream \o <<h>> \o b
    BY <1>11, <1>12, <1>13, <1>14, <1>15
<1>17. \/ st = UNKNOWN /\ af = store
       \/ st = StatusOf(c, Asked(c, v), store) /\ af = After(c, Asked(c, v), store)
    BY <1>10, <1>11, <1>12, <1>14
<1>18. Honest(c, h) /\ af \in Entries /\ af.value <= v /\ b \in Seq(Plain)
  <2>1. store \in Entries
    BY DEF TypeInv
  <2> QED
    BY <1>6, <1>8, <1>13, <1>15, <1>17, <2>1, AnswerHonest
<1>19. h \in Heads /\ h.body = b
    BY <1>15, <1>18 DEF Honest
<1> DEFINE Token == Plain \cup Heads
<1>20. PICK n \in Nat, m \in Nat : n = Len(stream) /\ m = Len(b)
    BY <1>18 DEF TypeInv
<1>21. /\ stream' \in Seq(Token) /\ Len(stream') = n + 1 + m
       /\ \A i \in 1..n : stream'[i] = stream[i]
       /\ stream'[n + 1] = h
       /\ \A j \in 1..m : stream'[n + 1 + j] = b[j]
  <2>1. stream \in Seq(Token) /\ b \in Seq(Token) /\ h \in Token
    BY <1>18, <1>19 DEF TypeInv
  <2>2. PICK t : t = stream \o <<h>>
    OBVIOUS
  <2> HIDE DEF Token
  <2>3. /\ t \in Seq(Token) /\ Len(t) = n + 1 /\ \A i \in 1..n : t[i] = stream[i]
        /\ t[n + 1] = h
    BY <1>20, <2>1, <2>2, FieldAdded
  <2>4. stream' = t \o b
    BY <1>16, <2>2
  <2>5. /\ t \o b \in Seq(Token) /\ Len(t \o b) = n + 1 + m
        /\ \A i \in 1..(n + 1 + m) : (t \o b)[i] = IF i <= n + 1 THEN t[i] ELSE b[i - (n + 1)]
    <3>1. /\ t \o b \in Seq(Token) /\ Len(t \o b) = Len(t) + Len(b)
          /\ \A i \in 1..(Len(t) + Len(b)) :
                (t \o b)[i] = IF i <= Len(t) THEN t[i] ELSE b[i - Len(t)]
      BY <2>1, <2>3, ConcatProperties
    <3>2. Len(t) = n + 1 /\ Len(b) = m
      BY <1>20, <2>3
    <3> QED
      BY <3>1, <3>2
  <2>6. stream' \in Seq(Token) /\ Len(stream') = n + 1 + m
    BY <2>4, <2>5
  <2>7. \A i \in 1..(n + 1) : stream'[i] = t[i]
    BY <2>4, <2>5
  <2>8. \A i \in 1..n : stream'[i] = stream[i]
    BY <2>3, <2>7
  <2>9. stream'[n + 1] = h
    BY <2>3, <2>7
  <2>10. \A j \in 1..m : stream'[n + 1 + j] = b[j]
    <3> TAKE j \in 1..m
    <3>1. n + 1 + j \in 1..(n + 1 + m) /\ ~(n + 1 + j <= n + 1) /\ n + 1 + j - (n + 1) = j
      OBVIOUS
    <3> QED
      BY <2>4, <2>5, <3>1
  <2> QED
    BY <2>6, <2>8, <2>9, <2>10
<1>22. TypeInv'
    BY <1>1, <1>2, <1>14, <1>18, <1>21 DEF TypeInv
<1>23. RequestInv'
  <2>1. Len(requests') <= Len(calls') /\ Len(requests') <= made'
    BY <1>1, <1>2, <1>5 DEF RequestInv
  <2>2. made' - Len(requests') = v
    BY <1>1, <1>2, <1>4, <1>5
  <2>3. ASSUME NEW j \in 1..Len(requests')
        PROVE  /\ requests'[j].call = calls'[Answered' + j]
               /\ requests'[j].body = requestBody(requests'[j].call, made' - Len(requests') + j)
    <3>1. j + 1 \in 1..Len(requests) /\ requests'[j] = requests[j + 1]
      BY <1>2
    <3>2. Answered' + j = Answered + (j + 1) /\ v + j = made - Len(requests) + (j + 1)
      BY <1>2, <1>4, <1>5, <1>7
    <3> QED
      BY <1>1, <2>2, <3>1, <3>2 DEF RequestInv
  <2> QED
    BY <1>14, <1>18, <2>1, <2>2, <2>3 DEF RequestInv
<1>24. StreamInv'
  <2>1. PICK off \in [1..(Answered + 1) -> 0..Len(stream)] : Framing(off)
    BY DEF StreamInv
  <2>2. PICK k \in Nat : k = Answered
    BY <1>7
  <2>3. PICK new : new = [i \in 1..(k + 2) |-> IF i = k + 2 THEN n + 1 + m ELSE off[i]]
    OBVIOUS
  <2>4. /\ new \in [1..(k + 2) -> 0..(n + 1 + m)]
        /\ new[k + 2] = n + 1 + m
        /\ \A i \in 1..(k + 1) : new[i] = off[i] /\ off[i] \in 0..n
    BY <1>20, <2>1, <2>2, <2>3
  <2>5. off[1] = 0 /\ off[k + 1] = n
    BY <1>20, <2>1, <2>2 DEF Framing
  <2>6. new[1] = 0
    BY <2>4, <2>5
  <2>7. ASSUME NEW i \in 1..(k + 1)
        PROVE  /\ new[i] + 1 <= Len(stream')
               /\ Honest(calls'[i], stream'[new[i] + 1])
               /\ new[i + 1] = new[i] + 1 + Len(stream'[new[i] + 1].body)
               /\ \A j \in 1..Len(stream'[new[i] + 1].body) :
                     stream'[new[i] + 1 + j] = stream'[new[i] + 1].body[j]
    <3>1. CASE i = k + 1
      <4>1. new[i] = n
        BY <2>4, <2>5, <3>1
      <4>2. new[i + 1] = n + 1 + m
        BY <2>4, <3>1
      <4>3. calls'[i] = c
        BY <1>1, <1>8, <2>2, <3>1
      <4>4. stream'[new[i] + 1] = h
        BY <1>21, <4>1
      <4>5. new[i] + 1 <= Len(stream')
        BY <1>20, <1>21, <4>1
      <4>6. \A j \in 1..Len(h.body) : stream'[new[i] + 1 + j] = h.body[j]
        BY <1>19, <1>20, <1>21, <4>1
      <4>7. new[i + 1] = new[i] + 1 + Len(h.body)
        BY <1>19, <1>20, <4>1, <4>2
      <4> QED
        BY <1>18, <4>3, <4>4, <4>5, <4>6, <4>7
    <3>2. CASE i \in 1..k
      <4>1. PICK p : p = off[i]
        OBVIOUS
      <4>2. PICK g : g = stream[p + 1]
        OBVIOUS
      <4>3. /\ p + 1 <= n /\ Honest(calls[i], g) /\ off[i + 1] = p + 1 + Len(g.body)
            /\ \A j \in 1..Len(g.body) : stream[p + 1 + j] = g.body[j]
        BY <1>20, <2>1, <2>2, <3>2, <4>1, <4>2 DEF Framing
      <4>4. new[i] = p /\ p \in Nat /\ new[i + 1] = off[i + 1] /\ off[i + 1] <= n
        BY <2>4, <3>2, <4>1
      <4>5. stream'[p + 1] = g
        BY <1>21, <4>2, <4>3, <4>4
      <4>6. Len(g.body) \in Nat
        BY <4>3 DEF Honest, Heads
      <4>7. p + 1 + Len(g.body) <= n
        BY <4>3, <4>4
      <4>8. \A j \in 1..Len(g.body) : stream'[p + 1 + j] = g.body[j]
        <5> TAKE j \in 1..Len(g.body)
        <5>1. p + 1 + j \in 1..n
          <6>1. PICK l \in Nat : l = Len(g.body)
            BY <4>6
          <6>2. j \in 1..l /\ p + 1 + l <= n /\ p \in Nat
            BY <4>4, <4>7, <6>1
          <6> QED
            BY <6>2
        <5> QED
          BY <1>21, <4>3, <5>1
      <4> QED
        BY <1>1, <1>20, <1>21, <4>3, <4>4, <4>5, <4>8
    <3>3. i = k + 1 \/ i \in 1..k
      OBVIOUS
    <3> QED
      BY <3>1, <3>2, <3>3
  <2>8. Answered' = k + 1
    BY <1>7, <2>2
  <2>9. Framing(new)'
    <3>1. k + 1 + 1 = k + 2
      OBVIOUS
    <3>2. ASSUME NEW i \in 1..(k + 2), NEW j \in 1..(k + 2), i <= j
          PROVE  new[i] <= new[j]
      <4>1. CASE j = k + 2
        BY <2>4, <4>1
      <4>2. CASE j # k + 2
        <5>1. i \in 1..(k + 1) /\ j \in 1..(k + 1)
          BY <3>2, <4>2
        <5>2. off[i] <= off[j]
          BY <2>1, <2>2, <3>2, <5>1 DEF Framing
        <5> QED
          BY <2>4, <5>1, <5>2
      <4> QED
        BY <4>1, <4>2
    <3> QED
      BY <1>21, <2>4, <2>6, <2>7, <2>8, <3>1, <3>2 DEF Framing, Honest
  <2>10. new \in [1..(Answered' + 1) -> 0..Len(stream')]
    BY <1>21, <2>4, <2>8
  <2> QED
    BY <2>9, <2>10 DEF StreamInv
<1> QED
    BY <1>22, <1>23, <1>24

\* The read loop takes the oldest answer, and its call takes the body.
LEMMA ReadStep ==
    ASSUME Version >= 40, TypeInv, RequestInv, StreamInv, ReadResponse
    PROVE  /\ TypeInv' /\ RequestInv' /\ StreamInv'
           /\ TakesItsOwnBody' /\ EntryIsThePreviousOne' /\ TrueMeansDone' /\ StoredAsAsked'
<1>1. PICK off \in [1..(Answered + 1) -> 0..Len(stream)] : Framing(off)
    BY DEF StreamInv
<1>2. PICK k : k = Answered
    OBVIOUS
<1>3. PICK n \in Nat : n = Len(stream)
    BY DEF TypeInv
<1>4. k \in Nat /\ Len(calls) \in Nat /\ Len(requests) \in Nat /\ k = Len(calls) - Len(requests)
    BY <1>2 DEF Answered, RequestInv, TypeInv
<1>5. /\ off \in [1..(k + 1) -> 0..n] /\ off[1] = 0 /\ off[k + 1] = n
    BY <1>1, <1>2, <1>3 DEF Framing
<1>6. k # 0 /\ n # 0
  <2>1. n # 0
    BY <1>3 DEF ReadResponse, TypeInv
  <2> QED
    BY <1>5, <2>1
<1>7. PICK c, h, rest, m :
          c = Head(calls) /\ h = Head(stream) /\ rest = Tail(stream)
          /\ m = bodyParser(c.op, h.status, rest)
    OBVIOUS
<1>8. /\ stream' = SubSeq(rest, m + 1, Len(rest)) /\ calls' = Tail(calls)
      /\ UNCHANGED <<made, requests, store>>
      /\ last' = [call |-> c, header |-> h, fields |-> SubSeq(rest, 1, m),
                  threw |-> h.status \notin Accepted(c.op),
                  entry |-> ~(h.status \notin Accepted(c.op)) /\ YieldsEntry(c.op, h.status),
                  true |-> ~(h.status \notin Accepted(c.op)) /\ YieldsTrue(c.op, h.status)]
    BY <1>7 DEF ReadResponse
<1>9. /\ calls # <<>> /\ c = calls[1] /\ c \in Call /\ calls' \in Seq(Call)
      /\ Len(calls') = Len(calls) - 1 /\ \A i \in 1..(Len(calls) - 1) : calls'[i] = calls[i + 1]
    BY <1>4, <1>6, <1>7, <1>8 DEF TypeInv
<1> DEFINE Token == Plain \cup Heads
<1>10. /\ h = stream[1] /\ rest \in Seq(Token) /\ Len(rest) = n - 1
       /\ \A i \in 1..(n - 1) : rest[i] = stream[i + 1]
    BY <1>3, <1>6, <1>7 DEF TypeInv
<1>11. PICK b : b = h.body
    OBVIOUS
<1>12. /\ Honest(c, h) /\ off[2] = 1 + Len(b)
       /\ \A j \in 1..Len(b) : stream[1 + j] = b[j]
  <2>1. 1 \in 1..Answered
    BY <1>2, <1>4, <1>6
  <2>2. /\ Honest(calls[1], stream[off[1] + 1])
        /\ off[1 + 1] = off[1] + 1 + Len(stream[off[1] + 1].body)
        /\ \A j \in 1..Len(stream[off[1] + 1].body) :
              stream[off[1] + 1 + j] = stream[off[1] + 1].body[j]
    BY <1>1, <2>1 DEF Framing
  <2>3. off[1] + 1 = 1 /\ stream[off[1] + 1] = h
    BY <1>5, <1>10
  <2> QED
    BY <1>5, <1>9, <1>11, <2>2, <2>3
<1>13. /\ h \in Heads /\ b \in Seq(Plain) /\ Len(b) \in Nat
       /\ h.before \in Entries /\ b = ResponseBody(c, h.status, h.before)
    BY <1>11, <1>12 DEF Honest, Heads
<1>14. 1 + Len(b) <= n
  <2>1. 2 \in 1..(k + 1)
    BY <1>4, <1>6
  <2>2. off[2] \in 0..n
    BY <1>5, <2>1
  <2> QED
    BY <1>12, <2>2
<1>15. \A j \in 1..Len(b) : rest[j] = b[j]
  <2> TAKE j \in 1..Len(b)
  <2>1. j \in 1..(n - 1) /\ j + 1 = 1 + j
    BY <1>13, <1>14
  <2> QED
    BY <1>10, <1>12, <2>1
<1>16. Takes(b, m, YieldsEntry(c.op, h.status), h.before)
  <2>1. b # <<>> => rest # <<>> /\ rest[1] = b[1]
    <3> SUFFICES ASSUME b # <<>>
                 PROVE  rest # <<>> /\ rest[1] = b[1]
      OBVIOUS
    <3>1. Len(b) >= 1
      BY <1>13
    <3>2. Len(rest) >= 1
      BY <1>10, <1>13, <1>14, <3>1
    <3> QED
      BY <1>10, <1>13, <1>15, <3>1, <3>2
  <2>2. ASSUME NEW d, h.status = UNKNOWN \/ h.status = StatusOf(c, d, h.before)
        PROVE  Takes(b, bodyParser(c.op, h.status, rest), YieldsEntry(c.op, h.status), h.before)
    BY <1>9, <1>13, <2>1, <2>2, BodyTaken
  <2>3. \E d : h.status = UNKNOWN \/ h.status = StatusOf(c, d, h.before)
    BY <1>12 DEF Honest
  <2> QED
    BY <1>7, <2>2, <2>3
<1>17. m = Len(b) /\ m \in Nat /\ m <= n - 1
    BY <1>13, <1>14, <1>16 DEF Takes
<1>18. SubSeq(rest, 1, m) = b
  <2>1. b \in Seq(Token)
    BY <1>13
  <2>2. SubSeq(rest, 1, m) \in Seq(Token) /\ Len(SubSeq(rest, 1, m)) = m
        /\ \A i \in 1..m : SubSeq(rest, 1, m)[i] = rest[i]
    BY <1>3, <1>6, <1>10, <1>17
  <2> QED
    BY <1>15, <1>17, <2>1, <2>2, SeqEqual
<1>19. /\ stream' \in Seq(Token) /\ Len(stream') = n - (m + 1)
       /\ \A i \in 1..(n - (m + 1)) : stream'[i] = stream[i + (m + 1)]
  <2>1. /\ stream' \in Seq(Token) /\ Len(stream') = n - 1 - m
        /\ \A i \in 1..(n - 1 - m) : stream'[i] = rest[m + i]
    BY <1>3, <1>6, <1>8, <1>10, <1>17
  <2>2. n - 1 - m = n - (m + 1)
    BY <1>17
  <2>3. ASSUME NEW i \in 1..(n - (m + 1))
        PROVE  stream'[i] = stream[i + (m + 1)]
    <3>1. m + i \in 1..(n - 1) /\ m + i + 1 = i + (m + 1)
      BY <1>3, <1>17
    <3> QED
      BY <1>10, <2>1, <2>2, <3>1
  <2> QED
    BY <2>1, <2>2, <2>3
<1>20. TypeInv'
    BY <1>8, <1>9, <1>19 DEF TypeInv
<1>21. Answered' = k - 1
    BY <1>4, <1>8, <1>9 DEF Answered
<1>22. RequestInv'
  <2>1. Len(requests) <= Len(calls) - 1
    BY <1>4, <1>6
  <2>2. ASSUME NEW j \in 1..Len(requests)
        PROVE  calls'[(k - 1) + j] = calls[k + j]
    <3>1. (k - 1) + j \in 1..(Len(calls) - 1) /\ (k - 1) + j + 1 = k + j
      BY <1>4, <1>6
    <3> QED
      BY <1>9, <3>1
  <2> QED
    BY <1>2, <1>8, <1>9, <1>21, <2>1, <2>2 DEF RequestInv
<1>23. StreamInv'
  <2>1. PICK new : new = [i \in 1..k |-> off[i + 1] - (m + 1)]
    OBVIOUS
  <2>2. off[2] = m + 1
    BY <1>12, <1>17
  <2>3. ASSUME NEW i \in 1..k
        PROVE  /\ off[i + 1] \in 0..n /\ off[i + 1] >= m + 1
               /\ new[i] = off[i + 1] - (m + 1) /\ new[i] \in 0..(n - (m + 1))
    <3>1. i + 1 \in 1..(k + 1) /\ 2 \in 1..(k + 1) /\ 2 <= i + 1
      BY <1>4
    <3>2. off[i + 1] \in 0..n
      BY <1>5, <3>1
    <3>3. off[2] <= off[i + 1]
      BY <1>1, <1>2, <3>1 DEF Framing
    <3>4. new[i] = off[i + 1] - (m + 1)
      BY <2>1
    <3> QED
      BY <1>17, <2>2, <3>2, <3>3, <3>4
  <2>4. new \in [1..k -> 0..(n - (m + 1))]
    BY <2>1, <2>3
  <2>5. new[1] = 0
    <3>1. 1 \in 1..k
      BY <1>4, <1>6
    <3>2. new[1] = off[1 + 1] - (m + 1)
      BY <2>1, <3>1
    <3> QED
      BY <1>17, <2>2, <3>2
  <2>6. new[k] = n - (m + 1)
    <3>1. k \in 1..k
      BY <1>4, <1>6
    <3> QED
      BY <1>5, <2>3, <3>1
  <2>7. ASSUME NEW i \in 1..k, NEW j \in 1..k, i <= j
        PROVE  new[i] <= new[j]
    <3>1. i + 1 \in 1..(k + 1) /\ j + 1 \in 1..(k + 1) /\ i + 1 <= j + 1
      BY <1>4, <2>7
    <3>2. off[i + 1] <= off[j + 1]
      BY <1>1, <1>2, <3>1 DEF Framing
    <3> QED
      BY <1>17, <2>3, <3>2
  <2>8. ASSUME NEW i \in 1..(k - 1)
        PROVE  /\ new[i] + 1 <= Len(stream')
               /\ Honest(calls'[i], stream'[new[i] + 1])
               /\ new[i + 1] = new[i] + 1 + Len(stream'[new[i] + 1].body)
               /\ \A j \in 1..Len(stream'[new[i] + 1].body) :
                     stream'[new[i] + 1 + j] = stream'[new[i] + 1].body[j]
    <3>1. i + 1 \in 1..k /\ i \in 1..k
      BY <1>4
    <3>2. PICK p : p = off[i + 1]
      OBVIOUS
    <3>3. PICK g : g = stream[p + 1]
      OBVIOUS
    <3>4. /\ p + 1 <= n /\ Honest(calls[i + 1], g)
          /\ off[(i + 1) + 1] = p + 1 + Len(g.body)
          /\ \A j \in 1..Len(g.body) : stream[p + 1 + j] = g.body[j]
      BY <1>1, <1>2, <1>3, <3>1, <3>2, <3>3 DEF Framing
    <3>5. /\ p \in Nat /\ p >= m + 1 /\ new[i] = p - (m + 1)
          /\ new[i + 1] = off[(i + 1) + 1] - (m + 1) /\ off[(i + 1) + 1] \in 0..n
      BY <2>3, <3>1, <3>2
    <3>6. stream'[new[i] + 1] = g
      <4>1. new[i] + 1 \in 1..(n - (m + 1)) /\ (new[i] + 1) + (m + 1) = p + 1
        BY <1>17, <3>4, <3>5
      <4> QED
        BY <1>19, <3>3, <4>1
    <3>7. calls'[i] = calls[i + 1]
      BY <1>4, <1>9
    <3>8. PICK l \in Nat : l = Len(g.body)
      BY <3>4 DEF Honest, Heads
    <3>9. PICK q : q = off[(i + 1) + 1]
      OBVIOUS
    <3>10. q = p + 1 + l /\ q \in 0..n /\ new[i + 1] = q - (m + 1)
      BY <3>4, <3>5, <3>8, <3>9
    <3>11. p + 1 + l <= n
      BY <3>10
    <3>12. ASSUME NEW j \in 1..l
           PROVE  stream'[new[i] + 1 + j] = g.body[j]
      <4>1. /\ new[i] + 1 + j \in 1..(n - (m + 1))
            /\ (new[i] + 1 + j) + (m + 1) = p + 1 + j
        BY <1>17, <3>5, <3>11
      <4>2. stream'[new[i] + 1 + j] = stream[p + 1 + j]
        BY <1>19, <4>1
      <4> QED
        BY <3>4, <3>8, <4>2
    <3>13. new[i] + 1 <= Len(stream')
      BY <1>17, <1>19, <3>4, <3>5
    <3>14. new[i + 1] = new[i] + 1 + l
      BY <1>17, <3>5, <3>10
    <3> QED
      BY <3>4, <3>6, <3>7, <3>8, <3>12, <3>13, <3>14
  <2>9. Framing(new)'
    <3>1. (k - 1) + 1 = k
      BY <1>4
    <3> QED
      BY <1>19, <1>21, <2>5, <2>6, <2>7, <2>8, <3>1 DEF Framing, Honest
  <2>10. new \in [1..(Answered' + 1) -> 0..Len(stream')]
    <3>1. Answered' + 1 = k
      BY <1>4, <1>21
    <3> QED
      BY <1>19, <2>4, <3>1
  <2> QED
    BY <2>9, <2>10 DEF StreamInv
<1>24. PICK e, a, s : e = h.before /\ a = h.after /\ s = h.status
    OBVIOUS
<1>25. /\ s \notin Accepted(c.op) => a = e
       /\ s \in Accepted(c.op) =>
             (YieldsEntry(c.op, s) <=>
                (c.op \in {"get", "getWithMetadata"} \/ c.previousValue) /\ e # Absent)
       /\ c.op \in VersionedOps =>
             (s \in Accepted(c.op) /\ YieldsTrue(c.op, s) <=> e # a)
       /\ c.op = "containsKey" /\ s \in Accepted(c.op) =>
             (YieldsTrue(c.op, s) <=> e # Absent)
       /\ a # e /\ c.op \in Writes =>
             /\ a.lifespan = c.lifespan /\ a.maxIdle = c.maxIdle
             /\ c.op \in VersionedOps => e.value = c.version
    BY <1>9, <1>12, <1>24, AnswerMeans
<1>26. /\ last'.call = c /\ last'.header = h /\ last'.fields = b
       /\ last'.threw <=> s \notin Accepted(c.op)
       /\ last'.entry <=> s \in Accepted(c.op) /\ YieldsEntry(c.op, s)
       /\ last'.true <=> s \in Accepted(c.op) /\ YieldsTrue(c.op, s)
    BY <1>8, <1>18, <1>24
<1>27. last'.entry \in BOOLEAN /\ last'.true \in BOOLEAN
    BY <1>8
<1>28. TakesItsOwnBody'
    BY <1>11, <1>26 DEF TakesItsOwnBody
<1>29. EntryIsThePreviousOne'
  <2> DEFINE wants == c.op \in {"get", "getWithMetadata"} \/ c.previousValue
  <2> SUFFICES ASSUME ~last'.threw
               PROVE  /\ last'.entry = (wants /\ e # Absent)
                      /\ last'.entry => b[Len(b)] = Field("value", e.value)
    BY <1>24, <1>26 DEF EntryIsThePreviousOne
  <2>1. last'.entry <=> wants /\ e # Absent
    BY <1>25, <1>26
  <2>2. last'.entry = (wants /\ e # Absent)
    BY <1>27, <2>1
  <2>3. last'.entry => b[Len(b)] = Field("value", e.value)
    BY <1>16, <1>24, <1>26 DEF Takes
  <2> QED
    BY <2>2, <2>3
<1>30. TrueMeansDone'
  <2>1. c.op \in VersionedOps => (last'.true = (e # a))
    BY <1>25, <1>26, <1>27
  <2>2. (c.op = "containsKey" /\ ~last'.threw) => (last'.true = (e # Absent))
    BY <1>25, <1>26, <1>27
  <2>3. last'.threw => e = a
    BY <1>25, <1>26
  <2> QED
    BY <1>24, <1>26, <2>1, <2>2, <2>3 DEF TrueMeansDone
<1>31. StoredAsAsked'
    BY <1>24, <1>25, <1>26 DEF StoredAsAsked
<1> QED
    BY <1>20, <1>22, <1>23, <1>28, <1>29, <1>30, <1>31

-----------------------------------------------------------------------------
(* Theorems *)

\* Nothing has been called.
LEMMA InvInit ==
    ASSUME Init
    PROVE  IInv
<1>1. TypeInv /\ RequestInv
    BY OperationsAssumption DEF Init, TypeInv, RequestInv, Absent, Entries
<1>2. StreamInv
  <2>1. PICK off : off = [i \in 1..1 |-> 0]
    OBVIOUS
  <2>2. Answered = 0 /\ Len(stream) = 0
    BY DEF Init, Answered
  <2>3. off \in [1..(Answered + 1) -> 0..Len(stream)]
    BY <2>1, <2>2
  <2>4. Framing(off)
    BY <2>1, <2>2 DEF Framing
  <2> QED
    BY <2>3, <2>4 DEF StreamInv
<1>3. last = Nothing
    BY DEF Init
<1> QED
    BY <1>1, <1>2, <1>3 DEF IInv, TakesItsOwnBody, EntryIsThePreviousOne, TrueMeansDone,
                            StoredAsAsked, Finished

\* Every step keeps the invariant.
LEMMA InvStep ==
    ASSUME Version >= 40, IInv, [Next]_vars
    PROVE  IInv'
<1>1. last' = last => TakesItsOwnBody' /\ EntryIsThePreviousOne' /\ TrueMeansDone' /\ StoredAsAsked'
    BY DEF IInv, TakesItsOwnBody, EntryIsThePreviousOne, TrueMeansDone, StoredAsAsked, Finished
<1>2. CASE MakeCall
    BY <1>1, <1>2, MakeCallStep DEF IInv, MakeCall
<1>3. CASE ServerAnswers
    BY <1>1, <1>3, ServerStep DEF IInv, ServerAnswers
<1>4. CASE ReadResponse
    BY <1>4, ReadStep DEF IInv
<1>5. CASE UNCHANGED vars
  <2>1. /\ made' = made /\ calls' = calls /\ requests' = requests
        /\ store' = store /\ stream' = stream /\ last' = last
    BY <1>5 DEF vars
  <2>2. TypeInv'
    BY <2>1 DEF IInv, TypeInv
  <2>3. RequestInv'
    BY <2>1 DEF IInv, RequestInv, Answered
  <2>4. StreamInv'
    <3>1. Answered' = Answered
      BY <2>1 DEF Answered
    <3>2. PICK off \in [1..(Answered + 1) -> 0..Len(stream)] : Framing(off)
      BY DEF IInv, StreamInv
    <3>3. Framing(off)'
      BY <2>1, <3>1, <3>2 DEF Framing
    <3> QED
      BY <2>1, <3>1, <3>2, <3>3 DEF StreamInv
  <2> QED
    BY <1>1, <2>1, <2>2, <2>3, <2>4 DEF IInv
<1> QED
    BY <1>2, <1>3, <1>4, <1>5 DEF Next

\* The stream always holds whole answers to the oldest calls.
THEOREM Invariance ==
    ASSUME Version >= 40
    PROVE  Spec => []IInv
<1>1. Init => IInv
    BY InvInit
<1>2. IInv /\ [Next]_vars => IInv'
    BY InvStep
<1> QED
    BY <1>1, <1>2, PTL DEF Spec

\* For every status of every operation the parser takes the body the server sent, no
\* more and no less: the shared read loop stays in step whatever is called.
THEOREM BodiesTaken ==
    ASSUME Version >= 40
    PROVE  Spec => []TakesItsOwnBody
<1>1. IInv => TakesItsOwnBody
    BY DEF IInv
<1> QED
    BY <1>1, Invariance, PTL

\* A call yields an entry iff it was asked for one and there was one: the entry that
\* the call met.
THEOREM EntriesArePrevious ==
    ASSUME Version >= 40
    PROVE  Spec => []EntryIsThePreviousOne
<1>1. IInv => EntryIsThePreviousOne
    BY DEF IInv
<1> QED
    BY <1>1, Invariance, PTL

\* true from a conditional operation means that this call changed the entry, and an
\* exception that it did not.
THEOREM TrueIsDone ==
    ASSUME Version >= 40
    PROVE  Spec => []TrueMeansDone
<1>1. IInv => TrueMeansDone
    BY DEF IInv
<1> QED
    BY <1>1, Invariance, PTL

\* The entry that a call leaves has the lifespan and the max idle time of the call.
THEOREM AskedIsStored ==
    ASSUME Version >= 40
    PROVE  Spec => []StoredAsAsked
<1>1. IInv => StoredAsAsked
    BY DEF IInv
<1> QED
    BY <1>1, Invariance, PTL
=============================================================================
