--------------------------- MODULE KeyRoutingProofs ---------------------------
(***************************************************************************)
(* What ConsistentHash and KeyRouting guarantee for every size of the hash *)
(* space, every number of segments, every update a server may send and     *)
(* every sequence of updates and retries.                                  *)
(*                                                                         *)
(* The loops of parseServers() and getOwners() are folds.  FoldExists and  *)
(* FoldIterates (ServerSelectionProofs) turn each into the sequence of     *)
(* values its accumulator goes through, and InductionUpTo carries an       *)
(* invariant along that sequence.                                          *)
(***************************************************************************)
EXTENDS KeyRouting, ServerSelectionProofs

-----------------------------------------------------------------------------
(* Segments *)

\* The quotient of a division by a positive number.
LEMMA Quotient ==
    ASSUME NEW x \in Nat, NEW d \in Nat \ {0}
    PROVE  /\ x \div d \in Nat
           /\ d * (x \div d) <= x
           /\ x < d * (x \div d) + d
OBVIOUS

\* getSegment() never needs its "extra safety" test: the product divided by
\* the size of the hash space is a segment of the table, whatever their sizes.
THEOREM SegmentInRange ==
    ASSUME NEW n \in Nat \ {0}, NEW hash \in Hashes
    PROVE  /\ (hash * n) \div HashSpace \in 0..(n - 1)
           /\ getSegment(hash, n) = (hash * n) \div HashSpace
<1> DEFINE M == HashSpace
           q == (hash * n) \div M
<1>1. M \in Nat \ {0} /\ hash \in Nat /\ hash < M
    BY HashAssumption DEF Hashes
<1>2. hash * n \in Nat
    BY <1>1
<1>3. q \in Nat /\ M * q <= hash * n
    BY <1>1, <1>2, Quotient
<1> HIDE DEF q, M
<1>4. hash * n < M * n
    BY <1>1
<1>5. M * q < M * n
  <2>1. M * q \in Int /\ M * n \in Int /\ hash * n \in Int
    BY <1>1, <1>3
  <2> QED
    BY <2>1, <1>3, <1>4
<1>6. q < n
    BY <1>1, <1>3, <1>5
<1>7. q \in 0..(n - 1)
    BY <1>3, <1>6
<1>8. getSegment(hash, n) = q
    BY <1>7 DEF getSegment, q, M
<1> QED
    BY <1>7, <1>8 DEF q, M

\* Multiplication by a positive number keeps the order.
LEMMA Cancel ==
    ASSUME NEW n \in Nat \ {0}, NEW x \in Int, NEW y \in Int, n * x < n * y
    PROVE  x < y
<1>1. CASE y <= x
  <2>1. n * (x - y) \in Nat /\ n * (x - y) = n * x - n * y
    BY <1>1
  <2> QED
    BY <2>1
<1> QED
    BY <1>1

\* Factors keep an order.
LEMMA Scaled ==
    ASSUME NEW x \in Nat, NEW y \in Nat, NEW k \in Nat, x <= y
    PROVE  x * k <= y * k
<1>1. (y - x) * k \in Nat /\ (y - x) * k = y * k - x * k
    OBVIOUS
<1> QED
    BY <1>1

LEMMA ScaledStrictly ==
    ASSUME NEW n \in Nat \ {0}, NEW x \in Nat, NEW y \in Nat, x < y
    PROVE  n * x < n * y
<1>1. n * (y - x) = n * y - n * x /\ n * (y - x) > 0
    OBVIOUS
<1> QED
    BY <1>1

\* The size of a segment in the reference mapping.
CeilSize(n) == (HashSpace + (n - 1)) \div n

LEMMA CeilSizeIs ==
    ASSUME NEW n \in Nat \ {0}
    PROVE  /\ CeilSize(n) \in Nat \ {0}
           /\ HashSpace <= n * CeilSize(n)
           /\ n * CeilSize(n) < HashSpace + n
<1> DEFINE x == HashSpace + (n - 1)
           c == x \div n
<1>1. x \in Nat /\ HashSpace \in Nat \ {0}
    BY HashAssumption
<1>2. c \in Nat /\ n * c <= x /\ x < n * c + n
    BY <1>1, Quotient
<1>3. n * c \in Nat
    BY <1>2
<1>4. HashSpace <= n * c /\ n * c < HashSpace + n
    BY <1>1, <1>2, <1>3
<1>5. c # 0
    BY <1>1, <1>2, <1>4
<1> QED
    BY <1>2, <1>4, <1>5 DEF CeilSize

\* What getSegment() and the reference mapping divide by, and what is left.
LEMMA BothSegments ==
    ASSUME NEW n \in Nat \ {0}, NEW hash \in Hashes
    PROVE  LET s == getSegment(hash, n)
               r == referenceSegment(hash, n)
           IN  /\ s \in 0..(n - 1) /\ r \in Nat
               /\ HashSpace * s <= n * hash /\ n * hash < HashSpace * (s + 1)
               /\ CeilSize(n) * r <= hash /\ hash < CeilSize(n) * (r + 1)
<1> DEFINE M == HashSpace
           C == CeilSize(n)
           s == (hash * n) \div M
           r == hash \div C
<1>1. M \in Nat \ {0} /\ hash \in Nat /\ C \in Nat \ {0}
    BY HashAssumption, CeilSizeIs DEF Hashes
<1>2. getSegment(hash, n) = s /\ s \in 0..(n - 1)
    BY SegmentInRange
<1>3. referenceSegment(hash, n) = r
    BY DEF referenceSegment, CeilSize
<1>4. hash * n \in Nat /\ hash * n = n * hash
    BY <1>1
<1> HIDE DEF M, C
<1>5. s \in Nat /\ M * s <= hash * n /\ hash * n < M * s + M
    BY <1>1, <1>4, Quotient
<1>6. r \in Nat /\ C * r <= hash /\ hash < C * r + C
    BY <1>1, Quotient
<1> HIDE DEF s, r
<1>7. M * (s + 1) = M * s + M /\ C * (r + 1) = C * r + C
    BY <1>1, <1>5, <1>6
<1>8. /\ s \in 0..(n - 1) /\ r \in Nat
      /\ M * s <= n * hash /\ n * hash < M * (s + 1)
      /\ C * r <= hash /\ hash < C * (r + 1)
    BY <1>1, <1>2, <1>4, <1>5, <1>6, <1>7
<1> QED
    BY <1>2, <1>3, <1>8 DEF M, C

\* The code's segment is not below the reference.
LEMMA NotBelowReference ==
    ASSUME NEW n \in Nat \ {0}, NEW hash \in Hashes
    PROVE  referenceSegment(hash, n) <= getSegment(hash, n)
<1> DEFINE M == HashSpace
           C == CeilSize(n)
           s == getSegment(hash, n)
           r == referenceSegment(hash, n)
<1>1. /\ M \in Nat \ {0} /\ hash \in Nat /\ C \in Nat /\ s \in Nat /\ r \in Nat
      /\ M <= n * C /\ C * r <= hash /\ n * hash < M * (s + 1)
    BY HashAssumption, CeilSizeIs, BothSegments DEF Hashes
<1> HIDE DEF M, C, s, r
<1>2. M * r <= (n * C) * r
    BY <1>1, Scaled
<1>3. n * (C * r) <= n * hash
  <2>1. C * r \in Nat
    BY <1>1
  <2>2. (C * r) * n <= hash * n
    BY <1>1, <2>1, Scaled
  <2> QED
    BY <1>1, <2>1, <2>2
<1>4. (n * C) * r = n * (C * r)
    BY <1>1
<1>5. M * r < M * (s + 1)
  <2>1. M * r \in Int /\ (n * C) * r \in Int /\ n * hash \in Int /\ M * (s + 1) \in Int
    BY <1>1
  <2> QED
    BY <1>1, <1>2, <1>3, <1>4, <2>1
<1>6. r < s + 1
    BY <1>1, <1>5, Cancel
<1> QED
    BY <1>1, <1>6 DEF s, r

\* The same segment, if the number of segments divides the hash space.
LEMMA SameSegment ==
    ASSUME NEW n \in Nat, Divides(n), NEW hash \in Hashes
    PROVE  getSegment(hash, n) = referenceSegment(hash, n)
<1> DEFINE M == HashSpace
           C == CeilSize(n)
           s == getSegment(hash, n)
           r == referenceSegment(hash, n)
<1>0. n \in Nat \ {0} /\ M \in Nat \ {0}
    BY HashAssumption DEF Divides
<1>1. /\ hash \in Nat /\ C \in Nat \ {0} /\ s \in Nat /\ r \in Nat
      /\ M <= n * C /\ n * C < M + n
      /\ M * s <= n * hash /\ hash < C * (r + 1)
  <2>1. hash \in Nat
    BY <1>0 DEF Hashes
  <2>2. C \in Nat \ {0} /\ M <= n * C /\ n * C < M + n
    BY <1>0, CeilSizeIs
  <2>3. /\ s \in 0..(n - 1) /\ r \in Nat
        /\ M * s <= n * hash /\ hash < C * (r + 1)
    BY <1>0, BothSegments
  <2>4. s \in Nat
    BY <1>0, <2>3
  <2> QED
    BY <2>1, <2>2, <2>3, <2>4
<1>2. r <= s
    BY <1>0, NotBelowReference
<1>3. PICK d \in Nat : M = n * d
  <2>1. M % n = 0
    BY DEF Divides
  <2>2. M = n * (M \div n) + (M % n) /\ M \div n \in Nat
    BY <1>0
  <2> QED
    BY <1>0, <2>1, <2>2
<1> HIDE DEF M, C, s, r
<1>4. C = d
  <2>1. n * C < n * (d + 1) /\ n * d < n * (C + 1)
    BY <1>0, <1>1, <1>3
  <2>2. C < d + 1 /\ d < C + 1
    BY <1>0, <1>1, <1>3, <2>1, Cancel
  <2> QED
    BY <1>1, <1>3, <2>2
<1>5. n * hash < n * (C * (r + 1))
  <2>1. C * (r + 1) \in Nat
    BY <1>1
  <2> QED
    BY <1>0, <1>1, <2>1, ScaledStrictly
<1>6. M * s < M * (r + 1)
  <2>1. n * (C * (r + 1)) = M * (r + 1)
    BY <1>0, <1>1, <1>3, <1>4
  <2>2. M * s \in Int /\ n * hash \in Int /\ M * (r + 1) \in Int
    BY <1>0, <1>1
  <2> QED
    BY <1>1, <1>5, <2>1, <2>2
<1>7. s < r + 1
    BY <1>0, <1>1, <1>6, Cancel
<1>8. s = r
    BY <1>1, <1>2, <1>7
<1> QED
    BY <1>8 DEF s, r

\* At most the next one, if the number of segments is small beside the hash space.
LEMMA NextSegment ==
    ASSUME NEW n \in Nat \ {0}, n * n <= HashSpace, NEW hash \in Hashes
    PROVE  getSegment(hash, n) \in {referenceSegment(hash, n), referenceSegment(hash, n) + 1}
<1> DEFINE M == HashSpace
           C == CeilSize(n)
           s == getSegment(hash, n)
           r == referenceSegment(hash, n)
<1>1. /\ M \in Nat \ {0} /\ hash \in Nat /\ C \in Nat \ {0} /\ s \in 0..(n - 1) /\ r \in Nat
      /\ n * C < M + n /\ M * s <= n * hash /\ hash < C * (r + 1) /\ n * n <= M
    BY HashAssumption, CeilSizeIs, BothSegments DEF Hashes
<1>2. r <= s
    BY NotBelowReference
<1> HIDE DEF M, C, s, r
<1>3. ASSUME r + 2 <= s
      PROVE  FALSE
  <2>1. M * (r + 2) <= M * s
    <3>1. (r + 2) * M <= s * M
      BY <1>1, <1>3, Scaled
    <3> QED
      BY <1>1, <3>1
  <2>2. n * hash < n * (C * (r + 1))
    <3>1. C * (r + 1) \in Nat
      BY <1>1
    <3> QED
      BY <1>1, <3>1, ScaledStrictly
  <2>3. (n * C) * (r + 1) <= (M + n) * (r + 1)
    <3>1. n * C \in Nat /\ M + n \in Nat /\ r + 1 \in Nat /\ n * C <= M + n
      BY <1>1
    <3> QED
      BY <3>1, Scaled
  <2>4. n * (r + 1) <= n * n
    <3>1. r + 1 <= n
      BY <1>1, <1>3
    <3>2. (r + 1) * n <= n * n
      BY <1>1, <3>1, Scaled
    <3> QED
      BY <1>1, <3>2
  <2>5. /\ n * (C * (r + 1)) = (n * C) * (r + 1)
        /\ (M + n) * (r + 1) = M * (r + 1) + n * (r + 1)
        /\ M * (r + 2) = M * (r + 1) + M
    BY <1>1
  <2>6. /\ M * (r + 2) \in Int /\ M * s \in Int /\ n * hash \in Int /\ n * (C * (r + 1)) \in Int
        /\ (n * C) * (r + 1) \in Int /\ (M + n) * (r + 1) \in Int /\ n * (r + 1) \in Int
        /\ n * n \in Int /\ M * (r + 1) \in Int /\ M \in Int
    BY <1>1
  <2>7. M * (r + 2) < M * (r + 1) + n * (r + 1)
    BY <1>1, <2>1, <2>2, <2>3, <2>5, <2>6
  <2> QED
    BY <1>1, <2>4, <2>5, <2>6, <2>7
<1>4. s = r \/ s = r + 1
    BY <1>1, <1>2, <1>3
<1> QED
    BY <1>4 DEF s, r

-----------------------------------------------------------------------------
(* parseServers() *)

Infos == [address : Address, hashId : Nat]

\* The step of the loop over the addresses of an update.
AddServer(list, servers, i) ==
    IF \E s \in Range(servers) : s.address = list[i] THEN servers
    ELSE Append(servers, [address |-> list[i], hashId |-> i - 1])

\* servers goes through these values, and ends with result.
ParseLoop(h, list, result) ==
    /\ h \in [0..Len(list) -> Seq(Infos)]
    /\ h[0] = <<>>
    /\ \A i \in 1..Len(list) : h[i] = AddServer(list, h[i - 1], i)
    /\ h[Len(list)] = result

\* The recursive function of FoldLeft, when the step is AddServer.
ParseStep(g, list) ==
    [T \in SUBSET (DOMAIN [i \in 1..Len(list) |-> i]) |->
        IF T = {} THEN <<>>
        ELSE AddServer(list, g[T \ {Max(T)}], [i \in 1..Len(list) |-> i][Max(T)])]

\* parseServers() is that loop.
LEMMA ParseServersLoop ==
    ASSUME NEW list \in Seq(Address)
    PROVE  \E h : ParseLoop(h, list, parseServers(list))
<1> DEFINE n == Len(list)
           X == Seq(Infos)
           S == 1..n
           seq == [i \in 1..n |-> i]
           base == <<>>
           D == DOMAIN seq
           F == [p \in X \X S |-> AddServer(list, p[1], p[2])]
           G == CHOOSE g : g = ParseStep(g, list)
<1>0. /\ n \in Nat /\ DOMAIN list = 1..n /\ D = 1..n /\ seq \in Seq(S) /\ Len(seq) = n
      /\ base \in X /\ S = 1..n /\ \A i \in 1..n : seq[i] = i /\ i - 1 \in 0..n
    OBVIOUS
<1>1. \A out \in X, i \in S : AddServer(list, out, i) \in X
  <2> TAKE out \in X, i \in S
  <2>1. [address |-> list[i], hashId |-> i - 1] \in Infos
    BY <1>0 DEF Infos
  <2> QED
    BY <2>1 DEF AddServer
<1>2. /\ F \in [X \X S -> X]
      /\ \A out \in X, i \in S : F[<<out, i>>] = AddServer(list, out, i)
    BY <1>1
<1>3. parseServers(list) = G[D]
    BY DEF parseServers, FoldLeft, MapThenFoldSet, ParseStep, AddServer
<1>4. ASSUME NEW g
      PROVE  ParseStep(g, list) =
                [T \in SUBSET D |->
                   IF T = {} THEN base ELSE AddServer(list, g[T \ {Max(T)}], seq[Max(T)])]
    BY DEF ParseStep
<1> HIDE DEF F, seq, base, X, S, D
<1>5. ASSUME NEW T \in SUBSET D, T # {}
      PROVE  seq[Max(T)] \in S /\ T \ {Max(T)} \in SUBSET D
  <2>1. Max(T) \in D
    BY <1>0, <1>5, MaxIndex
  <2>2. seq[Max(T)] \in S
    BY <1>0, <2>1
  <2> QED
    BY <2>2
<1>6. \E f : f = ParseStep(f, list)
  <2>1. PICK f \in [SUBSET D -> X] : FoldEquations(f, F, X, base, seq, Len(seq))
    BY <1>0, <1>2, FoldExists
  <2>2. ASSUME NEW T \in SUBSET D, T # {}
        PROVE  f[T] = AddServer(list, f[T \ {Max(T)}], seq[Max(T)])
    <3>1. f[T \ {Max(T)}] \in X /\ seq[Max(T)] \in S
      BY <1>5, <2>1, <2>2
    <3>2. f[T] = F[<<f[T \ {Max(T)}], seq[Max(T)]>>]
      BY <1>0, <2>1, <2>2, <3>1 DEF FoldEquations
    <3> QED
      BY <1>2, <3>1, <3>2
  <2>3. f[{}] = base
    BY <1>0, <2>1 DEF FoldEquations
  <2>4. f = [T \in SUBSET D |->
                IF T = {} THEN base ELSE AddServer(list, f[T \ {Max(T)}], seq[Max(T)])]
    BY <2>1, <2>2, <2>3
  <2>5. f = ParseStep(f, list)
    BY <1>4, <2>4
  <2> QED
    BY <2>5
<1>7. G = ParseStep(G, list)
    BY <1>6
<1> HIDE DEF G
<1>8. FoldEquations(G, F, X, base, seq, Len(seq))
  <2> SUFFICES ASSUME NEW T \in SUBSET D
               PROVE  /\ T = {} => G[T] = base
                      /\ T # {} /\ G[T \ {Max(T)}] \in X =>
                            G[T] = F[<<G[T \ {Max(T)}], seq[Max(T)]>>]
    BY <1>0 DEF FoldEquations
  <2>1. G[T] = IF T = {} THEN base ELSE AddServer(list, G[T \ {Max(T)}], seq[Max(T)])
    BY <1>4, <1>7
  <2>2. ASSUME T # {}, G[T \ {Max(T)}] \in X
        PROVE  F[<<G[T \ {Max(T)}], seq[Max(T)]>>] =
                  AddServer(list, G[T \ {Max(T)}], seq[Max(T)])
    BY <1>2, <1>5, <2>2
  <2> QED
    BY <2>1, <2>2
<1>9. PICK h : Iterates(h, F, X, base, seq, G[DOMAIN seq])
    BY <1>0, <1>2, <1>8, FoldIterates
<1>10. ASSUME NEW i \in 1..n
       PROVE  h[i] = AddServer(list, h[i - 1], i)
  <2>1. h[i - 1] \in X /\ seq[i] = i /\ i \in S
    BY <1>0, <1>9 DEF Iterates
  <2>2. h[i] = F[<<h[i - 1], i>>]
    BY <1>0, <1>9, <2>1 DEF Iterates
  <2> QED
    BY <1>2, <2>1, <2>2
<1>11. h \in [0..Len(list) -> Seq(Infos)] /\ h[0] = <<>> /\ h[Len(list)] = parseServers(list)
    BY <1>0, <1>3, <1>9 DEF Iterates, X, base, D
<1> QED
    BY <1>10, <1>11 DEF ParseLoop

\* What the loop has made of the first i addresses: hash ids are places in the update
\* and grow, and an update without repetition is taken over as it is.
Parsed(servers, list, i) ==
    /\ servers \in Seq(Infos)
    /\ \A j \in 1..Len(servers) : servers[j].hashId < i
    /\ \A j, k \in 1..Len(servers) : j < k => servers[j].hashId < servers[k].hashId
    /\ Distinct(list) =>
          /\ Len(servers) = i
          /\ \A j \in 1..i : servers[j] = [address |-> list[j], hashId |-> j - 1]

\* One more address.
LEMMA ParsedNext ==
    ASSUME NEW list \in Seq(Address), NEW i \in 0..(Len(list) - 1), NEW servers,
           Parsed(servers, list, i)
    PROVE  Parsed(AddServer(list, servers, i + 1), list, i + 1)
<1> DEFINE new == [address |-> list[i + 1], hashId |-> (i + 1) - 1]
           m == Len(servers)
           longer == Append(servers, new)
<1>0. /\ servers \in Seq(Infos) /\ m \in Nat /\ i \in Nat /\ i + 1 \in 1..Len(list)
      /\ Len(list) \in Nat /\ DOMAIN list = 1..Len(list) /\ DOMAIN servers = 1..m
    BY DEF Parsed
<1>1. new \in Infos /\ new.hashId = i /\ new.address = list[i + 1]
    BY <1>0 DEF Infos
<1>2. \A j \in 1..m : servers[j].hashId \in Nat /\ servers[j].hashId < i
  <2>1. \A j \in 1..m : servers[j] \in Infos
    BY <1>0
  <2>2. \A s \in Infos : s.hashId \in Nat
    BY DEF Infos
  <2> QED
    BY <2>1, <2>2 DEF Parsed
<1>3. CASE \E s \in Range(servers) : s.address = list[i + 1]
  <2>1. AddServer(list, servers, i + 1) = servers
    BY <1>3 DEF AddServer
  <2>2. ~Distinct(list)
    <3> SUFFICES ASSUME Distinct(list)
                 PROVE  FALSE
      OBVIOUS
    <3>1. PICK j \in 1..m : servers[j].address = list[i + 1]
      BY <1>0, <1>3 DEF Range
    <3>2. m = i /\ servers[j] = [address |-> list[j], hashId |-> j - 1]
      BY <3>1 DEF Parsed
    <3>3. list[j] = list[i + 1] /\ j \in DOMAIN list /\ i + 1 \in DOMAIN list /\ j # i + 1
      BY <1>0, <3>1, <3>2
    <3> QED
      BY <3>3 DEF Distinct
  <2>3. \A j \in 1..m : servers[j].hashId < i + 1
    BY <1>0, <1>2
  <2> QED
    BY <2>1, <2>2, <2>3 DEF Parsed
<1>4. CASE ~ \E s \in Range(servers) : s.address = list[i + 1]
  <2>1. AddServer(list, servers, i + 1) = longer
    BY <1>4 DEF AddServer
  <2> HIDE DEF new
  <2>2. /\ longer \in Seq(Infos) /\ Len(longer) = m + 1 /\ longer[m + 1] = new
        /\ \A j \in 1..m : longer[j] = servers[j]
    BY <1>0, <1>1
  <2> HIDE DEF longer
  <2>3. \A j \in 1..(m + 1) : j \in 1..m \/ j = m + 1
    BY <1>0
  <2>4. ASSUME NEW j \in 1..(m + 1)
        PROVE  longer[j].hashId < i + 1
    <3>1. CASE j \in 1..m
      BY <1>0, <1>2, <2>2, <3>1
    <3>2. CASE j = m + 1
      BY <1>0, <1>1, <2>2, <3>2
    <3> QED
      BY <2>3, <3>1, <3>2
  <2>5. ASSUME NEW j \in 1..(m + 1), NEW k \in 1..(m + 1), j < k
        PROVE  longer[j].hashId < longer[k].hashId
    <3>1. CASE k \in 1..m
      <4>1. j \in 1..m
        BY <1>0, <2>5, <3>1
      <4> QED
        BY <2>2, <2>5, <3>1, <4>1 DEF Parsed
    <3>2. CASE k = m + 1
      <4>1. j \in 1..m
        BY <1>0, <2>5, <3>2
      <4> QED
        BY <1>1, <2>2, <3>2, <4>1 DEF Parsed
    <3> QED
      BY <2>3, <3>1, <3>2
  <2>6. ASSUME Distinct(list)
        PROVE  /\ m + 1 = i + 1
               /\ \A j \in 1..(i + 1) : longer[j] = [address |-> list[j], hashId |-> j - 1]
    <3>1. m = i /\ \A j \in 1..i : servers[j] = [address |-> list[j], hashId |-> j - 1]
      BY <2>6 DEF Parsed
    <3>2. new = [address |-> list[i + 1], hashId |-> (i + 1) - 1]
      BY DEF new
    <3> QED
      BY <1>0, <2>2, <2>3, <3>1, <3>2
  <2> QED
    BY <2>1, <2>2, <2>4, <2>5, <2>6 DEF Parsed
<1> QED
    BY <1>3, <1>4

\* What parseServers() returns.
LEMMA ParseServers ==
    ASSUME NEW list \in Seq(Address)
    PROVE  Parsed(parseServers(list), list, Len(list))
<1>1. PICK h : ParseLoop(h, list, parseServers(list))
    BY ParseServersLoop
<1> DEFINE Good == {i \in 0..Len(list) : Parsed(h[i], list, i)}
           none == <<>>
<1>0. /\ Len(list) \in Nat /\ h[0] = none /\ none \in Seq(Infos) /\ Len(none) = 0
    BY <1>1 DEF ParseLoop
<1>2. 0 \in Good
  <2> HIDE DEF none
  <2>1. Parsed(none, list, 0)
    BY <1>0 DEF Parsed
  <2> QED
    BY <1>0, <2>1
<1>3. ASSUME NEW i \in 0..(Len(list) - 1), i \in Good
      PROVE  i + 1 \in Good
  <2>1. i + 1 \in 1..Len(list) /\ (i + 1) - 1 = i /\ i + 1 \in 0..Len(list)
    BY <1>0
  <2>2. h[i + 1] = AddServer(list, h[i], i + 1)
    BY <1>1, <2>1 DEF ParseLoop
  <2> DEFINE servers == h[i]
  <2>3. Parsed(servers, list, i)
    BY <1>3
  <2>4. Parsed(AddServer(list, servers, i + 1), list, i + 1)
    <3> HIDE DEF servers
    <3> QED
      BY <2>3, ParsedNext
  <2> QED
    BY <2>1, <2>2, <2>4
<1>4. \A i \in 0..Len(list) : i \in Good
  <2> HIDE DEF Good
  <2> QED
    BY <1>0, <1>2, <1>3, InductionUpTo
<1>5. Len(list) \in Good /\ h[Len(list)] = parseServers(list)
    BY <1>0, <1>1, <1>4 DEF ParseLoop
<1> QED
    BY <1>5

-----------------------------------------------------------------------------
(* getOwners() *)

\* The step of the loop over the hash ids of a segment.
AddOwner(owners, hashId) ==
    IF findServerByHashId(hashId) = {} THEN owners
    ELSE Append(owners, (CHOOSE s \in findServerByHashId(hashId) : TRUE).address)

\* owners goes through these values, and ends with result.
OwnersLoop(h, row, result) ==
    /\ h \in [0..Len(row) -> Seq(Address)]
    /\ h[0] = <<>>
    /\ \A i \in 1..Len(row) : h[i] = AddOwner(h[i - 1], row[i])
    /\ h[Len(row)] = result

\* The recursive function of FoldLeft, when the step is AddOwner.
OwnersStep(g, row) ==
    [T \in SUBSET (DOMAIN row) |->
        IF T = {} THEN <<>> ELSE AddOwner(g[T \ {Max(T)}], row[Max(T)])]

\* The owners of a segment, by its row of the table.
RowOwners(row) ==
    FoldLeft(LAMBDA owners, hashId :
                LET found == findServerByHashId(hashId) IN
                IF found = {} THEN owners
                ELSE Append(owners, (CHOOSE s \in found : TRUE).address),
             <<>>, row)

\* They are that loop.
LEMMA GetOwnersLoop ==
    ASSUME topology.servers \in Seq(Infos), NEW row \in Seq(Nat)
    PROVE  \E h : OwnersLoop(h, row, RowOwners(row))
<1> DEFINE n == Len(row)
           X == Seq(Address)
           base == <<>>
           D == DOMAIN row
           F == [p \in X \X Nat |-> AddOwner(p[1], p[2])]
           G == CHOOSE g : g = OwnersStep(g, row)
<1>0. /\ n \in Nat /\ D = 1..n /\ base \in X
      /\ \A i \in 1..n : row[i] \in Nat /\ i - 1 \in 0..n
    OBVIOUS
<1>1. \A out \in X, id \in Nat : AddOwner(out, id) \in X
  <2> TAKE out \in X, id \in Nat
  <2> DEFINE found == findServerByHashId(id)
             server == CHOOSE s \in found : TRUE
  <2>1. found \subseteq Infos
    BY DEF findServerByHashId, Range
  <2>2. CASE found = {}
    BY <2>2 DEF AddOwner
  <2>3. CASE found # {}
    <3>1. server \in found
      BY <2>3
    <3>2. server.address \in Address
      <4> HIDE DEF server, found
      <4>1. server \in Infos
        BY <2>1, <3>1
      <4> QED
        BY <4>1 DEF Infos
    <3>3. AddOwner(out, id) = Append(out, server.address)
      BY <2>3 DEF AddOwner
    <3> HIDE DEF server
    <3> QED
      BY <3>2, <3>3
  <2> QED
    BY <2>2, <2>3
<1>2. /\ F \in [X \X Nat -> X]
      /\ \A out \in X, id \in Nat : F[<<out, id>>] = AddOwner(out, id)
    BY <1>1
<1>3. RowOwners(row) = G[D]
    BY DEF RowOwners, FoldLeft, MapThenFoldSet, OwnersStep, AddOwner
<1>4. ASSUME NEW g
      PROVE  OwnersStep(g, row) =
                [T \in SUBSET D |->
                   IF T = {} THEN base ELSE AddOwner(g[T \ {Max(T)}], row[Max(T)])]
    BY DEF OwnersStep
<1> HIDE DEF F, base, X, D
<1>5. ASSUME NEW T \in SUBSET D, T # {}
      PROVE  row[Max(T)] \in Nat /\ T \ {Max(T)} \in SUBSET D
  <2>1. Max(T) \in D
    BY <1>0, <1>5, MaxIndex
  <2>2. row[Max(T)] \in Nat
    BY <1>0, <2>1
  <2> QED
    BY <2>2
<1>6. \E f : f = OwnersStep(f, row)
  <2>1. PICK f \in [SUBSET D -> X] : FoldEquations(f, F, X, base, row, Len(row))
    BY <1>0, <1>2, FoldExists
  <2>2. ASSUME NEW T \in SUBSET D, T # {}
        PROVE  f[T] = AddOwner(f[T \ {Max(T)}], row[Max(T)])
    <3>1. f[T \ {Max(T)}] \in X /\ row[Max(T)] \in Nat
      BY <1>5, <2>1, <2>2
    <3>2. f[T] = F[<<f[T \ {Max(T)}], row[Max(T)]>>]
      BY <1>0, <2>1, <2>2, <3>1 DEF FoldEquations
    <3> QED
      BY <1>2, <3>1, <3>2
  <2>3. f[{}] = base
    BY <1>0, <2>1 DEF FoldEquations
  <2>4. f = [T \in SUBSET D |->
                IF T = {} THEN base ELSE AddOwner(f[T \ {Max(T)}], row[Max(T)])]
    BY <2>1, <2>2, <2>3
  <2>5. f = OwnersStep(f, row)
    BY <1>4, <2>4
  <2> QED
    BY <2>5
<1>7. G = OwnersStep(G, row)
    BY <1>6
<1> HIDE DEF G
<1>8. FoldEquations(G, F, X, base, row, Len(row))
  <2> SUFFICES ASSUME NEW T \in SUBSET D
               PROVE  /\ T = {} => G[T] = base
                      /\ T # {} /\ G[T \ {Max(T)}] \in X =>
                            G[T] = F[<<G[T \ {Max(T)}], row[Max(T)]>>]
    BY <1>0 DEF FoldEquations
  <2>1. G[T] = IF T = {} THEN base ELSE AddOwner(G[T \ {Max(T)}], row[Max(T)])
    BY <1>4, <1>7
  <2>2. ASSUME T # {}, G[T \ {Max(T)}] \in X
        PROVE  F[<<G[T \ {Max(T)}], row[Max(T)]>>] = AddOwner(G[T \ {Max(T)}], row[Max(T)])
    BY <1>2, <1>5, <2>2
  <2> QED
    BY <2>1, <2>2
<1>9. PICK h : Iterates(h, F, X, base, row, G[DOMAIN row])
    BY <1>0, <1>2, <1>8, FoldIterates
<1>10. ASSUME NEW i \in 1..n
       PROVE  h[i] = AddOwner(h[i - 1], row[i])
  <2>1. h[i - 1] \in X /\ row[i] \in Nat
    BY <1>0, <1>9 DEF Iterates
  <2>2. h[i] = F[<<h[i - 1], row[i]>>]
    BY <1>0, <1>9 DEF Iterates
  <2> QED
    BY <1>2, <2>1, <2>2
<1>11. h \in [0..Len(row) -> Seq(Address)] /\ h[0] = <<>> /\ h[Len(row)] = RowOwners(row)
    BY <1>0, <1>3, <1>9 DEF Iterates, X, base, D
<1> QED
    BY <1>10, <1>11 DEF OwnersLoop

\* getOwners() goes through the row of the key's segment.
LEMMA GetOwnersIs ==
    ASSUME NEW hash
    PROVE  getOwners(hash) = IF ~hasHashTopology THEN <<>>
                             ELSE RowOwners(table[getSegment(hash, Len(table)) + 1])
BY DEF getOwners, RowOwners

\* Its result is a list of addresses.
LEMMA RowOwnersType ==
    ASSUME topology.servers \in Seq(Infos), NEW row \in Seq(Nat)
    PROVE  RowOwners(row) \in Seq(Address)
<1>1. PICK h : OwnersLoop(h, row, RowOwners(row))
    BY GetOwnersLoop
<1>2. Len(row) \in 0..Len(row)
    OBVIOUS
<1> QED
    BY <1>1, <1>2 DEF OwnersLoop

\* If the server list is the one that was sent, a row of places less than its length
\* is resolved to the addresses at these places.
LEMMA RowResolved ==
    ASSUME NEW list \in Seq(Address), topology.servers \in Seq(Infos),
           Len(topology.servers) = Len(list),
           \A j \in 1..Len(list) : topology.servers[j] = [address |-> list[j], hashId |-> j - 1],
           NEW row \in Seq(Nat), \A i \in 1..Len(row) : row[i] < Len(list)
    PROVE  RowOwners(row) = [i \in DOMAIN row |-> list[row[i] + 1]]
<1> DEFINE want(k) == [i \in 1..k |-> list[row[i] + 1]]
<1>0. Len(row) \in Nat /\ DOMAIN row = 1..Len(row) /\ Len(list) \in Nat
      /\ \A i \in 1..Len(row) : row[i] \in Nat /\ row[i] + 1 \in 1..Len(list)
    OBVIOUS
<1>1. PICK h : OwnersLoop(h, row, RowOwners(row))
    BY GetOwnersLoop
<1>2. ASSUME NEW i \in 1..Len(row), NEW owners
      PROVE  AddOwner(owners, row[i]) = Append(owners, list[row[i] + 1])
  <2> DEFINE id == row[i]
             it == [address |-> list[id + 1], hashId |-> id]
  <2>1. id \in Nat /\ id + 1 \in 1..Len(list) /\ (id + 1) - 1 = id
    BY <1>0
  <2>2. topology.servers[id + 1] = it
    BY <2>1
  <2>3. DOMAIN topology.servers = 1..Len(list)
    OBVIOUS
  <2>4. it \in findServerByHashId(id)
    BY <2>1, <2>2, <2>3 DEF findServerByHashId, Range
  <2>5. ASSUME NEW s \in findServerByHashId(id)
        PROVE  s = it
    <3>1. PICK j \in 1..Len(list) : s = topology.servers[j]
      BY <2>3 DEF findServerByHashId, Range
    <3>2. s = [address |-> list[j], hashId |-> j - 1] /\ s.hashId = id
      BY <3>1 DEF findServerByHashId
    <3>3. j = id + 1
      BY <2>1, <3>2
    <3> QED
      BY <2>2, <3>1, <3>3
  <2>6. findServerByHashId(id) # {} /\ (CHOOSE s \in findServerByHashId(id) : TRUE) = it
    BY <2>4, <2>5
  <2>7. it.address = list[id + 1]
    OBVIOUS
  <2> HIDE DEF it
  <2>8. AddOwner(owners, id) = Append(owners, it.address)
    BY <2>6 DEF AddOwner
  <2> QED
    BY <2>7, <2>8
<1> DEFINE Good == {k \in 0..Len(row) : h[k] = want(k)}
<1>3. 0 \in Good
  <2>1. want(0) = <<>>
    OBVIOUS
  <2> QED
    BY <1>0, <1>1, <2>1 DEF OwnersLoop
<1>4. ASSUME NEW k \in 0..(Len(row) - 1), k \in Good
      PROVE  k + 1 \in Good
  <2>1. k \in Nat /\ k + 1 \in 1..Len(row) /\ (k + 1) - 1 = k /\ k + 1 \in 0..Len(row)
    BY <1>0
  <2>2. h[k + 1] = AddOwner(h[k], row[k + 1]) /\ h[k] = want(k)
    BY <1>1, <1>4, <2>1 DEF OwnersLoop
  <2>3. h[k + 1] = Append(want(k), list[row[k + 1] + 1])
    BY <1>2, <2>1, <2>2
  <2>4. Append(want(k), list[row[k + 1] + 1]) = want(k + 1)
    <3>0. \A i \in 1..(k + 1) : i \in 1..Len(row) /\ list[row[i] + 1] \in Address
      BY <1>0, <2>1
    <3>1. want(k) \in Seq(Address) /\ Len(want(k)) = k /\ list[row[k + 1] + 1] \in Address
      BY <2>1, <3>0
    <3>2. want(k + 1) \in Seq(Address) /\ Len(want(k + 1)) = k + 1
      BY <2>1, <3>0
    <3>3. \A i \in 1..(k + 1) : Append(want(k), list[row[k + 1] + 1])[i] = want(k + 1)[i]
      BY <2>1, <3>1
    <3> QED
      BY <2>1, <3>1, <3>2, <3>3
  <2> QED
    BY <2>1, <2>3, <2>4
<1>5. \A k \in 0..Len(row) : k \in Good
  <2> HIDE DEF Good
  <2> QED
    BY <1>0, <1>3, <1>4, InductionUpTo
<1>6. h[Len(row)] = want(Len(row))
    BY <1>0, <1>5
<1> QED
    BY <1>0, <1>1, <1>6 DEF OwnersLoop

-----------------------------------------------------------------------------
(* The hash topology *)

\* The table is always the one of the last update: nothing of an earlier table
\* survives an update, not even one that cannot be resolved.
TableInv ==
    /\ topology.segmentOwners = sent.segments
    /\ table = updateFromTopology(topology)

\* The inductive invariant of ConsistentHash: servers and table are those of the last
\* update.
HashInv ==
    /\ sent.servers \in Seq(Address) /\ sent.segments \in Seq(Seq(Nat))
    /\ Parsed(topology.servers, sent.servers, Len(sent.servers))
    /\ TableInv

\* At first nothing is known.
LEMMA HashInit == Init => HashInv
<1> SUFFICES ASSUME Init PROVE HashInv
    OBVIOUS
<1> DEFINE none == <<>>
<1>1. /\ topology.servers = none /\ topology.segmentOwners = none /\ table = none
      /\ sent.servers = none /\ sent.segments = none
    BY DEF Init, NoTable
<1>2. none \in Seq(Infos) /\ Len(none) = 0 /\ none \in Seq(Address) /\ none \in Seq(Seq(Nat))
    OBVIOUS
<1>3. updateFromTopology(topology) = none
    BY <1>1 DEF updateFromTopology, NoTable
<1> HIDE DEF none
<1>4. Parsed(none, none, 0)
    BY <1>2 DEF Parsed
<1> QED
    BY <1>1, <1>2, <1>3, <1>4 DEF HashInv, TableInv

\* An update replaces all of it.
LEMMA HashStep ==
    ASSUME HashInv, [Next]_vars
    PROVE  HashInv'
<1>1. CASE handleTopologyUpdate
  <2>1. PICK u \in Updates :
          /\ topology' = parseTopologyInfo(u)
          /\ table' = updateFromTopology(topology')
          /\ sent' = u
    BY <1>1 DEF handleTopologyUpdate
  <2>2. u.servers \in Seq(Address) /\ u.segments \in Seq(Seq(Nat))
    BY HashAssumption
  <2>3. topology'.servers = parseServers(u.servers) /\ topology'.segmentOwners = u.segments
    BY <2>1 DEF parseTopologyInfo
  <2>4. Parsed(topology'.servers, u.servers, Len(u.servers))
    BY <2>2, <2>3, ParseServers
  <2>5. table' = updateFromTopology(topology)'
    BY <2>1 DEF updateFromTopology
  <2> QED
    BY <2>1, <2>2, <2>3, <2>4, <2>5 DEF HashInv, TableInv, Parsed
<1>2. CASE UNCHANGED vars
    BY <1>2 DEF vars, HashInv, TableInv, updateFromTopology, Parsed
<1> QED
    BY <1>1, <1>2 DEF Next

\* The table is a sequence of rows of hash ids.
LEMMA TableType ==
    ASSUME HashInv
    PROVE  topology.servers \in Seq(Infos) /\ table \in Seq(Seq(Nat))
<1> DEFINE segs == topology.segmentOwners
           servers == topology.servers
           id(seg, i) == servers[segs[seg][i] + 1].hashId
<1>1. servers \in Seq(Infos) /\ segs \in Seq(Seq(Nat))
    BY DEF HashInv, TableInv, Parsed
<1>2. CASE \E seg \in DOMAIN segs : \E i \in DOMAIN segs[seg] : ~(segs[seg][i] < Len(servers))
  <2>1. table = <<>>
    BY <1>2 DEF HashInv, TableInv, updateFromTopology, NoTable
  <2> QED
    BY <1>1, <2>1
<1>3. CASE \A seg \in DOMAIN segs : \A i \in DOMAIN segs[seg] : segs[seg][i] < Len(servers)
  <2>1. table = [seg \in DOMAIN segs |-> [i \in DOMAIN segs[seg] |-> id(seg, i)]]
    BY <1>3 DEF HashInv, TableInv, updateFromTopology
  <2> HIDE DEF segs, servers
  <2>2. ASSUME NEW seg \in DOMAIN segs, NEW i \in DOMAIN segs[seg]
        PROVE  id(seg, i) \in Nat
    <3>1. segs[seg] \in Seq(Nat) /\ segs[seg][i] \in Nat
      BY <1>1, <2>2
    <3>2. segs[seg][i] + 1 \in 1..Len(servers)
      BY <1>1, <1>3, <2>2, <3>1
    <3>3. servers[segs[seg][i] + 1] \in Infos
      BY <1>1, <3>2
    <3> QED
      BY <3>3 DEF Infos
  <2>3. ASSUME NEW seg \in DOMAIN segs
        PROVE  [i \in DOMAIN segs[seg] |-> id(seg, i)] \in Seq(Nat)
    <3>1. segs[seg] \in Seq(Nat)
      BY <1>1, <2>3
    <3>2. DOMAIN segs[seg] = 1..Len(segs[seg]) /\ Len(segs[seg]) \in Nat
      BY <3>1
    <3> HIDE DEF id
    <3> QED
      BY <2>2, <3>2
  <2>4. DOMAIN segs = 1..Len(segs) /\ Len(segs) \in Nat
    BY <1>1
  <2> DEFINE idrow(seg) == [i \in DOMAIN segs[seg] |-> id(seg, i)]
  <2>5. table = [seg \in 1..Len(segs) |-> idrow(seg)]
    BY <2>1, <2>4
  <2>6. \A seg \in 1..Len(segs) : idrow(seg) \in Seq(Nat)
    BY <2>3, <2>4
  <2> HIDE DEF idrow
  <2>7. table \in Seq(Seq(Nat))
    BY <2>4, <2>5, <2>6
  <2> QED
    BY <1>1, <2>7 DEF servers
<1> QED
    BY <1>2, <1>3

\* A table that updateFromTopology() returns has one row for each segment,
\* and every owner in it was resolved.
LEMMA ResolvedTable ==
    ASSUME TableInv PROVE NoPartialTable
<1> SUFFICES ASSUME hasHashTopology
             PROVE  /\ DOMAIN table = DOMAIN sent.segments
                    /\ \A seg \in DOMAIN table : \A i \in DOMAIN sent.segments[seg] :
                          /\ sent.segments[seg][i] < Len(topology.servers)
                          /\ table[seg][i] =
                                topology.servers[sent.segments[seg][i] + 1].hashId
    BY DEF NoPartialTable
<1>1. table # NoTable
    BY DEF hasHashTopology, NoTable
<1>2. /\ ~ \E seg \in DOMAIN topology.segmentOwners :
              \E i \in DOMAIN topology.segmentOwners[seg] :
                 ~(topology.segmentOwners[seg][i] < Len(topology.servers))
      /\ table = [seg \in DOMAIN topology.segmentOwners |->
                    [i \in DOMAIN topology.segmentOwners[seg] |->
                       topology.servers[topology.segmentOwners[seg][i] + 1].hashId]]
    BY <1>1 DEF TableInv, updateFromTopology
<1> QED
    BY <1>2 DEF TableInv

\* If the last update lists each server once and its indices are valid, its hash ids
\* are its indices: the table is the one that was sent.
LEMMA TableAsSent ==
    ASSUME HashInv, Distinct(sent.servers), ValidIndices(sent)
    PROVE  /\ table = sent.segments
           /\ Len(topology.servers) = Len(sent.servers)
           /\ \A j \in 1..Len(sent.servers) :
                 topology.servers[j] = [address |-> sent.servers[j], hashId |-> j - 1]
<1> DEFINE segs == sent.segments
           n == Len(sent.servers)
           servers == topology.servers
<1>1. segs \in Seq(Seq(Nat)) /\ n \in Nat /\ topology.segmentOwners = segs
    BY DEF HashInv, TableInv
<1>2. /\ Len(servers) = n
      /\ \A j \in 1..n : servers[j] = [address |-> sent.servers[j], hashId |-> j - 1]
    BY DEF HashInv, Parsed
<1>3. \A seg \in DOMAIN segs : \A i \in DOMAIN segs[seg] : segs[seg][i] < n
    BY DEF ValidIndices
<1>4. table = [seg \in DOMAIN segs |->
                 [i \in DOMAIN segs[seg] |-> servers[segs[seg][i] + 1].hashId]]
    BY <1>1, <1>2, <1>3 DEF HashInv, TableInv, updateFromTopology
<1> HIDE DEF segs, servers, n
<1>5. ASSUME NEW seg \in DOMAIN segs
      PROVE  [i \in DOMAIN segs[seg] |-> servers[segs[seg][i] + 1].hashId] = segs[seg]
  <2>1. segs[seg] \in Seq(Nat)
    BY <1>1
  <2>2. ASSUME NEW i \in DOMAIN segs[seg]
        PROVE  servers[segs[seg][i] + 1].hashId = segs[seg][i]
    <3>1. segs[seg][i] \in Nat /\ segs[seg][i] < n
      BY <1>3, <2>1
    <3>2. segs[seg][i] + 1 \in 1..n /\ (segs[seg][i] + 1) - 1 = segs[seg][i]
      BY <1>1, <3>1
    <3> QED
      BY <1>2, <3>2
  <2>3. segs[seg] = [i \in DOMAIN segs[seg] |-> segs[seg][i]]
    BY <2>1
  <2> QED
    BY <2>2, <2>3
<1>6. segs = [seg \in DOMAIN segs |-> segs[seg]]
    BY <1>1
<1>7. table = segs
    BY <1>4, <1>5, <1>6
<1> QED
    BY <1>2, <1>7 DEF segs, n, servers

\* A key goes to the servers that the last update names for its segment.
LEMMA OwnersSent ==
    ASSUME HashInv PROVE OwnersAsSent
<1> DEFINE segs == sent.segments
           n == Len(segs)
<1> SUFFICES ASSUME Distinct(sent.servers), ValidIndices(sent), Divides(n),
                    NEW hash \in Hashes
             PROVE  LET row == segs[referenceSegment(hash, n) + 1]
                    IN  getOwners(hash) = [i \in DOMAIN row |-> sent.servers[row[i] + 1]]
    BY DEF OwnersAsSent
<1> DEFINE q == referenceSegment(hash, n)
           row == segs[q + 1]
<1>1. /\ table = segs /\ Len(topology.servers) = Len(sent.servers)
      /\ \A j \in 1..Len(sent.servers) :
            topology.servers[j] = [address |-> sent.servers[j], hashId |-> j - 1]
    BY TableAsSent
<1>2. segs \in Seq(Seq(Nat)) /\ sent.servers \in Seq(Address)
      /\ topology.servers \in Seq(Infos) /\ Len(sent.servers) \in Nat
    BY TableType DEF HashInv
<1>3. n \in Nat \ {0}
    BY <1>2 DEF Divides
<1>4. q \in 0..(n - 1) /\ getSegment(hash, n) = q
    BY <1>3, SegmentInRange, SameSegment
<1>5. hasHashTopology
    BY <1>1, <1>3 DEF hasHashTopology
<1>6. getOwners(hash) = RowOwners(row)
    BY <1>1, <1>4, <1>5, GetOwnersIs
<1> HIDE DEF q
<1>7. q + 1 \in DOMAIN segs
    BY <1>2, <1>3, <1>4
<1>8. row \in Seq(Nat) /\ \A i \in 1..Len(row) : row[i] < Len(sent.servers)
  <2>1. row \in Seq(Nat)
    BY <1>2, <1>7
  <2>2. DOMAIN row = 1..Len(row)
    BY <2>1
  <2> QED
    BY <1>7, <2>1, <2>2 DEF ValidIndices
<1>9. RowOwners(row) = [i \in DOMAIN row |-> sent.servers[row[i] + 1]]
  <2> HIDE DEF row
  <2> QED
    BY <1>1, <1>2, <1>8, RowResolved
<1> QED
    BY <1>6, <1>9 DEF row, q, n, segs

\* The servers that a hash-aware client asks are those of the last update.
LEMMA HashInvariance == Spec => []HashInv
<1>1. HashInv /\ [Next]_vars => HashInv'
    BY HashStep
<1> QED
    BY <1>1, HashInit, PTL DEF Spec

\* Whatever servers send, and in whatever order, the table handleTopologyUpdate()
\* leaves is a complete one for the update it came with, or none.
THEOREM TableIsWhole == Spec => []NoPartialTable
<1>1. HashInv => NoPartialTable
    BY ResolvedTable DEF HashInv
<1> QED
    BY <1>1, HashInvariance, PTL

\* Whatever was known before, a key is routed to the servers that the last update
\* names for the segment it has on the server's side, in their order (parseServers(),
\* updateFromTopology(), getSegment(), getOwners()).
THEOREM RoutedAsSent == Spec => []OwnersAsSent
<1>1. HashInv => OwnersAsSent
    BY OwnersSent
<1> QED
    BY <1>1, HashInvariance, PTL

\* getSegment() gives the segment of the reference mapping if the number of segments
\* divides the hash space, and at most the next one if its square is no larger.
THEOREM SegmentsNear == Spec => []SegmentNearReference
<1>1. ASSUME HashInv PROVE SegmentNearReference
  <2>1. Len(table) \in Nat
    BY <1>1, TableType
  <2>2. hasHashTopology => Len(table) \in Nat \ {0}
    BY <2>1 DEF hasHashTopology
  <2> QED
    BY <2>1, <2>2, SameSegment, NextSegment DEF SegmentNearReference
<1>2. HashInv => SegmentNearReference
    BY <1>1
<1> QED
    BY <1>2, HashInvariance, PTL

-----------------------------------------------------------------------------
(* The routing decision *)

\* The lists from which candidates are taken.
LEMMA RoutingLists ==
    ASSUME HashInv, key \in Keys
    PROVE  Owners \in Seq(Address) /\ Servers \in Seq(Address)
<1>1. topology.servers \in Seq(Infos) /\ table \in Seq(Seq(Nat))
    BY TableType
<1>2. Owners \in Seq(Address)
  <2>1. CASE ~hasHashTopology
    <3>1. Owners = <<>>
      BY <2>1 DEF Owners, getOwners
    <3> QED
      BY <3>1
  <2>2. CASE hasHashTopology
    <3> DEFINE seg == getSegment(key, Len(table))
               row == table[seg + 1]
    <3>1. Len(table) \in Nat \ {0} /\ key \in Hashes
      BY <1>1, <2>2, KeyAssumption DEF hasHashTopology, Hashes
    <3>2. seg \in 0..(Len(table) - 1)
      BY <3>1, SegmentInRange
    <3> HIDE DEF seg
    <3>3. row \in Seq(Nat)
      BY <1>1, <3>1, <3>2
    <3>4. Owners = RowOwners(row)
      BY <2>2, GetOwnersIs DEF Owners, seg
    <3> HIDE DEF row
    <3> QED
      BY <1>1, <3>3, <3>4, RowOwnersType
  <2> QED
    BY <2>1, <2>2
<1>3. Servers \in Seq(Address)
  <2>1. \A s \in Infos : s.address \in Address
    BY DEF Infos
  <2>2. \A i \in 1..Len(topology.servers) : topology.servers[i].address \in Address
    BY <1>1, <2>1
  <2>3. DOMAIN topology.servers = 1..Len(topology.servers) /\ Len(topology.servers) \in Nat
    BY <1>1
  <2> QED
    BY <2>2, <2>3 DEF Servers
<1> QED
    BY <1>2, <1>3

\* The inductive invariant of KeyRouting: what was tried is excluded.
RoutingInv ==
    /\ HashInv
    /\ key \in Keys /\ proxyToNonOwner \in BOOLEAN
    /\ excludeNodes \in Seq(Address) /\ attempts \in Seq(Address)
    /\ Range(attempts) \subseteq Range(excludeNodes)
    /\ NoServerTriedTwice

\* What is a candidate.
LEMMA CandidatesType ==
    ASSUME RoutingInv
    PROVE  /\ Candidates \in Seq(Address)
           /\ Candidates # <<>> => Head(Candidates) \in Address \ Range(excludeNodes)
<1>1. Owners \in Seq(Address) /\ Servers \in Seq(Address) /\ proxyToNonOwner \in BOOLEAN
    BY RoutingLists DEF RoutingInv
<1> DEFINE out == orderKeyCandidates(Owners, Servers, excludeNodes, proxyToNonOwner)
<1>2. out \in Seq(Address) /\ Range(out) \cap Range(excludeNodes) = {}
    BY <1>1, CandidateSet
<1>3. CASE Candidates = <<>>
    BY <1>3
<1>4. CASE Candidates # <<>>
  <2>1. Candidates = out
    BY <1>4 DEF Candidates
  <2> HIDE DEF out
  <2>2. Head(out) \in Address /\ Head(out) \in Range(out)
    <3>1. Head(out) = out[1] /\ 1 \in DOMAIN out
      BY <1>2, <1>4, <2>1
    <3> QED
      BY <1>2, <1>4, <2>1, <3>1 DEF Range
  <2> QED
    BY <1>2, <2>1, <2>2
<1> QED
    BY <1>3, <1>4

\* A retry keeps it.
LEMMA TryStep ==
    ASSUME RoutingInv, TryFirst
    PROVE  RoutingInv'
<1> DEFINE c == Head(Candidates)
           one == <<c>>
<1>1. /\ c \in Address /\ c \notin Range(excludeNodes) /\ one \in Seq(Address)
    BY CandidatesType DEF TryFirst
<1>2. /\ attempts' = Append(attempts, c) /\ excludeNodes' = unionNodes(excludeNodes, one)
      /\ UNCHANGED <<topology, table, sent, key, proxyToNonOwner>>
    BY DEF TryFirst, vars
<1>3. Range(one) = {c}
    BY DEF Range
<1> HIDE DEF c, one
<1>4. /\ excludeNodes \in Seq(Address) /\ attempts \in Seq(Address)
      /\ Range(attempts) \subseteq Range(excludeNodes) /\ Distinct(attempts)
    BY DEF RoutingInv, NoServerTriedTwice
<1>5. excludeNodes' \in Seq(Address) /\ Range(excludeNodes') = Range(excludeNodes) \cup {c}
    BY <1>1, <1>2, <1>3, <1>4, UnionSet
<1>6. /\ attempts' \in Seq(Address) /\ DOMAIN attempts' = 1..(Len(attempts) + 1)
      /\ Len(attempts) \in Nat /\ DOMAIN attempts = 1..Len(attempts)
      /\ attempts'[Len(attempts) + 1] = c
      /\ \A i \in 1..Len(attempts) : attempts'[i] = attempts[i] /\ attempts'[i] # c
  <2>1. \A i \in 1..Len(attempts) : attempts[i] \in Range(excludeNodes)
    BY <1>4 DEF Range
  <2> QED
    BY <1>1, <1>2, <1>4, <2>1
<1>7. \A i \in 1..(Len(attempts) + 1) : i \in 1..Len(attempts) \/ i = Len(attempts) + 1
    BY <1>6
<1>8. Distinct(attempts')
    BY <1>4, <1>6, <1>7 DEF Distinct
<1>9. Range(attempts') \subseteq Range(excludeNodes')
    BY <1>4, <1>5, <1>6, <1>7 DEF Range
<1>10. HashInv'
    BY <1>2 DEF RoutingInv, HashInv, TableInv, updateFromTopology, Parsed
<1> QED
    BY <1>2, <1>5, <1>6, <1>8, <1>9, <1>10 DEF RoutingInv, NoServerTriedTwice, Distinct

\* The inductive invariant holds.
LEMMA RoutingInvariance == RoutingSpec => []RoutingInv
<1>1. RoutingInit => RoutingInv
  <2> SUFFICES ASSUME RoutingInit PROVE RoutingInv
    OBVIOUS
  <2>1. excludeNodes = <<>> /\ attempts = <<>>
    BY DEF RoutingInit
  <2>2. Distinct(attempts) /\ Range(attempts) \subseteq Range(excludeNodes)
    BY <2>1 DEF Distinct, Range
  <2> QED
    BY <2>1, <2>2, HashInit DEF RoutingInit, RoutingInv, NoServerTriedTwice
<1>2. RoutingInv /\ [RoutingNext]_routingVars => RoutingInv'
  <2> SUFFICES ASSUME RoutingInv, [RoutingNext]_routingVars PROVE RoutingInv'
    OBVIOUS
  <2>1. ASSUME [Next]_vars, UNCHANGED callVars
        PROVE  RoutingInv'
    <3>1. HashInv'
      BY <2>1, HashStep DEF RoutingInv
    <3> QED
      BY <2>1, <3>1 DEF RoutingInv, callVars, NoServerTriedTwice, Distinct
  <2>2. CASE TopologyUpdate
    BY <2>1, <2>2 DEF TopologyUpdate, Next
  <2>3. CASE TryFirst
    BY <2>3, TryStep
  <2>4. CASE UNCHANGED routingVars
    BY <2>1, <2>4 DEF routingVars
  <2> QED
    BY <2>2, <2>3, <2>4 DEF RoutingNext
<1> QED
    BY <1>1, <1>2, PTL DEF RoutingSpec

\* Candidates are the owners in their order, then the other servers in theirs if
\* proxying is on, each once and none that is excluded (orderKeyCandidates()).
THEOREM CandidatesOrdered == RoutingSpec => []CandidatesAreOrdered
<1>1. ASSUME RoutingInv PROVE CandidatesAreOrdered
  <2> DEFINE rest == IF proxyToNonOwner THEN Servers ELSE <<>>
             all == Owners \o rest
             out == orderKeyCandidates(Owners, Servers, excludeNodes, proxyToNonOwner)
  <2>1. Owners \in Seq(Address) /\ Servers \in Seq(Address) /\ proxyToNonOwner \in BOOLEAN
    BY <1>1, RoutingLists DEF RoutingInv
  <2>2. rest \in Seq(Address)
    BY <2>1
  <2>3. Range(rest) = IF proxyToNonOwner THEN Range(Servers) ELSE {}
    BY DEF Range
  <2>4. Range(out) = (Range(Owners) \cup (IF proxyToNonOwner THEN Range(Servers) ELSE {}))
                        \ Range(excludeNodes)
    BY <2>1, CandidateSet
  <2>5. \A i, j \in DOMAIN out : i < j => FirstIn(all, out[i]) < FirstIn(all, out[j])
    BY <2>1, CandidateOrder
  <2>6. Owners # <<>> => Candidates = out
    BY DEF Candidates
  <2>7. Range(all) = Range(Owners) \cup Range(rest)
    <3> HIDE DEF rest
    <3> QED
      BY <2>1, <2>2, RangeConcat
  <2>8. Range(out) = Range(all) \ Range(excludeNodes)
    <3> HIDE DEF all, out, rest
    <3> QED
      BY <2>3, <2>4, <2>7
  <2> HIDE DEF out
  <2>9. CandidatesAreOrdered <=>
          (Owners # <<>> =>
            /\ Range(Candidates) = Range(all) \ Range(excludeNodes)
            /\ \A i, j \in DOMAIN Candidates :
                  i < j => FirstIn(all, Candidates[i]) < FirstIn(all, Candidates[j]))
    BY DEF CandidatesAreOrdered
  <2> HIDE DEF all
  <2> QED
    BY <2>5, <2>6, <2>8, <2>9
<1>2. RoutingInv => CandidatesAreOrdered
    BY <1>1
<1> QED
    BY <1>2, RoutingInvariance, PTL

\* A caller that excludes what it tried asks no server twice, however owners and
\* servers change meanwhile (excluding(), unionNodes(), selectServerForKey()).
THEOREM NeverTriedTwice == RoutingSpec => []NoServerTriedTwice
<1>1. RoutingInv => NoServerTriedTwice
    BY DEF RoutingInv
<1> QED
    BY <1>1, RoutingInvariance, PTL

\* To the hash topology, a caller's retries are stuttering steps: what is proved of
\* ConsistentHash holds while keys are routed.
THEOREM RoutingKeepsHash == RoutingSpec => Spec
<1>1. RoutingInit => Init
    BY DEF RoutingInit
<1>2. [RoutingNext]_routingVars => [Next]_vars
    BY DEF RoutingNext, TopologyUpdate, TryFirst, routingVars, Next
<1> QED
    BY <1>1, <1>2, PTL DEF RoutingSpec, Spec
===============================================================================
