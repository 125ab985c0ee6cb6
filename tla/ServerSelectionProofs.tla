------------------------ MODULE ServerSelectionProofs ------------------------
(***************************************************************************)
(* What orderKeyCandidates() and unionNodes() compute, for lists of any    *)
(* length, however they overlap and repeat; and the induction this takes.  *)
(*                                                                         *)
(* Induction is over a set of naturals, which has a least member because   *)
(* < is well founded on Nat.  FoldLeft is a CHOOSE of a function of the    *)
(* sets of indices: FoldExists shows that there is one, FoldIterates that  *)
(* its value is what the loop reaches, element after element.              *)
(***************************************************************************)
EXTENDS ServerSelection, WellFoundedInduction, TLAPS

-----------------------------------------------------------------------------
(* Induction *)

\* A set of naturals that is not empty has a least member.
LEMMA LeastNatural ==
    ASSUME NEW T \in SUBSET Nat, T # {}
    PROVE  \E n \in T : \A m \in T : n <= m
<1> DEFINE R == {ss \in Nat \X Nat : ss[1] < ss[2]}
<1>1. IsWellFoundedOn(R, Nat)
    BY NatLessThanWellFounded DEF OpToRel
<1>2. PICK n \in T : \A m \in T : ~(<<m, n>> \in R)
  <2> HIDE DEF R
  <2> QED
    BY <1>1, WFMin
<1>3. \A m \in T : ~(m < n)
    BY <1>2 DEF R
<1> QED
    BY <1>3

\* Induction up to n: a set that holds 0 and, below n, the successors of its members,
\* holds every number up to n.
LEMMA InductionUpTo ==
    ASSUME NEW n \in Nat, NEW T,
           0 \in T, \A k \in 0..(n - 1) : k \in T => k + 1 \in T
    PROVE  \A k \in 0..n : k \in T
<1> SUFFICES ASSUME (0..n) \ T # {}
             PROVE  FALSE
    OBVIOUS
<1>1. PICK k \in (0..n) \ T : \A m \in (0..n) \ T : k <= m
  <2>1. (0..n) \ T \in SUBSET Nat
    OBVIOUS
  <2> QED
    BY <2>1, LeastNatural
<1>2. k # 0 /\ k - 1 \in 0..(n - 1) /\ k - 1 \notin (0..n) \ T /\ (k - 1) + 1 = k
    BY <1>1
<1>3. k - 1 \in T
    BY <1>2
<1> QED
    BY <1>1, <1>2, <1>3

-----------------------------------------------------------------------------
(* FoldLeft *)

\* Max of a non-empty set of indices below n + 1.
LEMMA MaxIndex ==
    ASSUME NEW n \in Nat, NEW T \in SUBSET (1..n), T # {}
    PROVE  Max(T) \in T /\ \A k \in T : k <= Max(T)
<1> DEFINE Gap == {m \in 0..n : \E k \in T : k = n - m}
<1>1. Gap \in SUBSET Nat /\ Gap # {}
  <2>1. PICK k \in T : TRUE
    OBVIOUS
  <2>2. n - k \in 0..n /\ k = n - (n - k)
    OBVIOUS
  <2>3. n - k \in Gap
    BY <2>2
  <2>4. Gap \in SUBSET Nat
    OBVIOUS
  <2> QED
    BY <2>3, <2>4
<1>2. PICK m \in Gap : \A j \in Gap : m <= j
  <2> HIDE DEF Gap
  <2> QED
    BY <1>1, LeastNatural
<1>3. n - m \in T
    BY <1>2
<1>4. ASSUME NEW k \in T
      PROVE  n - m >= k
  <2>1. n - k \in 0..n /\ k = n - (n - k)
    OBVIOUS
  <2>2. m <= n - k
    BY <1>2, <2>1
  <2> QED
    BY <1>2, <2>2
<1>5. \E x \in T : \A y \in T : x >= y
    BY <1>3, <1>4
<1> QED
    BY <1>5 DEF Max

\* The equations of FoldLeft over the subsets of 1..n, for a step that is the
\* function F as long as the values are in X.
FoldEquations(f, F, X, base, seq, n) ==
    \A T \in SUBSET (1..n) :
        /\ T = {} => f[T] = base
        /\ T # {} /\ f[T \ {Max(T)}] \in X => f[T] = F[<<f[T \ {Max(T)}], seq[Max(T)]>>]

\* They have a solution.
LEMMA FoldExists ==
    ASSUME NEW X, NEW S, NEW base \in X, NEW F \in [X \X S -> X], NEW seq \in Seq(S)
    PROVE  \E f \in [SUBSET (1..Len(seq)) -> X] : FoldEquations(f, F, X, base, seq, Len(seq))
<1> DEFINE Good == {n \in 0..Len(seq) :
                      \E f \in [SUBSET (1..n) -> X] : FoldEquations(f, F, X, base, seq, n)}
<1>0. Len(seq) \in Nat
    OBVIOUS
<1>1. 0 \in Good
  <2> DEFINE f == [T \in SUBSET (1..0) |-> base]
  <2>1. f \in [SUBSET (1..0) -> X]
    OBVIOUS
  <2>2. FoldEquations(f, F, X, base, seq, 0)
    <3>1. 1..0 = {} /\ SUBSET {} = {{}}
      OBVIOUS
    <3> QED
      BY <3>1 DEF FoldEquations
  <2> QED
    BY <1>0, <2>1, <2>2
<1>2. ASSUME NEW n \in 0..(Len(seq) - 1), n \in Good
      PROVE  n + 1 \in Good
  <2>1. PICK f \in [SUBSET (1..n) -> X] : FoldEquations(f, F, X, base, seq, n)
    BY <1>2
  <2>2. n \in Nat /\ n + 1 \in Nat /\ n + 1 \in 0..Len(seq) /\ seq[n + 1] \in S
    BY <1>0
  <2> DEFINE g == [T \in SUBSET (1..(n + 1)) |->
                     IF n + 1 \in T THEN F[<<f[T \ {n + 1}], seq[n + 1]>>] ELSE f[T]]
  <2>3. ASSUME NEW T \in SUBSET (1..(n + 1))
        PROVE  /\ T \ {n + 1} \in SUBSET (1..n)
               /\ n + 1 \in T => Max(T) = n + 1
               /\ n + 1 \notin T => T \in SUBSET (1..n)
               /\ T # {} /\ n + 1 \notin T => Max(T) \in 1..n
    <3>1. T # {} => Max(T) \in T /\ \A k \in T : k <= Max(T)
      BY <2>2, MaxIndex
    <3>2. \A k \in T : k \in 1..(n + 1) /\ (k # n + 1 => k \in 1..n)
      BY <2>2
    <3>3. n + 1 \in T => Max(T) = n + 1
      <4> SUFFICES ASSUME n + 1 \in T
                   PROVE  Max(T) = n + 1
        OBVIOUS
      <4>1. Max(T) \in 1..(n + 1) /\ n + 1 <= Max(T)
        BY <3>1, <3>2
      <4> QED
        BY <2>2, <4>1
    <3>4. T \ {n + 1} \in SUBSET (1..n) /\ (n + 1 \notin T => T \in SUBSET (1..n))
      BY <3>2
    <3> QED
      BY <3>1, <3>2, <3>3, <3>4
  <2>4. g \in [SUBSET (1..(n + 1)) -> X]
    BY <2>1, <2>2, <2>3
  <2>5. ASSUME NEW T \in SUBSET (1..(n + 1))
        PROVE  /\ T = {} => g[T] = base
               /\ T # {} => g[T] = F[<<g[T \ {Max(T)}], seq[Max(T)]>>]
    <3>1. CASE n + 1 \in T
      <4>1. Max(T) = n + 1 /\ n + 1 \notin T \ {n + 1}
        BY <2>3, <3>1
      <4>2. T \ {n + 1} \in SUBSET (1..(n + 1))
        OBVIOUS
      <4>3. g[T \ {n + 1}] = f[T \ {n + 1}]
        BY <4>1, <4>2
      <4> QED
        BY <3>1, <4>1, <4>3
    <3>2. CASE n + 1 \notin T
      <4>1. T \in SUBSET (1..n) /\ T \ {Max(T)} \in SUBSET (1..(n + 1))
        BY <2>3, <3>2
      <4>2. g[T] = f[T] /\ g[T \ {Max(T)}] = f[T \ {Max(T)}]
        BY <3>2, <4>1
      <4>3. f[T \ {Max(T)}] \in X
        BY <2>1, <4>1
      <4> QED
        BY <2>1, <4>1, <4>2, <4>3 DEF FoldEquations
    <3> QED
      BY <3>1, <3>2
  <2>6. FoldEquations(g, F, X, base, seq, n + 1)
    BY <2>5 DEF FoldEquations
  <2> HIDE DEF g
  <2> QED
    BY <2>2, <2>4, <2>6
<1>3. \A n \in 0..Len(seq) : n \in Good
  <2> HIDE DEF Good
  <2> QED
    BY <1>0, <1>1, <1>2, InductionUpTo
<1>4. Len(seq) \in 0..Len(seq)
    BY <1>0
<1>5. Len(seq) \in Good
    BY <1>3, <1>4
<1> QED
    BY <1>5

\* h is base, then what F makes of it with one element of seq after the other, and
\* ends with result.
Iterates(h, F, X, base, seq, result) ==
    /\ h \in [0..Len(seq) -> X]
    /\ h[0] = base
    /\ \A i \in 1..Len(seq) : h[i] = F[<<h[i - 1], seq[i]>>]
    /\ h[Len(seq)] = result

\* Whatever satisfies them, the fold of seq is reached from base by applying F to
\* its elements in their order.
LEMMA FoldIterates ==
    ASSUME NEW X, NEW S, NEW base \in X, NEW F \in [X \X S -> X], NEW seq \in Seq(S),
           NEW f, FoldEquations(f, F, X, base, seq, Len(seq))
    PROVE  \E h : Iterates(h, F, X, base, seq, f[DOMAIN seq])
<1>0. Len(seq) \in Nat /\ DOMAIN seq = 1..Len(seq)
    OBVIOUS
<1>1. f[1..0] = base
  <2>1. 1..0 = {} /\ {} \in SUBSET (1..Len(seq))
    OBVIOUS
  <2>2. f[{}] = base
    BY <2>1 DEF FoldEquations
  <2> QED
    BY <2>1, <2>2
<1>2. ASSUME NEW i \in 1..Len(seq), f[1..(i - 1)] \in X
      PROVE  f[1..i] = F[<<f[1..(i - 1)], seq[i]>>]
  <2>0. i \in Nat \ {0} /\ i <= Len(seq)
    BY <1>0
  <2>1. (1..i) \in SUBSET (1..Len(seq)) /\ i \in 1..i
    BY <1>0, <2>0
  <2>2. Max(1..i) = i
    <3>1. (1..i) \in SUBSET (1..i) /\ 1..i # {}
      BY <2>1
    <3>2. Max(1..i) \in 1..i /\ \A k \in 1..i : k <= Max(1..i)
      BY <2>0, <3>1, MaxIndex
    <3> QED
      BY <2>0, <2>1, <3>2
  <2>3. (1..i) \ {i} = 1..(i - 1)
    BY <2>0
  <2> QED
    BY <1>2, <2>1, <2>2, <2>3 DEF FoldEquations
<1> DEFINE Typed == {i \in 0..Len(seq) : f[1..i] \in X}
<1>3. 0 \in Typed
    BY <1>0, <1>1
<1>4. ASSUME NEW i \in 0..(Len(seq) - 1), i \in Typed
      PROVE  i + 1 \in Typed
  <2>1. i + 1 \in 1..Len(seq) /\ (i + 1) - 1 = i /\ seq[i + 1] \in S
    BY <1>0
  <2>2. f[1..(i + 1)] = F[<<f[1..i], seq[i + 1]>>]
    BY <1>2, <1>4, <2>1
  <2> QED
    BY <1>0, <1>4, <2>1, <2>2
<1>5. \A i \in 0..Len(seq) : f[1..i] \in X
  <2>1. \A i \in 0..Len(seq) : i \in Typed
    <3> HIDE DEF Typed
    <3> QED
      BY <1>0, <1>3, <1>4, InductionUpTo
  <2> QED
    BY <2>1
<1> DEFINE h == [i \in 0..Len(seq) |-> f[1..i]]
<1>6. h \in [0..Len(seq) -> X]
    BY <1>5
<1>7. h[0] = base /\ h[Len(seq)] = f[DOMAIN seq]
    BY <1>0, <1>1
<1>8. \A i \in 1..Len(seq) : h[i] = F[<<h[i - 1], seq[i]>>]
    BY <1>0, <1>2, <1>5
<1> HIDE DEF h
<1> QED
    BY <1>6, <1>7, <1>8 DEF Iterates

-----------------------------------------------------------------------------
(* orderKeyCandidates() and unionNodes() *)

\* pushUnique() as a function, the step of the loop.
PushUnique(S, ex) == [p \in Seq(S) \X S |-> pushUnique(ex, p[1], p[2])]

\* It is a function on lists.
LEMMA PushUniqueType ==
    ASSUME NEW S, NEW ex
    PROVE  /\ PushUnique(S, ex) \in [Seq(S) \X S -> Seq(S)]
           /\ \A out \in Seq(S), s \in S :
                 /\ PushUnique(S, ex)[<<out, s>>] = pushUnique(ex, out, s)
                 /\ pushUnique(ex, out, s) \in Seq(S)
<1>1. \A out \in Seq(S), s \in S : pushUnique(ex, out, s) \in Seq(S)
    BY DEF pushUnique
<1> QED
    BY <1>1 DEF PushUnique

\* The lists that orderKeyCandidates() goes through, one after the other.
AllCandidates(owners, allServers, proxyToNonOwner) ==
    owners \o (IF proxyToNonOwner THEN allServers ELSE <<>>)

\* out goes through these values in a loop over list that starts with base and ends
\* with result.
PushLoop(h, S, ex, base, list, result) ==
    /\ h \in [0..Len(list) -> Seq(S)]
    /\ h[0] = base
    /\ \A i \in 1..Len(list) : h[i] = pushUnique(ex, h[i - 1], list[i])
    /\ h[Len(list)] = result

\* The recursive function of FoldLeft, when the step is pushUnique().
PushStep(g, ex, base, list) ==
    [T \in SUBSET (DOMAIN list) |->
        IF T = {} THEN base ELSE pushUnique(ex, g[T \ {Max(T)}], list[Max(T)])]

\* There is such a function, and every such function runs the loop.
LEMMA PushFold ==
    ASSUME NEW S, NEW ex, NEW base \in Seq(S), NEW list \in Seq(S)
    PROVE  /\ \E f : f = PushStep(f, ex, base, list)
           /\ \A G : G = PushStep(G, ex, base, list) =>
                 \E h : PushLoop(h, S, ex, base, list, G[DOMAIN list])
<1> DEFINE F == PushUnique(S, ex)
           D == DOMAIN list
<1>0. Len(list) \in Nat /\ D = 1..Len(list)
    OBVIOUS
<1>1. /\ F \in [Seq(S) \X S -> Seq(S)]
      /\ \A out \in Seq(S), s \in S : F[<<out, s>>] = pushUnique(ex, out, s)
    BY PushUniqueType
<1> HIDE DEF F
<1>2. ASSUME NEW T \in SUBSET D, T # {}
      PROVE  list[Max(T)] \in S /\ T \ {Max(T)} \in SUBSET D
  <2>1. Max(T) \in D
    BY <1>0, <1>2, MaxIndex
  <2> QED
    BY <1>0, <2>1
<1>3. PICK f \in [SUBSET D -> Seq(S)] : FoldEquations(f, F, Seq(S), base, list, Len(list))
    BY <1>0, <1>1, FoldExists
<1>4. f = PushStep(f, ex, base, list)
  <2>1. ASSUME NEW T \in SUBSET D, T # {}
        PROVE  f[T] = pushUnique(ex, f[T \ {Max(T)}], list[Max(T)])
    <3>1. f[T \ {Max(T)}] \in Seq(S) /\ list[Max(T)] \in S
      BY <1>2, <1>3, <2>1
    <3>2. f[T] = F[<<f[T \ {Max(T)}], list[Max(T)]>>]
      BY <1>0, <1>3, <2>1, <3>1 DEF FoldEquations
    <3>3. F[<<f[T \ {Max(T)}], list[Max(T)]>>] = pushUnique(ex, f[T \ {Max(T)}], list[Max(T)])
      BY <1>1, <3>1
    <3> QED
      BY <3>2, <3>3
  <2>2. f[{}] = base
    BY <1>0, <1>3 DEF FoldEquations
  <2> QED
    BY <1>3, <2>1, <2>2 DEF PushStep
<1>5. SUFFICES ASSUME NEW G, G = PushStep(G, ex, base, list)
               PROVE  \E h : PushLoop(h, S, ex, base, list, G[DOMAIN list])
    BY <1>4
<1>6. FoldEquations(G, F, Seq(S), base, list, Len(list))
  <2> SUFFICES ASSUME NEW T \in SUBSET D
               PROVE  /\ T = {} => G[T] = base
                      /\ T # {} /\ G[T \ {Max(T)}] \in Seq(S) =>
                            G[T] = F[<<G[T \ {Max(T)}], list[Max(T)]>>]
    BY <1>0 DEF FoldEquations
  <2>1. G[T] = IF T = {} THEN base ELSE pushUnique(ex, G[T \ {Max(T)}], list[Max(T)])
    BY <1>5 DEF PushStep
  <2>2. ASSUME T # {}, G[T \ {Max(T)}] \in Seq(S)
        PROVE  F[<<G[T \ {Max(T)}], list[Max(T)]>>] = pushUnique(ex, G[T \ {Max(T)}], list[Max(T)])
    BY <1>2, <2>2, <1>1
  <2> QED
    BY <2>1, <2>2
<1>7. PICK h : Iterates(h, F, Seq(S), base, list, G[DOMAIN list])
    BY <1>1, <1>6, FoldIterates
<1>8. ASSUME NEW i \in 1..Len(list)
      PROVE  h[i] = pushUnique(ex, h[i - 1], list[i])
  <2>1. h[i - 1] \in Seq(S) /\ list[i] \in S
    BY <1>0, <1>7 DEF Iterates
  <2> QED
    BY <1>1, <1>7, <2>1 DEF Iterates
<1> QED
    BY <1>7, <1>8 DEF PushLoop, Iterates

\* orderKeyCandidates() is the loop over the owners and then the servers.
LEMMA CandidatesLoop ==
    ASSUME NEW S, NEW owners \in Seq(S), NEW allServers \in Seq(S), NEW ex,
           NEW proxy \in BOOLEAN
    PROVE  LET all == AllCandidates(owners, allServers, proxy) IN
           /\ all \in Seq(S)
           /\ \E h : PushLoop(h, S, ex, <<>>, all,
                              orderKeyCandidates(owners, allServers, ex, proxy))
<1> DEFINE all == AllCandidates(owners, allServers, proxy)
           G == CHOOSE g : g = PushStep(g, ex, <<>>, all)
<1>1. all \in Seq(S) /\ <<>> \in Seq(S)
    BY DEF AllCandidates
<1>2. orderKeyCandidates(owners, allServers, ex, proxy) = G[DOMAIN all]
    BY DEF orderKeyCandidates, FoldLeft, MapThenFoldSet, AllCandidates, PushStep
<1>3. \E h : PushLoop(h, S, ex, <<>>, all, G[DOMAIN all])
  <2> HIDE DEF all
  <2> QED
    BY <1>1, PushFold
<1> QED
    BY <1>1, <1>2, <1>3

\* unionNodes() is the loop over b that starts with a and excludes nothing.
LEMMA UnionLoop ==
    ASSUME NEW S, NEW a \in Seq(S), NEW b \in Seq(S)
    PROVE  \E h : PushLoop(h, S, <<>>, a, b, unionNodes(a, b))
<1> DEFINE Step(g) == [T \in SUBSET (DOMAIN b) |->
                          IF T = {} THEN a
                          ELSE IF b[Max(T)] \in Range(g[T \ {Max(T)}]) THEN g[T \ {Max(T)}]
                               ELSE Append(g[T \ {Max(T)}], b[Max(T)])]
           G == CHOOSE g : g = Step(g)
<1>1. unionNodes(a, b) = G[DOMAIN b]
    BY DEF unionNodes, FoldLeft, MapThenFoldSet
<1>2. ASSUME NEW g
      PROVE  Step(g) = PushStep(g, <<>>, a, b)
  <2>1. Range(<<>>) = {}
    BY DEF Range
  <2> QED
    BY <2>1 DEF pushUnique, PushStep
<1>3. \E f : f = Step(f)
  <2>1. PICK f : f = PushStep(f, <<>>, a, b)
    BY PushFold
  <2>2. f = Step(f)
    BY <1>2, <2>1
  <2> QED
    BY <2>2
<1>4. G = PushStep(G, <<>>, a, b)
    BY <1>2, <1>3
<1> HIDE DEF G
<1>5. \E h : PushLoop(h, S, <<>>, a, b, G[DOMAIN b])
    BY <1>4, PushFold
<1> QED
    BY <1>1, <1>5

-----------------------------------------------------------------------------
(* What the lists hold *)

\* No server is in the list twice.
NoRepeats(list) == \A i, j \in DOMAIN list : list[i] = list[j] => i = j

\* result is base with these nodes added, and no repetition.
AddsTo(result, base, nodes) ==
    /\ Range(result) = Range(base) \cup nodes
    /\ NoRepeats(base) => NoRepeats(result)

\* pushUnique() adds a node that is neither excluded nor present.
LEMMA PushUniqueAdds ==
    ASSUME NEW S, NEW ex, NEW out \in Seq(S), NEW s \in S
    PROVE  /\ pushUnique(ex, out, s) \in Seq(S)
           /\ AddsTo(pushUnique(ex, out, s), out, {s} \ Range(ex))
<1>1. CASE s \in Range(ex) \/ s \in Range(out)
    BY <1>1 DEF pushUnique, AddsTo
<1>2. CASE ~(s \in Range(ex) \/ s \in Range(out))
  <2>1. pushUnique(ex, out, s) = Append(out, s)
    BY <1>2 DEF pushUnique
  <2>2. /\ Append(out, s) \in Seq(S)
        /\ Len(out) \in Nat
        /\ DOMAIN Append(out, s) = 1..(Len(out) + 1)
        /\ DOMAIN out = 1..Len(out)
        /\ \A i \in 1..Len(out) : Append(out, s)[i] = out[i]
        /\ Append(out, s)[Len(out) + 1] = s
    OBVIOUS
  <2>3. Range(Append(out, s)) = Range(out) \cup {s}
    BY <2>2 DEF Range
  <2>4. ASSUME NoRepeats(out)
        PROVE  NoRepeats(Append(out, s))
    <3>1. \A i \in 1..Len(out) : out[i] # s
      BY <1>2, <2>2 DEF Range
    <3> QED
      BY <2>2, <2>4, <3>1 DEF NoRepeats
  <2>5. {s} \ Range(ex) = {s}
    BY <1>2
  <2> QED
    BY <2>1, <2>2, <2>3, <2>4, <2>5 DEF AddsTo
<1> QED
    BY <1>1, <1>2

\* The nodes that the first i rounds of the loop offer to pushUnique().
Taken(list, ex, i) == {list[k] : k \in 1..i} \ Range(ex)

\* They are what the loop has added to base by then.
LEMMA PushLoopPrefix ==
    ASSUME NEW S, NEW ex, NEW base \in Seq(S), NEW list \in Seq(S), NEW result,
           NEW h, PushLoop(h, S, ex, base, list, result)
    PROVE  \A i \in 0..Len(list) : AddsTo(h[i], base, Taken(list, ex, i))
<1> DEFINE Good == {i \in 0..Len(list) : AddsTo(h[i], base, Taken(list, ex, i))}
<1>0. /\ Len(list) \in Nat /\ DOMAIN list = 1..Len(list)
      /\ h \in [0..Len(list) -> Seq(S)] /\ h[0] = base
    BY DEF PushLoop
<1>1. 0 \in Good
    BY <1>0 DEF AddsTo, Taken
<1>2. ASSUME NEW i \in 0..(Len(list) - 1), i \in Good
      PROVE  i + 1 \in Good
  <2>1. i \in Nat /\ i + 1 \in 1..Len(list) /\ (i + 1) - 1 = i /\ list[i + 1] \in S
    BY <1>0
  <2>2. h[i + 1] = pushUnique(ex, h[i], list[i + 1]) /\ h[i] \in Seq(S)
    BY <1>0, <2>1 DEF PushLoop
  <2>3. AddsTo(h[i + 1], h[i], {list[i + 1]} \ Range(ex))
    <3> DEFINE out == h[i]
               s == list[i + 1]
    <3>1. out \in Seq(S) /\ s \in S
      BY <2>1, <2>2
    <3>2. AddsTo(pushUnique(ex, out, s), out, {s} \ Range(ex))
      <4> HIDE DEF out, s
      <4> QED
        BY <3>1, PushUniqueAdds
    <3> QED
      BY <2>2, <3>2
  <2>4. {list[k] : k \in 1..(i + 1)} = {list[k] : k \in 1..i} \cup {list[i + 1]}
    <3>1. 1..(i + 1) = (1..i) \cup {i + 1}
      BY <2>1
    <3> QED
      BY <3>1
  <2>5. Taken(list, ex, i + 1) = Taken(list, ex, i) \cup ({list[i + 1]} \ Range(ex))
    BY <2>4 DEF Taken
  <2>6. AddsTo(h[i + 1], base, Taken(list, ex, i + 1))
    <3>1. AddsTo(h[i], base, Taken(list, ex, i))
      BY <1>2
    <3> QED
      BY <2>3, <2>5, <3>1 DEF AddsTo
  <2>7. i + 1 \in 0..Len(list)
    BY <1>0, <2>1
  <2> QED
    BY <2>6, <2>7
<1>3. \A i \in 0..Len(list) : i \in Good
  <2> HIDE DEF Good
  <2> QED
    BY <1>0, <1>1, <1>2, InductionUpTo
<1> QED
    BY <1>3

\* The loop adds to base the nodes of the list that are not excluded, each once.
LEMMA PushLoopAdds ==
    ASSUME NEW S, NEW ex, NEW base \in Seq(S), NEW list \in Seq(S), NEW result,
           NEW h, PushLoop(h, S, ex, base, list, result)
    PROVE  /\ result \in Seq(S)
           /\ AddsTo(result, base, Range(list) \ Range(ex))
<1>1. Len(list) \in 0..Len(list) /\ DOMAIN list = 1..Len(list)
    OBVIOUS
<1>2. result = h[Len(list)] /\ result \in Seq(S)
    BY <1>1 DEF PushLoop
<1>3. Taken(list, ex, Len(list)) = Range(list) \ Range(ex)
    BY <1>1 DEF Taken, Range
<1>4. AddsTo(h[Len(list)], base, Taken(list, ex, Len(list)))
    BY <1>1, PushLoopPrefix
<1> QED
    BY <1>2, <1>3, <1>4

\* What two lists hold together.
LEMMA RangeConcat ==
    ASSUME NEW S, NEW a \in Seq(S), NEW b \in Seq(S)
    PROVE  Range(a \o b) = Range(a) \cup Range(b)
<1>1. /\ Len(a) \in Nat /\ Len(b) \in Nat
      /\ DOMAIN a = 1..Len(a) /\ DOMAIN b = 1..Len(b)
      /\ DOMAIN (a \o b) = 1..(Len(a) + Len(b))
      /\ \A i \in 1..(Len(a) + Len(b)) :
            (a \o b)[i] = IF i <= Len(a) THEN a[i] ELSE b[i - Len(a)]
    OBVIOUS
<1>2. \A i \in 1..Len(a) : i \in 1..(Len(a) + Len(b)) /\ (a \o b)[i] = a[i]
    BY <1>1
<1>3. \A i \in 1..Len(b) : /\ i + Len(a) \in 1..(Len(a) + Len(b))
                           /\ (a \o b)[i + Len(a)] = b[i]
    BY <1>1
<1>4. \A i \in 1..(Len(a) + Len(b)) :
          \/ i \in 1..Len(a) /\ (a \o b)[i] = a[i]
          \/ i - Len(a) \in 1..Len(b) /\ (a \o b)[i] = b[i - Len(a)]
    BY <1>1
<1>5. ASSUME NEW x \in Range(a \o b)
      PROVE  x \in Range(a) \cup Range(b)
    BY <1>1, <1>4 DEF Range
<1>6. ASSUME NEW x \in Range(a) \cup Range(b)
      PROVE  x \in Range(a \o b)
  <2>1. CASE x \in Range(a)
    BY <1>1, <1>2, <2>1 DEF Range
  <2>2. CASE x \in Range(b)
    BY <1>1, <1>3, <2>2 DEF Range
  <2> QED
    BY <2>1, <2>2
<1> QED
    BY <1>5, <1>6

\* The lists that orderKeyCandidates() goes through hold owners and other servers.
LEMMA AllCandidatesRange ==
    ASSUME NEW S, NEW owners \in Seq(S), NEW allServers \in Seq(S), NEW proxy \in BOOLEAN
    PROVE  Range(AllCandidates(owners, allServers, proxy)) =
               Range(owners) \cup (IF proxy THEN Range(allServers) ELSE {})
<1> DEFINE rest == IF proxy THEN allServers ELSE <<>>
<1>1. rest \in Seq(S)
    OBVIOUS
<1>2. Range(rest) = IF proxy THEN Range(allServers) ELSE {}
    BY DEF Range
<1>3. AllCandidates(owners, allServers, proxy) = owners \o rest
    BY DEF AllCandidates
<1> HIDE DEF rest
<1>4. Range(owners \o rest) = Range(owners) \cup Range(rest)
    BY <1>1, RangeConcat
<1> QED
    BY <1>2, <1>3, <1>4

\* orderKeyCandidates() lists the owners and, with proxyToNonOwner, the other
\* servers, without the excluded ones and without repetition.
THEOREM CandidateSet ==
    ASSUME NEW S, NEW owners \in Seq(S), NEW allServers \in Seq(S), NEW ex,
           NEW proxy \in BOOLEAN
    PROVE  LET out == orderKeyCandidates(owners, allServers, ex, proxy) IN
           /\ out \in Seq(S)
           /\ Range(out) = (Range(owners) \cup (IF proxy THEN Range(allServers) ELSE {}))
                              \ Range(ex)
           /\ NoRepeats(out)
<1> DEFINE all == AllCandidates(owners, allServers, proxy)
           out == orderKeyCandidates(owners, allServers, ex, proxy)
<1>1. all \in Seq(S) /\ \E h : PushLoop(h, S, ex, <<>>, all, out)
    BY CandidatesLoop
<1>2. <<>> \in Seq(S) /\ Range(<<>>) = {} /\ NoRepeats(<<>>)
    BY DEF Range, NoRepeats
<1>3. Range(all) = Range(owners) \cup (IF proxy THEN Range(allServers) ELSE {})
    BY AllCandidatesRange
<1>4. out \in Seq(S) /\ AddsTo(out, <<>>, Range(all) \ Range(ex))
  <2> HIDE DEF all, out
  <2> QED
    BY <1>1, <1>2, PushLoopAdds
<1> QED
    BY <1>2, <1>3, <1>4 DEF AddsTo

\* unionNodes() keeps the members of both lists, whatever their overlap: what an
\* exception carries to the next attempt forgets no node.
THEOREM UnionSet ==
    ASSUME NEW S, NEW a \in Seq(S), NEW b \in Seq(S)
    PROVE  /\ unionNodes(a, b) \in Seq(S)
           /\ Range(unionNodes(a, b)) = Range(a) \cup Range(b)
           /\ NoRepeats(a) => NoRepeats(unionNodes(a, b))
<1>1. \E h : PushLoop(h, S, <<>>, a, b, unionNodes(a, b))
    BY UnionLoop
<1>2. Range(b) \ Range(<<>>) = Range(b)
    BY DEF Range
<1>3. /\ unionNodes(a, b) \in Seq(S)
      /\ AddsTo(unionNodes(a, b), a, Range(b) \ Range(<<>>))
    BY <1>1, PushLoopAdds
<1> QED
    BY <1>2, <1>3 DEF AddsTo

-----------------------------------------------------------------------------
(* The order of the candidates *)

\* A node has its place where it occurs and nothing before it is the same.
LEMMA FirstInIs ==
    ASSUME NEW S, NEW list \in Seq(S), NEW i \in 1..Len(list),
           \A j \in 1..(i - 1) : list[j] # list[i]
    PROVE  FirstIn(list, list[i]) = i
<1> DEFINE First(k) == list[k] = list[i] /\ \A j \in 1..(k - 1) : list[j] # list[i]
<1>1. DOMAIN list = 1..Len(list) /\ Len(list) \in Nat /\ First(i)
    OBVIOUS
<1>2. ASSUME NEW k \in DOMAIN list, First(k)
      PROVE  k = i
  <2>1. ~(k < i) /\ ~(i < k)
    BY <1>1, <1>2
  <2> QED
    BY <1>1, <2>1
<1>3. FirstIn(list, list[i]) = CHOOSE k \in DOMAIN list : First(k)
    BY DEF FirstIn
<1> HIDE DEF First
<1> QED
    BY <1>1, <1>2, <1>3

\* out lists nodes in the order of their places in list, all of them up to i.
InOrder(out, list, i) ==
    /\ \A p \in DOMAIN out : FirstIn(list, out[p]) \in 1..i
    /\ \A p, q \in DOMAIN out : p < q => FirstIn(list, out[p]) < FirstIn(list, out[q])

\* A loop that starts empty keeps the order of the list it goes through.
LEMMA PushLoopOrder ==
    ASSUME NEW S, NEW ex, NEW list \in Seq(S), NEW result,
           NEW h, PushLoop(h, S, ex, <<>>, list, result)
    PROVE  InOrder(result, list, Len(list))
<1> DEFINE Good == {i \in 0..Len(list) : InOrder(h[i], list, i)}
<1>0. /\ Len(list) \in Nat /\ DOMAIN list = 1..Len(list)
      /\ h \in [0..Len(list) -> Seq(S)] /\ h[0] = <<>>
    BY DEF PushLoop
<1>1. 0 \in Good
    BY <1>0 DEF InOrder
<1>2. ASSUME NEW i \in 0..(Len(list) - 1), i \in Good
      PROVE  i + 1 \in Good
  <2> DEFINE out == h[i]
             s == list[i + 1]
  <2>1. /\ i \in Nat /\ i + 1 \in 1..Len(list) /\ i \in 0..Len(list)
        /\ (i + 1) - 1 = i /\ s \in S /\ out \in Seq(S)
    BY <1>0
  <2>2. h[i + 1] = pushUnique(ex, out, s)
    BY <2>1 DEF PushLoop
  <2>3. InOrder(out, list, i)
    BY <1>2
  <2>4. Range(out) = Taken(list, ex, i)
    <3>1. AddsTo(h[i], <<>>, Taken(list, ex, i))
      BY <1>0, <2>1, PushLoopPrefix
    <3> QED
      BY <3>1 DEF AddsTo, Range
  <2>5. CASE s \in Range(ex) \/ s \in Range(out)
    <3>1. h[i + 1] = out
      BY <2>2, <2>5 DEF pushUnique
    <3>2. InOrder(out, list, i + 1)
      BY <2>1, <2>3 DEF InOrder
    <3> QED
      BY <1>0, <2>1, <3>1, <3>2
  <2>6. CASE ~(s \in Range(ex) \/ s \in Range(out))
    <3>1. h[i + 1] = Append(out, s)
      BY <2>2, <2>6 DEF pushUnique
    <3>2. \A j \in 1..i : list[j] # s
      BY <2>4, <2>6 DEF Taken
    <3>3. FirstIn(list, s) = i + 1
      BY <2>1, <3>2, FirstInIs
    <3>4. /\ DOMAIN Append(out, s) = 1..(Len(out) + 1) /\ Len(out) \in Nat
          /\ DOMAIN out = 1..Len(out)
          /\ \A p \in 1..Len(out) : Append(out, s)[p] = out[p]
          /\ Append(out, s)[Len(out) + 1] = s
      BY <2>1
    <3> HIDE DEF out, s
    <3>5. InOrder(Append(out, s), list, i + 1)
      <4>1. ASSUME NEW p \in 1..(Len(out) + 1)
            PROVE  FirstIn(list, Append(out, s)[p]) \in 1..(i + 1)
        BY <2>1, <2>3, <3>3, <3>4 DEF InOrder
      <4>2. ASSUME NEW p \in 1..(Len(out) + 1), NEW q \in 1..(Len(out) + 1), p < q
            PROVE  FirstIn(list, Append(out, s)[p]) < FirstIn(list, Append(out, s)[q])
        <5>1. p \in 1..Len(out) /\ FirstIn(list, out[p]) \in 1..i
          BY <2>3, <3>4, <4>2 DEF InOrder
        <5>2. CASE q \in 1..Len(out)
          BY <2>3, <3>4, <4>2, <5>1, <5>2 DEF InOrder
        <5>3. CASE q = Len(out) + 1
          BY <2>1, <3>3, <3>4, <5>1, <5>3
        <5> QED
          BY <3>4, <5>2, <5>3
      <4> QED
        BY <3>4, <4>1, <4>2 DEF InOrder
    <3>6. InOrder(h[i + 1], list, i + 1) /\ i + 1 \in 0..Len(list)
      BY <1>0, <2>1, <3>1, <3>5
    <3> QED
      BY <3>6
  <2> QED
    BY <2>5, <2>6
<1>3. \A i \in 0..Len(list) : i \in Good
  <2> HIDE DEF Good
  <2> QED
    BY <1>0, <1>1, <1>2, InductionUpTo
<1>4. Len(list) \in Good /\ result = h[Len(list)]
    BY <1>0, <1>3 DEF PushLoop
<1> QED
    BY <1>4

\* orderKeyCandidates() keeps the preference order: the owners in theirs, then the
\* other servers in theirs.
THEOREM CandidateOrder ==
    ASSUME NEW S, NEW owners \in Seq(S), NEW allServers \in Seq(S), NEW ex,
           NEW proxy \in BOOLEAN
    PROVE  LET out == orderKeyCandidates(owners, allServers, ex, proxy)
               all == owners \o (IF proxy THEN allServers ELSE <<>>)
           IN  \A i, j \in DOMAIN out : i < j => FirstIn(all, out[i]) < FirstIn(all, out[j])
<1> DEFINE all == AllCandidates(owners, allServers, proxy)
           out == orderKeyCandidates(owners, allServers, ex, proxy)
<1>1. all \in Seq(S) /\ \E h : PushLoop(h, S, ex, <<>>, all, out)
    BY CandidatesLoop
<1>2. InOrder(out, all, Len(all))
  <2> HIDE DEF all, out
  <2> QED
    BY <1>1, PushLoopOrder
<1> QED
    BY <1>2 DEF InOrder, AllCandidates

\* Every member of a list has its place.
LEMMA FirstInFound ==
    ASSUME NEW S, NEW list \in Seq(S), NEW x \in Range(list)
    PROVE  /\ FirstIn(list, x) \in 1..Len(list)
           /\ list[FirstIn(list, x)] = x
           /\ \A k \in 1..Len(list) : list[k] = x => FirstIn(list, x) <= k
<1> DEFINE At == {k \in 1..Len(list) : list[k] = x}
<1>0. DOMAIN list = 1..Len(list) /\ Len(list) \in Nat
    OBVIOUS
<1>1. At \in SUBSET Nat /\ At # {}
    BY <1>0 DEF Range
<1>2. PICK i \in At : \A k \in At : i <= k
  <2> HIDE DEF At
  <2> QED
    BY <1>1, LeastNatural
<1>3. i \in 1..Len(list) /\ list[i] = x /\ \A j \in 1..(i - 1) : list[j] # x
    BY <1>0, <1>2
<1>4. FirstIn(list, x) = i
    BY <1>3, FirstInIs
<1> QED
    BY <1>2, <1>3, <1>4

\* Owners come first: nothing but owners is before an owner.
THEOREM OwnersFirst ==
    ASSUME NEW S, NEW owners \in Seq(S), NEW allServers \in Seq(S), NEW ex,
           NEW proxy \in BOOLEAN
    PROVE  LET out == orderKeyCandidates(owners, allServers, ex, proxy) IN
           \A i, j \in DOMAIN out :
              i < j /\ out[j] \in Range(owners) => out[i] \in Range(owners)
<1> DEFINE all == AllCandidates(owners, allServers, proxy)
           out == orderKeyCandidates(owners, allServers, ex, proxy)
<1>1. all \in Seq(S)
    BY DEF AllCandidates
<1>2. /\ DOMAIN owners = 1..Len(owners) /\ Len(owners) \in Nat
      /\ \A k \in 1..Len(owners) : k \in 1..Len(all) /\ all[k] = owners[k]
    BY DEF AllCandidates
<1>3. /\ \A i, j \in DOMAIN out : i < j => FirstIn(all, out[i]) < FirstIn(all, out[j])
      /\ \A i \in DOMAIN out : out[i] \in Range(all)
  <2>1. Range(all) = Range(owners) \cup (IF proxy THEN Range(allServers) ELSE {})
    BY AllCandidatesRange
  <2>2. Range(out) \subseteq Range(all)
    BY <2>1, CandidateSet
  <2>3. \A i \in DOMAIN out : out[i] \in Range(out)
    BY DEF Range
  <2> QED
    BY <2>2, <2>3, CandidateOrder DEF AllCandidates
<1> HIDE DEF all, out
<1> SUFFICES ASSUME NEW i \in DOMAIN out, NEW j \in DOMAIN out, i < j,
                    out[j] \in Range(owners)
             PROVE  out[i] \in Range(owners)
    BY DEF out
<1>4. PICK k \in 1..Len(owners) : owners[k] = out[j]
    BY <1>2 DEF Range
<1>5. FirstIn(all, out[j]) <= k /\ FirstIn(all, out[j]) \in 1..Len(all)
    BY <1>1, <1>2, <1>3, <1>4, FirstInFound
<1>6. FirstIn(all, out[i]) \in 1..Len(all) /\ all[FirstIn(all, out[i])] = out[i]
    BY <1>1, <1>3, FirstInFound
<1>7. FirstIn(all, out[i]) \in 1..Len(owners)
    BY <1>2, <1>3, <1>4, <1>5, <1>6
<1> QED
    BY <1>2, <1>6, <1>7 DEF Range
==============================================================================
