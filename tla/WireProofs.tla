------------------------------ MODULE WireProofs ------------------------------
(***************************************************************************)
(* What one side decodes is what the other encoded (ReadAsWritten), for    *)
(* any number of threads, any payloads, any width of groups, vInts and     *)
(* longs, however the kernel splits the bytes and wherever the connection  *)
(* is cut, proved with TLAPS.                                              *)
(*                                                                         *)
(* First the codec: a recursive function is the CHOOSE of one, so each is  *)
(* shown to exist (RecursionUpTo, GroupsExist) before its values can be    *)
(* computed; then a vInt, an array and a long are read back as they were   *)
(* written, whole or not at all, from a buffer that may end anywhere       *)
(* (VIntRoundTrip, ArrayRoundTrip, LongRoundTrip).                         *)
(*                                                                         *)
(* Then the streams.  The order in which the threads got writeMutex_ fixes *)
(* the stream of their frames, and the order of parsing that of the        *)
(* answers.  IInv says that what is unread (in the hands of the sender, on *)
(* the wire, with the kernel, in a buffer, and of the answers what a cut   *)
(* took away) is the end of that stream, from the field on that the reader *)
(* has come to.  A Chain holds the ends of a stream, so that every step    *)
(* takes off or appends one piece.                                         *)
(***************************************************************************)
EXTENDS Wire, ServerSelectionProofs, SequenceTheorems

-----------------------------------------------------------------------------
(* Bytes *)

\* A stream and what is taken from it; the kernel is only asked for bytes.
Bytes == Seq(Nat)

\* A byte of them.
LEMMA ByteOf ==
    ASSUME NEW a \in Bytes
    PROVE  Len(a) \in Nat /\ \A i \in 1..Len(a) : a[i] \in Nat
BY DEF Bytes

\* What was appended to a is split where b ends.
LEMMA Split ==
    ASSUME NEW a \in Bytes, NEW x \in Bytes, NEW b \in Bytes, NEW y \in Bytes,
           a \o x = b \o y, Len(b) <= Len(a)
    PROVE  /\ SubSeq(a, Len(b) + 1, Len(a)) \in Bytes
           /\ SubSeq(a, Len(b) + 1, Len(a)) \o x = y
           /\ \A i \in 1..Len(b) : a[i] = b[i]
<1>1. Len(a) \in Nat /\ Len(b) \in Nat /\ Len(x) \in Nat /\ Len(y) \in Nat
    BY DEF Bytes
<1>2. PICK all : all = a \o x
    OBVIOUS
<1>3. /\ all \in Bytes /\ Len(all) = Len(a) + Len(x)
      /\ \A i \in 1..(Len(a) + Len(x)) : all[i] = IF i <= Len(a) THEN a[i] ELSE x[i - Len(a)]
    BY <1>2, ConcatProperties DEF Bytes
<1>4. /\ Len(all) = Len(b) + Len(y)
      /\ \A i \in 1..(Len(b) + Len(y)) : all[i] = IF i <= Len(b) THEN b[i] ELSE y[i - Len(b)]
    BY <1>2, ConcatProperties DEF Bytes
<1>5. \A i \in 1..Len(b) : a[i] = b[i]
    BY <1>1, <1>3, <1>4
<1>9. PICK q : q = SubSeq(a, Len(b) + 1, Len(a))
    OBVIOUS
<1>10. /\ q \in Bytes /\ Len(q) = Len(a) - Len(b)
       /\ \A i \in 1..(Len(a) - Len(b)) : q[i] = a[Len(b) + i]
  <2>1. \A i \in (Len(b) + 1)..Len(a) : a[i] \in Nat
    BY <1>1, SMTT(30) DEF Bytes
  <2> QED
    BY <1>1, <1>9, <2>1, SMTT(30) DEF Bytes
<1>11. PICK r : r = q \o x
    OBVIOUS
<1>12. /\ r \in Bytes /\ Len(r) = Len(q) + Len(x)
       /\ \A i \in 1..(Len(q) + Len(x)) : r[i] = IF i <= Len(q) THEN q[i] ELSE x[i - Len(q)]
    BY <1>10, <1>11, ConcatProperties DEF Bytes
<1>13. Len(r) = Len(y)
    BY <1>1, <1>3, <1>4, <1>10, <1>12
<1>14. ASSUME NEW i \in 1..Len(r)
       PROVE  r[i] = y[i]
  <2>1. /\ Len(b) + i \in 1..(Len(b) + Len(y)) /\ (Len(b) + i) - Len(b) = i
        /\ ~(Len(b) + i <= Len(b))
        /\ Len(b) + i \in 1..(Len(a) + Len(x)) /\ i \in 1..(Len(q) + Len(x))
    BY <1>1, <1>3, <1>4, <1>10, <1>12, <1>13
  <2>2. all[Len(b) + i] = y[i]
    BY <1>4, <2>1
  <2>3. CASE i <= Len(q)
    <3>1. i \in 1..(Len(a) - Len(b)) /\ Len(b) + i <= Len(a)
      BY <1>1, <1>10, <2>3
    <3>2. r[i] = a[Len(b) + i] /\ all[Len(b) + i] = a[Len(b) + i]
      BY <1>3, <1>10, <1>12, <2>1, <2>3, <3>1
    <3> QED
      BY <2>2, <3>2
  <2>4. CASE ~(i <= Len(q))
    <3>1. ~(Len(b) + i <= Len(a)) /\ (Len(b) + i) - Len(a) = i - Len(q)
      BY <1>1, <1>10, <2>4
    <3>2. r[i] = x[i - Len(q)] /\ all[Len(b) + i] = x[i - Len(q)]
      BY <1>3, <1>12, <2>1, <2>4, <3>1
    <3> QED
      BY <2>2, <3>2
  <2> QED
    BY <2>3, <2>4
<1>15. r = y
    BY <1>12, <1>13, <1>14, SeqEqual DEF Bytes
<1> QED
    BY <1>5, <1>9, <1>10, <1>11, <1>15

\* What is left of a.
LEMMA SplitRest ==
    ASSUME NEW a \in Bytes, NEW x \in Bytes, NEW b \in Bytes, NEW y \in Bytes,
           a \o x = b \o y, Len(b) <= Len(a)
    PROVE  SubSeq(a, Len(b) + 1, Len(a)) \o x = y
BY Split

\* Byte by byte.
LEMMA SplitByte ==
    ASSUME NEW a \in Bytes, NEW x \in Bytes, NEW b \in Bytes, NEW y \in Bytes,
           a \o x = b \o y, Len(b) <= Len(a), NEW i \in 1..Len(b)
    PROVE  a[i] = b[i]
BY Split

\* What is gone.
LEMMA SplitHead ==
    ASSUME NEW a \in Bytes, NEW x \in Bytes, NEW b \in Bytes, NEW y \in Bytes,
           a \o x = b \o y, Len(b) <= Len(a)
    PROVE  SubSeq(a, 1, Len(b)) = b
<1>1. Len(a) \in Nat /\ Len(b) \in Nat
    BY DEF Bytes
<1>5. \A i \in 1..Len(b) : a[i] = b[i]
    BY SplitByte
<1>6. PICK p : p = SubSeq(a, 1, Len(b))
    OBVIOUS
<1>7. /\ p \in Bytes /\ Len(p) = Len(b)
      /\ \A i \in 1..Len(b) : p[i] = a[i]
  <2>1. \A i \in 1..Len(b) : a[i] \in Nat
    BY <1>1, SMTT(30) DEF Bytes
  <2> QED
    BY <1>1, <1>6, <2>1 DEF Bytes
<1>8. p = b
    BY <1>5, <1>7, SeqEqual DEF Bytes
<1> QED
    BY <1>6, <1>8

\* The same when both ends are known: nothing is left over.
LEMMA SplitWhole ==
    ASSUME NEW a \in Bytes, NEW x \in Bytes, NEW b \in Bytes, NEW y \in Bytes,
           a \o x = b \o y, Len(b) = Len(a)
    PROVE  a = b /\ x = y
<1>1. Len(a) \in Nat /\ Len(b) <= Len(a)
    BY DEF Bytes
<1>2. SubSeq(a, Len(b) + 1, Len(a)) \o x = y
    BY <1>1, SplitRest
<1>3. a = b
  <2>1. \A i \in 1..Len(b) : a[i] = b[i]
    BY <1>1, SplitByte
  <2> QED
    BY <2>1, SeqEqual DEF Bytes
<1>4. SubSeq(a, Len(b) + 1, Len(a)) = <<>>
    BY <1>1, SubSeqEmpty
<1>5. <<>> \o x = x
    BY ConcatEmptySeq DEF Bytes
<1> QED
    BY <1>2, <1>3, <1>4, <1>5

\* A sequence in two parts.
LEMMA Parts ==
    ASSUME NEW a \in Bytes, NEW n \in 0..Len(a)
    PROVE  /\ SubSeq(a, 1, n) \in Bytes /\ SubSeq(a, n + 1, Len(a)) \in Bytes
           /\ Len(SubSeq(a, 1, n)) = n /\ Len(SubSeq(a, n + 1, Len(a))) = Len(a) - n
           /\ SubSeq(a, 1, n) \o SubSeq(a, n + 1, Len(a)) = a
<1>1. Len(a) \in Nat /\ n \in Nat /\ n <= Len(a)
    BY DEF Bytes
<1>2. \A i \in 1..Len(a) : a[i] \in Nat
    BY DEF Bytes
<1>3. SubSeq(a, 1, n) \in Bytes /\ Len(SubSeq(a, 1, n)) = n
    BY <1>1, <1>2, SubSeqProperties DEF Bytes
<1>4. SubSeq(a, n + 1, Len(a)) \in Bytes /\ Len(SubSeq(a, n + 1, Len(a))) = Len(a) - n
  <2>1. \A i \in (n + 1)..Len(a) : a[i] \in Nat
    BY <1>1, <1>2
  <2> QED
    BY <1>1, <2>1, SubSeqProperties DEF Bytes
<1>5. SubSeq(a, 1, n) \o SubSeq(a, n + 1, Len(a)) = SubSeq(a, 1, Len(a))
  <2>1. 1 \in 1..(Len(a) + 1) /\ n \in (1 - 1)..Len(a) /\ Len(a) \in n..Len(a)
    BY <1>1
  <2> QED
    BY <2>1, ConcatAdjacentSubSeq DEF Bytes
<1>6. SubSeq(a, 1, Len(a)) = a
    BY SubSeqFull DEF Bytes
<1> QED
    BY <1>3, <1>4, <1>5, <1>6

\* Concatenation.
LEMMA Joined ==
    ASSUME NEW a \in Bytes, NEW b \in Bytes, NEW c \in Bytes
    PROVE  /\ a \o b \in Bytes /\ Len(a \o b) = Len(a) + Len(b)
           /\ (a \o b) \o c = a \o (b \o c)
           /\ a \o <<>> = a /\ <<>> \o a = a /\ <<>> \in Bytes
<1>1. a \o b \in Bytes /\ Len(a \o b) = Len(a) + Len(b)
    BY ConcatProperties DEF Bytes
<1>2. (a \o b) \o c = a \o (b \o c)
    BY ConcatAssociative, SMTT(30) DEF Bytes
<1>3. a \o <<>> = a /\ <<>> \o a = a /\ <<>> \in Bytes
    BY ConcatEmptySeq, EmptySeq DEF Bytes
<1> QED
    BY <1>1, <1>2, <1>3

\* Any three of them.
LEMMA Associative ==
    ASSUME NEW a \in Bytes, NEW b \in Bytes, NEW c \in Bytes
    PROVE  (a \o b) \o c = a \o (b \o c)
    BY ConcatAssociative, SMTT(30) DEF Bytes

\* As far as both go, two beginnings of one sequence agree.
LEMMA SameByte ==
    ASSUME NEW a \in Bytes, NEW x \in Bytes, NEW b \in Bytes, NEW y \in Bytes,
           a \o x = b \o y, NEW i \in 1..Len(a), i \in 1..Len(b)
    PROVE  a[i] = b[i]
<1>1. Len(a) \in Nat /\ Len(b) \in Nat
    BY DEF Bytes
<1>2. CASE Len(b) <= Len(a)
    BY <1>2, SplitByte
<1>3. CASE Len(a) <= Len(b)
  <2>1. b \o y = a \o x
    OBVIOUS
  <2> QED
    BY <1>3, <2>1, SplitByte
<1> QED
    BY <1>1, <1>2, <1>3

-----------------------------------------------------------------------------
(* Numbers *)

\* Quotient and remainder.
LEMMA Divided ==
    ASSUME NEW x \in Int, NEW d \in Nat \ {0}
    PROVE  /\ x \div d \in Int
           /\ d * (x \div d) <= x
           /\ x < d * (x \div d) + d
           /\ x % d \in 0..(d - 1)
           /\ x % d = x - d * (x \div d)
<1>1. x \div d \in Int
    OBVIOUS
<1>2. d * (x \div d) <= x
    OBVIOUS
<1>3. x < d * (x \div d) + d
    OBVIOUS
<1>4. x % d \in 0..(d - 1)
    OBVIOUS
<1>5. x % d = x - d * (x \div d)
    OBVIOUS
<1> QED
    BY <1>1, <1>2, <1>3, <1>4, <1>5

\* The quotient is the only number with these bounds.
LEMMA QuotientIs ==
    ASSUME NEW x \in Int, NEW d \in Nat \ {0}, NEW q \in Int, d * q <= x, x < d * q + d
    PROVE  x \div d = q
OBVIOUS

\* A number that fits is its own remainder.
LEMMA Fits ==
    ASSUME NEW x \in Nat, NEW d \in Nat \ {0}, x < d
    PROVE  x % d = x
OBVIOUS

\* A quotient by a greater number is one by both factors.
LEMMA QuotientStep ==
    ASSUME NEW n \in Int, NEW P \in Nat \ {0}, NEW b \in Nat \ {0}
    PROVE  n \div P = b * (n \div (b * P)) + ((n \div P) % b)
<1>1. PICK q : q = n \div P
    OBVIOUS
<1>2. PICK r : r = n \div (b * P)
    OBVIOUS
<1>3. b * P \in Nat \ {0}
    OBVIOUS
<1>4. q \in Int /\ P * q <= n /\ n < P * q + P
    BY <1>1, Divided
<1>5. r \in Int /\ (b * P) * r <= n /\ n < (b * P) * r + b * P
    BY <1>2, <1>3, Divided
<1>6. P * (b * r) < P * (q + 1) /\ P * q < P * (b * r + b)
    BY <1>4, <1>5
<1>7. b * r < q + 1 /\ q < b * r + b
    BY <1>4, <1>5, <1>6
<1>8. b * r <= q
    BY <1>4, <1>5, <1>7
<1>9. q \div b = r
    BY <1>4, <1>5, <1>7, <1>8, QuotientIs
<1>10. q % b = q - b * r
    BY <1>4, <1>9, Divided
<1>11. PICK t \in Int : t = b * r
    BY <1>5
<1>12. PICK m : m = q % b
    OBVIOUS
<1>13. m = q - t
    BY <1>10, <1>11, <1>12
<1>14. q = t + m
    BY <1>4, <1>11, <1>13
<1> QED
    BY <1>1, <1>2, <1>11, <1>12, <1>14

\* f is what a loop of n steps holds: a, and after the i-th step F of what it held.
IsRun(f, X, n, a, F) ==
    f \in [0..n -> X] /\ f[0] = a /\ \A i \in 1..n : f[i] = F[<<f[i - 1], i>>]

\* There is one.
LEMMA RecursionUpTo ==
    ASSUME NEW X, NEW n \in Nat, NEW S, S = 1..n, NEW a \in X, NEW F \in [X \X S -> X]
    PROVE  \E f : IsRun(f, X, n, a, F)
<1> DEFINE Runs == {m \in 0..n : \E f \in [0..m -> X] :
                        f[0] = a /\ \A i \in 1..m : f[i] = F[<<f[i - 1], i>>]}
<1>1. 0 \in Runs
  <2> DEFINE f == [i \in 0..0 |-> a]
  <2>1. f \in [0..0 -> X] /\ f[0] = a /\ 1..0 = {}
    OBVIOUS
  <2>2. 0 \in 0..n
    OBVIOUS
  <2> HIDE DEF f
  <2>3. \A i \in 1..0 : f[i] = F[<<f[i - 1], i>>]
    BY <2>1
  <2> QED
    BY <2>1, <2>2, <2>3
<1>2. ASSUME NEW m \in 0..(n - 1), m \in Runs
      PROVE  m + 1 \in Runs
  <2>1. PICK f \in [0..m -> X] : f[0] = a /\ \A i \in 1..m : f[i] = F[<<f[i - 1], i>>]
    BY <1>2
  <2>2. m \in Nat /\ m + 1 \in 0..n /\ m + 1 \in 1..n /\ m \in 0..m
    OBVIOUS
  <2> DEFINE g == [i \in 0..(m + 1) |-> IF i = m + 1 THEN F[<<f[m], m + 1>>] ELSE f[i]]
  <2>3. g \in [0..(m + 1) -> X]
    BY <2>1, <2>2
  <2>4. g[0] = a
    BY <2>1, <2>2
  <2>5. ASSUME NEW i \in 1..(m + 1)
        PROVE  g[i] = F[<<g[i - 1], i>>]
    <3>1. i - 1 \in 0..m /\ i - 1 # m + 1
      BY <2>2
    <3>2. g[i - 1] = f[i - 1]
      BY <2>2, <3>1
    <3>3. CASE i = m + 1
      <4>1. g[i] = F[<<f[m], m + 1>>] /\ i - 1 = m
        BY <2>2, <3>3
      <4> QED
        BY <3>2, <3>3, <4>1
    <3>4. CASE i # m + 1
      <4>1. i \in 1..m
        BY <2>2, <3>4
      <4> QED
        BY <2>1, <2>2, <3>2, <3>4, <4>1
    <3> QED
      BY <3>3, <3>4
  <2> HIDE DEF g
  <2> QED
    BY <2>2, <2>3, <2>4, <2>5
<1>3. \A m \in 0..n : m \in Runs
  <2> HIDE DEF Runs
  <2> QED
    BY <1>1, <1>2, InductionUpTo
<1>4. n \in Runs
    BY <1>3
<1> QED
    BY <1>4 DEF IsRun

-----------------------------------------------------------------------------
(* Longs *)

\* Shift has its recursive equation, and is positive.
LEMMA ShiftIs ==
    /\ Shift[0] = 1
    /\ \A k \in 1..LongBytes : Shift[k] = Byte * Shift[k - 1]
    /\ \A k \in 0..LongBytes : Shift[k] \in Nat \ {0}
<1>0. Byte \in Nat \ {0} /\ LongBytes \in Nat
    BY WireAssumption
<1> DEFINE F == [p \in Nat \X (1..LongBytes) |-> Byte * p[1]]
           Step(f) == [k \in 0..LongBytes |-> IF k = 0 THEN 1 ELSE Byte * f[k - 1]]
<1>1. F \in [Nat \X (1..LongBytes) -> Nat]
    BY <1>0
<1>2. \A x \in Nat, i \in 1..LongBytes : F[<<x, i>>] = Byte * x
    OBVIOUS
<1>3. \E f : f = Step(f)
  <2>1. PICK f \in [0..LongBytes -> Nat] :
            f[0] = 1 /\ \A i \in 1..LongBytes : f[i] = F[<<f[i - 1], i>>]
    <3>1. PICK N, S : N = Nat /\ S = 1..LongBytes
      OBVIOUS
    <3> HIDE DEF F
    <3>2. 1 \in N /\ LongBytes \in Nat /\ F \in [N \X S -> N]
      BY <1>0, <1>1, <3>1
    <3>3. \E f : IsRun(f, N, LongBytes, 1, F)
      BY <3>1, <3>2, RecursionUpTo
    <3> QED
      BY <3>1, <3>3 DEF IsRun
  <2>2. ASSUME NEW k \in 0..LongBytes
        PROVE  f[k] = IF k = 0 THEN 1 ELSE Byte * f[k - 1]
    <3>1. CASE k = 0
      BY <2>1, <3>1
    <3>2. CASE k # 0
      <4>1. k \in 1..LongBytes /\ k - 1 \in 0..LongBytes
        BY <1>0, <3>2
      <4>2. f[k - 1] \in Nat
        BY <2>1, <4>1
      <4>3. f[k] = F[<<f[k - 1], k>>]
        BY <2>1, <4>1
      <4>4. F[<<f[k - 1], k>>] = Byte * f[k - 1]
        BY <1>2, <4>1, <4>2
      <4> QED
        BY <3>2, <4>3, <4>4
    <3> QED
      BY <3>1, <3>2
  <2>3. f = Step(f)
    BY <2>1, <2>2
  <2> QED
    BY <2>3
<1>4. Shift = CHOOSE f : f = Step(f)
    BY DEF Shift
<1>5. Shift = Step(Shift)
  <2> HIDE DEF Step
  <2> QED
    BY <1>3, <1>4
<1>6. Shift[0] = 1
    BY <1>0, <1>5
<1>7. \A k \in 1..LongBytes : Shift[k] = Byte * Shift[k - 1]
  <2> SUFFICES ASSUME NEW k \in 1..LongBytes
               PROVE  Shift[k] = Byte * Shift[k - 1]
    OBVIOUS
  <2>1. k \in 0..LongBytes /\ k # 0
    BY <1>0
  <2> QED
    BY <1>5, <2>1
<1> DEFINE T == {k \in 0..LongBytes : Shift[k] \in Nat \ {0}}
<1>8. 0 \in T
    BY <1>0, <1>6
<1>9. ASSUME NEW k \in 0..(LongBytes - 1), k \in T
      PROVE  k + 1 \in T
  <2>1. k + 1 \in 1..LongBytes /\ (k + 1) - 1 = k /\ Shift[k] \in Nat \ {0}
    BY <1>0, <1>9
  <2>2. Shift[k + 1] = Byte * Shift[k]
    BY <1>7, <2>1
  <2>3. Byte * Shift[k] \in Nat \ {0}
    BY <1>0, <2>1
  <2> QED
    BY <2>1, <2>2, <2>3
<1>10. \A k \in 0..LongBytes : k \in T
  <2> HIDE DEF T
  <2> QED
    BY <1>0, <1>8, <1>9, InductionUpTo
<1> QED
    BY <1>6, <1>7, <1>10

\* The values a long can have.
Longs == {n \in Int : -Shift[LongBytes] <= 2 * n /\ 2 * n < Shift[LongBytes]}

\* A long is LongBytes bytes.
LEMMA LongBytesWritten ==
    ASSUME NEW n \in Longs
    PROVE  writeLong(n) \in Bytes /\ Len(writeLong(n)) = LongBytes
<1>1. LongBytes \in Nat /\ Byte \in Nat \ {0}
    BY WireAssumption
<1>2. ASSUME NEW i \in 1..LongBytes
      PROVE  (n \div Shift[LongBytes - i]) % Byte \in Nat
  <2>1. LongBytes - i \in 0..LongBytes
    BY <1>1
  <2>2. Shift[LongBytes - i] \in Nat \ {0} /\ n \in Int
    BY <2>1, ShiftIs DEF Longs
  <2>3. n \div Shift[LongBytes - i] \in Int
    BY <2>2, Divided
  <2>4. (n \div Shift[LongBytes - i]) % Byte \in 0..(Byte - 1)
    BY <1>1, <2>3, Divided
  <2> QED
    BY <1>1, <2>4
<1>3. writeLong(n) \in [1..LongBytes -> Nat]
    BY <1>2 DEF writeLong
<1> QED
    BY <1>1, <1>3 DEF Bytes

\* A long is read as it was written, its sign included.
LEMMA LongReadBack ==
    ASSUME NEW n \in Longs, NEW b, b = writeLong(n)
    PROVE  longValue(b) = n
<1>0. LongBytes \in Nat \ {0} /\ Byte \in Nat \ {0} /\ n \in Int
    BY WireAssumption DEF Longs
<1> DEFINE Step(f) == [i \in 0..LongBytes |-> IF i = 0 THEN 0 ELSE f[i - 1] * Byte + b[i]]
           F == [p \in Int \X (1..LongBytes) |-> p[1] * Byte + b[p[2]]]
           R == CHOOSE f : f = Step(f)
           q(i) == n \div Shift[LongBytes - i]
<1>1. \A i \in 0..LongBytes : LongBytes - i \in 0..LongBytes
    BY <1>0
<1>2. \A i \in 0..LongBytes : Shift[LongBytes - i] \in Nat \ {0} /\ q(i) \in Int
  <2> SUFFICES ASSUME NEW i \in 0..LongBytes
               PROVE  Shift[LongBytes - i] \in Nat \ {0} /\ q(i) \in Int
    OBVIOUS
  <2>1. Shift[LongBytes - i] \in Nat \ {0}
    BY <1>1, ShiftIs
  <2> QED
    BY <1>0, <2>1, Divided
<1>3. \A i \in 1..LongBytes : b[i] = q(i) % Byte /\ b[i] \in Int
  <2> SUFFICES ASSUME NEW i \in 1..LongBytes
               PROVE  b[i] = q(i) % Byte /\ b[i] \in Int
    OBVIOUS
  <2>1. b[i] = q(i) % Byte
    BY DEF writeLong
  <2>2. i \in 0..LongBytes
    BY <1>0
  <2>3. q(i) \in Int
    BY <1>2, <2>2
  <2>4. PICK x : x = q(i)
    OBVIOUS
  <2>5. x % Byte \in 0..(Byte - 1)
    BY <1>0, <2>3, <2>4, Divided
  <2> QED
    BY <1>0, <2>1, <2>4, <2>5
<1>4. ASSUME NEW i \in 1..LongBytes
      PROVE  q(i) = Byte * q(i - 1) + b[i]
  <2>1. /\ i \in 0..LongBytes /\ i - 1 \in 0..LongBytes /\ LongBytes - (i - 1) \in 1..LongBytes
        /\ (LongBytes - (i - 1)) - 1 = LongBytes - i
    BY <1>0
  <2>2. Shift[LongBytes - (i - 1)] = Byte * Shift[LongBytes - i]
    BY <2>1, ShiftIs
  <2>3. PICK P \in Nat \ {0} : P = Shift[LongBytes - i]
    BY <1>2, <2>1
  <2>4. n \div P = Byte * (n \div (Byte * P)) + ((n \div P) % Byte)
    BY <1>0, QuotientStep
  <2>5. n \div P = q(i) /\ n \div (Byte * P) = q(i - 1)
    BY <2>2, <2>3
  <2>6. PICK x, y : x = n \div P /\ y = n \div (Byte * P)
    OBVIOUS
  <2>7. x = Byte * y + (x % Byte)
    BY <2>4, <2>6
  <2>8. x = q(i) /\ y = q(i - 1)
    BY <2>5, <2>6
  <2>9. b[i] = q(i) % Byte
    BY <1>3
  <2> HIDE DEF q
  <2> QED
    BY <2>7, <2>8, <2>9
<1>5. \E f : f = Step(f)
  <2>1. F \in [Int \X (1..LongBytes) -> Int]
    BY <1>0, <1>3
  <2>2. \A x \in Int, i \in 1..LongBytes : F[<<x, i>>] = x * Byte + b[i]
    OBVIOUS
  <2>3. PICK f \in [0..LongBytes -> Int] :
            f[0] = 0 /\ \A i \in 1..LongBytes : f[i] = F[<<f[i - 1], i>>]
    <3>1. PICK N, S : N = Int /\ S = 1..LongBytes
      OBVIOUS
    <3> HIDE DEF F
    <3>2. 0 \in N /\ LongBytes \in Nat /\ F \in [N \X S -> N]
      BY <1>0, <2>1, <3>1
    <3>3. \E f : IsRun(f, N, LongBytes, 0, F)
      BY <3>1, <3>2, RecursionUpTo
    <3> QED
      BY <3>1, <3>3 DEF IsRun
  <2>4. ASSUME NEW i \in 0..LongBytes
        PROVE  f[i] = IF i = 0 THEN 0 ELSE f[i - 1] * Byte + b[i]
    <3>1. CASE i = 0
      BY <2>3, <3>1
    <3>2. CASE i # 0
      <4>1. i \in 1..LongBytes /\ i - 1 \in 0..LongBytes
        BY <1>0, <3>2
      <4>2. f[i - 1] \in Int
        BY <2>3, <4>1
      <4>3. f[i] = F[<<f[i - 1], i>>]
        BY <2>3, <4>1
      <4>4. F[<<f[i - 1], i>>] = f[i - 1] * Byte + b[i]
        BY <2>2, <4>1, <4>2
      <4> QED
        BY <3>2, <4>3, <4>4
    <3> QED
      BY <3>1, <3>2
  <2>5. f = Step(f)
    BY <2>3, <2>4
  <2> QED
    BY <2>5
<1>6. R = Step(R)
  <2> HIDE DEF Step
  <2> QED
    BY <1>5
<1>7. R[0] = 0
  <2> HIDE DEF R
  <2>1. 0 \in 0..LongBytes
    BY <1>0
  <2> QED
    BY <1>6, <2>1
<1>8. \A i \in 1..LongBytes : R[i] = R[i - 1] * Byte + b[i]
  <2> SUFFICES ASSUME NEW i \in 1..LongBytes
               PROVE  R[i] = R[i - 1] * Byte + b[i]
    OBVIOUS
  <2> HIDE DEF R
  <2>1. i \in 0..LongBytes /\ i # 0
    BY <1>0
  <2> QED
    BY <1>6, <2>1
<1>9. longValue(b) = IF 2 * R[LongBytes] >= Shift[LongBytes]
                     THEN R[LongBytes] - Shift[LongBytes] ELSE R[LongBytes]
    BY DEF longValue
<1> HIDE DEF R, Step, F
<1>10. q(0) \in Int /\ 0 \in 0..LongBytes
    BY <1>0, <1>2
<1> DEFINE T == {i \in 0..LongBytes : R[i] \in Int /\ R[i] = q(i) - q(0) * Shift[i]}
<1>11. 0 \in T
  <2>1. Shift[0] = 1
    BY ShiftIs
  <2>2. q(0) - q(0) * 1 = 0
    BY <1>10
  <2> QED
    BY <1>7, <1>10, <2>1, <2>2
<1>12. ASSUME NEW i \in 0..(LongBytes - 1), i \in T
       PROVE  i + 1 \in T
  <2>1. /\ i + 1 \in 1..LongBytes /\ (i + 1) - 1 = i /\ i \in 0..LongBytes
        /\ i + 1 \in 0..LongBytes
    BY <1>0
  <2>2. R[i] \in Int /\ R[i] = q(i) - q(0) * Shift[i]
    BY <1>12
  <2>3. R[i + 1] = R[i] * Byte + b[i + 1]
    BY <1>8, <2>1
  <2>4. q(i + 1) = Byte * q(i) + b[i + 1]
    BY <1>4, <2>1
  <2>5. Shift[i + 1] = Byte * Shift[i] /\ Shift[i] \in Nat
    BY <2>1, ShiftIs
  <2>6. b[i + 1] \in Int /\ q(i) \in Int
    BY <1>2, <1>3, <2>1
  <2>7. PICK x, y, z, s, r : /\ x = q(i) /\ y = q(0) /\ z = b[i + 1] /\ s = Shift[i]
                             /\ r = R[i]
    OBVIOUS
  <2>8. x \in Int /\ y \in Int /\ z \in Int /\ s \in Int /\ r \in Int
    BY <1>10, <2>2, <2>5, <2>6, <2>7
  <2>9. r * Byte + z = (Byte * x + z) - y * (Byte * s)
    <3>1. r = x - y * s
      BY <2>2, <2>7
    <3>2. (x - y * s) * Byte = Byte * x - y * (Byte * s)
      BY <1>0, <2>8
    <3>3. Byte * x \in Int /\ y * (Byte * s) \in Int
      BY <1>0, <2>8
    <3> QED
      BY <2>8, <3>1, <3>2, <3>3
  <2>10. r * Byte + z \in Int
    BY <1>0, <2>8
  <2> QED
    BY <2>1, <2>3, <2>4, <2>5, <2>7, <2>9, <2>10
<1>13. \A i \in 0..LongBytes : i \in T
  <2> HIDE DEF T
  <2>1. LongBytes \in Nat
    BY <1>0
  <2> QED
    BY <2>1, <1>11, <1>12, InductionUpTo
<1>14. R[LongBytes] = q(LongBytes) - q(0) * Shift[LongBytes]
  <2>1. LongBytes \in 0..LongBytes
    BY <1>0
  <2>2. LongBytes \in T
    BY <1>13, <2>1
  <2> QED
    BY <2>2
<1>15. q(LongBytes) = n
  <2>1. LongBytes - LongBytes = 0 /\ Shift[0] = 1
    BY <1>0, ShiftIs
  <2>2. n \div 1 = n
    BY <1>0
  <2> QED
    BY <2>1, <2>2
<1>16. PICK S \in Nat \ {0} : S = Shift[LongBytes]
  <2>1. LongBytes \in 0..LongBytes
    BY <1>0
  <2> QED
    BY <2>1, ShiftIs
<1>17. -S <= 2 * n /\ 2 * n < S
    BY <1>16 DEF Longs
<1>18. q(0) = n \div S
    BY <1>0, <1>16
<1>19. CASE n >= 0
  <2>1. q(0) = 0
    <3>1. S * 0 <= n /\ n < S * 0 + S
      BY <1>0, <1>16, <1>17, <1>19
    <3> QED
      BY <1>0, <1>16, <1>18, <3>1, QuotientIs
  <2>2. R[LongBytes] = n
    BY <1>0, <1>14, <1>15, <1>16, <2>1
  <2> QED
    BY <1>0, <1>9, <1>16, <1>17, <2>2
<1>20. CASE n < 0
  <2>1. q(0) = -1
    <3>1. S * (-1) <= n /\ n < S * (-1) + S
      BY <1>0, <1>16, <1>17, <1>20
    <3> QED
      BY <1>0, <1>16, <1>18, <3>1, QuotientIs
  <2>2. R[LongBytes] = n + S
    BY <1>0, <1>14, <1>15, <1>16, <2>1
  <2> QED
    BY <1>0, <1>9, <1>16, <1>17, <2>2
<1> QED
    BY <1>0, <1>19, <1>20

-----------------------------------------------------------------------------
(* vInts *)

\* What dividing by Base leaves is less.
LEMMA BaseQuotient ==
    ASSUME NEW u \in Nat
    PROVE  /\ Base \in Nat \ {0} /\ u \div Base \in Nat /\ u % Base \in 0..(Base - 1)
           /\ u = Base * (u \div Base) + (u % Base)
           /\ u < Base => u \div Base = 0 /\ u % Base = u
           /\ u >= Base => u \div Base \in 1..(u - 1)
<1>1. Base \in Nat \ {0} /\ Base >= 2
    BY WireAssumption
<1>2. PICK q, r : q = u \div Base /\ r = u % Base
    OBVIOUS
<1>3. q \in Int /\ Base * q <= u /\ u < Base * q + Base
    BY <1>1, <1>2, Divided, SMTT(30)
<1>4. r \in 0..(Base - 1) /\ r = u - Base * q
    BY <1>1, <1>2, Divided, SMTT(30)
<1>5. q >= 0
    BY <1>1, <1>3
<1>6. PICK t \in Int : t = Base * q
    BY <1>1, <1>3
<1>7. u = t + r
    BY <1>1, <1>4, <1>6
<1>8. ASSUME u < Base PROVE q = 0 /\ r = u
  <2>1. Base * q < Base * 1
    BY <1>1, <1>3, <1>8
  <2>2. q < 1
    BY <1>1, <1>3, <2>1
  <2>3. q = 0
    BY <1>3, <1>5, <2>2
  <2>4. t = 0
    BY <1>1, <1>6, <2>3
  <2> QED
    BY <1>4, <1>7, <2>3, <2>4
<1>9. ASSUME u >= Base PROVE q \in 1..(u - 1)
  <2>1. q # 0
    BY <1>1, <1>3, <1>9
  <2>2. q >= 1
    BY <1>3, <1>5, <2>1
  <2>3. Base * q >= 2 * q
    BY <1>1, <1>3, <1>5
  <2>4. q < u
    BY <1>1, <1>3, <2>2, <2>3
  <2> QED
    BY <1>3, <2>2, <2>4
<1> QED
    BY <1>1, <1>2, <1>3, <1>4, <1>5, <1>6, <1>7, <1>8, <1>9

\* g writes the numbers up to n as writeVInt() does.
WritesGroups(g, n) ==
    /\ g \in [0..n -> Bytes]
    /\ \A v \in 0..n :
          g[v] = IF v < Base THEN <<v>> ELSE <<(v % Base) + Base>> \o g[v \div Base]

\* There is such a g.
LEMMA GroupsExist ==
    ASSUME NEW n \in Nat
    PROVE  \E g : WritesGroups(g, n)
<1>0. Base \in Nat /\ Base >= 2
    BY WireAssumption
<1> DEFINE T == {k \in Nat : \E g : WritesGroups(g, k)}
<1>1. 0 \in T
  <2> DEFINE g == [v \in 0..0 |-> <<v>>]
  <2>1. g \in [0..0 -> Bytes]
    BY DEF Bytes
  <2>2. \A v \in 0..0 : v < Base /\ g[v] = <<v>>
    BY <1>0
  <2> HIDE DEF g
  <2>3. WritesGroups(g, 0)
    BY <2>1, <2>2 DEF WritesGroups
  <2> QED
    BY <2>3
<1>2. ASSUME NEW k \in 0..(n - 1), k \in T
      PROVE  k + 1 \in T
  <2>1. PICK f : WritesGroups(f, k)
    BY <1>2
  <2>2. k \in Nat /\ k + 1 \in Nat
    OBVIOUS
  <2> DEFINE u == k + 1
             last == IF u < Base THEN <<u>> ELSE <<(u % Base) + Base>> \o f[u \div Base]
             g == [v \in 0..u |-> IF v = u THEN last ELSE f[v]]
  <2>3. f \in [0..k -> Bytes]
    BY <2>1 DEF WritesGroups
  <2>4. last \in Bytes
    <3>1. CASE u < Base
      BY <2>2, <3>1 DEF Bytes
    <3>2. CASE ~(u < Base)
      <4>1. u \div Base \in 0..k /\ (u % Base) + Base \in Nat
        BY <1>0, <2>2, <3>2, BaseQuotient
      <4>2. f[u \div Base] \in Bytes /\ <<(u % Base) + Base>> \in Bytes
        BY <2>3, <4>1 DEF Bytes
      <4> HIDE DEF u
      <4> QED
        BY <3>2, <4>2, Joined
    <3> QED
      BY <3>1, <3>2
  <2>5. g \in [0..u -> Bytes]
    <3> HIDE DEF last
    <3> QED
      BY <2>2, <2>3, <2>4
  <2>6. ASSUME NEW v \in 0..u
        PROVE  g[v] = IF v < Base THEN <<v>> ELSE <<(v % Base) + Base>> \o g[v \div Base]
    <3>1. ASSUME ~(v < Base) PROVE g[v \div Base] = f[v \div Base]
      <4>0. v \in Nat /\ v >= Base
        BY <1>0, <2>2, <3>1
      <4>1. v \div Base \in 1..(v - 1)
        BY <4>0, BaseQuotient
      <4>2. v \div Base \in 0..u /\ v \div Base # u
        BY <2>2, <4>1
      <4> HIDE DEF last, u
      <4> QED
        BY <4>2
    <3>2. CASE v = u
      <4>1. g[v] = last
        BY <3>2
      <4> QED
        BY <3>1, <3>2, <4>1
    <3>3. CASE v # u
      <4>1. v \in 0..k
        BY <2>2, <3>3
      <4>2. g[v] = f[v]
        BY <3>3
      <4>3. f[v] = IF v < Base THEN <<v>> ELSE <<(v % Base) + Base>> \o f[v \div Base]
        BY <2>1, <4>1 DEF WritesGroups
      <4> HIDE DEF g
      <4> QED
        BY <3>1, <4>2, <4>3
    <3> QED
      BY <3>2, <3>3
  <2> HIDE DEF g, last
  <2>7. WritesGroups(g, k + 1)
    BY <2>5, <2>6 DEF WritesGroups
  <2> QED
    BY <2>2, <2>7
<1>3. \A k \in 0..n : k \in T
  <2> HIDE DEF T
  <2> QED
    BY <1>1, <1>2, InductionUpTo
<1> QED
    BY <1>3

\* What writeVInt() writes.
LEMMA VIntWritten ==
    WritesGroups(writeVInt, VLongValues - 1)
<1> DEFINE N == VLongValues - 1
           Step(g) == [v \in 0..N |->
                         IF v < Base THEN <<v>> ELSE <<(v % Base) + Base>> \o g[v \div Base]]
<1>0. N \in Nat /\ Base \in Nat /\ Base >= 2
    BY WireAssumption
<1>1. \E g : g = Step(g)
  <2>1. PICK g : WritesGroups(g, N)
    BY <1>0, GroupsExist
  <2>2. g = Step(g)
    BY <2>1 DEF WritesGroups
  <2> QED
    BY <2>2
<1>2. writeVInt = CHOOSE g : g = Step(g)
    BY DEF writeVInt
<1>3. writeVInt = Step(writeVInt)
  <2> HIDE DEF Step
  <2> QED
    BY <1>1, <1>2
<1>4. ASSUME NEW v \in 0..N
      PROVE  writeVInt[v] = IF v < Base THEN <<v>>
                            ELSE <<(v % Base) + Base>> \o writeVInt[v \div Base]
    BY <1>3
<1>5. DOMAIN writeVInt = 0..N /\ writeVInt = [v \in 0..N |-> writeVInt[v]]
    BY <1>3
<1>6. \A v \in 0..N : writeVInt[v] \in Bytes
  <2> DEFINE T == {v \in 0..N : writeVInt[v] \notin Bytes}
  <2> SUFFICES ASSUME T # {} PROVE FALSE
    OBVIOUS
  <2>1. T \in SUBSET Nat
    BY <1>0
  <2>2. PICK v \in T : \A u \in T : v <= u
    <3> HIDE DEF T
    <3> QED
      BY <2>1, LeastNatural
  <2>3. v \in Nat /\ v \in 0..N /\ writeVInt[v] \notin Bytes
    BY <1>0
  <2>4. CASE v < Base
    <3>1. writeVInt[v] = <<v>>
      BY <1>4, <2>3, <2>4
    <3>2. <<v>> \in Bytes
      BY <2>3 DEF Bytes
    <3> QED
      BY <2>3, <3>1, <3>2
  <2>5. CASE ~(v < Base)
    <3>1. v \div Base \in 1..(v - 1) /\ (v % Base) + Base \in Nat
      BY <1>0, <2>3, <2>5, BaseQuotient
    <3>2. v \div Base \in 0..N /\ ~(v <= v \div Base)
      BY <1>0, <2>3, <3>1
    <3>3. v \div Base \notin T
      BY <2>2, <3>2
    <3>4. writeVInt[v \div Base] \in Bytes
      BY <3>2, <3>3
    <3>5. <<(v % Base) + Base>> \in Bytes
      BY <3>1 DEF Bytes
    <3>6. <<(v % Base) + Base>> \o writeVInt[v \div Base] \in Bytes
      BY <3>4, <3>5, Joined
    <3> QED
      BY <1>4, <2>3, <2>5, <3>6
  <2> QED
    BY <2>4, <2>5
<1>7. writeVInt \in [0..N -> Bytes]
    BY <1>5, <1>6
<1> QED
    BY <1>4, <1>7 DEF WritesGroups

\* The numbers a vInt or a vLong can have.
Unsigned == 0..(VLongValues - 1)

\* The first group of a number is the low one, and its high bit says whether the
\* rest of the number follows.
LEMMA VIntStep ==
    ASSUME NEW u \in Unsigned
    PROVE  /\ writeVInt[u] \in Bytes
           /\ u < Base => writeVInt[u] = <<u>> /\ u % Base = u
           /\ u >= Base =>
                 /\ u \div Base \in Unsigned /\ writeVInt[u \div Base] \in Bytes
                 /\ (u % Base) + Base \in Nat /\ (u % Base) + Base >= Base
                 /\ ((u % Base) + Base) % Base = u % Base
                 /\ writeVInt[u] = <<(u % Base) + Base>> \o writeVInt[u \div Base]
<1>0. VLongValues - 1 \in Nat /\ Base \in Nat /\ Base >= 2 /\ u \in Nat
    BY WireAssumption DEF Unsigned
<1>1. writeVInt \in [Unsigned -> Bytes]
    BY VIntWritten DEF WritesGroups, Unsigned
<1>2. writeVInt[u] = IF u < Base THEN <<u>>
                     ELSE <<(u % Base) + Base>> \o writeVInt[u \div Base]
    BY VIntWritten DEF WritesGroups, Unsigned
<1>3. u < Base => u % Base = u
    BY <1>0, BaseQuotient
<1>4. ASSUME u >= Base
      PROVE  /\ u \div Base \in Unsigned
             /\ (u % Base) + Base \in Nat /\ (u % Base) + Base >= Base
             /\ ((u % Base) + Base) % Base = u % Base
  <2>1. u \div Base \in 1..(u - 1)
    BY <1>0, <1>4, BaseQuotient
  <2>2. PICK r : r = u % Base
    OBVIOUS
  <2>3. r \in 0..(Base - 1)
    BY <1>0, <2>2, BaseQuotient
  <2>4. (r + Base) \div Base = 1
    <3>1. Base * 1 <= r + Base /\ r + Base < Base * 1 + Base
      BY <1>0, <2>3
    <3> QED
      BY <1>0, <2>3, <3>1, QuotientIs
  <2>5. (r + Base) % Base = (r + Base) - Base * 1
    BY <1>0, <2>3, <2>4, Divided
  <2>6. (r + Base) % Base = r
    BY <1>0, <2>3, <2>5
  <2>7. u \div Base \in Unsigned
    BY <1>0, <2>1 DEF Unsigned
  <2>8. r + Base \in Nat /\ r + Base >= Base
    BY <1>0, <2>3
  <2> QED
    BY <2>2, <2>6, <2>7, <2>8
<1>5. ~(u < Base) <=> u >= Base
    BY <1>0
<1> QED
    BY <1>1, <1>2, <1>3, <1>4, <1>5

\* Only the last group of a number is without the high bit.
LEMMA VIntGroups ==
    ASSUME NEW v \in Unsigned
    PROVE  /\ Len(writeVInt[v]) \in Nat \ {0}
           /\ writeVInt[v][Len(writeVInt[v])] < Base
           /\ \A i \in 1..(Len(writeVInt[v]) - 1) : writeVInt[v][i] >= Base
<1> DEFINE P(u) == /\ Len(writeVInt[u]) \in Nat \ {0}
                   /\ writeVInt[u][Len(writeVInt[u])] < Base
                   /\ \A i \in 1..(Len(writeVInt[u]) - 1) : writeVInt[u][i] >= Base
           T == {u \in Unsigned : ~P(u)}
<1>0. VLongValues - 1 \in Nat /\ Base \in Nat /\ Base >= 2
    BY WireAssumption
<1> SUFFICES ASSUME T # {} PROVE FALSE
    OBVIOUS
<1>1. T \in SUBSET Nat
    BY <1>0 DEF Unsigned
<1>2. PICK u \in T : \A x \in T : u <= x
  <2> HIDE DEF T
  <2> QED
    BY <1>1, LeastNatural
<1>3. u \in Unsigned /\ u \in Nat /\ ~P(u)
    BY <1>0 DEF Unsigned
<1>4. CASE u < Base
  <2>1. writeVInt[u] = <<u>>
    BY <1>3, <1>4, VIntStep
  <2>2. Len(<<u>>) = 1 /\ <<u>>[1] = u /\ 1..(1 - 1) = {}
    OBVIOUS
  <2>3. P(u)
    BY <1>4, <2>1, <2>2
  <2> QED
    BY <1>3, <2>3
<1>5. CASE ~(u < Base)
  <2>1. u >= Base
    BY <1>0, <1>3, <1>5
  <2>2. PICK q, g : q = u \div Base /\ g = (u % Base) + Base
    OBVIOUS
  <2>3. /\ q \in Unsigned /\ writeVInt[q] \in Bytes /\ g \in Nat /\ g >= Base
        /\ writeVInt[u] = <<g>> \o writeVInt[q]
    BY <1>3, <2>1, <2>2, VIntStep
  <2>4. ~(u <= q)
    BY <1>0, <1>3, <2>1, <2>2, BaseQuotient
  <2>5. q \notin T
    BY <1>2, <2>4
  <2>6. P(q)
    BY <2>3, <2>5
  <2>7. PICK w, x : w = writeVInt[u] /\ x = writeVInt[q]
    OBVIOUS
  <2>8. x \in Bytes /\ Len(x) \in Nat \ {0}
    BY <2>3, <2>6, <2>7
  <2>9. /\ Len(w) = Len(x) + 1 /\ w[1] = g
        /\ \A i \in 1..Len(x) : w[i + 1] = x[i]
    <3>1. <<g>> \in Bytes /\ Len(<<g>>) = 1 /\ <<g>>[1] = g
      BY <2>3 DEF Bytes
    <3>2. w = <<g>> \o x
      BY <2>3, <2>7
    <3>3. /\ Len(w) = 1 + Len(x)
          /\ \A i \in 1..(1 + Len(x)) : w[i] = IF i <= 1 THEN <<g>>[i] ELSE x[i - 1]
      BY <2>8, <3>1, <3>2, ConcatProperties DEF Bytes
    <3>4. w[1] = g
      BY <2>8, <3>1, <3>3
    <3>5. ASSUME NEW i \in 1..Len(x) PROVE w[i + 1] = x[i]
      <4>1. i + 1 \in 1..(1 + Len(x)) /\ ~(i + 1 <= 1) /\ (i + 1) - 1 = i
        BY <2>8
      <4> QED
        BY <3>3, <4>1
    <3> QED
      BY <2>8, <3>3, <3>4, <3>5
  <2>10. w[Len(w)] < Base
    <3>1. Len(x) \in 1..Len(x) /\ x[Len(x)] < Base
      BY <2>6, <2>7, <2>8
    <3> QED
      BY <2>9, <3>1
  <2>11. ASSUME NEW i \in 1..(Len(w) - 1) PROVE w[i] >= Base
    <3>1. CASE i = 1
      BY <2>3, <2>9, <3>1
    <3>2. CASE i # 1
      <4>1. i - 1 \in 1..(Len(x) - 1) /\ i - 1 \in 1..Len(x) /\ (i - 1) + 1 = i
        BY <2>8, <2>9, <3>2
      <4>2. x[i - 1] >= Base
        BY <2>6, <2>7, <4>1
      <4> QED
        BY <2>9, <4>1, <4>2
    <3> QED
      BY <3>1, <3>2
  <2>12. Len(w) \in Nat \ {0}
    BY <2>8, <2>9
  <2>13. P(u)
    BY <2>7, <2>10, <2>11, <2>12
  <2> QED
    BY <1>3, <2>13
<1> QED
    BY <1>4, <1>5

-----------------------------------------------------------------------------
(* Reading back *)

\* The sizes.
LEMMA Sizes ==
    /\ Base \in Nat \ {0} /\ Base >= 2
    /\ VIntValues \in Nat \ {0} /\ VLongValues \in Nat \ {0} /\ VIntValues <= VLongValues
    /\ LongBytes \in Nat \ {0}
    /\ 0 \in Unsigned /\ \A u \in Unsigned : u \in Nat /\ u < VLongValues
BY WireAssumption DEF Unsigned

\* With the groups of u still to come, what was read so far will be v.
Partly(got, u, v) ==
    /\ got \in [result : Nat, shifted : Nat]
    /\ got.result + u * got.shifted = v

\* One more group.
LEMMA GroupAdded ==
    ASSUME NEW u \in Nat, NEW v \in Nat, NEW size \in Nat, v < size, NEW group,
           group % Base = u % Base, NEW got, Partly(got, u, v)
    PROVE  /\ Partly(addGroup(got, group, size), u \div Base, v)
           /\ u < Base => addGroup(got, group, size).result = v
<1>0. Base \in Nat \ {0} /\ size \in Nat \ {0}
    BY WireAssumption
<1>1. PICK r, s, q, m : r = got.result /\ s = got.shifted /\ q = u \div Base /\ m = u % Base
    OBVIOUS
<1>2. r \in Nat /\ s \in Nat /\ r + u * s = v
    BY <1>1 DEF Partly
<1>3. q \in Nat /\ m \in Nat /\ u = Base * q + m
    BY <1>1, BaseQuotient
<1>4. u * s = m * s + q * (s * Base)
    BY <1>0, <1>2, <1>3
<1>5. PICK ms, qs : ms = m * s /\ qs = q * (s * Base)
    OBVIOUS
<1>6. ms \in Nat /\ qs \in Nat /\ s * Base \in Nat
    BY <1>0, <1>2, <1>3, <1>5
<1>7. (r + ms) + qs = v
    BY <1>2, <1>4, <1>5, <1>6
<1>8. r + ms \in Nat /\ r + ms < size
    BY <1>2, <1>6, <1>7
<1>9. (r + ms) % size = r + ms
    BY <1>0, <1>8, Fits
<1>10. addGroup(got, group, size) = [result |-> r + ms, shifted |-> s * Base]
    BY <1>1, <1>5, <1>9 DEF addGroup
<1>11. PICK next : next = addGroup(got, group, size)
    OBVIOUS
<1>12. next \in [result : Nat, shifted : Nat] /\ next.result = r + ms /\ next.shifted = s * Base
    BY <1>6, <1>8, <1>10, <1>11
<1>13. Partly(next, q, v)
    BY <1>5, <1>7, <1>12 DEF Partly
<1>14. ASSUME u < Base PROVE next.result = v
  <2>1. q = 0
    BY <1>1, <1>14, BaseQuotient
  <2>2. qs = 0
    BY <1>0, <1>2, <1>5, <1>6, <2>1
  <2> QED
    BY <1>7, <1>8, <1>12, <2>2
<1> QED
    BY <1>1, <1>11, <1>13, <1>14

\* Before the first group.
LEMMA NoGroupYet ==
    ASSUME NEW v \in Nat
    PROVE  Partly(NoGroup, v, v)
<1>1. NoGroup \in [result : Nat, shifted : Nat] /\ NoGroup.result = 0 /\ NoGroup.shifted = 1
    BY DEF NoGroup
<1> QED
    BY <1>1 DEF Partly

\* Where a vInt may end.
Ends(w) == {i \in 1..Len(w) : w[i] < Base}

\* The end of a vInt is found where it was written.
LEMMA VIntEnds ==
    ASSUME NEW v \in Unsigned, NEW b, b = writeVInt[v],
           NEW w \in Bytes, NEW z \in Bytes, NEW y \in Bytes, w \o z = b \o y, Ends(w) # {}
    PROVE  Len(b) <= Len(w) /\ Min(Ends(w)) = Len(b)
<1> DEFINE ends == Ends(w)
<1>1. b = writeVInt[v]
    OBVIOUS
<1>2. b \in Bytes /\ Len(w) \in Nat /\ Len(b) \in Nat \ {0} /\ Base \in Nat
  <2>1. b \in Bytes
    BY <1>1, VIntStep
  <2>2. Len(b) \in Nat \ {0}
    BY <1>1, VIntGroups
  <2>3. Base \in Nat
    BY WireAssumption
  <2>4. Len(w) \in Nat
    BY DEF Bytes
  <2> QED
    BY <2>1, <2>2, <2>3, <2>4
<1>3. b[Len(b)] < Base /\ \A i \in 1..(Len(b) - 1) : b[i] >= Base
    BY <1>1, VIntGroups
<1>4. b \o y = w \o z
    OBVIOUS
<1>5. Len(b) <= Len(w)
  <2> SUFFICES ASSUME ~(Len(b) <= Len(w)) PROVE FALSE
    OBVIOUS
  <2>1. Len(w) <= Len(b)
    BY <1>2
  <2>2. \A i \in 1..Len(w) : b[i] = w[i]
    <3>1. b \in Bytes
      BY <1>2
    <3>2. ASSUME NEW i \in 1..Len(w) PROVE b[i] = w[i]
      <4>1. i \in 1..Len(b)
        BY <1>2, <2>1
      <4> QED
        BY <3>1, <4>1, SameByte
    <3> QED
      BY <3>2
  <2>3. PICK i \in 1..Len(w) : w[i] < Base
    BY DEF Ends
  <2>4. i \in 1..(Len(b) - 1)
    BY <1>2, <2>1
  <2>6. w[i] \in Nat
    BY ByteOf
  <2>5. w[i] >= Base
    BY <1>3, <2>2, <2>4
  <2> QED
    BY <1>2, <2>3, <2>5, <2>6
<1>6. \A i \in 1..Len(b) : w[i] = b[i]
  <2>1. b \in Bytes /\ w \o z = b \o y
    BY <1>1, <1>2
  <2> QED
    BY <2>1, <1>5, SplitByte
<1>7. Len(b) \in ends
  <2>1. Len(b) \in 1..Len(b) /\ Len(b) \in 1..Len(w)
    BY <1>2, <1>5
  <2>2. w[Len(b)] < Base
    BY <1>3, <1>6, <2>1
  <2> QED
    BY <2>1, <2>2 DEF Ends
<1>8. ASSUME NEW i \in ends PROVE Len(b) <= i
  <2>1. i \in 1..Len(w) /\ w[i] < Base /\ w[i] \in Nat
    BY <1>2, ByteOf DEF Ends
  <2>2. ASSUME i \in 1..(Len(b) - 1) PROVE FALSE
    <3>1. b[i] >= Base
      BY <1>3, <2>2
    <3>2. i \in 1..Len(b)
      BY <1>2, <2>2
    <3>3. w[i] >= Base
      BY <1>6, <3>1, <3>2
    <3> QED
      BY <1>2, <2>1, <3>3
  <2> QED
    BY <1>2, <2>1, <2>2
<1>9. \A i \in ends : i \in Nat
    BY <1>2 DEF Ends
<1>10. Min(ends) = Len(b)
  <2>1. Min(ends) = CHOOSE x \in ends : \A y_1 \in ends : x <= y_1
    BY DEF Min
  <2>2. Min(ends) \in ends /\ \A x \in ends : Min(ends) <= x
    BY <1>7, <1>8, <2>1
  <2>3. Min(ends) <= Len(b) /\ Len(b) <= Min(ends)
    BY <1>7, <1>8, <2>2
  <2> QED
    BY <1>2, <1>9, <2>2, <2>3
<1> QED
    BY <1>5, <1>10

\* got, read from the beginning of w, is v with the bytes b, unless w ended too early.
Reads(got, w, v, b) ==
    got.used = 0 \/ (got.value = v /\ got.used = Len(b) /\ Len(b) <= Len(w))

\* A vInt is read as it was written.
LEMMA VIntReadBack ==
    ASSUME NEW v \in Unsigned, NEW w \in Bytes, NEW z \in Bytes, NEW y \in Bytes,
           w \o z = writeVInt[v] \o y, NEW size \in Nat, v < size
    PROVE  Reads(readVInt(w, size), w, v, writeVInt[v])
<1> DEFINE ends == {i \in 1..Len(w) : w[i] < Base}
           Step(f) == [i \in 0..Min(ends) |->
                         IF i = 0 THEN NoGroup ELSE addGroup(f[i - 1], w[i], size)]
           R == CHOOSE f : f = Step(f)
           X == [result : Int, shifted : Int]
           F == [p \in X \X (1..Min(ends)) |-> addGroup(p[1], w[p[2]], size)]
<1>0. PICK b : b = writeVInt[v]
    OBVIOUS
<1>1. readVInt(w, size) = IF ends = {} THEN TooShort
                          ELSE [value |-> R[Min(ends)].result, used |-> Min(ends)]
    BY DEF readVInt
<1>2. CASE ends = {}
  <2>1. readVInt(w, size).used = 0
    BY <1>1, <1>2 DEF TooShort
  <2> QED
    BY <2>1 DEF Reads
<1>3. CASE ends # {}
  <2>1. /\ Len(b) \in 1..Len(w) /\ Min(ends) = Len(b)
        /\ \A i \in 1..Len(b) : w[i] = b[i]
    <3>1. ends = Ends(w)
      BY DEF Ends
    <3> HIDE DEF ends
    <3>2. v \in Unsigned /\ b = writeVInt[v] /\ w \o z = b \o y /\ Ends(w) # {}
      BY <1>0, <1>3, <3>1
    <3>3. Len(b) <= Len(w) /\ Min(Ends(w)) = Len(b)
      BY <3>2, VIntEnds
    <3>4. b \in Bytes /\ Len(b) \in Nat \ {0}
      BY <1>0, VIntStep, VIntGroups
    <3>5. \A i \in 1..Len(b) : w[i] = b[i]
      BY <3>2, <3>3, <3>4, SplitByte
    <3>6. Len(w) \in Nat
      BY ByteOf
    <3> QED
      BY <3>1, <3>3, <3>4, <3>5, <3>6
  <2>2. PICK n \in Nat \ {0} : n = Len(b) /\ n = Min(ends)
    <3>1. Len(w) \in Nat
      BY ByteOf
    <3> HIDE DEF ends
    <3> QED
      BY <2>1, <3>1
  <2>3. v \in Nat /\ b \in Bytes /\ Base \in Nat \ {0} /\ size \in Nat \ {0}
    <3>1. writeVInt[v] \in Bytes
      BY VIntStep
    <3> QED
      BY <1>0, <3>1, Sizes
  <2>4. \A i \in 1..n : w[i] \in Nat
    BY <2>1, <2>2, <2>3, ByteOf
  <2>5. \E f : f = Step(f)
    <3>1. ASSUME NEW x \in X, NEW i \in 1..n PROVE addGroup(x, w[i], size) \in X
      <4>1. PICK r, s, g : r = x.result /\ s = x.shifted /\ g = w[i] % Base
        OBVIOUS
      <4>2. r \in Int /\ s \in Int /\ g \in Int
        <5>1. w[i] \in Nat
          BY <2>4
        <5>2. w[i] % Base \in Int
          BY <2>3, <5>1
        <5> QED
          BY <4>1, <5>2
      <4>3. r + g * s \in Int /\ s * Base \in Int
        BY <2>3, <4>2
      <4>4. (r + g * s) % size \in Int
        BY <2>3, <4>3
      <4> QED
        BY <4>1, <4>3, <4>4 DEF addGroup
    <3>2. F \in [X \X (1..n) -> X]
      BY <2>2, <3>1
    <3>3. \A x \in X, i \in 1..n : F[<<x, i>>] = addGroup(x, w[i], size)
      BY <2>2
    <3>4. NoGroup \in X
      BY DEF NoGroup
    <3>5. PICK f : IsRun(f, X, n, NoGroup, F)
      <4>1. PICK S : S = 1..n
        OBVIOUS
      <4> HIDE DEF F, X
      <4>2. F \in [X \X S -> X] /\ n \in Nat
        BY <3>2, <4>1
      <4> QED
        BY <3>4, <4>1, <4>2, RecursionUpTo
    <3>6. f \in [0..n -> X] /\ f[0] = NoGroup /\ \A i \in 1..n : f[i] = F[<<f[i - 1], i>>]
      BY <3>5 DEF IsRun
    <3> HIDE DEF F, X
    <3>7. ASSUME NEW i \in 0..n
          PROVE  f[i] = IF i = 0 THEN NoGroup ELSE addGroup(f[i - 1], w[i], size)
      <4>1. CASE i = 0
        BY <3>6, <4>1
      <4>2. CASE i # 0
        <5>1. i \in 1..n /\ i - 1 \in 0..n
          BY <4>2
        <5>2. f[i - 1] \in X
          BY <3>6, <5>1
        <5> QED
          BY <3>3, <3>6, <4>2, <5>1, <5>2
      <4> QED
        BY <4>1, <4>2
    <3>8. f = Step(f)
      <4> HIDE DEF ends
      <4> QED
        BY <2>2, <3>6, <3>7
    <3> QED
      BY <3>8
  <2>6. R = Step(R)
    <3> HIDE DEF Step
    <3> QED
      BY <2>5
  <2> HIDE DEF R, ends
  <2>7. R[0] = NoGroup /\ \A i \in 1..n : R[i] = addGroup(R[i - 1], w[i], size)
    <3>1. 0 \in 0..n /\ \A i \in 1..n : i \in 0..n /\ i # 0
      OBVIOUS
    <3> QED
      BY <2>2, <2>6, <3>1
  <2> DEFINE T == {i \in 0..n : \E u \in Unsigned, p \in Bytes :
                      /\ Partly(R[i], u, v) /\ Len(p) = i
                      /\ i < n => b = p \o writeVInt[u]
                      /\ i = n => u = 0}
  <2>8. 0 \in T
    <3>1. Partly(R[0], v, v)
      BY <2>3, <2>7, NoGroupYet
    <3>2. <<>> \in Bytes /\ Len(<<>>) = 0 /\ b = <<>> \o b
      BY <2>3, Joined
    <3>3. 0 \in 0..n /\ 0 # n
      OBVIOUS
    <3> QED
      BY <1>0, <3>1, <3>2, <3>3
  <2>9. ASSUME NEW i \in 0..(n - 1), i \in T PROVE i + 1 \in T
    <3>1. PICK u \in Unsigned, p \in Bytes :
              /\ Partly(R[i], u, v) /\ Len(p) = i
              /\ i < n => b = p \o writeVInt[u]
      BY <2>9
    <3>2. i + 1 \in 1..n /\ i + 1 \in 0..n /\ (i + 1) - 1 = i /\ i < n
      OBVIOUS
    <3>3. b = p \o writeVInt[u] /\ writeVInt[u] \in Bytes /\ Len(writeVInt[u]) \in Nat \ {0}
      BY <3>1, <3>2, VIntStep, VIntGroups
    <3>4. PICK x : x = writeVInt[u]
      OBVIOUS
    <3>5. w[i + 1] = x[1] /\ n = i + Len(x)
      <4>1. /\ Len(b) = Len(p) + Len(x)
            /\ \A j \in 1..(Len(p) + Len(x)) : b[j] = IF j <= Len(p) THEN p[j] ELSE x[j - Len(p)]
        BY <3>3, <3>4, ConcatProperties DEF Bytes
      <4>2. i + 1 \in 1..(Len(p) + Len(x)) /\ ~(i + 1 <= Len(p)) /\ (i + 1) - Len(p) = 1
        BY <3>1, <3>3, <3>4
      <4>3. b[i + 1] = x[1]
        BY <4>1, <4>2
      <4> QED
        BY <2>1, <2>2, <3>1, <3>2, <4>1, <4>3
    <3>6. u \in Nat
      BY Sizes
    <3>7. x[1] % Base = u % Base
      <4>1. CASE u < Base
        <5>1. x = <<u>>
          BY <3>4, <4>1, VIntStep
        <5> QED
          BY <5>1
      <4>2. CASE ~(u < Base)
        <5>1. u >= Base
          BY <2>3, <3>6, <4>2
        <5>2. PICK g, q : g = (u % Base) + Base /\ q = writeVInt[u \div Base]
          OBVIOUS
        <5>3. g \in Nat /\ g % Base = u % Base /\ x = <<g>> \o q /\ q \in Bytes
          BY <3>4, <5>1, <5>2, VIntStep
        <5>4. x[1] = g
          BY <5>3 DEF Bytes
        <5> QED
          BY <5>3, <5>4
      <4> QED
        BY <4>1, <4>2
    <3>8. R[i + 1] = addGroup(R[i], x[1], size)
      BY <2>7, <3>2, <3>5
    <3>9. Partly(R[i + 1], u \div Base, v)
      BY <2>3, <3>1, <3>6, <3>7, <3>8, GroupAdded
    <3>10. CASE u < Base
      <4>1. x = <<u>>
        BY <3>4, <3>10, VIntStep
      <4>2. i + 1 = n
        BY <3>5, <4>1
      <4>3. u \div Base = 0 /\ 0 \in Unsigned
        BY <3>6, <3>10, BaseQuotient, Sizes
      <4>4. PICK k \in Bytes : Len(k) = n
        BY <2>2, <2>3
      <4> QED
        BY <3>2, <3>9, <4>2, <4>3, <4>4
    <3>11. CASE ~(u < Base)
      <4>1. u >= Base
        BY <2>3, <3>6, <3>11
      <4>2. PICK g, q, y1 : g = (u % Base) + Base /\ q = u \div Base /\ y1 = writeVInt[q]
        OBVIOUS
      <4>3. g \in Nat /\ q \in Unsigned /\ y1 \in Bytes /\ x = <<g>> \o y1
        BY <3>4, <4>1, <4>2, VIntStep
      <4>4. <<g>> \in Bytes /\ Len(<<g>>) = 1
        BY <4>3 DEF Bytes
      <4>5. /\ p \o <<g>> \in Bytes /\ Len(p \o <<g>>) = i + 1
            /\ b = (p \o <<g>>) \o y1
        <5>1. p \o <<g>> \in Bytes /\ Len(p \o <<g>>) = Len(p) + Len(<<g>>)
          BY <4>4, Joined
        <5>2. (p \o <<g>>) \o y1 = p \o (<<g>> \o y1)
          BY <4>3, <4>4, Associative, SMTT(60)
        <5> QED
          BY <3>1, <3>3, <3>4, <4>3, <4>4, <5>1, <5>2
      <4>6. Len(x) = 1 + Len(y1) /\ Len(y1) \in Nat \ {0}
        BY <4>2, <4>3, <4>4, Joined, VIntGroups
      <4>7. i + 1 < n
        BY <3>5, <4>6
      <4>8. PICK k : k = p \o <<g>>
        OBVIOUS
      <4>9. k \in Bytes /\ Len(k) = i + 1 /\ b = k \o writeVInt[q] /\ Partly(R[i + 1], q, v)
        BY <3>9, <4>2, <4>5, <4>8
      <4> QED
        BY <3>2, <4>3, <4>7, <4>9, i + 1 # n
    <3> QED
      BY <3>10, <3>11
  <2>10. \A i \in 0..n : i \in T
    <3> HIDE DEF T
    <3>1. n \in Nat
      OBVIOUS
    <3> QED
      BY <2>8, <2>9, <3>1, InductionUpTo
  <2>11. PICK u \in Unsigned : Partly(R[n], u, v) /\ u = 0
    <3>1. n \in T
      BY <2>10
    <3> QED
      BY <3>1
  <2>12. R[n].result = v
    <3>1. PICK r, s : r = R[n].result /\ s = R[n].shifted
      OBVIOUS
    <3>2. r \in Nat /\ s \in Nat /\ r + 0 * s = v
      BY <2>11, <3>1 DEF Partly
    <3> QED
      BY <3>1, <3>2
  <2>13. readVInt(w, size) = [value |-> v, used |-> n]
    BY <1>1, <1>3, <2>2, <2>12
  <2> QED
    BY <1>0, <2>1, <2>2, <2>13 DEF Reads
<1> QED
    BY <1>2, <1>3

\* A byte is read as it was written.
LEMMA ByteReadBack ==
    ASSUME NEW v \in Nat, NEW w \in Bytes, NEW z \in Bytes, NEW y \in Bytes,
           w \o z = <<v>> \o y
    PROVE  Reads(readByte(w), w, v, <<v>>)
<1>1. <<v>> \in Bytes /\ Len(<<v>>) = 1 /\ <<v>>[1] = v
    BY DEF Bytes
<1>2. CASE w = <<>>
    BY <1>2 DEF readByte, TooShort, Reads
<1>3. CASE w # <<>>
  <2>1. Len(w) \in Nat /\ Len(w) >= 1
    BY <1>3 DEF Bytes
  <2>2. 1 \in 1..Len(w) /\ 1 \in 1..Len(<<v>>)
    BY <1>1, <2>1
  <2>3. PICK b : b = <<v>>
    OBVIOUS
  <2>4. w[1] = b[1]
    BY <1>1, <2>2, <2>3, SameByte
  <2>5. readByte(w) = [value |-> v, used |-> 1]
    BY <1>1, <1>3, <2>3, <2>4 DEF readByte
  <2> QED
    BY <1>1, <2>1, <2>5 DEF Reads
<1> QED
    BY <1>2, <1>3

\* A long is read as it was written.
LEMMA LongRead ==
    ASSUME NEW n \in Longs, NEW w \in Bytes, NEW z \in Bytes, NEW y \in Bytes,
           w \o z = writeLong(n) \o y
    PROVE  Reads(readLong(w), w, n, writeLong(n))
<1>1. PICK b : b = writeLong(n)
    OBVIOUS
<1>2. b \in Bytes /\ Len(b) = LongBytes /\ LongBytes \in Nat \ {0} /\ Len(w) \in Nat
    BY <1>1, LongBytesWritten, Sizes, ByteOf
<1>3. CASE Len(w) < LongBytes
    BY <1>3 DEF readLong, TooShort, Reads
<1>4. CASE ~(Len(w) < LongBytes)
  <2>1. Len(b) <= Len(w)
    BY <1>2, <1>4
  <2>2. SubSeq(w, 1, Len(b)) = b
    BY <1>1, <1>2, <2>1, SplitHead
  <2>3. longValue(b) = n
    BY <1>1, LongReadBack
  <2>4. readLong(w) = [value |-> n, used |-> LongBytes]
    BY <1>2, <1>4, <2>2, <2>3 DEF readLong
  <2> QED
    BY <1>1, <1>2, <2>1, <2>4 DEF Reads
<1> QED
    BY <1>3, <1>4

\* The arrays whose length a vInt can say.
Arrays == {a \in Bytes : Len(a) < VIntValues}

\* An array is its length and its bytes.
LEMMA ArrayWritten ==
    ASSUME NEW a \in Arrays
    PROVE  /\ a \in Bytes /\ Len(a) \in Unsigned /\ Len(a) < VIntValues
           /\ writeVInt[Len(a)] \in Bytes
           /\ writeByteArray(a) = writeVInt[Len(a)] \o a
           /\ writeString(a) = writeByteArray(a)
           /\ writeByteArray(a) \in Bytes
<1>1. a \in Bytes /\ Len(a) \in Nat /\ Len(a) < VIntValues
    BY DEF Arrays, Bytes
<1>2. Len(a) \in Unsigned
    BY <1>1, Sizes DEF Unsigned
<1>3. Len(a) % VIntValues = Len(a)
    BY <1>1, Sizes, Fits
<1>4. PICK n : n = Len(a)
    OBVIOUS
<1>5. writeVInt[n] \in Bytes
    BY <1>2, <1>4, VIntStep
<1>6. writeByteArray(a) = writeVInt[n] \o a
    BY <1>3, <1>4 DEF writeByteArray
<1>7. writeString(a) = writeVInt[n] \o a
  <2>1. CASE a = <<>>
    <3>1. n = 0 /\ writeString(a) = writeVInt[n]
      BY <1>4, <2>1 DEF writeString
    <3>2. writeVInt[n] \o <<>> = writeVInt[n]
      BY <1>5, Joined
    <3> QED
      BY <2>1, <3>1, <3>2
  <2>2. CASE a # <<>>
    BY <1>3, <1>4, <2>2 DEF writeString
  <2> QED
    BY <2>1, <2>2
<1>8. writeVInt[n] \o a \in Bytes
    BY <1>1, <1>5, Joined
<1> QED
    BY <1>1, <1>2, <1>4, <1>5, <1>6, <1>7, <1>8

\* An array is read as it was written.
LEMMA ArrayReadBack ==
    ASSUME NEW a \in Arrays, NEW w \in Bytes, NEW z \in Bytes, NEW y \in Bytes,
           w \o z = writeByteArray(a) \o y
    PROVE  Reads(readByteArray(w), w, a, writeByteArray(a))
<1> DEFINE length == readVInt(w, VIntValues)
           last == length.used + length.value
<1>1. PICK n, b, x : n = Len(a) /\ b = writeVInt[n] /\ x = writeByteArray(a)
    OBVIOUS
<1>2. /\ a \in Bytes /\ n \in Unsigned /\ n < VIntValues /\ b \in Bytes /\ x = b \o a
      /\ x \in Bytes
    BY <1>1, ArrayWritten
<1>3. Len(x) = Len(b) + n /\ Len(b) \in Nat /\ n \in Nat /\ Len(w) \in Nat
  <2>1. Len(x) = Len(b) + Len(a)
    BY <1>2, Joined
  <2>2. Len(b) \in Nat /\ Len(a) \in Nat /\ Len(w) \in Nat
    BY <1>2, ByteOf
  <2> QED
    BY <1>1, <2>1, <2>2
<1>4. a \o y \in Bytes /\ w \o z = b \o (a \o y)
  <2>1. (b \o a) \o y = b \o (a \o y)
    <3>1. a \in Bytes /\ b \in Bytes
      BY <1>2
    <3> QED
      BY <3>1, Associative, SMTT(60)
  <2>2. a \o y \in Bytes
    BY <1>2, Joined
  <2> QED
    BY <1>1, <1>2, <2>1, <2>2
<1>5. Reads(length, w, n, b)
  <2>1. PICK t : t = a \o y
    OBVIOUS
  <2>2. t \in Bytes /\ w \o z = writeVInt[n] \o t /\ VIntValues \in Nat
    BY <1>1, <1>4, <2>1, Sizes
  <2>3. Reads(length, w, n, writeVInt[n])
    BY <1>2, <2>2, VIntReadBack
  <2> QED
    BY <1>1, <2>3
<1>6. readByteArray(w) = IF length.used = 0 \/ last > Len(w) THEN TooShort
                         ELSE [value |-> SubSeq(w, length.used + 1, last), used |-> last]
    BY DEF readByteArray
<1> HIDE DEF length
<1>7. CASE length.used = 0 \/ last > Len(w)
    BY <1>6, <1>7 DEF TooShort, Reads
<1>8. CASE ~(length.used = 0 \/ last > Len(w))
  <2>2. length.value = n /\ length.used = Len(b)
    BY <1>5, <1>8 DEF Reads
  <2>3. last = Len(x) /\ Len(x) <= Len(w)
    BY <1>3, <1>8, <2>2
  <2>4. SubSeq(w, Len(b) + 1, Len(x)) = a
    <3>1. \A i \in 1..Len(x) : w[i] = x[i]
      <4>1. w \o z = x \o y /\ x \in Bytes /\ Len(x) <= Len(w)
        BY <1>1, <1>2, <2>3
      <4> QED
        BY <4>1, SplitByte, SMTT(60)
    <3>2. /\ \A i \in 1..n : Len(b) + i \in 1..Len(x) /\ Len(b) + i \in 1..Len(w)
          /\ \A i \in (Len(b) + 1)..Len(x) : i \in 1..Len(w)
      BY <1>3, <2>3
    <3>3. \A i \in 1..n : x[Len(b) + i] = a[i]
      <4>1. \A i \in 1..(Len(b) + Len(a)) : x[i] = IF i <= Len(b) THEN b[i] ELSE a[i - Len(b)]
        BY <1>2, ConcatProperties DEF Bytes
      <4> SUFFICES ASSUME NEW i \in 1..n PROVE x[Len(b) + i] = a[i]
        OBVIOUS
      <4>2. /\ Len(b) + i \in 1..(Len(b) + Len(a)) /\ ~(Len(b) + i <= Len(b))
            /\ (Len(b) + i) - Len(b) = i
        BY <1>1, <1>3
      <4> QED
        BY <4>1, <4>2
    <3>4. \A i \in (Len(b) + 1)..Len(x) : w[i] \in Nat
      BY <3>2, ByteOf
    <3>5. PICK p : p = SubSeq(w, Len(b) + 1, Len(x))
      OBVIOUS
    <3>6. p \in Bytes /\ Len(p) = n /\ \A i \in 1..n : p[i] = w[Len(b) + i]
      <4>1. PICK l, k : l = Len(b) + 1 /\ k = Len(x)
        OBVIOUS
      <4>2. /\ l \in Int /\ k \in Int /\ k - l + 1 = n /\ (l <= k => k - l + 1 = n)
            /\ (~(l <= k) => n = 0) /\ \A i \in 1..n : l + i - 1 = Len(b) + i
        BY <1>3, <4>1
      <4>3. /\ p \in Seq(Nat) /\ Len(p) = IF l <= k THEN k - l + 1 ELSE 0
            /\ \A i \in 1..(k - l + 1) : p[i] = w[l + i - 1]
        BY <3>4, <3>5, <4>1, <4>2, SubSeqProperties
      <4> QED
        BY <4>2, <4>3 DEF Bytes
    <3>7. \A i \in 1..n : p[i] = a[i]
      BY <3>1, <3>2, <3>3, <3>6
    <3>8. p \in Seq(Nat) /\ a \in Seq(Nat) /\ Len(p) = Len(a) /\ \A i \in 1..Len(p) : p[i] = a[i]
      BY <1>1, <1>2, <3>6, <3>7 DEF Bytes
    <3>9. p = a
      BY <3>8, SeqEqual
    <3> QED
      BY <3>5, <3>9
  <2>5. readByteArray(w) = [value |-> a, used |-> Len(x)]
    BY <1>6, <1>8, <2>2, <2>3, <2>4
  <2> QED
    BY <1>1, <2>3, <2>5 DEF Reads
<1> QED
    BY <1>7, <1>8

\* Once all of it is there, whatever follows: readVInt() and readVLong() return the
\* number that writeVInt() wrote and stop at the byte behind it.
THEOREM VIntRoundTrip ==
    ASSUME NEW v \in Unsigned, NEW size \in Nat, v < size, NEW y \in Bytes
    PROVE  /\ readVInt(writeVInt[v] \o y, size).value = v
           /\ readVInt(writeVInt[v] \o y, size).used = Len(writeVInt[v])
<1>1. PICK b, w, z : b = writeVInt[v] /\ w = b \o y /\ z = <<>>
    OBVIOUS
<1>2. b \in Bytes /\ Len(b) \in Nat \ {0} /\ b[Len(b)] < Base
    BY <1>1, VIntStep, VIntGroups
<1>3. w \in Bytes /\ Len(w) = Len(b) + Len(y) /\ z \in Bytes
    BY <1>1, <1>2, Joined
<1>4. w \o z = b \o y
    BY <1>1, <1>3, Joined
<1>5. Len(y) \in Nat /\ Len(w) \in Nat
    BY <1>3, ByteOf
<1>6. w[Len(b)] = b[Len(b)]
  <2>1. Len(b) \in 1..Len(w) /\ Len(b) \in 1..Len(b)
    BY <1>2, <1>3, <1>5
  <2>2. PICK i : i = Len(b)
    OBVIOUS
  <2>3. b \in Bytes /\ w \in Bytes /\ z \in Bytes /\ i \in 1..Len(w) /\ i \in 1..Len(b)
    BY <1>2, <1>3, <2>1, <2>2
  <2>4. w[i] = b[i]
    BY <1>4, <2>3, SameByte
  <2> QED
    BY <2>2, <2>4
<1>7. Ends(w) # {}
  <2>1. Len(b) \in 1..Len(w)
    BY <1>2, <1>3, <1>5
  <2> QED
    BY <1>2, <1>6, <2>1 DEF Ends
<1>8. Min(Ends(w)) = Len(b)
    BY <1>1, <1>3, <1>4, <1>7, VIntEnds
<1>9. readVInt(w, size).used = Min(Ends(w))
    BY <1>7 DEF readVInt, Ends
<1>10. Reads(readVInt(w, size), w, v, b)
  <2>1. w \o z = writeVInt[v] \o y
    BY <1>1, <1>4
  <2>2. Reads(readVInt(w, size), w, v, writeVInt[v])
    BY <1>3, <2>1, VIntReadBack
  <2> QED
    BY <1>1, <2>2
<1>11. readVInt(w, size).value = v /\ readVInt(w, size).used = Len(b)
  <2>1. readVInt(w, size).used # 0
    BY <1>2, <1>8, <1>9
  <2> QED
    BY <1>10, <2>1 DEF Reads
<1> QED
    BY <1>1, <1>11

\* The same of writeByteArray() and readByteArray(), and of the strings.
THEOREM ArrayRoundTrip ==
    ASSUME NEW a \in Arrays, NEW y \in Bytes
    PROVE  /\ readByteArray(writeByteArray(a) \o y).value = a
           /\ readByteArray(writeByteArray(a) \o y).used = Len(writeByteArray(a))
<1> DEFINE length(w) == readVInt(w, VIntValues)
           last(w) == length(w).used + length(w).value
<1>1. PICK n, b, x, w, z : /\ n = Len(a) /\ b = writeVInt[n] /\ x = writeByteArray(a)
                           /\ w = x \o y /\ z = <<>>
    OBVIOUS
<1>2. /\ a \in Bytes /\ n \in Unsigned /\ n < VIntValues /\ b \in Bytes /\ x = b \o a
      /\ x \in Bytes
    BY <1>1, ArrayWritten
<1>3. w \in Bytes /\ Len(w) = Len(x) + Len(y) /\ z \in Bytes
    BY <1>1, <1>2, Joined
<1>4. w \o z = x \o y
    BY <1>1, <1>3, Joined
<1>5. length(w).value = n /\ length(w).used = Len(b)
  <2>1. PICK t : t = a \o y
    OBVIOUS
  <2>2. (b \o a) \o y = b \o (a \o y)
    <3>1. a \in Bytes /\ b \in Bytes
      BY <1>2
    <3> QED
      BY <3>1, Associative, SMTT(60)
  <2>3. t \in Bytes
    BY <1>2, <2>1, Joined
  <2>4. w = writeVInt[n] \o t /\ VIntValues \in Nat
    BY <1>1, <1>2, <2>1, <2>2, Sizes
  <2>5. /\ readVInt(writeVInt[n] \o t, VIntValues).value = n
        /\ readVInt(writeVInt[n] \o t, VIntValues).used = Len(writeVInt[n])
    BY <1>2, <2>3, <2>4, VIntRoundTrip
  <2> QED
    BY <1>1, <2>4, <2>5
<1>6. Len(b) \in Nat \ {0} /\ Len(x) = Len(b) + n /\ n \in Nat /\ Len(y) \in Nat
  <2>1. Len(x) = Len(b) + Len(a)
    BY <1>2, Joined
  <2>2. Len(a) \in Nat /\ Len(y) \in Nat
    BY <1>2, ByteOf
  <2>3. Len(b) \in Nat \ {0}
    BY <1>1, <1>2, VIntGroups
  <2> QED
    BY <1>1, <2>1, <2>2, <2>3
<1>7. readByteArray(w) = IF length(w).used = 0 \/ last(w) > Len(w) THEN TooShort
                         ELSE [value |-> SubSeq(w, length(w).used + 1, last(w)), used |-> last(w)]
    BY DEF readByteArray
<1> HIDE DEF length
<1>8. length(w).used # 0 /\ last(w) <= Len(w) /\ last(w) = Len(x)
    BY <1>3, <1>5, <1>6
<1>9. readByteArray(w).used = Len(x)
    BY <1>3, <1>6, <1>7, <1>8
<1>10. Reads(readByteArray(w), w, a, x)
  <2>1. w \o z = writeByteArray(a) \o y
    BY <1>1, <1>4
  <2>2. Reads(readByteArray(w), w, a, writeByteArray(a))
    BY <1>3, <2>1, ArrayReadBack
  <2> QED
    BY <1>1, <2>2
<1>11. readByteArray(w).value = a
  <2>1. readByteArray(w).used # 0
    BY <1>6, <1>9
  <2> QED
    BY <1>10, <2>1 DEF Reads
<1> QED
    BY <1>1, <1>9, <1>11

\* And of the longs: big-endian and in two's complement, so that negative numbers
\* keep their sign.
THEOREM LongRoundTrip ==
    ASSUME NEW n \in Longs, NEW y \in Bytes
    PROVE  /\ readLong(writeLong(n) \o y).value = n
           /\ readLong(writeLong(n) \o y).used = LongBytes
<1>1. PICK b, w, z : b = writeLong(n) /\ w = b \o y /\ z = <<>>
    OBVIOUS
<1>2. b \in Bytes /\ Len(b) = LongBytes /\ LongBytes \in Nat \ {0}
    BY <1>1, LongBytesWritten, Sizes
<1>3. w \in Bytes /\ Len(w) = Len(b) + Len(y) /\ z \in Bytes /\ Len(y) \in Nat
    BY <1>1, <1>2, Joined, ByteOf
<1>4. w \o z = b \o y
    BY <1>1, <1>3, Joined
<1>5. readLong(w).used = LongBytes
    BY <1>2, <1>3 DEF readLong
<1>6. Reads(readLong(w), w, n, b)
  <2>1. w \o z = writeLong(n) \o y
    BY <1>1, <1>4
  <2>2. Reads(readLong(w), w, n, writeLong(n))
    BY <1>3, <2>1, LongRead
  <2> QED
    BY <1>1, <2>2
<1>7. readLong(w).value = n
  <2>1. readLong(w).used # 0
    BY <1>2, <1>5
  <2> QED
    BY <1>6, <2>1 DEF Reads
<1> QED
    BY <1>1, <1>5, <1>7

-----------------------------------------------------------------------------
(* Chains *)

\* Concatenation, as a name: what the provers need of it is in the next lemmas.
Cat(a, b) == a \o b

\* The joint of two, and its length.
LEMMA CatType ==
    ASSUME NEW a \in Bytes, NEW b \in Bytes
    PROVE  Cat(a, b) \in Bytes /\ Len(Cat(a, b)) = Len(a) + Len(b)
BY Joined DEF Cat

\* With nothing on either side.
LEMMA CatEmpty ==
    ASSUME NEW a \in Bytes
    PROVE  Cat(a, <<>>) = a /\ Cat(<<>>, a) = a
BY Joined DEF Cat

\* Of three.
LEMMA CatAssociative ==
    ASSUME NEW a \in Bytes, NEW b \in Bytes, NEW c \in Bytes
    PROVE  Cat(Cat(a, b), c) = Cat(a, Cat(b, c))
BY Associative DEF Cat

\* Two bytes, one by one.
LEMMA Pair ==
    ASSUME NEW m \in Nat, NEW n \in Nat
    PROVE  <<m>> \o <<n>> = <<m, n>>
<1>1. PICK a, b, c : a = <<m>> /\ b = <<n>> /\ c = <<m, n>>
    OBVIOUS
<1>2. /\ a \in Seq(Nat) /\ Len(a) = 1 /\ a[1] = m
      /\ b \in Seq(Nat) /\ Len(b) = 1 /\ b[1] = n
    BY <1>1
<1>3. c \in Seq(Nat) /\ Len(c) = 2 /\ c[1] = m /\ c[2] = n
    BY <1>1
<1>4. PICK d : d = a \o b
    OBVIOUS
<1>5. d \in Seq(Nat) /\ Len(d) = 2 /\ d[1] = m /\ d[2] = n
  <2>1. /\ d \in Seq(Nat) /\ Len(d) = Len(a) + Len(b)
        /\ \A i \in 1..(Len(a) + Len(b)) : d[i] = IF i <= Len(a) THEN a[i] ELSE b[i - Len(a)]
    BY <1>2, <1>4, ConcatProperties
  <2>2. 1 \in 1..(Len(a) + Len(b)) /\ 1 <= Len(a)
    BY <1>2
  <2>3. 2 \in 1..(Len(a) + Len(b)) /\ ~(2 <= Len(a)) /\ 2 - Len(a) = 1
    BY <1>2
  <2>4. d[1] = m
    BY <1>2, <2>1, <2>2
  <2>5. d[2] = n
    BY <1>2, <2>1, <2>3
  <2> QED
    BY <1>2, <2>1, <2>4, <2>5
<1>6. \A i \in 1..2 : i = 1 \/ i = 2
    OBVIOUS
<1>7. \A i \in 1..Len(d) : d[i] = c[i]
    BY <1>3, <1>5, <1>6
<1>8. d = c
    BY <1>3, <1>5, <1>7, SeqEqual
<1> QED
    BY <1>1, <1>4, <1>8

\* c[i] is the concatenation of q from q[i] on.
Chained(c, q) ==
    /\ c \in [1..(Len(q) + 1) -> Bytes]
    /\ c[Len(q) + 1] = <<>>
    /\ \A i \in 1..Len(q) : c[i] = Cat(q[i], c[i + 1])

\* x has come behind everything.
GrownBy(c1, c, n, x) == \A i \in 1..n : c1[i] = Cat(c[i], x)

\* One more sequence at the end comes after all that was there.
LEMMA ChainGrows ==
    ASSUME NEW q \in Seq(Bytes), NEW c, Chained(c, q), NEW x \in Bytes, NEW q1 \in Seq(Bytes),
           Len(q1) = Len(q) + 1, q1[Len(q) + 1] = x, \A i \in 1..Len(q) : q1[i] = q[i]
    PROVE  \E c1 : Chained(c1, q1) /\ GrownBy(c1, c, Len(q) + 1, x)
<1>1. PICK n \in Nat : n = Len(q)
    OBVIOUS
<1>2. /\ c \in [1..(n + 1) -> Bytes] /\ c[n + 1] = <<>>
      /\ \A i \in 1..n : c[i] = Cat(q[i], c[i + 1])
    BY <1>1 DEF Chained
<1>3. Len(q1) = n + 1 /\ q1[n + 1] = x /\ \A i \in 1..n : q1[i] = q[i] /\ q[i] \in Bytes
    BY <1>1
<1> DEFINE c1 == [i \in 1..((n + 1) + 1) |-> IF i = n + 2 THEN <<>> ELSE Cat(c[i], x)]
<1>4. ASSUME NEW i \in 1..(n + 1) PROVE Cat(c[i], x) \in Bytes
  <2>1. c[i] \in Bytes
    BY <1>2
  <2> QED
    BY <2>1, CatType
<1>5. <<>> \in Bytes
    BY Joined
<1>6. c1 \in [1..((n + 1) + 1) -> Bytes]
  <2>1. \A i \in 1..((n + 1) + 1) : i = n + 2 \/ i \in 1..(n + 1)
    OBVIOUS
  <2> QED
    BY <1>4, <1>5, <2>1
<1>7. c1[(n + 1) + 1] = <<>>
    OBVIOUS
<1>8. \A i \in 1..(n + 1) : c1[i] = Cat(c[i], x)
    OBVIOUS
<1> HIDE DEF c1
<1>9. ASSUME NEW i \in 1..(n + 1) PROVE c1[i] = Cat(q1[i], c1[i + 1])
  <2>1. CASE i = n + 1
    <3>1. c1[i] = Cat(<<>>, x) /\ Cat(q1[i], c1[i + 1]) = Cat(x, <<>>)
      BY <1>2, <1>3, <1>7, <1>8, <2>1
    <3>2. Cat(<<>>, x) = x /\ Cat(x, <<>>) = x
      BY CatEmpty
    <3> QED
      BY <3>1, <3>2
  <2>2. CASE i # n + 1
    <3>1. i \in 1..n /\ i + 1 \in 1..(n + 1)
      BY <2>2
    <3>2. c[i + 1] \in Bytes /\ q[i] \in Bytes /\ q1[i] = q[i]
      BY <1>2, <1>3, <3>1
    <3>3. c1[i] = Cat(Cat(q[i], c[i + 1]), x) /\ c1[i + 1] = Cat(c[i + 1], x)
      BY <1>2, <1>8, <3>1
    <3>4. Cat(Cat(q[i], c[i + 1]), x) = Cat(q[i], Cat(c[i + 1], x))
      BY <3>2, CatAssociative
    <3> QED
      BY <3>2, <3>3, <3>4
  <2> QED
    BY <2>1, <2>2
<1>10. Chained(c1, q1)
    BY <1>3, <1>6, <1>7, <1>9 DEF Chained
<1> QED
    BY <1>1, <1>8, <1>10 DEF GrownBy

\* Every list of sequences has one.
LEMMA ChainExists ==
    ASSUME NEW q \in Seq(Bytes)
    PROVE  \E c : Chained(c, q)
<1>1. PICK n \in Nat : n = Len(q)
    OBVIOUS
<1>2. \A i \in 1..n : q[i] \in Bytes
    BY <1>1
<1> DEFINE q1(k) == [i \in 1..k |-> q[i]]
           T == {k \in 0..n : \E c : Chained(c, q1(k))}
<1>3. \A k \in 0..n : q1(k) \in Seq(Bytes) /\ Len(q1(k)) = k
  <2> SUFFICES ASSUME NEW k \in 0..n PROVE q1(k) \in Seq(Bytes) /\ Len(q1(k)) = k
    OBVIOUS
  <2>1. q1(k) \in [1..k -> Bytes] /\ k \in Nat
    BY <1>2
  <2> QED
    BY <2>1
<1>4. \A k \in 0..n : \A i \in 1..k : q1(k)[i] = q[i]
    OBVIOUS
<1>5. 0 \in T
  <2>1. 0 \in 0..n
    OBVIOUS
  <2> DEFINE c == [i \in 1..(0 + 1) |-> <<>>]
  <2>2. c \in [1..(0 + 1) -> Bytes] /\ c[0 + 1] = <<>> /\ 1..0 = {}
    BY <<>> \in Bytes DEF Bytes
  <2>3. Len(q1(0)) = 0
    BY <1>3, <2>1
  <2> HIDE DEF c, q1
  <2>4. Chained(c, q1(0))
    BY <2>2, <2>3 DEF Chained
  <2> QED
    BY <2>1, <2>4
<1> HIDE DEF q1
<1>6. ASSUME NEW k \in 0..(n - 1), k \in T PROVE k + 1 \in T
  <2>1. k \in 0..n /\ k + 1 \in 0..n /\ k + 1 \in 1..n /\ k + 1 \in 1..(k + 1)
    OBVIOUS
  <2>2. PICK c : Chained(c, q1(k))
    BY <1>6
  <2>3. PICK a, b, x : a = q1(k) /\ b = q1(k + 1) /\ x = q[k + 1]
    OBVIOUS
  <2>4. a \in Seq(Bytes) /\ b \in Seq(Bytes) /\ x \in Bytes /\ Len(a) = k /\ Len(b) = k + 1
    BY <1>2, <1>3, <2>1, <2>3
  <2>5. b[k + 1] = x /\ \A i \in 1..k : b[i] = a[i]
    <3>1. \A i \in 1..k : i \in 1..(k + 1)
      OBVIOUS
    <3> QED
      BY <1>4, <2>1, <2>3, <3>1
  <2>6. Chained(c, a)
    BY <2>2, <2>3
  <2>7. \E c1 : Chained(c1, b)
    BY <2>4, <2>5, <2>6, ChainGrows
  <2> QED
    BY <2>1, <2>3, <2>7
<1>7. \A k \in 0..n : k \in T
  <2> HIDE DEF T
  <2> QED
    BY <1>5, <1>6, InductionUpTo
<1>8. PICK c : Chained(c, q1(n))
    BY <1>7
<1>9. q1(n) = q
    BY <1>1 DEF q1
<1> QED
    BY <1>8, <1>9

-----------------------------------------------------------------------------
(* Requests and responses *)

\* The parts of a request.
LEMMA PayloadParts ==
    ASSUME NEW p \in Payloads
    PROVE  /\ p \in [id : Unsigned, opcode : Nat, cache : Bytes, flags : Unsigned,
                     intelligence : Nat, topology : Unsigned, key : Bytes, version : Int]
           /\ p.id \in Unsigned /\ p.opcode \in Nat /\ p.cache \in Arrays
           /\ p.flags \in Unsigned /\ p.flags < VIntValues /\ p.intelligence \in Nat
           /\ p.topology \in Unsigned /\ p.topology < VIntValues
           /\ p.key \in Arrays /\ p.version \in Longs
<1>1. /\ Payloads \subseteq
          [id : 0..(VLongValues - 1), opcode : Nat, cache : Seq(Nat),
           flags : 0..(VIntValues - 1), intelligence : Nat, topology : 0..(VIntValues - 1),
           key : Seq(Nat), version : Int]
      /\ Len(p.cache) < VIntValues /\ Len(p.key) < VIntValues
      /\ -Shift[LongBytes] <= 2 * p.version /\ 2 * p.version < Shift[LongBytes]
    BY WireAssumption
<1>2. p \in [id : 0..(VLongValues - 1), opcode : Nat, cache : Seq(Nat),
             flags : 0..(VIntValues - 1), intelligence : Nat, topology : 0..(VIntValues - 1),
             key : Seq(Nat), version : Int]
    BY <1>1
<1>3. /\ p.id \in 0..(VLongValues - 1) /\ p.opcode \in Nat /\ p.cache \in Seq(Nat)
      /\ p.flags \in 0..(VIntValues - 1) /\ p.intelligence \in Nat
      /\ p.topology \in 0..(VIntValues - 1) /\ p.key \in Seq(Nat) /\ p.version \in Int
      /\ p = [id |-> p.id, opcode |-> p.opcode, cache |-> p.cache, flags |-> p.flags,
              intelligence |-> p.intelligence, topology |-> p.topology, key |-> p.key,
              version |-> p.version]
    BY <1>2
<1>4. p.id \in Unsigned
    BY <1>3 DEF Unsigned
<1>5. \A i \in 0..(VIntValues - 1) : i \in Unsigned /\ i < VIntValues
    BY Sizes DEF Unsigned
<1>6. p.cache \in Arrays /\ p.key \in Arrays /\ p.cache \in Bytes /\ p.key \in Bytes
    BY <1>1, <1>3 DEF Arrays, Bytes
<1>7. p.version \in Longs
    BY <1>1, <1>3 DEF Longs
<1>8. /\ p.flags \in Unsigned /\ p.flags < VIntValues
      /\ p.topology \in Unsigned /\ p.topology < VIntValues
    BY <1>3, <1>5
<1> QED
    BY <1>3, <1>4, <1>6, <1>7, <1>8

\* The fields of a request, as bytes and as values.
FieldBytes(version, p) ==
    <<<<REQUEST_MAGIC>>, writeVInt[p.id], <<version>>, <<p.opcode>>,
      writeByteArray(p.cache), writeVInt[p.flags], <<p.intelligence>>,
      writeVInt[p.topology], <<0>>, <<0>>, writeVInt[0], writeByteArray(p.key),
      writeLong(p.version)>>
\* What they say.
FieldValues(version, p) ==
    <<REQUEST_MAGIC, p.id, version, p.opcode, p.cache, p.flags, p.intelligence,
      p.topology, 0, 0, 0, p.key, p.version>>

\* Each field is some bytes.
LEMMA FieldBytesType ==
    ASSUME NEW version \in Nat, NEW p \in Payloads
    PROVE  /\ FieldBytes(version, p) \in Seq(Bytes) /\ Len(FieldBytes(version, p)) = 13
           /\ \A k \in 1..13 : FieldBytes(version, p)[k] \in Bytes
<1>1. /\ p.id \in Unsigned /\ p.opcode \in Nat /\ p.cache \in Arrays /\ p.flags \in Unsigned
      /\ p.intelligence \in Nat /\ p.topology \in Unsigned /\ p.key \in Arrays
      /\ p.version \in Longs /\ 0 \in Unsigned
    BY PayloadParts, Sizes
<1>2. /\ <<REQUEST_MAGIC>> \in Bytes /\ <<version>> \in Bytes /\ <<p.opcode>> \in Bytes
      /\ <<p.intelligence>> \in Bytes /\ <<0>> \in Bytes
    BY <1>1 DEF Bytes, REQUEST_MAGIC
<1>3. writeVInt[p.id] \in Bytes /\ writeVInt[p.flags] \in Bytes /\ writeVInt[p.topology] \in Bytes
    BY <1>1, VIntStep
<1>4. writeVInt[0] \in Bytes
    BY <1>1, VIntStep
<1>5. writeByteArray(p.cache) \in Bytes /\ writeByteArray(p.key) \in Bytes
    BY <1>1, ArrayWritten
<1>6. writeLong(p.version) \in Bytes
    BY <1>1, LongBytesWritten
<1>7. FieldBytes(version, p) \in Seq(Bytes)
    BY <1>2, <1>3, <1>4, <1>5, <1>6 DEF FieldBytes
<1>8. Len(FieldBytes(version, p)) = 13
    BY DEF FieldBytes
<1>9. PICK f : f = FieldBytes(version, p)
    OBVIOUS
<1>10. f \in Seq(Bytes) /\ Len(f) = 13
    BY <1>7, <1>8, <1>9
<1>11. \A k \in 1..13 : f[k] \in Bytes
  <2>1. \A k \in 1..Len(f) : f[k] \in Bytes
    BY <1>10, ElementOfSeq
  <2> QED
    BY <1>10, <2>1
<1> QED
    BY <1>9, <1>10, <1>11

\* A frame is its fields one after the other.
LEMMA FrameIs ==
    ASSUME NEW version \in Nat, version >= 40, NEW p \in Payloads,
           NEW s, Chained(s, FieldBytes(version, p))
    PROVE  s[1] = writeRequest(version, p)
<1>1. PICK f : f = FieldBytes(version, p)
    OBVIOUS
<1>2. Len(f) = 13 /\ \A k \in 1..13 : f[k] \in Bytes
    BY <1>1, FieldBytesType
<1>3. /\ \A i \in 1..14 : s[i] \in Bytes
      /\ s[14] = <<>>
      /\ \A i \in 1..13 : s[i] = Cat(f[i], s[i + 1])
  <2>1. Chained(s, f)
    BY <1>1
  <2>2. PICK n : n = Len(f)
    OBVIOUS
  <2>3. /\ s \in [1..(n + 1) -> Bytes] /\ s[n + 1] = <<>>
        /\ \A i \in 1..n : s[i] = Cat(f[i], s[i + 1])
    BY <2>1, <2>2 DEF Chained
  <2>4. n = 13 /\ n + 1 = 14
    BY <1>2, <2>2
  <2> QED
    BY <2>3, <2>4
<1>4. PICK f1, f2, f3, f4, f5, f6, f7, f8, f9, f10, f11, f12, f13 :
           /\ f1 = f[1] /\ f2 = f[2] /\ f3 = f[3] /\ f4 = f[4] /\ f5 = f[5]
           /\ f6 = f[6] /\ f7 = f[7] /\ f8 = f[8] /\ f9 = f[9] /\ f10 = f[10]
           /\ f11 = f[11] /\ f12 = f[12] /\ f13 = f[13]
    OBVIOUS
<1>5. PICK s1, s2, s3, s4, s5, s6, s7, s8, s9, s10, s11, s12, s13, s14 :
           /\ s1 = s[1] /\ s2 = s[2] /\ s3 = s[3] /\ s4 = s[4] /\ s5 = s[5]
           /\ s6 = s[6] /\ s7 = s[7] /\ s8 = s[8] /\ s9 = s[9] /\ s10 = s[10]
           /\ s11 = s[11] /\ s12 = s[12] /\ s13 = s[13] /\ s14 = s[14]
    OBVIOUS
<1>6. f1 \in Bytes /\ s2 \in Bytes /\ s1 = Cat(f1, s2)
    BY <1>2, <1>3, <1>4, <1>5
<1>7. f2 \in Bytes /\ s3 \in Bytes /\ s2 = Cat(f2, s3)
    BY <1>2, <1>3, <1>4, <1>5
<1>8. f3 \in Bytes /\ s4 \in Bytes /\ s3 = Cat(f3, s4)
    BY <1>2, <1>3, <1>4, <1>5
<1>9. f4 \in Bytes /\ s5 \in Bytes /\ s4 = Cat(f4, s5)
    BY <1>2, <1>3, <1>4, <1>5
<1>10. f5 \in Bytes /\ s6 \in Bytes /\ s5 = Cat(f5, s6)
    BY <1>2, <1>3, <1>4, <1>5
<1>11. f6 \in Bytes /\ s7 \in Bytes /\ s6 = Cat(f6, s7)
    BY <1>2, <1>3, <1>4, <1>5
<1>12. f7 \in Bytes /\ s8 \in Bytes /\ s7 = Cat(f7, s8)
    BY <1>2, <1>3, <1>4, <1>5
<1>13. f8 \in Bytes /\ s9 \in Bytes /\ s8 = Cat(f8, s9)
    BY <1>2, <1>3, <1>4, <1>5
<1>14. f9 \in Bytes /\ s10 \in Bytes /\ s9 = Cat(f9, s10)
    BY <1>2, <1>3, <1>4, <1>5
<1>15. f10 \in Bytes /\ s11 \in Bytes /\ s10 = Cat(f10, s11)
    BY <1>2, <1>3, <1>4, <1>5
<1>16. f11 \in Bytes /\ s12 \in Bytes /\ s11 = Cat(f11, s12)
    BY <1>2, <1>3, <1>4, <1>5
<1>17. f12 \in Bytes /\ s13 \in Bytes /\ s12 = Cat(f12, s13)
    BY <1>2, <1>3, <1>4, <1>5
<1>18. f13 \in Bytes /\ s14 \in Bytes /\ s13 = Cat(f13, s14)
    BY <1>2, <1>3, <1>4, <1>5
<1>19. s14 = <<>>
    BY <1>3, <1>5
<1>20. PICK vo, zz : vo = <<version, p.opcode>> /\ zz = <<0, 0>>
    OBVIOUS
<1>21. vo \in Bytes /\ vo = Cat(f3, f4) /\ zz \in Bytes /\ zz = Cat(f9, f10)
  <2>1. f3 = <<version>> /\ f4 = <<p.opcode>> /\ f9 = <<0>> /\ f10 = <<0>>
    BY <1>1, <1>4 DEF FieldBytes
  <2>2. p.opcode \in Nat
    BY PayloadParts
  <2>3. vo \in Bytes /\ zz \in Bytes
    BY <1>20, <2>2 DEF Bytes
  <2>4. <<version>> \o <<p.opcode>> = <<version, p.opcode>> /\ <<0>> \o <<0>> = <<0, 0>>
    BY <2>2, Pair
  <2> QED
    BY <1>20, <2>1, <2>3, <2>4 DEF Cat
<1>22. PICK a2 \in Bytes : a2 = Cat(f1, f2)
    BY <1>6, <1>7, CatType
<1>23. PICK a4 \in Bytes : a4 = Cat(a2, vo)
    BY <1>21, <1>22, CatType
<1>24. PICK a5 \in Bytes : a5 = Cat(a4, f5)
    BY <1>10, <1>23, CatType
<1>25. PICK a6 \in Bytes : a6 = Cat(a5, f6)
    BY <1>11, <1>24, CatType
<1>26. PICK a7 \in Bytes : a7 = Cat(a6, f7)
    BY <1>12, <1>25, CatType
<1>27. PICK a8 \in Bytes : a8 = Cat(a7, f8)
    BY <1>13, <1>26, CatType
<1>28. PICK z11 \in Bytes : z11 = Cat(zz, f11)
    BY <1>16, <1>21, CatType
<1>29. PICK a11 \in Bytes : a11 = Cat(a8, z11)
    BY <1>27, <1>28, CatType
<1>30. PICK a12 \in Bytes : a12 = Cat(a11, f12)
    BY <1>17, <1>29, CatType
<1>31. PICK a13 \in Bytes : a13 = Cat(a12, f13)
    BY <1>18, <1>30, CatType
<1>32. a13 = Cat(a13, s14)
    BY <1>31, <1>19, CatEmpty
<1>33. Cat(a13, s14) = Cat(a12, s13)
    BY <1>18, <1>30, <1>31, CatAssociative
<1>34. Cat(a12, s13) = Cat(a11, s12)
    BY <1>17, <1>29, <1>30, CatAssociative
<1>35. Cat(z11, s12) = Cat(zz, s11)
    BY <1>16, <1>21, <1>28, CatAssociative
<1>36. Cat(zz, s11) = Cat(f9, s10)
    BY <1>14, <1>15, <1>21, CatAssociative
<1>37. Cat(z11, s12) = s9 /\ s9 \in Bytes
    BY <1>13, <1>14, <1>35, <1>36
<1>38. Cat(a11, s12) = Cat(a8, s9)
    BY <1>16, <1>28, <1>27, <1>29, <1>37, CatAssociative
<1>39. Cat(a8, s9) = Cat(a7, s8)
    BY <1>13, <1>26, <1>27, CatAssociative
<1>40. Cat(a7, s8) = Cat(a6, s7)
    BY <1>12, <1>25, <1>26, CatAssociative
<1>41. Cat(a6, s7) = Cat(a5, s6)
    BY <1>11, <1>24, <1>25, CatAssociative
<1>42. Cat(a5, s6) = Cat(a4, s5)
    BY <1>10, <1>23, <1>24, CatAssociative
<1>43. Cat(vo, s5) = Cat(f3, s4)
    BY <1>8, <1>9, <1>21, CatAssociative
<1>44. Cat(vo, s5) = s3 /\ s5 \in Bytes
    BY <1>8, <1>9, <1>43
<1>45. Cat(a4, s5) = Cat(a2, s3)
    BY <1>21, <1>22, <1>23, <1>44, CatAssociative
<1>46. Cat(a2, s3) = Cat(f1, s2)
    BY <1>6, <1>7, <1>22, CatAssociative
<1>47. a13 = s1
    BY <1>32, <1>33, <1>34, <1>38, <1>39, <1>40, <1>41, <1>42, <1>45, <1>46, <1>6
<1>48. writeRequest(version, p) = a13
  <2>1. /\ f1 = <<REQUEST_MAGIC>> /\ f2 = writeVInt[p.id] /\ f5 = writeByteArray(p.cache)
        /\ f6 = writeVInt[p.flags] /\ f7 = <<p.intelligence>> /\ f8 = writeVInt[p.topology]
        /\ f11 = writeVInt[0] /\ f12 = writeByteArray(p.key) /\ f13 = writeLong(p.version)
    BY <1>1, <1>4 DEF FieldBytes
  <2>2. writeVLong(p.id) = writeVInt[p.id]
    <3>1. p.id \in Nat /\ p.id < VLongValues /\ VLongValues \in Nat \ {0}
      BY PayloadParts, Sizes
    <3>2. p.id % VLongValues = p.id
      BY <3>1, Fits
    <3> QED
      BY <3>2 DEF writeVLong
  <2>3. writeString(p.cache) = writeByteArray(p.cache)
    BY PayloadParts, ArrayWritten
  <2>4. writeParams(version) = <<0, 0>> \o writeVInt[0]
    BY DEF writeParams
  <2>5. writeRequest(version, p) =
            f1 \o f2 \o vo \o f5 \o f6 \o f7 \o f8 \o z11 \o f12 \o f13
    BY <1>20, <1>28, <2>1, <2>2, <2>3, <2>4 DEF writeRequest, Cat
  <2> QED
    BY <1>22, <1>23, <1>24, <1>25, <1>26, <1>27, <1>28, <1>29, <1>30, <1>31, <2>5 DEF Cat
<1> QED
    BY <1>3, <1>5, <1>47, <1>48

\* Where one of two readings of a stream ends first, the other goes on with its rest.
LEMMA CatRest ==
    ASSUME NEW a \in Bytes, NEW x \in Bytes, NEW b \in Bytes, NEW y \in Bytes,
           Cat(a, x) = Cat(b, y), Len(b) <= Len(a)
    PROVE  /\ SubSeq(a, Len(b) + 1, Len(a)) \in Bytes
           /\ Cat(SubSeq(a, Len(b) + 1, Len(a)), x) = y
<1>1. a \o x = b \o y
    BY DEF Cat
<1>2. SubSeq(a, Len(b) + 1, Len(a)) \o x = y
    BY <1>1, SplitRest
<1>3. SubSeq(a, Len(b) + 1, Len(a)) \in Bytes
  <2>1. Len(b) \in 0..Len(a)
    BY ByteOf
  <2> QED
    BY <2>1, Parts
<1> QED
    BY <1>2, <1>3 DEF Cat

\* Where both end together, they agree, and so does what follows.
LEMMA CatWhole ==
    ASSUME NEW a \in Bytes, NEW x \in Bytes, NEW b \in Bytes, NEW y \in Bytes,
           Cat(a, x) = Cat(b, y), Len(b) = Len(a)
    PROVE  a = b /\ x = y
<1>1. a \o x = b \o y
    BY DEF Cat
<1> QED
    BY <1>1, SplitWhole

\* A stream cut anywhere.
LEMMA CatParts ==
    ASSUME NEW a \in Bytes, NEW n \in 0..Len(a)
    PROVE  /\ SubSeq(a, 1, n) \in Bytes /\ SubSeq(a, n + 1, Len(a)) \in Bytes
           /\ Len(SubSeq(a, 1, n)) = n
           /\ Cat(SubSeq(a, 1, n), SubSeq(a, n + 1, Len(a))) = a
BY Parts DEF Cat

\* What follows the id of a response.
Tail3(p) == <<p.opcode + 1, 0, 0>>
\* And what follows that.
AfterTail(p) == Cat(writeByteArray(p.key), writeLong(p.version))

\* A response, piece by piece as the read thread takes it.
LEMMA ResponseIs ==
    ASSUME NEW p \in Payloads
    PROVE  /\ Tail3(p) \in Bytes /\ Len(Tail3(p)) = 3 /\ Tail3(p)[1] = p.opcode + 1
           /\ AfterTail(p) \in Bytes
           /\ AfterTail(p) = Cat(writeVInt[Len(p.key)], Cat(p.key, writeLong(p.version)))
           /\ writeResponse(p) = Cat(<<RESPONSE_MAGIC>>,
                                     Cat(writeVInt[p.id], Cat(Tail3(p), AfterTail(p))))
           /\ writeResponse(p) \in Bytes
<1>1. p.id \in Unsigned /\ p.opcode \in Nat /\ p.key \in Arrays /\ p.version \in Longs
    BY PayloadParts
<1>2. PICK m, i, t, k, l, n : /\ m = <<RESPONSE_MAGIC>> /\ i = writeVInt[p.id] /\ t = Tail3(p)
                              /\ k = writeByteArray(p.key) /\ l = writeLong(p.version)
                              /\ n = writeVInt[Len(p.key)]
    OBVIOUS
<1>3. t \in Bytes /\ Len(t) = 3 /\ t[1] = p.opcode + 1
    BY <1>1, <1>2 DEF Tail3, Bytes
<1>4. m \in Bytes
    BY <1>2 DEF RESPONSE_MAGIC, Bytes
<1>5. i \in Bytes /\ l \in Bytes
    BY <1>1, <1>2, VIntStep, LongBytesWritten
<1>6. k \in Bytes /\ p.key \in Bytes /\ n \in Bytes /\ k = Cat(n, p.key)
  <2>1. /\ writeByteArray(p.key) = writeVInt[Len(p.key)] \o p.key /\ p.key \in Bytes
        /\ writeByteArray(p.key) \in Bytes /\ writeVInt[Len(p.key)] \in Bytes
    BY <1>1, ArrayWritten
  <2> QED
    BY <1>2, <2>1 DEF Cat
<1>7. AfterTail(p) = Cat(k, l) /\ Cat(k, l) \in Bytes
    BY <1>2, <1>5, <1>6, CatType DEF AfterTail
<1>8. Cat(k, l) = Cat(n, Cat(p.key, l))
    BY <1>5, <1>6, CatAssociative
<1>9. writeVLong(p.id) = i
  <2>1. p.id \in Nat /\ p.id < VLongValues /\ VLongValues \in Nat \ {0}
    BY <1>1, Sizes
  <2>2. p.id % VLongValues = p.id
    BY <2>1, Fits
  <2> QED
    BY <1>2, <2>2 DEF writeVLong
<1>10. writeResponse(p) = Cat(Cat(Cat(Cat(m, i), t), k), l)
    BY <1>2, <1>9 DEF writeResponse, Tail3, Cat
<1>11. PICK mi, mit : mi = Cat(m, i) /\ mit = Cat(mi, t)
    OBVIOUS
<1>12. mi \in Bytes /\ mit \in Bytes
    BY <1>3, <1>4, <1>5, <1>11, CatType
<1>13. writeResponse(p) = Cat(mit, Cat(k, l))
    BY <1>5, <1>6, <1>10, <1>11, <1>12, CatAssociative
<1>14. PICK a : a = Cat(k, l)
    OBVIOUS
<1>15. a \in Bytes /\ AfterTail(p) = a
    BY <1>7, <1>14
<1>16. Cat(mit, a) = Cat(mi, Cat(t, a))
    BY <1>3, <1>11, <1>12, <1>15, CatAssociative
<1>17. Cat(t, a) \in Bytes
    BY <1>3, <1>15, CatType
<1>18. Cat(mi, Cat(t, a)) = Cat(m, Cat(i, Cat(t, a)))
    BY <1>4, <1>5, <1>11, <1>17, CatAssociative
<1>19. writeResponse(p) = Cat(m, Cat(i, Cat(t, a)))
    BY <1>13, <1>14, <1>16, <1>18
<1>20. Cat(m, Cat(i, Cat(t, a))) \in Bytes
    BY <1>4, <1>5, <1>17, CatType
<1>21. t = Tail3(p) /\ t \in Bytes /\ Len(t) = 3 /\ t[1] = p.opcode + 1
    BY <1>2, <1>3
<1>22. a = Cat(n, Cat(p.key, l))
    BY <1>8, <1>14
<1> QED
    BY <1>2, <1>15, <1>19, <1>20, <1>21, <1>22

\* The server reads a field as it was written.
LEMMA FieldRead ==
    ASSUME NEW version \in Nat, NEW p \in Payloads, NEW k \in 1..13, wire \in Bytes,
           NEW z \in Bytes, NEW y \in Bytes, Cat(wire, z) = Cat(FieldBytes(version, p)[k], y)
    PROVE  Reads(readField(Grammar[k]), wire, FieldValues(version, p)[k], FieldBytes(version, p)[k])
<1>1. /\ p.id \in Unsigned /\ p.opcode \in Nat /\ p.cache \in Arrays
      /\ p.flags \in Unsigned /\ p.flags < VIntValues /\ p.intelligence \in Nat
      /\ p.topology \in Unsigned /\ p.topology < VIntValues
      /\ p.key \in Arrays /\ p.version \in Longs
    BY PayloadParts
<1>2. PICK w : w = wire
    OBVIOUS
<1>3. PICK f, v : f = FieldBytes(version, p)[k] /\ v = FieldValues(version, p)[k]
    OBVIOUS
<1>4. w \in Bytes /\ w \o z = f \o y
    BY <1>2, <1>3 DEF Cat
<1>5. /\ VIntValues \in Nat /\ VLongValues \in Nat /\ 0 \in Unsigned /\ 0 < VIntValues
      /\ \A u \in Unsigned : u < VLongValues
    BY Sizes
<1>6. CASE k \in {1, 3, 4, 7, 9, 10}
  <2>1. readField(Grammar[k]) = readByte(w)
    BY <1>2, <1>6 DEF readField, Grammar
  <2>2. v \in Nat /\ f = <<v>>
    BY <1>1, <1>3, <1>6 DEF FieldBytes, FieldValues, REQUEST_MAGIC
  <2>3. Reads(readByte(w), w, v, <<v>>)
    BY <1>4, <2>2, ByteReadBack
  <2> QED
    BY <1>2, <1>3, <2>1, <2>2, <2>3
<1>7. CASE k = 2
  <2>1. readField(Grammar[k]) = readVInt(w, VLongValues)
    BY <1>2, <1>7 DEF readField, Grammar, readVLong
  <2>2. v \in Unsigned /\ f = writeVInt[v]
    BY <1>1, <1>3, <1>7 DEF FieldBytes, FieldValues
  <2>3. v < VLongValues /\ w \o z = writeVInt[v] \o y
    BY <1>4, <1>5, <2>2
  <2>4. Reads(readVInt(w, VLongValues), w, v, writeVInt[v])
    BY <1>4, <1>5, <2>2, <2>3, VIntReadBack
  <2> QED
    BY <1>2, <1>3, <2>1, <2>2, <2>4
<1>8. CASE k \in {6, 8, 11}
  <2>1. readField(Grammar[k]) = readVInt(w, VIntValues)
    BY <1>2, <1>8 DEF readField, Grammar
  <2>2. v \in Unsigned /\ f = writeVInt[v] /\ v < VIntValues
    BY <1>1, <1>3, <1>5, <1>8 DEF FieldBytes, FieldValues
  <2>3. w \o z = writeVInt[v] \o y
    BY <1>4, <2>2
  <2>4. Reads(readVInt(w, VIntValues), w, v, writeVInt[v])
    BY <1>4, <1>5, <2>2, <2>3, VIntReadBack
  <2> QED
    BY <1>2, <1>3, <2>1, <2>2, <2>4
<1>9. CASE k \in {5, 12}
  <2>1. readField(Grammar[k]) = readByteArray(w)
    BY <1>2, <1>9 DEF readField, Grammar
  <2>2. v \in Arrays /\ f = writeByteArray(v)
    BY <1>1, <1>3, <1>9 DEF FieldBytes, FieldValues
  <2>3. w \o z = writeByteArray(v) \o y
    BY <1>4, <2>2
  <2>4. Reads(readByteArray(w), w, v, writeByteArray(v))
    BY <1>4, <2>2, <2>3, ArrayReadBack
  <2> QED
    BY <1>2, <1>3, <2>1, <2>2, <2>4
<1>10. CASE k = 13
  <2>1. readField(Grammar[k]) = readLong(w)
    BY <1>2, <1>10 DEF readField, Grammar
  <2>2. v \in Longs /\ f = writeLong(v)
    BY <1>1, <1>3, <1>10 DEF FieldBytes, FieldValues
  <2>3. w \o z = writeLong(v) \o y
    BY <1>4, <2>2
  <2>4. Reads(readLong(w), w, v, writeLong(v))
    BY <1>4, <2>2, <2>3, LongRead
  <2> QED
    BY <1>2, <1>3, <2>1, <2>2, <2>4
<1> QED
    BY <1>6, <1>7, <1>8, <1>9, <1>10

-----------------------------------------------------------------------------
(* The stream of requests *)

\* What a field can hold.
Values == Int \cup Bytes

\* The frames of the threads in order.
Frames(version, f, order) == [i \in 1..Len(order) |-> writeRequest(version, f[order[i]])]

\* Of the frames of order, the first m have been parsed and the fields req of the
\* next; stream is the rest.
Flowing(version, f, order, m, req, stream) ==
    \E c : /\ Chained(c, Frames(version, f, order))
           /\ \/ req = <<>> /\ stream = c[m + 1]
              \/ /\ m < Len(order) /\ Len(req) \in 1..13
                 /\ \A i \in 1..Len(req) : req[i] = FieldValues(version, f[order[m + 1]])[i]
                 /\ \E s : /\ Chained(s, FieldBytes(version, f[order[m + 1]]))
                           /\ stream = Cat(s[Len(req) + 1], c[m + 2])

\* A frame is bytes.
LEMMA FrameType ==
    ASSUME NEW version \in Nat, version >= 40, NEW p \in Payloads
    PROVE  writeRequest(version, p) \in Bytes
<1>1. PICK q : q = FieldBytes(version, p)
    OBVIOUS
<1>2. q \in Seq(Bytes) /\ Len(q) = 13
    BY <1>1, FieldBytesType
<1>3. PICK s : Chained(s, q)
    BY <1>2, ChainExists
<1>4. s[1] \in Bytes
    BY <1>2, <1>3 DEF Chained
<1>5. s[1] = writeRequest(version, p)
    BY <1>1, <1>3, FrameIs
<1> QED
    BY <1>4, <1>5

\* So are the frames of an order, one for each of its threads.
LEMMA FramesType ==
    ASSUME NEW version \in Nat, version >= 40, NEW f \in [Threads -> Payloads],
           NEW order \in Seq(Threads)
    PROVE  /\ Frames(version, f, order) \in Seq(Bytes)
           /\ Len(Frames(version, f, order)) = Len(order)
           /\ \A i \in 1..Len(order) :
                 Frames(version, f, order)[i] = writeRequest(version, f[order[i]])
<1>1. ASSUME NEW i \in 1..Len(order) PROVE writeRequest(version, f[order[i]]) \in Bytes
  <2>1. f[order[i]] \in Payloads
    BY ElementOfSeq
  <2> QED
    BY <2>1, FrameType
<1>2. Len(order) \in Nat
    OBVIOUS
<1>3. Frames(version, f, order) \in [1..Len(order) -> Bytes]
    BY <1>1 DEF Frames
<1>4. \A i \in 1..Len(order) : Frames(version, f, order)[i] = writeRequest(version, f[order[i]])
    BY DEF Frames
<1> QED
    BY <1>2, <1>3, <1>4

\* A thread that gets the lock puts its frame behind the others.
LEMMA FlowGrows ==
    ASSUME NEW version \in Nat, version >= 40, NEW f \in [Threads -> Payloads],
           NEW order \in Seq(Threads), NEW m \in 0..Len(order), NEW req, NEW stream,
           Flowing(version, f, order, m, req, stream), NEW t \in Threads
    PROVE  Flowing(version, f, Append(order, t), m, req, Cat(stream, writeRequest(version, f[t])))
<1>1. PICK q, o1, q1, x : /\ q = Frames(version, f, order) /\ o1 = Append(order, t)
                          /\ q1 = Frames(version, f, o1) /\ x = writeRequest(version, f[t])
    OBVIOUS
<1>2. PICK n \in Nat : n = Len(order)
    OBVIOUS
<1>3. /\ o1 \in Seq(Threads) /\ Len(o1) = n + 1 /\ o1[n + 1] = t
      /\ \A i \in 1..n : o1[i] = order[i]
    BY <1>1, <1>2
<1>4. q \in Seq(Bytes) /\ Len(q) = n /\ \A i \in 1..n : q[i] = writeRequest(version, f[order[i]])
    BY <1>1, <1>2, FramesType
<1>5. q1 \in Seq(Bytes) /\ Len(q1) = n + 1
    BY <1>1, <1>3, FramesType
<1>6. \A i \in 1..(n + 1) : q1[i] = writeRequest(version, f[o1[i]])
  <2>1. \A i \in 1..Len(o1) : Frames(version, f, o1)[i] = writeRequest(version, f[o1[i]])
    BY <1>3, FramesType
  <2> QED
    BY <1>1, <1>3, <2>1
<1>7. x \in Bytes
    BY <1>1, FrameType
<1>8. q1[n + 1] = x /\ \A i \in 1..n : q1[i] = q[i]
    BY <1>1, <1>3, <1>4, <1>6
<1>9. PICK c : /\ Chained(c, q)
               /\ \/ req = <<>> /\ stream = c[m + 1]
                  \/ /\ m < n /\ Len(req) \in 1..13
                     /\ \A i \in 1..Len(req) : req[i] = FieldValues(version, f[order[m + 1]])[i]
                     /\ \E s : /\ Chained(s, FieldBytes(version, f[order[m + 1]]))
                               /\ stream = Cat(s[Len(req) + 1], c[m + 2])
    BY <1>1, <1>2 DEF Flowing
<1>10. PICK c1 : Chained(c1, q1) /\ \A i \in 1..(n + 1) : c1[i] = Cat(c[i], x)
  <2>1. Len(q1) = Len(q) + 1 /\ q1[Len(q) + 1] = x /\ \A i \in 1..Len(q) : q1[i] = q[i]
    BY <1>4, <1>5, <1>8
  <2>2. \E c1 : Chained(c1, q1) /\ GrownBy(c1, c, Len(q) + 1, x)
    BY <1>4, <1>5, <1>7, <1>9, <2>1, ChainGrows
  <2> QED
    BY <1>4, <2>2 DEF GrownBy
<1>11. m \in 0..n /\ m + 1 \in 1..(n + 1)
    BY <1>2
<1>12. CASE req = <<>> /\ stream = c[m + 1]
  <2>1. Cat(stream, x) = c1[m + 1]
    BY <1>10, <1>11, <1>12
  <2> QED
    BY <1>1, <1>10, <1>12, <2>1 DEF Flowing
<1>13. ASSUME NEW s, m < n, Len(req) \in 1..13,
              \A i \in 1..Len(req) : req[i] = FieldValues(version, f[order[m + 1]])[i],
              Chained(s, FieldBytes(version, f[order[m + 1]])),
              stream = Cat(s[Len(req) + 1], c[m + 2])
       PROVE  Flowing(version, f, o1, m, req, Cat(stream, x))
  <2>1. m + 1 \in 1..n /\ m + 2 \in 1..(n + 1) /\ m < Len(o1)
    BY <1>3, <1>11, <1>13
  <2>2. o1[m + 1] = order[m + 1] /\ order[m + 1] \in Threads
    BY <1>2, <1>3, <2>1, ElementOfSeq
  <2>3. s[Len(req) + 1] \in Bytes
    <3>1. PICK b : b = FieldBytes(version, f[order[m + 1]])
      OBVIOUS
    <3>2. f[order[m + 1]] \in Payloads
      BY <2>2
    <3>3. Len(b) = 13 /\ Chained(s, b)
      BY <1>13, <3>1, <3>2, FieldBytesType
    <3>4. s \in [1..(13 + 1) -> Bytes]
      BY <3>3 DEF Chained
    <3>5. Len(req) + 1 \in 1..(13 + 1)
      <4>1. \A k \in 1..13 : k + 1 \in 1..(13 + 1)
        OBVIOUS
      <4> QED
        BY <1>13, <4>1
    <3> QED
      BY <3>4, <3>5
  <2>4. c[m + 2] \in Bytes
    BY <1>4, <1>9, <2>1 DEF Chained
  <2>5. Cat(stream, x) = Cat(s[Len(req) + 1], Cat(c[m + 2], x))
    BY <1>7, <1>13, <2>3, <2>4, CatAssociative
  <2>6. Cat(stream, x) = Cat(s[Len(req) + 1], c1[m + 2])
    BY <1>10, <2>1, <2>5
  <2> QED
    BY <1>1, <1>10, <1>13, <2>1, <2>2, <2>6 DEF Flowing
<1> QED
    BY <1>1, <1>9, <1>12, <1>13

\* The rest of a request after each field.
LEMMA FieldChain ==
    ASSUME NEW version \in Nat, NEW p \in Payloads, NEW s, Chained(s, FieldBytes(version, p))
    PROVE  /\ s \in [1..14 -> Bytes] /\ s[14] = <<>>
           /\ \A i \in 1..13 : s[i] = Cat(FieldBytes(version, p)[i], s[i + 1])
<1>1. PICK b : b = FieldBytes(version, p)
    OBVIOUS
<1>2. Len(b) = 13 /\ Chained(s, b)
    BY <1>1, FieldBytesType
<1>3. /\ s \in [1..(13 + 1) -> Bytes] /\ s[13 + 1] = <<>>
      /\ \A i \in 1..13 : s[i] = Cat(b[i], s[i + 1])
    BY <1>2 DEF Chained
<1>4. 13 + 1 = 14
    OBVIOUS
<1> QED
    BY <1>1, <1>3, <1>4

\* Within is Flowing when the server is in a request, before its first field too.
Within(version, f, order, m, req, stream) ==
    /\ m + 1 \in 1..Len(order) /\ f[order[m + 1]] \in Payloads
    /\ Len(req) \in 0..13
    /\ \A i \in 1..Len(req) : req[i] = FieldValues(version, f[order[m + 1]])[i]
    /\ \E c, s : /\ Chained(c, Frames(version, f, order)) /\ c[m + 2] \in Bytes
                 /\ Chained(s, FieldBytes(version, f[order[m + 1]]))
                 /\ stream = Cat(s[Len(req) + 1], c[m + 2])

\* As long as something is to come, or to be parsed, there is a next request.
LEMMA FlowWithin ==
    ASSUME NEW version \in Nat, version >= 40, NEW f \in [Threads -> Payloads],
           NEW order \in Seq(Threads), NEW m \in 0..Len(order), NEW req, NEW stream,
           Flowing(version, f, order, m, req, stream), stream # <<>> \/ Len(req) > 0
    PROVE  Within(version, f, order, m, req, stream)
<1>1. PICK q : q = Frames(version, f, order)
    OBVIOUS
<1>2. PICK n \in Nat : n = Len(order)
    OBVIOUS
<1>3. q \in Seq(Bytes) /\ Len(q) = n /\ \A i \in 1..n : q[i] = writeRequest(version, f[order[i]])
    BY <1>1, <1>2, FramesType
<1>4. PICK c : /\ Chained(c, q)
               /\ \/ req = <<>> /\ stream = c[m + 1]
                  \/ /\ m < n /\ Len(req) \in 1..13
                     /\ \A i \in 1..Len(req) : req[i] = FieldValues(version, f[order[m + 1]])[i]
                     /\ \E s : /\ Chained(s, FieldBytes(version, f[order[m + 1]]))
                               /\ stream = Cat(s[Len(req) + 1], c[m + 2])
    BY <1>1, <1>2 DEF Flowing
<1>5. /\ c \in [1..(n + 1) -> Bytes] /\ c[n + 1] = <<>>
      /\ \A i \in 1..n : c[i] = Cat(q[i], c[i + 1])
    BY <1>3, <1>4 DEF Chained
<1>6. m < n
  <2>1. CASE req = <<>> /\ stream = c[m + 1]
    <3>1. Len(req) = 0
      BY <2>1
    <3>2. c[m + 1] # c[n + 1]
      BY <1>5, <2>1, <3>1
    <3>3. m \in 0..n /\ m # n
      BY <1>2, <3>2
    <3> QED
      BY <3>3
  <2> QED
    BY <1>4, <2>1
<1>7. m + 1 \in 1..n /\ m + 2 \in 1..(n + 1) /\ (m + 1) + 1 = m + 2
    BY <1>2, <1>6
<1>8. PICK p : p = f[order[m + 1]]
    OBVIOUS
<1>9. p \in Payloads
  <2>1. order[m + 1] \in Threads
    BY <1>2, <1>7, ElementOfSeq
  <2> QED
    BY <1>8, <2>1
<1>10. PICK b : b = FieldBytes(version, p)
    OBVIOUS
<1>11. b \in Seq(Bytes) /\ Len(b) = 13
    BY <1>9, <1>10, FieldBytesType
<1>13. c[m + 2] \in Bytes
    BY <1>5, <1>7
<1>14. CASE req = <<>> /\ stream = c[m + 1]
  <2>1. PICK s : Chained(s, b)
    BY <1>11, ChainExists
  <2>2. Len(req) = 0 /\ 1..0 = {} /\ 0 \in 0..13 /\ 0 + 1 = 1
    BY <1>14
  <2>3. s[1] = q[m + 1]
    BY <1>3, <1>7, <1>8, <1>9, <1>10, <2>1, FrameIs
  <2>4. stream = Cat(s[Len(req) + 1], c[m + 2])
    BY <1>5, <1>7, <1>14, <2>2, <2>3
  <2>5. \A i \in 1..Len(req) : req[i] = FieldValues(version, p)[i]
    BY <2>2
  <2> QED
    BY <1>1, <1>2, <1>4, <1>7, <1>8, <1>9, <1>10, <1>13, <2>1, <2>2, <2>4, <2>5 DEF Within
<1>15. CASE /\ Len(req) \in 1..13
            /\ \A i \in 1..Len(req) : req[i] = FieldValues(version, p)[i]
            /\ \E s : Chained(s, b) /\ stream = Cat(s[Len(req) + 1], c[m + 2])
  <2>1. PICK s : Chained(s, b) /\ stream = Cat(s[Len(req) + 1], c[m + 2])
    BY <1>15
  <2>2. Len(req) \in 0..13
    BY <1>15
  <2> QED
    BY <1>1, <1>2, <1>4, <1>7, <1>8, <1>9, <1>10, <1>13, <1>15, <2>1, <2>2 DEF Within
<1> QED
    BY <1>4, <1>8, <1>10, <1>14, <1>15

\* The server takes one field more.
LEMMA FlowRead ==
    ASSUME NEW version \in Nat, version >= 40, NEW f \in [Threads -> Payloads],
           NEW order \in Seq(Threads), NEW m \in 0..Len(order), NEW req \in Seq(Values),
           wire \in Bytes, NEW z \in Bytes,
           Flowing(version, f, order, m, req, Cat(wire, z)), Len(req) < 13,
           NEW got, got = readField(Grammar[Len(req) + 1]), got.used > 0
    PROVE  /\ Append(req, got.value) \in Seq(Values)
           /\ SubSeq(wire, got.used + 1, Len(wire)) \in Bytes
           /\ Flowing(version, f, order, m, Append(req, got.value),
                      Cat(SubSeq(wire, got.used + 1, Len(wire)), z))
<1>1. PICK w, k, p : w = wire /\ k = Len(req) /\ p = f[order[m + 1]]
    OBVIOUS
<1>2. w \in Bytes /\ k \in 0..12
  <2>1. Len(req) \in Nat
    OBVIOUS
  <2>0. \A i \in Nat : i < 13 => i \in 0..12
    OBVIOUS
  <2>2. Len(req) \in 0..12
    BY <2>0, <2>1, Zenon
  <2> QED
    BY <1>1, <2>2
<1>3. Cat(w, z) # <<>> \/ Len(req) > 0
  <2> SUFFICES ASSUME k = 0 PROVE Cat(w, z) # <<>>
    BY <1>1, <1>2
  <2>1. got = readByte(w)
    BY <1>1, SMTT(30) DEF readField, Grammar
  <2>2. w # <<>>
    BY <2>1 DEF readByte, TooShort
  <2>3. Len(w) \in Nat \ {0} /\ Len(z) \in Nat
    BY <1>2, <2>2 DEF Bytes
  <2>4. Len(Cat(w, z)) # 0
    BY <1>2, <2>3, CatType
  <2> QED
    BY <2>4
<1>4. /\ m + 1 \in 1..Len(order) /\ p \in Payloads
      /\ \A i \in 1..k : req[i] = FieldValues(version, p)[i]
      /\ \E c, s : /\ Chained(c, Frames(version, f, order)) /\ c[m + 2] \in Bytes
                   /\ Chained(s, FieldBytes(version, p))
                   /\ Cat(w, z) = Cat(s[k + 1], c[m + 2])
  <2>1. Within(version, f, order, m, req, Cat(wire, z))
    BY <1>1, <1>3, FlowWithin
  <2> QED
    BY <1>1, <2>1 DEF Within
<1>5. PICK c, s : /\ Chained(c, Frames(version, f, order)) /\ c[m + 2] \in Bytes
                  /\ Chained(s, FieldBytes(version, p))
                  /\ Cat(w, z) = Cat(s[k + 1], c[m + 2])
    BY <1>4
<1>6. PICK b, v : b = FieldBytes(version, p)[k + 1] /\ v = FieldValues(version, p)[k + 1]
    OBVIOUS
<1>7. k + 1 \in 1..13 /\ k + 2 \in 1..14 /\ (k + 1) + 1 = k + 2
    BY <1>2
<1>8. b \in Bytes /\ s[k + 2] \in Bytes /\ s[k + 1] = Cat(b, s[k + 2])
  <2>1. b \in Bytes
    BY <1>4, <1>6, <1>7, FieldBytesType
  <2>2. s \in [1..14 -> Bytes] /\ s[k + 1] = Cat(FieldBytes(version, p)[k + 1], s[(k + 1) + 1])
    BY <1>4, <1>5, <1>7, FieldChain
  <2> QED
    BY <1>6, <1>7, <2>1, <2>2
<1>9. PICK y : y = Cat(s[k + 2], c[m + 2])
    OBVIOUS
<1>10. y \in Bytes /\ Cat(w, z) = Cat(b, y)
  <2>1. y \in Bytes
    BY <1>5, <1>8, <1>9, CatType
  <2>2. Cat(Cat(b, s[k + 2]), c[m + 2]) = Cat(b, Cat(s[k + 2], c[m + 2]))
    BY <1>5, <1>8, CatAssociative
  <2> QED
    BY <1>5, <1>8, <1>9, <2>1, <2>2
<1>11. Reads(got, w, v, b)
  <2>1. Cat(wire, z) = Cat(FieldBytes(version, p)[k + 1], y)
    BY <1>1, <1>6, <1>10
  <2>2. Reads(readField(Grammar[k + 1]), wire, FieldValues(version, p)[k + 1],
              FieldBytes(version, p)[k + 1])
    BY <1>4, <1>7, <1>10, <2>1, FieldRead
  <2> QED
    BY <1>1, <1>6, <2>2
<1>12. got.value = v /\ got.used = Len(b) /\ Len(b) <= Len(w)
    BY <1>11 DEF Reads
<1>13. PICK w1 : w1 = SubSeq(w, Len(b) + 1, Len(w))
    OBVIOUS
<1>14. w1 \in Bytes /\ Cat(w1, z) = y
    BY <1>2, <1>8, <1>10, <1>12, <1>13, CatRest
<1>15. v \in Values
  <2>1. /\ p.id \in Unsigned /\ p.opcode \in Nat /\ p.cache \in Arrays
        /\ p.flags \in Unsigned /\ p.intelligence \in Nat
        /\ p.topology \in Unsigned /\ p.key \in Arrays /\ p.version \in Longs
    BY <1>4, PayloadParts
  <2>2. p.id \in Int /\ p.flags \in Int /\ p.topology \in Int /\ p.version \in Int
    <3>1. p.id \in Int /\ p.flags \in Int /\ p.topology \in Int
      BY <2>1, Sizes
    <3>2. p.version \in Int
      BY <2>1 DEF Longs
    <3> QED
      BY <3>1, <3>2
  <2>3. p.cache \in Bytes /\ p.key \in Bytes
    BY <2>1 DEF Arrays
  <2>4. PICK t : t = FieldValues(version, p)
    OBVIOUS
  <2>5. t \in Seq(Values) /\ Len(t) = 13
    <3>1. /\ p.id \in Values /\ version \in Values /\ p.opcode \in Values /\ p.cache \in Values
          /\ p.flags \in Values /\ p.intelligence \in Values /\ p.topology \in Values
          /\ p.key \in Values /\ p.version \in Values
      BY <2>1, <2>2, <2>3, SMTT(30) DEF Values
    <3>2. REQUEST_MAGIC \in Values /\ 0 \in Values
      BY DEF Values, REQUEST_MAGIC
    <3> QED
      BY <2>4, <3>1, <3>2 DEF FieldValues
  <2>6. \A i \in 1..Len(t) : t[i] \in Values
    BY <2>5, ElementOfSeq
  <2> QED
    BY <1>6, <1>7, <2>4, <2>5, <2>6
<1>16. PICK r1 : r1 = Append(req, v)
    OBVIOUS
<1>17. /\ r1 \in Seq(Values) /\ Len(r1) = k + 1 /\ r1[k + 1] = v
       /\ \A i \in 1..k : r1[i] = req[i]
    BY <1>1, <1>15, <1>16
<1>18. \A i \in 1..Len(r1) : r1[i] = FieldValues(version, p)[i]
  <2> SUFFICES ASSUME NEW i \in 1..Len(r1) PROVE r1[i] = FieldValues(version, p)[i]
    OBVIOUS
  <2>1. i \in 1..k \/ i = k + 1
    BY <1>2, <1>17
  <2> QED
    BY <1>4, <1>6, <1>17, <2>1
<1>19. Len(r1) \in 1..13 /\ Len(r1) + 1 = k + 2 /\ m < Len(order)
    BY <1>4, <1>7, <1>17
<1>20. Flowing(version, f, order, m, r1, Cat(w1, z))
    BY <1>1, <1>5, <1>9, <1>14, <1>18, <1>19 DEF Flowing
<1> QED
    BY <1>1, <1>12, <1>13, <1>14, <1>16, <1>17, <1>20

\* The server has all of a request, and goes on to the next.
LEMMA FlowDone ==
    ASSUME NEW version \in Nat, version >= 40, NEW f \in [Threads -> Payloads],
           NEW order \in Seq(Threads), NEW m \in 0..Len(order), NEW req, NEW stream,
           Flowing(version, f, order, m, req, stream), Len(req) = 13
    PROVE  /\ m + 1 \in 1..Len(order) /\ AsPayload(req) = f[order[m + 1]]
           /\ Flowing(version, f, order, m + 1, <<>>, stream)
<1>1. PICK p : p = f[order[m + 1]]
    OBVIOUS
<1>2. (stream # <<>> \/ Len(req) > 0) /\ Len(req) + 1 = 14
    OBVIOUS
<1>3. /\ m + 1 \in 1..Len(order) /\ p \in Payloads
      /\ \A i \in 1..Len(req) : req[i] = FieldValues(version, p)[i]
      /\ \E c, s : /\ Chained(c, Frames(version, f, order)) /\ c[m + 2] \in Bytes
                   /\ Chained(s, FieldBytes(version, p))
                   /\ stream = Cat(s[Len(req) + 1], c[m + 2])
  <2>1. Within(version, f, order, m, req, stream)
    BY <1>2, FlowWithin
  <2> QED
    BY <1>1, <2>1 DEF Within
<1>4. PICK c, s : /\ Chained(c, Frames(version, f, order)) /\ c[m + 2] \in Bytes
                  /\ Chained(s, FieldBytes(version, p))
                  /\ stream = Cat(s[14], c[m + 2])
    BY <1>2, <1>3
<1>5. s[14] = <<>>
    BY <1>3, <1>4, FieldChain
<1>6. stream = c[m + 2]
    BY <1>4, <1>5, CatEmpty
<1>7. (m + 1) + 1 = m + 2
    OBVIOUS
<1>8. Flowing(version, f, order, m + 1, <<>>, stream)
    BY <1>4, <1>6, <1>7 DEF Flowing
<1>9. AsPayload(req) = p
  <2>1. \A i \in 1..13 : req[i] = FieldValues(version, p)[i]
    BY <1>3
  <2>2. /\ req[2] = p.id /\ req[4] = p.opcode /\ req[5] = p.cache /\ req[6] = p.flags
        /\ req[7] = p.intelligence /\ req[8] = p.topology /\ req[12] = p.key
        /\ req[13] = p.version
    BY <2>1 DEF FieldValues
  <2>3. p \in [id : Unsigned, opcode : Nat, cache : Bytes, flags : Unsigned,
               intelligence : Nat, topology : Unsigned, key : Bytes, version : Int]
    BY <1>3, PayloadParts
  <2>4. p = [id |-> p.id, opcode |-> p.opcode, cache |-> p.cache, flags |-> p.flags,
             intelligence |-> p.intelligence, topology |-> p.topology, key |-> p.key,
             version |-> p.version]
    BY <2>3
  <2> QED
    BY <2>2, <2>4 DEF AsPayload
<1> QED
    BY <1>1, <1>3, <1>8, <1>9

-----------------------------------------------------------------------------
(* The stream of responses *)

\* The read thread takes one group of a vInt.
LEMMA GroupStep ==
    ASSUME NEW u \in Unsigned, NEW b \in Bytes, NEW x \in Bytes, NEW y \in Bytes, Len(b) = 1,
           Cat(b, x) = Cat(writeVInt[u], y), NEW v \in Nat, NEW size \in Nat, v < size,
           NEW got, Partly(got, u, v)
    PROVE  /\ b[1] >= Base =>
                 \E u1 \in Unsigned : /\ Partly(addGroup(got, b[1], size), u1, v)
                                      /\ x = Cat(writeVInt[u1], y)
           /\ b[1] < Base => addGroup(got, b[1], size).result = v /\ x = y
<1>1. u \in Nat /\ Base \in Nat /\ Base >= 2
    BY Sizes
<1>2. CASE u < Base
  <2>1. PICK w : w = <<u>>
    OBVIOUS
  <2>2. w \in Bytes /\ Len(w) = 1 /\ w[1] = u
    BY <1>1, <2>1 DEF Bytes
  <2>3. writeVInt[u] = w /\ u % Base = u
    BY <1>2, <2>1, VIntStep
  <2>4. b = w /\ x = y
    BY <2>2, <2>3, CatWhole
  <2>5. addGroup(got, b[1], size).result = v
    <3>1. PICK g : g = b[1]
      OBVIOUS
    <3>2. g % Base = u % Base
      BY <2>2, <2>4, <3>1
    <3>3. addGroup(got, g, size).result = v
      BY <1>1, <1>2, <3>2, GroupAdded
    <3> QED
      BY <3>1, <3>3
  <2>6. ~(b[1] >= Base)
    BY <1>1, <1>2, <2>2, <2>4
  <2> QED
    BY <2>4, <2>5, <2>6
<1>3. CASE ~(u < Base)
  <2>1. u >= Base
    BY <1>1, <1>3
  <2>2. PICK g, q, w, t : /\ g = (u % Base) + Base /\ q = u \div Base /\ w = <<g>>
                          /\ t = writeVInt[q]
    OBVIOUS
  <2>3. /\ q \in Unsigned /\ t \in Bytes /\ g \in Nat /\ g >= Base /\ g % Base = u % Base
        /\ writeVInt[u] = Cat(w, t)
    BY <2>1, <2>2, VIntStep DEF Cat
  <2>4. w \in Bytes /\ Len(w) = 1 /\ w[1] = g
    BY <2>2, <2>3 DEF Bytes
  <2>5. Cat(t, y) \in Bytes /\ Cat(b, x) = Cat(w, Cat(t, y))
    BY <2>3, <2>4, CatType, CatAssociative
  <2>6. b = w /\ x = Cat(t, y)
    BY <2>4, <2>5, CatWhole
  <2>7. Partly(addGroup(got, b[1], size), q, v)
    BY <1>1, <2>2, <2>3, <2>4, <2>6, GroupAdded
  <2>8. ~(b[1] < Base)
    BY <1>1, <2>3, <2>4, <2>6
  <2> QED
    BY <2>2, <2>3, <2>6, <2>7, <2>8
<1> QED
    BY <1>2, <1>3

\* todo is what the read thread still has to receive of the response to p, from the
\* field at on; got is sum, resp the fields it has, total the bytes it waits for.
Owed(p, todo, at, got, resp, total) ==
    \/ /\ at = "id" /\ resp = <<>> /\ total = 1
       /\ \E u \in Unsigned : /\ Partly(got, u, p.id)
                              /\ todo = Cat(writeVInt[u], Cat(Tail3(p), AfterTail(p)))
    \/ /\ at = "tail" /\ resp = <<p.id>> /\ total = 3
       /\ todo = Cat(Tail3(p), AfterTail(p))
    \/ /\ at = "length" /\ resp = <<p.id, p.opcode + 1>> /\ total = 1
       /\ \E u \in Unsigned : /\ Partly(got, u, Len(p.key))
                              /\ todo = Cat(writeVInt[u], Cat(p.key, writeLong(p.version)))
    \/ /\ at = "bytes" /\ resp = <<p.id, p.opcode + 1>> /\ total = Len(p.key)
       /\ todo = Cat(p.key, writeLong(p.version))
    \/ /\ at = "long" /\ resp = <<p.id, p.opcode + 1, p.key>> /\ total = LongBytes
       /\ todo = writeLong(p.version)

\* The answers to the requests ps.
Responses(ps) == [i \in 1..Len(ps) |-> writeResponse(ps[i])]

\* Of the answers to ps, the first d have been decoded and the next up to the field
\* at; in is the rest.
Arriving(ps, d, at, got, resp, total, in) ==
    \E r : /\ Chained(r, Responses(ps))
           /\ \/ at = "threw"
              \/ at = "magic" /\ resp = <<>> /\ total = 1 /\ in = r[d + 1]
              \/ /\ d < Len(ps)
                 /\ \E todo \in Bytes : /\ Owed(ps[d + 1], todo, at, got, resp, total)
                                        /\ in = Cat(todo, r[d + 2])

\* The answers are bytes, one for each request.
LEMMA ResponsesType ==
    ASSUME NEW ps \in Seq(Payloads)
    PROVE  /\ Responses(ps) \in Seq(Bytes) /\ Len(Responses(ps)) = Len(ps)
           /\ \A i \in 1..Len(ps) : Responses(ps)[i] = writeResponse(ps[i])
<1>1. ASSUME NEW i \in 1..Len(ps) PROVE writeResponse(ps[i]) \in Bytes
  <2>1. ps[i] \in Payloads
    BY ElementOfSeq
  <2> QED
    BY <2>1, ResponseIs
<1>2. Len(ps) \in Nat
    OBVIOUS
<1>3. Responses(ps) \in [1..Len(ps) -> Bytes]
    BY <1>1 DEF Responses
<1>4. \A i \in 1..Len(ps) : Responses(ps)[i] = writeResponse(ps[i])
    BY DEF Responses
<1> QED
    BY <1>2, <1>3, <1>4

\* The server puts an answer behind the others.
LEMMA ArriveGrows ==
    ASSUME NEW ps \in Seq(Payloads), NEW d \in 0..Len(ps), NEW at, NEW got, NEW resp, NEW total,
           NEW in, Arriving(ps, d, at, got, resp, total, in), NEW p \in Payloads
    PROVE  Arriving(Append(ps, p), d, at, got, resp, total, Cat(in, writeResponse(p)))
<1>1. PICK q, ps1, q1, x : /\ q = Responses(ps) /\ ps1 = Append(ps, p)
                           /\ q1 = Responses(ps1) /\ x = writeResponse(p)
    OBVIOUS
<1>2. PICK n \in Nat : n = Len(ps)
    OBVIOUS
<1>3. /\ ps1 \in Seq(Payloads) /\ Len(ps1) = n + 1 /\ ps1[n + 1] = p
      /\ \A i \in 1..n : ps1[i] = ps[i]
    BY <1>1, <1>2
<1>4. q \in Seq(Bytes) /\ Len(q) = n /\ \A i \in 1..n : q[i] = writeResponse(ps[i])
    BY <1>1, <1>2, ResponsesType
<1>5. q1 \in Seq(Bytes) /\ Len(q1) = n + 1
    BY <1>1, <1>3, ResponsesType
<1>6. \A i \in 1..(n + 1) : q1[i] = writeResponse(ps1[i])
  <2>1. \A i \in 1..Len(ps1) : Responses(ps1)[i] = writeResponse(ps1[i])
    BY <1>3, ResponsesType
  <2> QED
    BY <1>1, <1>3, <2>1
<1>7. x \in Bytes
    BY <1>1, ResponseIs
<1>8. q1[n + 1] = x /\ \A i \in 1..n : q1[i] = q[i]
    BY <1>1, <1>3, <1>4, <1>6
<1>9. PICK r : /\ Chained(r, q)
               /\ \/ at = "threw"
                  \/ at = "magic" /\ resp = <<>> /\ total = 1 /\ in = r[d + 1]
                  \/ /\ d < n
                     /\ \E todo \in Bytes : /\ Owed(ps[d + 1], todo, at, got, resp, total)
                                            /\ in = Cat(todo, r[d + 2])
    BY <1>1, <1>2 DEF Arriving
<1>10. PICK r1 : Chained(r1, q1) /\ \A i \in 1..(n + 1) : r1[i] = Cat(r[i], x)
  <2>1. Len(q1) = Len(q) + 1 /\ q1[Len(q) + 1] = x /\ \A i \in 1..Len(q) : q1[i] = q[i]
    BY <1>4, <1>5, <1>8
  <2>2. \E r1 : Chained(r1, q1) /\ GrownBy(r1, r, Len(q) + 1, x)
    BY <1>4, <1>5, <1>7, <1>9, <2>1, ChainGrows
  <2> QED
    BY <1>4, <2>2 DEF GrownBy
<1>11. d \in 0..n /\ d + 1 \in 1..(n + 1)
    BY <1>2
<1>12. CASE at = "threw"
    BY <1>1, <1>10, <1>12 DEF Arriving
<1>13. CASE at = "magic" /\ resp = <<>> /\ total = 1 /\ in = r[d + 1]
  <2>1. Cat(in, x) = r1[d + 1]
    BY <1>10, <1>11, <1>13
  <2> QED
    BY <1>1, <1>10, <1>13, <2>1 DEF Arriving
<1>14. ASSUME d < n, NEW todo \in Bytes, Owed(ps[d + 1], todo, at, got, resp, total),
              in = Cat(todo, r[d + 2])
       PROVE  Arriving(ps1, d, at, got, resp, total, Cat(in, x))
  <2>1. d + 1 \in 1..n /\ d + 2 \in 1..(n + 1) /\ d < Len(ps1)
    BY <1>3, <1>11, <1>14
  <2>2. ps1[d + 1] = ps[d + 1]
    BY <1>3, <2>1
  <2>3. r[d + 2] \in Bytes
    BY <1>4, <1>9, <2>1 DEF Chained
  <2>4. Cat(in, x) = Cat(todo, Cat(r[d + 2], x))
    BY <1>7, <1>14, <2>3, CatAssociative
  <2>5. Cat(in, x) = Cat(todo, r1[d + 2])
    BY <1>10, <2>1, <2>4
  <2> QED
    BY <1>1, <1>10, <1>14, <2>1, <2>2, <2>5 DEF Arriving
<1> QED
    BY <1>1, <1>9, <1>12, <1>13, <1>14

\* Within is Arriving when the read thread is in a response.
InAnswer(ps, d, at, got, resp, total, in) ==
    /\ d + 1 \in 1..Len(ps) /\ ps[d + 1] \in Payloads
    /\ \E r, todo : /\ Chained(r, Responses(ps)) /\ r[d + 2] \in Bytes /\ todo \in Bytes
                    /\ Owed(ps[d + 1], todo, at, got, resp, total)
                    /\ in = Cat(todo, r[d + 2])

\* Between the magic and the end, a request is being answered.
LEMMA ArriveWithin ==
    ASSUME NEW ps \in Seq(Payloads), NEW d \in 0..Len(ps), NEW at, NEW got, NEW resp, NEW total,
           NEW in, Arriving(ps, d, at, got, resp, total, in), at # "threw", at # "magic"
    PROVE  InAnswer(ps, d, at, got, resp, total, in)
<1>1. PICK r : /\ Chained(r, Responses(ps)) /\ d < Len(ps)
               /\ \E todo \in Bytes : /\ Owed(ps[d + 1], todo, at, got, resp, total)
                                      /\ in = Cat(todo, r[d + 2])
    BY DEF Arriving
<1>2. d + 1 \in 1..Len(ps) /\ d + 2 \in 1..(Len(ps) + 1)
    BY <1>1
<1>3. ps[d + 1] \in Payloads
    BY <1>2, ElementOfSeq
<1>4. r[d + 2] \in Bytes
  <2>1. PICK q : q = Responses(ps)
    OBVIOUS
  <2>2. Len(q) = Len(ps)
    BY <2>1, ResponsesType
  <2>3. r \in [1..(Len(q) + 1) -> Bytes]
    BY <1>1, <2>1 DEF Chained
  <2> QED
    BY <1>2, <2>2, <2>3
<1> QED
    BY <1>1, <1>2, <1>3, <1>4 DEF InAnswer

\* And the other way round.
LEMMA ArriveAgain ==
    ASSUME NEW ps, NEW d \in Nat, d + 1 \in 1..Len(ps), NEW r, Chained(r, Responses(ps)),
           NEW todo \in Bytes, NEW at, NEW got, NEW resp, NEW total,
           Owed(ps[d + 1], todo, at, got, resp, total), NEW in, in = Cat(todo, r[d + 2])
    PROVE  Arriving(ps, d, at, got, resp, total, in)
<1>1. d < Len(ps)
    OBVIOUS
<1> QED
    BY <1>1 DEF Arriving

\* The magic of the next response has been received.
LEMMA ArriveMagic ==
    ASSUME NEW ps \in Seq(Payloads), NEW d \in 0..Len(ps), NEW got, NEW resp, NEW b \in Bytes,
           NEW x \in Bytes, Arriving(ps, d, "magic", got, resp, Len(b), Cat(b, x))
    PROVE  Arriving(ps, d, "id", NoGroup, resp, 1, x)
<1>1. PICK q : q = Responses(ps)
    OBVIOUS
<1>2. PICK n \in Nat : n = Len(ps)
    OBVIOUS
<1>3. Len(q) = n /\ \A i \in 1..n : q[i] = writeResponse(ps[i])
    BY <1>1, <1>2, ResponsesType
<1>4. PICK r : Chained(r, q) /\ resp = <<>> /\ Len(b) = 1 /\ Cat(b, x) = r[d + 1]
    BY <1>1 DEF Arriving, Owed
<1>5. /\ r \in [1..(n + 1) -> Bytes] /\ r[n + 1] = <<>>
      /\ \A i \in 1..n : r[i] = Cat(q[i], r[i + 1])
    BY <1>3, <1>4 DEF Chained
<1>6. d # n
  <2>1. Len(Cat(b, x)) = 1 + Len(x) /\ Len(x) \in Nat /\ Len(<<>>) = 0
    BY <1>4, CatType, ByteOf
  <2>2. Cat(b, x) # <<>>
    BY <2>1
  <2> QED
    BY <1>4, <1>5, <2>2
<1>7. d + 1 \in 1..n /\ d + 2 \in 1..(n + 1) /\ (d + 1) + 1 = d + 2
    BY <1>2, <1>6
<1>8. PICK p : p = ps[d + 1]
    OBVIOUS
<1>9. p \in Payloads
    BY <1>2, <1>7, <1>8, ElementOfSeq
<1>10. PICK m, t : m = <<RESPONSE_MAGIC>> /\ t = Cat(writeVInt[p.id], Cat(Tail3(p), AfterTail(p)))
    OBVIOUS
<1>11. m \in Bytes /\ Len(m) = 1
    BY <1>10 DEF Bytes, RESPONSE_MAGIC
<1>12. p.id \in Unsigned /\ p.id \in Nat
    BY <1>9, PayloadParts, Sizes
<1>13. t \in Bytes
  <2>1. Tail3(p) \in Bytes /\ AfterTail(p) \in Bytes
    BY <1>9, ResponseIs
  <2>2. Cat(Tail3(p), AfterTail(p)) \in Bytes
    BY <2>1, CatType
  <2>3. writeVInt[p.id] \in Bytes
    BY <1>12, VIntStep
  <2> QED
    BY <1>10, <2>2, <2>3, CatType
<1>14. q[d + 1] = Cat(m, t)
    BY <1>3, <1>7, <1>8, <1>9, <1>10, ResponseIs
<1>15. r[d + 2] \in Bytes /\ r[d + 1] = Cat(Cat(m, t), r[d + 2])
    BY <1>5, <1>7, <1>14
<1>16. Cat(t, r[d + 2]) \in Bytes /\ Cat(b, x) = Cat(m, Cat(t, r[d + 2]))
  <2>1. Cat(t, r[d + 2]) \in Bytes
    BY <1>13, <1>15, CatType
  <2>2. Cat(Cat(m, t), r[d + 2]) = Cat(m, Cat(t, r[d + 2]))
    BY <1>11, <1>13, <1>15, CatAssociative
  <2> QED
    BY <1>4, <1>15, <2>1, <2>2
<1>17. x = Cat(t, r[d + 2])
    BY <1>4, <1>11, <1>16, CatWhole
<1>18. Partly(NoGroup, p.id, p.id)
    BY <1>12, NoGroupYet
<1>19. Owed(p, t, "id", NoGroup, resp, 1)
    BY <1>4, <1>10, <1>12, <1>18 DEF Owed
<1>20. /\ d \in Nat /\ d + 1 \in 1..Len(ps) /\ Chained(r, Responses(ps))
       /\ Owed(ps[d + 1], t, "id", NoGroup, resp, 1)
    BY <1>1, <1>2, <1>4, <1>7, <1>8, <1>19
<1> QED
    BY <1>13, <1>17, <1>20, ArriveAgain

\* A group of the id, or all of it.
LEMMA ArriveId ==
    ASSUME NEW ps \in Seq(Payloads), NEW d \in 0..Len(ps), NEW got, NEW resp, NEW b \in Bytes,
           NEW x \in Bytes, Arriving(ps, d, "id", got, resp, Len(b), Cat(b, x)),
           NEW sum1, sum1 = addGroup(got, b[1], VLongValues)
    PROVE  /\ b[1] >= Base => Arriving(ps, d, "id", sum1, resp, 1, x)
           /\ b[1] < Base => /\ Arriving(ps, d, "tail", NoGroup, <<sum1.result>>, 3, x)
                             /\ sum1.result \in Nat
<1>1. InAnswer(ps, d, "id", got, resp, Len(b), Cat(b, x))
    BY ArriveWithin
<1>2. PICK p : p = ps[d + 1]
    OBVIOUS
<1>3. PICK r, todo : /\ Chained(r, Responses(ps)) /\ r[d + 2] \in Bytes /\ todo \in Bytes
                     /\ Owed(p, todo, "id", got, resp, Len(b)) /\ Cat(b, x) = Cat(todo, r[d + 2])
    BY <1>1, <1>2 DEF InAnswer
<1>4. p \in Payloads /\ d + 1 \in 1..Len(ps) /\ d \in Nat
    BY <1>1, <1>2 DEF InAnswer
<1>5. PICK t : t = Cat(Tail3(p), AfterTail(p))
    OBVIOUS
<1>6. PICK u \in Unsigned : /\ Partly(got, u, p.id) /\ todo = Cat(writeVInt[u], t)
                            /\ resp = <<>> /\ Len(b) = 1
    BY <1>3, <1>5 DEF Owed
<1>7. t \in Bytes /\ writeVInt[u] \in Bytes
  <2>1. Tail3(p) \in Bytes /\ AfterTail(p) \in Bytes
    BY <1>4, ResponseIs
  <2> QED
    BY <1>5, <2>1, CatType, VIntStep
<1>8. PICK y : y = Cat(t, r[d + 2])
    OBVIOUS
<1>9. y \in Bytes /\ Cat(b, x) = Cat(writeVInt[u], y)
  <2>1. y \in Bytes
    BY <1>3, <1>7, <1>8, CatType
  <2>2. Cat(Cat(writeVInt[u], t), r[d + 2]) = Cat(writeVInt[u], y)
    BY <1>3, <1>7, <1>8, CatAssociative
  <2> QED
    BY <1>3, <1>6, <2>1, <2>2
<1>10. p.id \in Nat /\ p.id < VLongValues /\ VLongValues \in Nat
    BY <1>4, PayloadParts, Sizes
<1>11. ASSUME b[1] >= Base PROVE Arriving(ps, d, "id", sum1, resp, 1, x)
  <2>1. PICK u1 \in Unsigned : Partly(sum1, u1, p.id) /\ x = Cat(writeVInt[u1], y)
    BY <1>6, <1>9, <1>10, <1>11, GroupStep
  <2>2. PICK t1 : t1 = Cat(writeVInt[u1], t)
    OBVIOUS
  <2>3. writeVInt[u1] \in Bytes
    BY VIntStep
  <2>4. t1 \in Bytes /\ x = Cat(t1, r[d + 2])
    <3>1. Cat(Cat(writeVInt[u1], t), r[d + 2]) = Cat(writeVInt[u1], Cat(t, r[d + 2]))
      BY <1>3, <1>7, <2>3, CatAssociative
    <3>2. t1 \in Bytes
      BY <1>7, <2>2, <2>3, CatType
    <3> QED
      BY <1>8, <2>1, <2>2, <3>1, <3>2
  <2>5. Owed(p, t1, "id", sum1, resp, 1)
    BY <1>5, <1>6, <2>1, <2>2 DEF Owed
  <2> QED
    BY <1>2, <1>3, <1>4, <2>4, <2>5, ArriveAgain
<1>12. ASSUME b[1] < Base
       PROVE  Arriving(ps, d, "tail", NoGroup, <<sum1.result>>, 3, x) /\ sum1.result \in Nat
  <2>1. sum1.result = p.id /\ x = y
    BY <1>6, <1>9, <1>10, <1>12, GroupStep
  <2>2. Owed(p, t, "tail", NoGroup, <<sum1.result>>, 3)
    BY <1>5, <2>1 DEF Owed
  <2>3. Arriving(ps, d, "tail", NoGroup, <<sum1.result>>, 3, x)
    BY <1>2, <1>3, <1>4, <1>7, <1>8, <2>1, <2>2, ArriveAgain
  <2> QED
    BY <1>10, <2>1, <2>3
<1> QED
    BY <1>11, <1>12

\* What Append does to the fields of a response.
LEMMA AppendSecond ==
    ASSUME NEW a, NEW b
    PROVE  Append(<<a>>, b) = <<a, b>>
<1>1. PICK S, s, u, v : /\ S = {a, b} /\ s = <<a>> /\ u = <<a, b>>
                        /\ v = Append(s, b)
    OBVIOUS
<1>2. s \in Seq(S) /\ Len(s) = 1 /\ s[1] = a
    BY <1>1
<1>3. u \in Seq(S) /\ Len(u) = 2 /\ u[1] = a /\ u[2] = b
    BY <1>1
<1>4. b \in S
    BY <1>1
<1>5. v \in Seq(S) /\ Len(v) = 2 /\ v[1] = a /\ v[2] = b
    BY <1>1, <1>2, <1>4, AppendProperties
<1>6. 1..2 = {1, 2}
    OBVIOUS
<1>7. ASSUME NEW i \in 1..2 PROVE v[i] = u[i]
    BY <1>3, <1>5, <1>6
<1>8. v = u
    BY <1>3, <1>5, <1>7, SeqEqual
<1> QED
    BY <1>1, <1>8

\* And to two of them.
LEMMA AppendThird ==
    ASSUME NEW a, NEW b, NEW c
    PROVE  Append(<<a, b>>, c) = <<a, b, c>>
<1>1. PICK S, s, u, v : /\ S = {a, b, c} /\ s = <<a, b>> /\ u = <<a, b, c>>
                        /\ v = Append(s, c)
    OBVIOUS
<1>2. s \in Seq(S) /\ Len(s) = 2 /\ s[1] = a /\ s[2] = b
    BY <1>1
<1>3. u \in Seq(S) /\ Len(u) = 3 /\ u[1] = a /\ u[2] = b /\ u[3] = c
    BY <1>1
<1>4. c \in S
    BY <1>1
<1>5. v \in Seq(S) /\ Len(v) = 3 /\ v[1] = a /\ v[2] = b /\ v[3] = c
    BY <1>1, <1>2, <1>4, AppendProperties
<1>6. 1..3 = {1, 2, 3}
    OBVIOUS
<1>7. ASSUME NEW i \in 1..3 PROVE v[i] = u[i]
    BY <1>3, <1>5, <1>6
<1>8. v = u
    BY <1>3, <1>5, <1>7, SeqEqual
<1> QED
    BY <1>1, <1>8

\* And to three.
LEMMA AppendFourth ==
    ASSUME NEW a, NEW b, NEW c, NEW e
    PROVE  Append(<<a, b, c>>, e) = <<a, b, c, e>>
<1>1. PICK S, s, u, v : /\ S = {a, b, c, e} /\ s = <<a, b, c>> /\ u = <<a, b, c, e>>
                        /\ v = Append(s, e)
    OBVIOUS
<1>2. s \in Seq(S) /\ Len(s) = 3 /\ s[1] = a /\ s[2] = b /\ s[3] = c
    BY <1>1
<1>3. u \in Seq(S) /\ Len(u) = 4 /\ u[1] = a /\ u[2] = b /\ u[3] = c /\ u[4] = e
    BY <1>1
<1>4. e \in S
    BY <1>1
<1>5. v \in Seq(S) /\ Len(v) = 4 /\ v[1] = a /\ v[2] = b /\ v[3] = c /\ v[4] = e
    BY <1>1, <1>2, <1>4, AppendProperties
<1>6. 1..4 = {1, 2, 3, 4}
    OBVIOUS
<1>7. ASSUME NEW i \in 1..4 PROVE v[i] = u[i]
    BY <1>3, <1>5, <1>6
<1>8. v = u
    BY <1>3, <1>5, <1>7, SeqEqual
<1> QED
    BY <1>1, <1>8

\* Opcode, status and topology marker.
LEMMA ArriveTail ==
    ASSUME NEW ps \in Seq(Payloads), NEW d \in 0..Len(ps), NEW got, NEW resp, NEW b \in Bytes,
           NEW x \in Bytes, Arriving(ps, d, "tail", got, resp, Len(b), Cat(b, x))
    PROVE  Arriving(ps, d, "length", NoGroup, Append(resp, b[1]), 1, x) /\ b[1] \in Nat
<1>1. InAnswer(ps, d, "tail", got, resp, Len(b), Cat(b, x))
    BY ArriveWithin
<1>2. PICK p : p = ps[d + 1]
    OBVIOUS
<1>3. PICK r, todo : /\ Chained(r, Responses(ps)) /\ r[d + 2] \in Bytes /\ todo \in Bytes
                     /\ Owed(p, todo, "tail", got, resp, Len(b)) /\ Cat(b, x) = Cat(todo, r[d + 2])
    BY <1>1, <1>2 DEF InAnswer
<1>4. p \in Payloads /\ d + 1 \in 1..Len(ps) /\ d \in Nat
    BY <1>1, <1>2 DEF InAnswer
<1>5. PICK h, t : h = Tail3(p) /\ t = AfterTail(p)
    OBVIOUS
<1>6. resp = <<p.id>> /\ Len(b) = 3 /\ todo = Cat(h, t)
    BY <1>3, <1>5 DEF Owed
<1>7. /\ h \in Bytes /\ Len(h) = 3 /\ h[1] = p.opcode + 1 /\ t \in Bytes
      /\ t = Cat(writeVInt[Len(p.key)], Cat(p.key, writeLong(p.version)))
    BY <1>4, <1>5, ResponseIs
<1>8. Cat(t, r[d + 2]) \in Bytes
    BY <1>3, <1>7, CatType
<1>9. Cat(Cat(h, t), r[d + 2]) = Cat(h, Cat(t, r[d + 2]))
    BY <1>3, <1>7, CatAssociative
<1>10. Cat(b, x) = Cat(h, Cat(t, r[d + 2]))
    BY <1>3, <1>6, <1>9
<1>11. b = h /\ x = Cat(t, r[d + 2])
    BY <1>6, <1>7, <1>8, <1>10, CatWhole
<1>12. p.opcode \in Nat /\ p.key \in Arrays
    BY <1>4, PayloadParts
<1>13. Len(p.key) \in Unsigned /\ Len(p.key) \in Nat
    BY <1>12, ArrayWritten, Sizes
<1>14. Partly(NoGroup, Len(p.key), Len(p.key))
    BY <1>13, NoGroupYet
<1>15. Append(resp, b[1]) = <<p.id, p.opcode + 1>>
    BY <1>6, <1>7, <1>11, AppendSecond
<1>16. Owed(p, t, "length", NoGroup, Append(resp, b[1]), 1)
    BY <1>7, <1>13, <1>14, <1>15 DEF Owed
<1>17. Arriving(ps, d, "length", NoGroup, Append(resp, b[1]), 1, x)
    BY <1>2, <1>3, <1>4, <1>7, <1>11, <1>16, ArriveAgain
<1>18. b[1] \in Nat
    BY <1>7, <1>11, <1>12
<1> QED
    BY <1>17, <1>18

\* A group of the length, or all of it.
LEMMA ArriveLength ==
    ASSUME NEW ps \in Seq(Payloads), NEW d \in 0..Len(ps), NEW got, NEW resp, NEW b \in Bytes,
           NEW x \in Bytes, Arriving(ps, d, "length", got, resp, Len(b), Cat(b, x)),
           NEW sum1, sum1 = addGroup(got, b[1], VIntValues)
    PROVE  /\ b[1] >= Base => Arriving(ps, d, "length", sum1, resp, 1, x)
           /\ b[1] < Base =>
                 /\ sum1.result \in Nat
                 /\ sum1.result > 0 => Arriving(ps, d, "bytes", NoGroup, resp, sum1.result, x)
                 /\ sum1.result = 0 =>
                       Arriving(ps, d, "long", NoGroup, Append(resp, <<>>), LongBytes, x)
<1>1. InAnswer(ps, d, "length", got, resp, Len(b), Cat(b, x))
    BY ArriveWithin
<1>2. PICK p : p = ps[d + 1]
    OBVIOUS
<1>3. PICK r, todo : /\ Chained(r, Responses(ps)) /\ r[d + 2] \in Bytes /\ todo \in Bytes
                     /\ Owed(p, todo, "length", got, resp, Len(b))
                     /\ Cat(b, x) = Cat(todo, r[d + 2])
    BY <1>1, <1>2 DEF InAnswer
<1>4. p \in Payloads /\ d + 1 \in 1..Len(ps) /\ d \in Nat
    BY <1>1, <1>2 DEF InAnswer
<1>5. PICK l, t, n : l = writeLong(p.version) /\ t = Cat(p.key, l) /\ n = Len(p.key)
    OBVIOUS
<1>6. PICK u \in Unsigned : /\ Partly(got, u, n) /\ todo = Cat(writeVInt[u], t)
                            /\ resp = <<p.id, p.opcode + 1>> /\ Len(b) = 1
    BY <1>3, <1>5 DEF Owed
<1>7. /\ p.key \in Arrays /\ p.key \in Bytes /\ p.version \in Longs /\ n \in Nat /\ n < VIntValues
      /\ VIntValues \in Nat
  <2>1. p.key \in Arrays /\ p.version \in Longs
    BY <1>4, PayloadParts
  <2> QED
    BY <1>5, <2>1, ByteOf, Sizes DEF Arrays
<1>8. l \in Bytes /\ t \in Bytes /\ writeVInt[u] \in Bytes
  <2>1. l \in Bytes
    BY <1>5, <1>7, LongBytesWritten
  <2> QED
    BY <1>5, <1>7, <2>1, CatType, VIntStep
<1>9. PICK y : y = Cat(t, r[d + 2])
    OBVIOUS
<1>10. y \in Bytes /\ Cat(b, x) = Cat(writeVInt[u], y)
  <2>1. y \in Bytes
    BY <1>3, <1>8, <1>9, CatType
  <2>2. Cat(Cat(writeVInt[u], t), r[d + 2]) = Cat(writeVInt[u], y)
    BY <1>3, <1>8, <1>9, CatAssociative
  <2> QED
    BY <1>3, <1>6, <2>1, <2>2
<1>11. ASSUME b[1] >= Base PROVE Arriving(ps, d, "length", sum1, resp, 1, x)
  <2>1. PICK u1 \in Unsigned : Partly(sum1, u1, n) /\ x = Cat(writeVInt[u1], y)
    BY <1>6, <1>7, <1>10, <1>11, GroupStep
  <2>2. PICK t1 : t1 = Cat(writeVInt[u1], t)
    OBVIOUS
  <2>3. writeVInt[u1] \in Bytes
    BY VIntStep
  <2>4. t1 \in Bytes /\ x = Cat(t1, r[d + 2])
    <3>1. Cat(Cat(writeVInt[u1], t), r[d + 2]) = Cat(writeVInt[u1], Cat(t, r[d + 2]))
      BY <1>3, <1>8, <2>3, CatAssociative
    <3>2. t1 \in Bytes
      BY <1>8, <2>2, <2>3, CatType
    <3> QED
      BY <1>9, <2>1, <2>2, <3>1, <3>2
  <2>5. Owed(p, t1, "length", sum1, resp, 1)
    BY <1>5, <1>6, <2>1, <2>2 DEF Owed
  <2> QED
    BY <1>2, <1>3, <1>4, <2>4, <2>5, ArriveAgain
<1>12. ASSUME b[1] < Base PROVE sum1.result = n /\ x = y
    BY <1>6, <1>7, <1>10, <1>12, GroupStep
<1>13. ASSUME x = y PROVE Arriving(ps, d, "bytes", NoGroup, resp, n, x)
  <2>1. Owed(p, t, "bytes", NoGroup, resp, n)
    BY <1>5, <1>6 DEF Owed
  <2> QED
    BY <1>2, <1>3, <1>4, <1>8, <1>9, <1>13, <2>1, ArriveAgain
<1>14. ASSUME x = y, n = 0
       PROVE  Arriving(ps, d, "long", NoGroup, Append(resp, <<>>), LongBytes, x)
  <2>1. p.key = <<>>
    BY <1>5, <1>7, <1>14, EmptySeq DEF Bytes
  <2>2. t = l
    BY <1>5, <1>8, <2>1, CatEmpty
  <2>3. Append(resp, <<>>) = <<p.id, p.opcode + 1, p.key>>
    BY <1>6, <2>1, AppendThird
  <2>4. Owed(p, l, "long", NoGroup, Append(resp, <<>>), LongBytes)
    BY <1>5, <2>3 DEF Owed
  <2> QED
    BY <1>2, <1>3, <1>4, <1>8, <1>9, <1>14, <2>2, <2>4, ArriveAgain
<1>15. ASSUME b[1] < Base
       PROVE  /\ sum1.result \in Nat
              /\ sum1.result > 0 => Arriving(ps, d, "bytes", NoGroup, resp, sum1.result, x)
              /\ sum1.result = 0 =>
                       Arriving(ps, d, "long", NoGroup, Append(resp, <<>>), LongBytes, x)
    BY <1>7, <1>12, <1>13, <1>14, <1>15
<1> QED
    BY <1>11, <1>15

\* The bytes of the array.
LEMMA ArriveBytes ==
    ASSUME NEW ps \in Seq(Payloads), NEW d \in 0..Len(ps), NEW got, NEW resp, NEW b \in Bytes,
           NEW x \in Bytes, Arriving(ps, d, "bytes", got, resp, Len(b), Cat(b, x))
    PROVE  Arriving(ps, d, "long", NoGroup, Append(resp, b), LongBytes, x)
<1>1. InAnswer(ps, d, "bytes", got, resp, Len(b), Cat(b, x))
    BY ArriveWithin
<1>2. PICK p : p = ps[d + 1]
    OBVIOUS
<1>3. PICK r, todo : /\ Chained(r, Responses(ps)) /\ r[d + 2] \in Bytes /\ todo \in Bytes
                     /\ Owed(p, todo, "bytes", got, resp, Len(b))
                     /\ Cat(b, x) = Cat(todo, r[d + 2])
    BY <1>1, <1>2 DEF InAnswer
<1>4. p \in Payloads /\ d + 1 \in 1..Len(ps) /\ d \in Nat
    BY <1>1, <1>2 DEF InAnswer
<1>5. PICK l : l = writeLong(p.version)
    OBVIOUS
<1>6. resp = <<p.id, p.opcode + 1>> /\ Len(b) = Len(p.key) /\ todo = Cat(p.key, l)
    BY <1>3, <1>5 DEF Owed
<1>7. p.key \in Bytes /\ l \in Bytes
    BY <1>4, <1>5, PayloadParts, LongBytesWritten DEF Arrays
<1>8. Cat(l, r[d + 2]) \in Bytes
    BY <1>3, <1>7, CatType
<1>9. Cat(Cat(p.key, l), r[d + 2]) = Cat(p.key, Cat(l, r[d + 2]))
    BY <1>3, <1>7, CatAssociative
<1>10. Cat(b, x) = Cat(p.key, Cat(l, r[d + 2]))
    BY <1>3, <1>6, <1>9
<1>11. b = p.key /\ x = Cat(l, r[d + 2])
    BY <1>6, <1>7, <1>8, <1>10, CatWhole
<1>12. Append(resp, b) = <<p.id, p.opcode + 1, p.key>>
    BY <1>6, <1>11, AppendThird
<1>13. Owed(p, l, "long", NoGroup, Append(resp, b), LongBytes)
    BY <1>5, <1>12 DEF Owed
<1> QED
    BY <1>2, <1>3, <1>4, <1>7, <1>11, <1>13, ArriveAgain

\* The long: the response is complete, and the next one may begin.
LEMMA ArriveLong ==
    ASSUME NEW ps \in Seq(Payloads), NEW d \in 0..Len(ps), NEW got, NEW resp, NEW b \in Bytes,
           NEW x \in Bytes, Arriving(ps, d, "long", got, resp, Len(b), Cat(b, x))
    PROVE  /\ d + 1 \in 1..Len(ps)
           /\ Append(resp, longValue(b)) = Answer(ps[d + 1])
           /\ longValue(b) \in Int
           /\ Arriving(ps, d + 1, "magic", NoGroup, <<>>, 1, x)
<1>1. InAnswer(ps, d, "long", got, resp, Len(b), Cat(b, x))
    BY ArriveWithin
<1>2. PICK p : p = ps[d + 1]
    OBVIOUS
<1>3. PICK r, todo : /\ Chained(r, Responses(ps)) /\ r[d + 2] \in Bytes /\ todo \in Bytes
                     /\ Owed(p, todo, "long", got, resp, Len(b))
                     /\ Cat(b, x) = Cat(todo, r[d + 2])
    BY <1>1, <1>2 DEF InAnswer
<1>4. p \in Payloads /\ d + 1 \in 1..Len(ps) /\ d \in Nat
    BY <1>1, <1>2 DEF InAnswer
<1>5. resp = <<p.id, p.opcode + 1, p.key>> /\ Len(b) = LongBytes /\ todo = writeLong(p.version)
    BY <1>3 DEF Owed
<1>6. p.version \in Longs /\ p.version \in Int
    BY <1>4, PayloadParts DEF Longs
<1>7. todo \in Bytes /\ Len(todo) = Len(b)
    BY <1>5, <1>6, LongBytesWritten
<1>8. b = todo /\ x = r[d + 2]
    BY <1>3, <1>7, CatWhole
<1>9. longValue(b) = p.version
    BY <1>5, <1>6, <1>8, LongReadBack
<1>10. Append(resp, longValue(b)) = Answer(p)
    BY <1>5, <1>9, AppendFourth DEF Answer
<1>11. (d + 1) + 1 = d + 2
    BY <1>4
<1>12. Arriving(ps, d + 1, "magic", NoGroup, <<>>, 1, x)
    BY <1>3, <1>8, <1>11 DEF Arriving
<1> QED
    BY <1>2, <1>4, <1>6, <1>9, <1>10, <1>12

-----------------------------------------------------------------------------
(* The inductive invariant *)

\* Every variable holds a value of its kind, and no two threads send the same.
Typing ==
    /\ protocolVersion \in Versions
    /\ payload \in [Threads -> Payloads]
    /\ \A s, t \in Threads : s # t => payload[s] # payload[t]
    /\ pc \in [Threads -> {"idle", "built", "sending", "threw", "sent"}]
    /\ rest \in [Threads -> Bytes] /\ writeMutex \in Threads \cup {Nobody}
    /\ wire \in Bytes /\ inbox \in Bytes /\ buffer \in Bytes /\ cut \in BOOLEAN
    /\ request \in Seq(Values) /\ parsed \in Seq(Payloads)
    /\ need \in Nat /\ decoded \in Seq(Seq(Values))

\* Only the holder of writeMutex_ sends, and a frame that waits for it is whole.
Locking ==
    \A t \in Threads :
        /\ pc[t] = "sending" <=> writeMutex = t
        /\ pc[t] = "built" => rest[t] = writeRequest(protocolVersion, payload[t])

\* What the holder of writeMutex_ has not sent yet.
Unsent == IF writeMutex = Nobody THEN <<>> ELSE rest[writeMutex]

\* The threads of order have had writeMutex_ one after the other, and the server has
\* parsed the requests of the first of them.
Ordered(order) ==
    /\ order \in Seq(Threads)
    /\ \A i, j \in 1..Len(order) : order[i] = order[j] => i = j
    /\ \A i \in 1..Len(order) : pc[order[i]] \notin {"idle", "built"}
    /\ Len(parsed) <= Len(order)
    /\ \A i \in 1..Len(parsed) : parsed[i] = payload[order[i]]

\* What is on the wire and what is not sent yet are the rest of their frames.
Outgoing(order) ==
    Flowing(protocolVersion, payload, order, Len(parsed), request, Cat(wire, Unsent))

\* Some order explains what the server has parsed, and until the cut what comes.
Sending ==
    /\ \E order : Ordered(order) /\ (~cut => Outgoing(order))
    /\ cut => request = <<>>

\* What the read thread has received of a field, what the kernel holds and what a
\* cut has lost are the rest of the answers.
Incoming(lost) ==
    Arriving(parsed, Len(decoded), field, sum, response, need + Len(buffer),
             Cat(buffer, Cat(inbox, lost)))

\* What was decoded are answers to what was parsed, and more of them arrive.
Receiving ==
    /\ \E lost \in Bytes : (~cut => lost = <<>>) /\ Incoming(lost)
    /\ Len(decoded) <= Len(parsed)
    /\ \A i \in 1..Len(decoded) : decoded[i] = Answer(parsed[i])

\* Together they are inductive.
IInv == Typing /\ Locking /\ Sending /\ Receiving

-----------------------------------------------------------------------------
\* The initial states: nothing is sent, nothing is owed.
LEMMA NothingYet ==
    ASSUME Init
    PROVE  IInv
<1>1. <<>> \in Bytes /\ Len(<<>>) = 0
    BY EmptySeq DEF Bytes
<1>2. Typing
    BY <1>1, EmptySeq DEF Init, Typing
<1>3. Locking
    BY WireAssumption DEF Init, Locking
<1>4. protocolVersion \in Nat /\ protocolVersion >= 40
    BY <1>2, WireAssumption DEF Typing
<1>5. Cat(<<>>, <<>>) = <<>> /\ Cat(<<>>, Cat(<<>>, <<>>)) = <<>>
    BY <1>1, CatEmpty
<1>6. Ordered(<<>>)
    BY <1>1, EmptySeq DEF Init, Ordered
<1>7. Outgoing(<<>>)
  <2>1. PICK o, q : o = <<>> /\ q = Frames(protocolVersion, payload, o)
    OBVIOUS
  <2>2. o \in Seq(Threads) /\ Len(o) = 0
    BY <2>1, EmptySeq
  <2>3. q \in Seq(Bytes) /\ Len(q) = 0
    BY <1>2, <1>4, <2>1, <2>2, FramesType DEF Typing
  <2>4. PICK c : Chained(c, q)
    BY <2>3, ChainExists
  <2>5. c[0 + 1] = <<>>
    BY <2>3, <2>4 DEF Chained
  <2>6. Flowing(protocolVersion, payload, o, 0, <<>>, <<>>)
    BY <2>1, <2>4, <2>5 DEF Flowing
  <2>7. Unsent = <<>> /\ wire = <<>> /\ request = <<>> /\ Len(parsed) = 0
    BY <1>1 DEF Init, Unsent
  <2> QED
    BY <1>5, <2>1, <2>6, <2>7 DEF Outgoing
<1>8. Sending
    BY <1>6, <1>7 DEF Sending, Init
<1>9. Incoming(<<>>)
  <2>1. PICK ps, q : ps = <<>> /\ q = Responses(ps)
    OBVIOUS
  <2>2. ps \in Seq(Payloads) /\ Len(ps) = 0
    BY <2>1, EmptySeq
  <2>3. q \in Seq(Bytes) /\ Len(q) = 0
    BY <2>1, <2>2, ResponsesType
  <2>4. PICK c : Chained(c, q)
    BY <2>3, ChainExists
  <2>5. c[0 + 1] = <<>>
    BY <2>3, <2>4 DEF Chained
  <2>6. Arriving(ps, 0, "magic", sum, <<>>, 1, <<>>)
    BY <2>1, <2>4, <2>5 DEF Arriving
  <2>7. /\ parsed = <<>> /\ Len(decoded) = 0 /\ field = "magic" /\ response = <<>>
        /\ need + Len(buffer) = 1 /\ inbox = <<>> /\ buffer = <<>>
    BY <1>1 DEF Init
  <2> QED
    BY <1>5, <2>1, <2>6, <2>7 DEF Incoming
<1>10. Receiving
    BY <1>1, <1>9 DEF Init, Receiving
<1> QED
    BY <1>2, <1>3, <1>8, <1>10 DEF IInv

\* What holds in every state and is needed everywhere.
LEMMA Known ==
    ASSUME Typing
    PROVE  /\ protocolVersion \in Nat /\ protocolVersion >= 40
           /\ Unsent \in Bytes /\ Len(parsed) \in Nat /\ Len(decoded) \in Nat
           /\ \A t \in Threads : payload[t] \in Payloads
<1>1. protocolVersion \in Nat /\ protocolVersion >= 40
    BY WireAssumption DEF Typing
<1>2. Unsent \in Bytes
    BY EmptySeq DEF Typing, Unsent, Bytes
<1> QED
    BY <1>1, <1>2 DEF Typing

-----------------------------------------------------------------------------
(* The callers *)

\* send() takes parts of a frame, so its variables stay what they are.
LEMMA SenderTyping ==
    ASSUME IInv, NEW t \in Threads, Sender(t)
    PROVE  Typing'
<1>1. Typing
    BY DEF IInv
<1>2. /\ protocolVersion' = protocolVersion /\ payload' = payload /\ inbox' = inbox /\ cut' = cut
      /\ buffer' = buffer /\ request' = request /\ parsed' = parsed /\ need' = need
      /\ decoded' = decoded
    BY DEF Sender, readerVars
<1>3. SUFFICES /\ pc' \in [Threads -> {"idle", "built", "sending", "threw", "sent"}]
               /\ rest' \in [Threads -> Bytes] /\ writeMutex' \in Threads \cup {Nobody}
               /\ wire' \in Bytes
    BY <1>1, <1>2 DEF Typing
<1>4. CASE Build(t)
  <2>1. writeRequest(protocolVersion, payload[t]) \in Bytes
    BY <1>1, Known, FrameType
  <2> QED
    BY <1>1, <1>4, <2>1 DEF Typing, Build
<1>5. CASE LockWrite(t)
    BY <1>1, <1>5 DEF Typing, LockWrite
<1>6. CASE SendSome(t)
  <2>1. PICK n \in 1..Len(rest[t]) :
            /\ wire' = IF cut THEN wire ELSE wire \o SubSeq(rest[t], 1, n)
            /\ rest' = [rest EXCEPT ![t] = SubSeq(rest[t], n + 1, Len(rest[t]))]
    BY <1>6 DEF SendSome
  <2>2. PICK a : a = rest[t]
    OBVIOUS
  <2>3. a \in Bytes /\ n \in 0..Len(a) /\ wire \in Bytes
    BY <1>1, <2>1, <2>2 DEF Typing
  <2>4. SubSeq(a, 1, n) \in Bytes /\ SubSeq(a, n + 1, Len(a)) \in Bytes
    BY <2>3, CatParts
  <2>5. Cat(wire, SubSeq(a, 1, n)) \in Bytes
    BY <2>3, <2>4, CatType
  <2>6. wire' \in Bytes
    BY <2>1, <2>2, <2>3, <2>5 DEF Cat
  <2>7. rest' \in [Threads -> Bytes]
    BY <1>1, <2>1, <2>2, <2>4 DEF Typing
  <2> QED
    BY <1>1, <1>6, <2>6, <2>7 DEF Typing, SendSome
<1>7. CASE SendThrows(t)
    BY <1>1, <1>7 DEF Typing, SendThrows
<1>8. CASE UnlockWrite(t)
    BY <1>1, <1>8 DEF Typing, UnlockWrite
<1> QED
    BY <1>4, <1>5, <1>6, <1>7, <1>8 DEF Sender

\* writeMutex_ changes hands only by LockWrite and the two ways to leave send().
LEMMA SenderLocking ==
    ASSUME IInv, NEW t \in Threads, Sender(t)
    PROVE  Locking'
<1>1. Typing /\ Locking
    BY DEF IInv
<1>2. protocolVersion' = protocolVersion /\ payload' = payload
    BY DEF Sender
<1>3. Nobody \notin Threads
    BY WireAssumption
<1>4. CASE Build(t)
    BY <1>1, <1>2, <1>3, <1>4 DEF Typing, Locking, Build
<1>5. CASE LockWrite(t)
    BY <1>1, <1>2, <1>3, <1>5 DEF Typing, Locking, LockWrite
<1>6. CASE SendSome(t)
  <2>1. pc' = pc /\ writeMutex' = writeMutex /\ pc[t] = "sending"
    BY <1>6 DEF SendSome
  <2>2. ASSUME NEW s \in Threads, s # t PROVE rest'[s] = rest[s]
    BY <1>1, <1>6, <2>2 DEF Typing, SendSome
  <2> QED
    BY <1>1, <1>2, <2>1, <2>2 DEF Locking
<1>7. CASE SendThrows(t)
    BY <1>1, <1>2, <1>3, <1>7 DEF Typing, Locking, SendThrows
<1>8. CASE UnlockWrite(t)
    BY <1>1, <1>2, <1>3, <1>8 DEF Typing, Locking, UnlockWrite
<1> QED
    BY <1>4, <1>5, <1>6, <1>7, <1>8 DEF Sender

\* The order stays while no thread goes back before its turn.
LEMMA OrderKept ==
    ASSUME NEW order, Ordered(order), payload' = payload, parsed' = parsed,
           \A s \in Threads : pc[s] \notin {"idle", "built"} => pc'[s] \notin {"idle", "built"}
    PROVE  Ordered(order)'
<1>1. ASSUME NEW i \in 1..Len(order) PROVE pc'[order[i]] \notin {"idle", "built"}
  <2>1. order \in Seq(Threads)
    BY DEF Ordered
  <2>2. order[i] \in Threads
    BY <2>1, ElementOfSeq
  <2> QED
    BY <2>2 DEF Ordered
<1> QED
    BY <1>1 DEF Ordered

\* What is to come is the same while nothing of it changes.
LEMMA OutgoingKept ==
    ASSUME NEW order, Outgoing(order), payload' = payload, parsed' = parsed,
           protocolVersion' = protocolVersion, request' = request,
           Cat(wire', Unsent') = Cat(wire, Unsent)
    PROVE  Outgoing(order)'
BY DEF Outgoing

\* A thread that gets writeMutex_ comes behind all the others.
LEMMA OrderGrows ==
    ASSUME Typing, NEW order, Ordered(order), NEW t \in Threads, LockWrite(t),
           payload' = payload, parsed' = parsed
    PROVE  Ordered(Append(order, t))'
<1>1. PICK o1 : o1 = Append(order, t)
    OBVIOUS
<1>2. PICK n \in Nat : n = Len(order)
    BY DEF Ordered
<1>3. /\ o1 \in Seq(Threads) /\ Len(o1) = n + 1 /\ o1[n + 1] = t
      /\ \A i \in 1..n : o1[i] = order[i]
    BY <1>1, <1>2 DEF Ordered
<1>4. ASSUME NEW i \in 1..n PROVE order[i] \in Threads /\ pc[order[i]] \notin {"idle", "built"}
  <2>1. order \in Seq(Threads)
    BY DEF Ordered
  <2>2. order[i] \in Threads
    BY <1>2, <2>1, ElementOfSeq
  <2> QED
    BY <1>2, <2>2 DEF Ordered
<1>5. ASSUME NEW i \in 1..n PROVE order[i] # t
    BY <1>4 DEF LockWrite
<1>6. ASSUME NEW i \in 1..(n + 1) PROVE pc'[o1[i]] \notin {"idle", "built"}
  <2>1. CASE i = n + 1
    BY <1>3, <2>1 DEF LockWrite, Typing
  <2>2. CASE i \in 1..n
    BY <1>3, <1>4, <1>5, <2>2 DEF LockWrite, Typing
  <2> QED
    BY <2>1, <2>2
<1>7. ASSUME NEW i \in 1..(n + 1), NEW j \in 1..(n + 1), o1[i] = o1[j] PROVE i = j
  <2>1. CASE i = n + 1 /\ j \in 1..n
    BY <1>3, <1>5, <1>7, <2>1
  <2>2. CASE j = n + 1 /\ i \in 1..n
    BY <1>3, <1>5, <1>7, <2>2
  <2>3. CASE i \in 1..n /\ j \in 1..n
    BY <1>2, <1>3, <1>7, <2>3 DEF Ordered
  <2> QED
    BY <2>1, <2>2, <2>3
<1>8. Len(parsed) \in Nat /\ Len(parsed) <= n
    BY <1>2 DEF Typing, Ordered
<1>9. ASSUME NEW i \in 1..Len(parsed) PROVE parsed[i] = payload[o1[i]]
    BY <1>2, <1>3, <1>8 DEF Ordered
<1>10. Len(parsed) <= n + 1
    BY <1>8
<1> QED
    BY <1>1, <1>3, <1>6, <1>7, <1>9, <1>10 DEF Ordered

\* LockWrite appends a frame to the stream; send() moves bytes from hand to wire.
LEMMA SenderSending ==
    ASSUME IInv, NEW t \in Threads, Sender(t)
    PROVE  Sending'
<1>1. Typing /\ Locking /\ Sending
    BY DEF IInv
<1>2. /\ protocolVersion' = protocolVersion /\ payload' = payload /\ cut' = cut
      /\ request' = request /\ parsed' = parsed
    BY DEF Sender
<1>3. Nobody \notin Threads
    BY WireAssumption
<1>4. PICK order : Ordered(order) /\ (~cut => Outgoing(order))
    BY <1>1 DEF Sending
<1>5. cut' => request' = <<>>
    BY <1>1, <1>2 DEF Sending
<1>6. ASSUME \A s \in Threads :
                 pc[s] \notin {"idle", "built"} => pc'[s] \notin {"idle", "built"},
             ~cut => Cat(wire', Unsent') = Cat(wire, Unsent)
      PROVE  Sending'
  <2>1. Ordered(order)'
    BY <1>2, <1>4, <1>6, OrderKept
  <2>2. ~cut' => Outgoing(order)'
    BY <1>2, <1>4, <1>6, OutgoingKept
  <2> QED
    BY <1>5, <2>1, <2>2 DEF Sending
<1>7. CASE Build(t)
  <2>1. \A s \in Threads : pc[s] \notin {"idle", "built"} => pc'[s] \notin {"idle", "built"}
    BY <1>1, <1>7 DEF Typing, Build
  <2>2. Unsent' = Unsent
    BY <1>1, <1>7 DEF Typing, Locking, Build, Unsent
  <2>3. Cat(wire', Unsent') = Cat(wire, Unsent)
    BY <1>7, <2>2 DEF Build
  <2> QED
    BY <1>6, <2>1, <2>3
<1>8. CASE LockWrite(t)
  <2>1. PICK o1 : o1 = Append(order, t)
    OBVIOUS
  <2>2. Ordered(o1)'
    BY <1>1, <1>2, <1>4, <1>8, <2>1, OrderGrows
  <2>3. ASSUME ~cut PROVE Outgoing(o1)'
    <3>1. PICK x : x = writeRequest(protocolVersion, payload[t])
      OBVIOUS
    <3>2. Unsent = <<>> /\ wire' = wire /\ Unsent' = x
      BY <1>1, <1>3, <1>8, <3>1 DEF LockWrite, Locking, Unsent
    <3>3. Cat(wire, <<>>) = wire
      BY <1>1, CatEmpty DEF Typing
    <3>4. /\ order \in Seq(Threads) /\ Len(parsed) \in 0..Len(order)
          /\ payload \in [Threads -> Payloads]
      BY <1>1, <1>4 DEF Typing, Ordered
    <3>5. Flowing(protocolVersion, payload, order, Len(parsed), request, wire)
      BY <1>4, <2>3, <3>2, <3>3 DEF Outgoing
    <3>6. Flowing(protocolVersion, payload, o1, Len(parsed), request, Cat(wire, x))
      BY <1>1, <2>1, <3>1, <3>4, <3>5, Known, FlowGrows
    <3> QED
      BY <1>2, <3>2, <3>6 DEF Outgoing
  <2> QED
    BY <1>2, <1>5, <2>2, <2>3 DEF Sending
<1>9. CASE SendSome(t)
  <2>1. \A s \in Threads : pc[s] \notin {"idle", "built"} => pc'[s] \notin {"idle", "built"}
    BY <1>9 DEF SendSome
  <2>2. ASSUME ~cut PROVE Cat(wire', Unsent') = Cat(wire, Unsent)
    <3>1. PICK n \in 1..Len(rest[t]) :
              /\ wire' = wire \o SubSeq(rest[t], 1, n)
              /\ rest' = [rest EXCEPT ![t] = SubSeq(rest[t], n + 1, Len(rest[t]))]
      BY <1>9, <2>2 DEF SendSome
    <3>2. PICK a, a1, a2 : a = rest[t] /\ a1 = SubSeq(a, 1, n) /\ a2 = SubSeq(a, n + 1, Len(a))
      OBVIOUS
    <3>3. a \in Bytes /\ n \in 0..Len(a) /\ wire \in Bytes
      BY <1>1, <3>1, <3>2 DEF Typing
    <3>4. a1 \in Bytes /\ a2 \in Bytes /\ Cat(a1, a2) = a
      BY <3>2, <3>3, CatParts
    <3>5. writeMutex = t /\ writeMutex' = t /\ t # Nobody
      BY <1>1, <1>3, <1>9 DEF SendSome, Locking
    <3>6. Unsent = a
      BY <3>2, <3>5 DEF Unsent
    <3>7. Unsent' = a2
      BY <1>1, <3>1, <3>2, <3>5 DEF Unsent, Typing
    <3>8. wire' = Cat(wire, a1)
      BY <3>1, <3>2 DEF Cat
    <3>9. Cat(Cat(wire, a1), a2) = Cat(wire, Cat(a1, a2))
      BY <3>3, <3>4, CatAssociative
    <3> QED
      BY <3>4, <3>6, <3>7, <3>8, <3>9
  <2> QED
    BY <1>6, <2>1, <2>2
<1>10. CASE SendThrows(t)
  <2>1. \A s \in Threads : pc[s] \notin {"idle", "built"} => pc'[s] \notin {"idle", "built"}
    BY <1>1, <1>10 DEF Typing, SendThrows
  <2>2. cut
    BY <1>10 DEF SendThrows
  <2> QED
    BY <1>6, <2>1, <2>2
<1>11. CASE UnlockWrite(t)
  <2>1. \A s \in Threads : pc[s] \notin {"idle", "built"} => pc'[s] \notin {"idle", "built"}
    BY <1>1, <1>11 DEF Typing, UnlockWrite
  <2>2. Unsent = <<>> /\ Unsent' = <<>> /\ wire' = wire
    BY <1>1, <1>3, <1>11 DEF UnlockWrite, Locking, Unsent
  <2> QED
    BY <1>6, <2>1, <2>2
<1> QED
    BY <1>7, <1>8, <1>9, <1>10, <1>11 DEF Sender

\* A sender does not touch what the read thread works on.
LEMMA SenderReceiving ==
    ASSUME IInv, NEW t \in Threads, Sender(t)
    PROVE  Receiving'
<1>1. /\ parsed' = parsed /\ decoded' = decoded /\ field' = field /\ sum' = sum /\ cut' = cut
      /\ response' = response /\ need' = need /\ buffer' = buffer /\ inbox' = inbox
    BY DEF Sender, readerVars
<1>2. Receiving
    BY DEF IInv
<1>3. ASSUME NEW lost \in Bytes, Incoming(lost) PROVE Incoming(lost)'
    BY <1>1, <1>3 DEF Incoming
<1> QED
    BY <1>1, <1>2, <1>3 DEF Receiving

-----------------------------------------------------------------------------
(* The server *)

\* The server takes the next field off the stream, and finds what was written.
LEMMA ServerReadStep ==
    ASSUME IInv, ServerRead
    PROVE  IInv'
<1>1. Typing /\ Locking /\ Sending /\ Receiving
    BY DEF IInv
<1>2. /\ parsed' = parsed /\ decoded' = decoded /\ field' = field /\ sum' = sum /\ cut' = cut
      /\ response' = response /\ need' = need /\ buffer' = buffer /\ inbox' = inbox
      /\ payload' = payload /\ pc' = pc /\ rest' = rest /\ writeMutex' = writeMutex
      /\ protocolVersion' = protocolVersion
    BY DEF ServerRead, readerVars, senderVars
<1>3. ~cut
    BY DEF ServerRead
<1>4. PICK order : Ordered(order) /\ Outgoing(order)
    BY <1>1, <1>3 DEF Sending
<1>5. PICK got : /\ got = readField(Grammar[Len(request) + 1]) /\ got.used > 0
                 /\ wire' = SubSeq(wire, got.used + 1, Len(wire))
                 /\ request' = Append(request, got.value)
    BY DEF ServerRead
<1>6. Len(request) < 13
  <2>1. Len(Grammar) = 13
    BY DEF Grammar
  <2> QED
    BY <2>1 DEF ServerRead
<1>7. order \in Seq(Threads) /\ Len(parsed) \in 0..Len(order) /\ payload \in [Threads -> Payloads]
    BY <1>1, <1>4 DEF Typing, Ordered
<1>8. request \in Seq(Values) /\ wire \in Bytes
    BY <1>1 DEF Typing
<1>9. /\ request' \in Seq(Values) /\ wire' \in Bytes
      /\ Flowing(protocolVersion, payload, order, Len(parsed), request', Cat(wire', Unsent))
  <2>1. Flowing(protocolVersion, payload, order, Len(parsed), request, Cat(wire, Unsent))
    BY <1>4 DEF Outgoing
  <2>2. protocolVersion \in Nat /\ protocolVersion >= 40 /\ Unsent \in Bytes
    BY <1>1, Known
  <2>3. PICK v, z : v = protocolVersion /\ z = Unsent
    OBVIOUS
  <2>4. /\ Append(request, got.value) \in Seq(Values)
        /\ SubSeq(wire, got.used + 1, Len(wire)) \in Bytes
        /\ Flowing(protocolVersion, payload, order, Len(parsed), Append(request, got.value),
                   Cat(SubSeq(wire, got.used + 1, Len(wire)), Unsent))
    BY <1>5, <1>6, <1>7, <1>8, <2>1, <2>2, FlowRead
  <2> QED
    BY <1>5, <2>4
<1>10. Typing'
    BY <1>1, <1>2, <1>9 DEF Typing
<1>11. Locking'
    BY <1>1, <1>2 DEF Locking
<1>12. Sending'
  <2>1. Unsent' = Unsent
    BY <1>2 DEF Unsent
  <2>2. Outgoing(order)'
    BY <1>2, <1>9, <2>1 DEF Outgoing
  <2>3. Ordered(order)'
    BY <1>2, <1>4, OrderKept
  <2> QED
    BY <1>2, <1>3, <2>2, <2>3 DEF Sending
<1>13. Receiving'
  <2>1. ASSUME NEW lost \in Bytes, Incoming(lost) PROVE Incoming(lost)'
    BY <1>2, <2>1 DEF Incoming
  <2> QED
    BY <1>1, <1>2, <2>1 DEF Receiving
<1> QED
    BY <1>10, <1>11, <1>12, <1>13 DEF IInv

\* All fields are there: the request is that of the next thread in order, and its
\* answer goes to the end of the other stream.
LEMMA ServerAnswerStep ==
    ASSUME IInv, ServerAnswer
    PROVE  IInv'
<1>1. Typing /\ Locking /\ Sending /\ Receiving
    BY DEF IInv
<1>2. /\ decoded' = decoded /\ field' = field /\ sum' = sum /\ cut' = cut
      /\ response' = response /\ need' = need /\ buffer' = buffer /\ wire' = wire
      /\ payload' = payload /\ pc' = pc /\ rest' = rest /\ writeMutex' = writeMutex
      /\ protocolVersion' = protocolVersion
    BY DEF ServerAnswer, readerVars, senderVars
<1>3. ~cut
    BY DEF ServerAnswer
<1>4. PICK order : Ordered(order) /\ Outgoing(order)
    BY <1>1, <1>3 DEF Sending
<1>5. PICK p, x, m : p = AsPayload(request) /\ x = writeResponse(p) /\ m = Len(parsed)
    OBVIOUS
<1>6. parsed' = Append(parsed, p) /\ inbox' = Cat(inbox, x) /\ request' = <<>>
    BY <1>5 DEF ServerAnswer, Cat
<1>7. Len(request) = 13
  <2>1. Len(Grammar) = 13
    BY DEF Grammar
  <2> QED
    BY <2>1 DEF ServerAnswer
<1>8. /\ order \in Seq(Threads) /\ m \in 0..Len(order) /\ payload \in [Threads -> Payloads]
      /\ m \in Nat
    BY <1>1, <1>4, <1>5 DEF Typing, Ordered
<1>9. /\ m + 1 \in 1..Len(order) /\ p = payload[order[m + 1]]
      /\ Flowing(protocolVersion, payload, order, m + 1, <<>>, Cat(wire, Unsent))
  <2>1. Flowing(protocolVersion, payload, order, m, request, Cat(wire, Unsent))
    BY <1>4, <1>5 DEF Outgoing
  <2>2. protocolVersion \in Nat /\ protocolVersion >= 40
    BY <1>1, Known
  <2> QED
    BY <1>5, <1>7, <1>8, <2>1, <2>2, FlowDone
<1>10. p \in Payloads
  <2>1. order[m + 1] \in Threads
    BY <1>8, <1>9, ElementOfSeq
  <2> QED
    BY <1>8, <1>9, <2>1
<1>11. x \in Bytes
    BY <1>5, <1>10, ResponseIs
<1>12. parsed \in Seq(Payloads) /\ inbox \in Bytes /\ buffer \in Bytes
    BY <1>1 DEF Typing
<1>13. /\ parsed' \in Seq(Payloads) /\ Len(parsed') = m + 1 /\ parsed'[m + 1] = p
       /\ \A i \in 1..m : parsed'[i] = parsed[i]
    BY <1>5, <1>6, <1>10, <1>12
<1>14. inbox' \in Bytes
    BY <1>6, <1>11, <1>12, CatType
<1>15. Typing'
  <2>1. request' \in Seq(Values)
    BY <1>6, EmptySeq
  <2> QED
    BY <1>1, <1>2, <1>13, <1>14, <2>1 DEF Typing
<1>16. Locking'
    BY <1>1, <1>2 DEF Locking
<1>17. Sending'
  <2>1. Unsent' = Unsent
    BY <1>2 DEF Unsent
  <2>2. Outgoing(order)'
    BY <1>2, <1>6, <1>9, <1>13, <2>1 DEF Outgoing
  <2>3. ASSUME NEW i \in 1..(m + 1) PROVE parsed'[i] = payload[order[i]]
    <3>1. CASE i = m + 1
      BY <1>9, <1>13, <3>1
    <3>2. CASE i \in 1..m
      BY <1>4, <1>5, <1>13, <3>2 DEF Ordered
    <3> QED
      BY <1>8, <3>1, <3>2
  <2>4. m + 1 <= Len(order)
    BY <1>9
  <2>5. Ordered(order)'
    BY <1>2, <1>4, <1>13, <2>3, <2>4 DEF Ordered
  <2> QED
    BY <1>2, <1>3, <2>2, <2>5 DEF Sending
<1>18. Receiving'
  <2>1. Incoming(<<>>)
    BY <1>1, <1>3 DEF Receiving
  <2>2. Cat(inbox, <<>>) = inbox /\ Cat(inbox', <<>>) = inbox'
    BY <1>12, <1>14, CatEmpty
  <2>3. PICK d, at, got, resp, total :
            /\ d = Len(decoded) /\ at = field /\ got = sum /\ resp = response
            /\ total = need + Len(buffer)
    OBVIOUS
  <2>4. Arriving(parsed, d, at, got, resp, total, Cat(buffer, inbox))
    BY <2>1, <2>2, <2>3 DEF Incoming
  <2>5. d \in 0..Len(parsed) /\ d \in Nat
    BY <1>1, <2>3 DEF Receiving, Typing
  <2>6. Arriving(parsed', d, at, got, resp, total, Cat(Cat(buffer, inbox), x))
    BY <1>5, <1>6, <1>10, <1>12, <2>4, <2>5, ArriveGrows
  <2>7. Cat(Cat(buffer, inbox), x) = Cat(buffer, inbox')
    BY <1>6, <1>11, <1>12, CatAssociative
  <2>8. Incoming(<<>>)'
    BY <1>2, <2>2, <2>3, <2>6, <2>7 DEF Incoming
  <2>9. <<>> \in Bytes
    BY EmptySeq DEF Bytes
  <2>10. ASSUME NEW i \in 1..Len(decoded) PROVE decoded[i] = Answer(parsed'[i])
    <3>1. i \in 1..m
      BY <1>5, <1>8, <2>3, <2>5
    <3> QED
      BY <1>1, <1>13, <3>1 DEF Receiving
  <2>11. Len(decoded) <= m + 1
    BY <1>5, <1>8, <2>3, <2>5
  <2> QED
    BY <1>2, <1>13, <2>8, <2>9, <2>10, <2>11 DEF Receiving, Answer
<1> QED
    BY <1>15, <1>16, <1>17, <1>18 DEF IInv

\* What the cut takes away was the end of the answers.
LEMMA CutStep ==
    ASSUME IInv, Cut
    PROVE  IInv'
<1>1. Typing /\ Locking /\ Sending /\ Receiving
    BY DEF IInv
<1>2. /\ decoded' = decoded /\ field' = field /\ sum' = sum /\ parsed' = parsed
      /\ response' = response /\ need' = need /\ buffer' = buffer
      /\ payload' = payload /\ pc' = pc /\ rest' = rest /\ writeMutex' = writeMutex
      /\ protocolVersion' = protocolVersion
    BY DEF Cut, readerVars, senderVars
<1>3. ~cut /\ cut' = TRUE /\ wire' = <<>> /\ request' = <<>>
    BY DEF Cut
<1>4. PICK n \in 0..Len(inbox) : inbox' = SubSeq(inbox, 1, n)
    BY DEF Cut
<1>5. PICK lost : lost = SubSeq(inbox, n + 1, Len(inbox))
    OBVIOUS
<1>6. inbox \in Bytes
    BY <1>1 DEF Typing
<1>7. inbox' \in Bytes /\ lost \in Bytes /\ Cat(inbox', lost) = inbox
    BY <1>4, <1>5, <1>6, CatParts
<1>8. Typing'
  <2>1. request' \in Seq(Values) /\ wire' \in Bytes
    BY <1>3, EmptySeq DEF Bytes
  <2> QED
    BY <1>1, <1>2, <1>3, <1>7, <2>1 DEF Typing
<1>9. Locking'
    BY <1>1, <1>2 DEF Locking
<1>10. Sending'
  <2>1. PICK order : Ordered(order)
    BY <1>1 DEF Sending
  <2>2. Ordered(order)'
    BY <1>2, <2>1, OrderKept
  <2> QED
    BY <1>3, <2>2 DEF Sending
<1>11. Receiving'
  <2>1. Incoming(<<>>)
    BY <1>1, <1>3 DEF Receiving
  <2>2. Cat(inbox, <<>>) = inbox
    BY <1>6, CatEmpty
  <2>3. Incoming(lost)'
    BY <1>2, <1>7, <2>1, <2>2 DEF Incoming
  <2> QED
    BY <1>1, <1>2, <1>3, <1>7, <2>3 DEF Receiving
<1> QED
    BY <1>8, <1>9, <1>10, <1>11 DEF IInv

-----------------------------------------------------------------------------
(* The read thread *)

\* It touches nothing of the senders and the server.
LEMMA ReaderSending ==
    ASSUME IInv, UNCHANGED <<senderVars, wire, cut, request, parsed>>
    PROVE  Locking' /\ Sending'
<1>1. Typing /\ Locking /\ Sending /\ Receiving
    BY DEF IInv
<1>2. /\ payload' = payload /\ pc' = pc /\ rest' = rest /\ writeMutex' = writeMutex
      /\ protocolVersion' = protocolVersion /\ wire' = wire /\ cut' = cut
      /\ request' = request /\ parsed' = parsed
    BY DEF senderVars
<1>3. Locking'
    BY <1>1, <1>2 DEF Locking
<1>4. PICK order : Ordered(order) /\ (~cut => Outgoing(order))
    BY <1>1 DEF Sending
<1>5. Unsent' = Unsent
    BY <1>2 DEF Unsent
<1>6. Ordered(order)'
    BY <1>2, <1>4, OrderKept
<1>7. ~cut' => Outgoing(order)'
    BY <1>2, <1>4, <1>5, OutgoingKept
<1>8. cut' => request' = <<>>
    BY <1>1, <1>2 DEF Sending
<1>9. Sending'
    BY <1>6, <1>7, <1>8 DEF Sending
<1> QED
    BY <1>3, <1>9

\* Its variables keep their kind, and so does the rest.
LEMMA ReaderTyping ==
    ASSUME Typing, UNCHANGED <<senderVars, wire, cut, request, parsed>>,
           inbox' \in Bytes, buffer' \in Bytes, need' \in Nat, decoded' \in Seq(Seq(Values))
    PROVE  Typing'
<1>1. /\ payload' = payload /\ pc' = pc /\ rest' = rest /\ writeMutex' = writeMutex
      /\ protocolVersion' = protocolVersion /\ wire' = wire /\ cut' = cut
      /\ request' = request /\ parsed' = parsed
    BY DEF senderVars
<1> QED
    BY <1>1 DEF Typing

\* While nothing more is decoded, it is enough that the same answers are arriving.
LEMMA StillArriving ==
    ASSUME Receiving, cut' = cut, parsed' = parsed, decoded' = decoded,
           NEW lost \in Bytes, ~cut => lost = <<>>, Incoming(lost)'
    PROVE  Receiving'
BY DEF Receiving, Answer

\* The next receive() begins with an empty buffer.
LEMMA Resumed ==
    ASSUME Typing, NEW lost \in Bytes, NEW n \in Nat, need' = n, buffer' = <<>>,
           inbox' = inbox, parsed' = parsed,
           Arriving(parsed, Len(decoded'), field', sum', response', n, Cat(inbox, lost))
    PROVE  Incoming(lost)'
<1>1. PICK x : x = Cat(inbox, lost)
    OBVIOUS
<1>2. x \in Bytes
    BY <1>1, CatType DEF Typing
<1>3. Cat(<<>>, x) = x
    BY <1>2, CatEmpty
<1>4. n + 0 = n /\ Len(<<>>) = 0
    BY EmptySeq
<1> QED
    BY <1>1, <1>3, <1>4 DEF Incoming

\* What a complete field leaves to come.
LEMMA FieldComplete ==
    ASSUME Typing, Receiving, NEW f, Received(f)
    PROVE  \E lost \in Bytes :
              /\ ~cut => lost = <<>>
              /\ Cat(inbox, lost) \in Bytes
              /\ Arriving(parsed, Len(decoded), f, sum, response, Len(buffer),
                          Cat(buffer, Cat(inbox, lost)))
<1>1. PICK lost \in Bytes : (~cut => lost = <<>>) /\ Incoming(lost)
    BY DEF Receiving
<1>2. need + Len(buffer) = Len(buffer) /\ field = f
    BY DEF Received, Typing, Bytes
<1>3. Cat(inbox, lost) \in Bytes
    BY CatType DEF Typing
<1> QED
    BY <1>1, <1>2, <1>3 DEF Incoming

\* recv() moves bytes from the kernel to the buffer.
LEMMA RecvStep ==
    ASSUME IInv, Recv, UNCHANGED <<senderVars, wire, cut, request, parsed>>
    PROVE  IInv'
<1>1. Typing /\ Receiving
    BY DEF IInv
<1>2. /\ field' = field /\ sum' = sum /\ response' = response /\ decoded' = decoded
      /\ cut' = cut /\ parsed' = parsed
    BY DEF Recv
<1>3. inbox \in Bytes /\ buffer \in Bytes /\ need \in Nat
    BY <1>1 DEF Typing
<1>4. PICK n : /\ n \in 1..Min({need, Len(inbox)})
               /\ buffer' = Cat(buffer, SubSeq(inbox, 1, n))
               /\ inbox' = SubSeq(inbox, n + 1, Len(inbox))
               /\ need' = need - n
    BY DEF Recv, Cat
<1>5. n \in 0..Len(inbox) /\ n <= need
  <2>1. PICK k \in Nat : k = Len(inbox)
    BY <1>3, ByteOf
  <2>2. Min({need, k}) <= need /\ Min({need, k}) <= k /\ Min({need, k}) \in Nat
    <3>1. \E m \in {need, k} : \A j \in {need, k} : m <= j
      BY <1>3
    <3>2. /\ Min({need, k}) \in {need, k}
          /\ \A j \in {need, k} : Min({need, k}) <= j
      BY <3>1 DEF Min
    <3> QED
      BY <1>3, <3>2
  <2> QED
    BY <1>3, <1>4, <2>1, <2>2
<1>6. PICK a1, a2 : a1 = SubSeq(inbox, 1, n) /\ a2 = SubSeq(inbox, n + 1, Len(inbox))
    OBVIOUS
<1>7. a1 \in Bytes /\ a2 \in Bytes /\ Len(a1) = n /\ Cat(a1, a2) = inbox
    BY <1>3, <1>5, <1>6, CatParts
<1>8. buffer' = Cat(buffer, a1) /\ inbox' = a2
    BY <1>4, <1>6
<1>9. buffer' \in Bytes /\ Len(buffer') = Len(buffer) + n
    BY <1>3, <1>7, <1>8, CatType
<1>10. need' + Len(buffer') = need + Len(buffer) /\ need' \in Nat
  <2>1. Len(buffer) \in Nat
    BY <1>3, ByteOf
  <2> QED
    BY <1>3, <1>4, <1>5, <1>9, <2>1
<1>11. Typing'
  <2>1. decoded' \in Seq(Seq(Values)) /\ inbox' \in Bytes
    BY <1>1, <1>2, <1>7, <1>8 DEF Typing
  <2> QED
    BY <1>1, <1>9, <1>10, <2>1, ReaderTyping
<1>12. PICK lost \in Bytes : (~cut => lost = <<>>) /\ Incoming(lost)
    BY <1>1 DEF Receiving
<1>13. Cat(buffer', Cat(inbox', lost)) = Cat(buffer, Cat(inbox, lost))
  <2>1. Cat(a2, lost) \in Bytes
    BY <1>7, CatType
  <2>2. Cat(Cat(buffer, a1), Cat(a2, lost)) = Cat(buffer, Cat(a1, Cat(a2, lost)))
    BY <1>3, <1>7, <2>1, CatAssociative
  <2>3. Cat(Cat(a1, a2), lost) = Cat(a1, Cat(a2, lost))
    BY <1>7, CatAssociative
  <2> QED
    BY <1>7, <1>8, <2>2, <2>3
<1>14. Incoming(lost)'
    BY <1>2, <1>10, <1>12, <1>13 DEF Incoming
<1>15. Receiving'
    BY <1>1, <1>2, <1>12, <1>14, StillArriving
<1> QED
    BY <1>11, <1>15, ReaderSending DEF IInv

\* After the throw nothing more is read.
LEMMA RecvThrowsStep ==
    ASSUME IInv, RecvThrows, UNCHANGED <<senderVars, wire, cut, request, parsed>>
    PROVE  IInv'
<1>1. Typing /\ Receiving
    BY DEF IInv
<1>2. /\ field' = "threw" /\ sum' = sum /\ response' = response /\ decoded' = decoded
      /\ cut' = cut /\ parsed' = parsed /\ need' = need /\ buffer' = buffer /\ inbox' = inbox
    BY DEF RecvThrows
<1>3. Typing'
  <2>1. /\ inbox' \in Bytes /\ buffer' \in Bytes /\ need' \in Nat
        /\ decoded' \in Seq(Seq(Values))
    BY <1>1, <1>2 DEF Typing
  <2> QED
    BY <1>1, <2>1, ReaderTyping
<1>4. PICK lost \in Bytes : (~cut => lost = <<>>) /\ Incoming(lost)
    BY <1>1 DEF Receiving
<1>5. PICK r : Chained(r, Responses(parsed))
    BY <1>4 DEF Incoming, Arriving
<1>6. Arriving(parsed, Len(decoded), "threw", sum, response, need + Len(buffer),
               Cat(buffer, Cat(inbox, lost)))
    BY <1>5 DEF Arriving
<1>7. Incoming(lost)'
    BY <1>2, <1>6 DEF Incoming
<1>8. Receiving'
    BY <1>1, <1>2, <1>4, <1>7, StillArriving
<1> QED
    BY <1>3, <1>8, ReaderSending DEF IInv

\* A step from one field to the next, when the same answers go on arriving.
LEMMA NextField ==
    ASSUME IInv, UNCHANGED <<senderVars, wire, cut, request, parsed>>, inbox' = inbox,
           decoded' = decoded, buffer' = <<>>, NEW n \in Nat, need' = n,
           NEW lost \in Bytes, ~cut => lost = <<>>,
           Arriving(parsed, Len(decoded), field', sum', response', n, Cat(inbox, lost))
    PROVE  IInv'
<1>1. Typing /\ Receiving
    BY DEF IInv
<1>2. <<>> \in Bytes
    BY EmptySeq DEF Bytes
<1>3. Typing'
  <2>1. /\ inbox' \in Bytes /\ buffer' \in Bytes /\ need' \in Nat
        /\ decoded' \in Seq(Seq(Values))
    BY <1>1, <1>2 DEF Typing
  <2> QED
    BY <1>1, <2>1, ReaderTyping
<1>4. Incoming(lost)'
    BY <1>1, Resumed
<1>5. Receiving'
    BY <1>1, <1>4, StillArriving
<1> QED
    BY <1>3, <1>5, ReaderSending DEF IInv

\* A field is complete: the read thread takes it off the stream.
LEMMA FieldStep ==
    ASSUME IInv, UNCHANGED <<senderVars, wire, cut, request, parsed>>, inbox' = inbox,
           \/ ReadMagic \/ ReadGroup("id", VLongValues) \/ ReadId \/ ReadTail
           \/ ReadGroup("length", VIntValues) \/ ReadLength \/ ReadBytes
    PROVE  IInv'
<1>1. Typing /\ Receiving
    BY DEF IInv
<1>2. PICK ps, d, b : ps = parsed /\ d = Len(decoded) /\ b = buffer
    OBVIOUS
<1>3. ps \in Seq(Payloads) /\ d \in 0..Len(ps) /\ b \in Bytes
    BY <1>1, <1>2 DEF Typing, Receiving
<1>4. LongBytes \in Nat /\ 1 \in Nat /\ 3 \in Nat
    BY Sizes
<1>5. ASSUME NEW f, Received(f)
      PROVE  \E lost \in Bytes :
                /\ ~cut => lost = <<>>
                /\ Cat(inbox, lost) \in Bytes
                /\ Arriving(ps, d, f, sum, response, Len(b), Cat(b, Cat(inbox, lost)))
    BY <1>1, <1>2, <1>5, FieldComplete
<1>6. CASE ReadMagic
  <2>1. PICK lost \in Bytes :
            /\ ~cut => lost = <<>>
            /\ Cat(inbox, lost) \in Bytes
            /\ Arriving(ps, d, "magic", sum, response, Len(b), Cat(b, Cat(inbox, lost)))
    BY <1>5, <1>6 DEF ReadMagic
  <2>2. Arriving(ps, d, "id", NoGroup, response, 1, Cat(inbox, lost))
    BY <1>3, <2>1, ArriveMagic
  <2>3. /\ field' = "id" /\ sum' = NoGroup /\ response' = response /\ need' = 1
        /\ buffer' = <<>> /\ decoded' = decoded
    BY <1>6 DEF ReadMagic, Await
  <2> QED
    BY <1>2, <1>4, <2>1, <2>2, <2>3, NextField
<1>7. CASE ReadGroup("id", VLongValues)
  <2>1. PICK lost \in Bytes :
            /\ ~cut => lost = <<>>
            /\ Cat(inbox, lost) \in Bytes
            /\ Arriving(ps, d, "id", sum, response, Len(b), Cat(b, Cat(inbox, lost)))
    BY <1>5, <1>7 DEF ReadGroup
  <2>2. PICK sum1 : sum1 = addGroup(sum, b[1], VLongValues)
    OBVIOUS
  <2>3. b[1] >= Base /\ field = "id"
    BY <1>2, <1>7 DEF ReadGroup, Received
  <2>4. Arriving(ps, d, "id", sum1, response, 1, Cat(inbox, lost))
    BY <1>3, <2>1, <2>2, <2>3, ArriveId
  <2>5. /\ field' = "id" /\ sum' = sum1 /\ response' = response /\ need' = 1
        /\ buffer' = <<>> /\ decoded' = decoded
    BY <1>2, <1>7, <2>2, <2>3 DEF ReadGroup, Accumulated
  <2> QED
    BY <1>2, <1>4, <2>1, <2>4, <2>5, NextField
<1>8. CASE ReadId
  <2>1. PICK lost \in Bytes :
            /\ ~cut => lost = <<>>
            /\ Cat(inbox, lost) \in Bytes
            /\ Arriving(ps, d, "id", sum, response, Len(b), Cat(b, Cat(inbox, lost)))
    BY <1>5, <1>8 DEF ReadId
  <2>2. PICK sum1 : sum1 = addGroup(sum, b[1], VLongValues)
    OBVIOUS
  <2>3. b[1] < Base
    BY <1>2, <1>8 DEF ReadId
  <2>4. Arriving(ps, d, "tail", NoGroup, <<sum1.result>>, 3, Cat(inbox, lost))
    BY <1>3, <2>1, <2>2, <2>3, ArriveId
  <2>5. /\ field' = "tail" /\ sum' = NoGroup /\ response' = <<sum1.result>> /\ need' = 3
        /\ buffer' = <<>> /\ decoded' = decoded
    BY <1>2, <1>8, <2>2 DEF ReadId, Await, Accumulated
  <2> QED
    BY <1>2, <1>4, <2>1, <2>4, <2>5, NextField
<1>9. CASE ReadTail
  <2>1. PICK lost \in Bytes :
            /\ ~cut => lost = <<>>
            /\ Cat(inbox, lost) \in Bytes
            /\ Arriving(ps, d, "tail", sum, response, Len(b), Cat(b, Cat(inbox, lost)))
    BY <1>5, <1>9 DEF ReadTail
  <2>2. Arriving(ps, d, "length", NoGroup, Append(response, b[1]), 1, Cat(inbox, lost))
    BY <1>3, <2>1, ArriveTail
  <2>3. /\ field' = "length" /\ sum' = NoGroup /\ response' = Append(response, b[1]) /\ need' = 1
        /\ buffer' = <<>> /\ decoded' = decoded
    BY <1>2, <1>9 DEF ReadTail, Await
  <2> QED
    BY <1>2, <1>4, <2>1, <2>2, <2>3, NextField
<1>10. CASE ReadGroup("length", VIntValues)
  <2>1. PICK lost \in Bytes :
            /\ ~cut => lost = <<>>
            /\ Cat(inbox, lost) \in Bytes
            /\ Arriving(ps, d, "length", sum, response, Len(b), Cat(b, Cat(inbox, lost)))
    BY <1>5, <1>10 DEF ReadGroup
  <2>2. PICK sum1 : sum1 = addGroup(sum, b[1], VIntValues)
    OBVIOUS
  <2>3. b[1] >= Base /\ field = "length"
    BY <1>2, <1>10 DEF ReadGroup, Received
  <2>4. Arriving(ps, d, "length", sum1, response, 1, Cat(inbox, lost))
    BY <1>3, <2>1, <2>2, <2>3, ArriveLength
  <2>5. /\ field' = "length" /\ sum' = sum1 /\ response' = response /\ need' = 1
        /\ buffer' = <<>> /\ decoded' = decoded
    BY <1>2, <1>10, <2>2, <2>3 DEF ReadGroup, Accumulated
  <2> QED
    BY <1>2, <1>4, <2>1, <2>4, <2>5, NextField
<1>11. CASE ReadLength
  <2>1. PICK lost \in Bytes :
            /\ ~cut => lost = <<>>
            /\ Cat(inbox, lost) \in Bytes
            /\ Arriving(ps, d, "length", sum, response, Len(b), Cat(b, Cat(inbox, lost)))
    BY <1>5, <1>11 DEF ReadLength
  <2>2. PICK sum1, l : sum1 = addGroup(sum, b[1], VIntValues) /\ l = sum1.result
    OBVIOUS
  <2>3. b[1] < Base
    BY <1>2, <1>11 DEF ReadLength
  <2>4. /\ l \in Nat
        /\ l > 0 => Arriving(ps, d, "bytes", NoGroup, response, l, Cat(inbox, lost))
        /\ l = 0 => Arriving(ps, d, "long", NoGroup, Append(response, <<>>), LongBytes,
                             Cat(inbox, lost))
    BY <1>3, <2>1, <2>2, <2>3, ArriveLength
  <2>5. CASE /\ l > 0 /\ field' = "bytes" /\ sum' = NoGroup /\ response' = response /\ need' = l
             /\ buffer' = <<>> /\ decoded' = decoded
    BY <1>2, <2>1, <2>4, <2>5, NextField
  <2>6. CASE /\ l = 0 /\ field' = "long" /\ sum' = NoGroup /\ response' = Append(response, <<>>)
             /\ need' = LongBytes /\ buffer' = <<>> /\ decoded' = decoded
    BY <1>2, <1>4, <2>1, <2>4, <2>6, NextField
  <2> QED
    BY <1>2, <1>11, <2>2, <2>5, <2>6 DEF ReadLength, Await, Accumulated
<1>12. CASE ReadBytes
  <2>1. PICK lost \in Bytes :
            /\ ~cut => lost = <<>>
            /\ Cat(inbox, lost) \in Bytes
            /\ Arriving(ps, d, "bytes", sum, response, Len(b), Cat(b, Cat(inbox, lost)))
    BY <1>5, <1>12 DEF ReadBytes
  <2>2. Arriving(ps, d, "long", NoGroup, Append(response, b), LongBytes, Cat(inbox, lost))
    BY <1>3, <2>1, ArriveBytes
  <2>3. /\ field' = "long" /\ sum' = NoGroup /\ response' = Append(response, b)
        /\ need' = LongBytes /\ buffer' = <<>> /\ decoded' = decoded
    BY <1>2, <1>12 DEF ReadBytes, Await
  <2> QED
    BY <1>2, <1>4, <2>1, <2>2, <2>3, NextField
<1> QED
    BY <1>6, <1>7, <1>8, <1>9, <1>10, <1>11, <1>12

\* The last field: one more response is decoded, and it is the answer to its request.
LEMMA LastFieldStep ==
    ASSUME IInv, UNCHANGED <<senderVars, wire, cut, request, parsed>>, inbox' = inbox,
           ReadLongField
    PROVE  IInv'
<1>1. Typing /\ Receiving
    BY DEF IInv
<1>2. PICK ps, d, b, last : /\ ps = parsed /\ d = Len(decoded) /\ b = buffer
                            /\ last = Append(response, longValue(b))
    OBVIOUS
<1>3. ps \in Seq(Payloads) /\ d \in 0..Len(ps) /\ b \in Bytes /\ d \in Nat
    BY <1>1, <1>2 DEF Typing, Receiving
<1>4. PICK lost \in Bytes :
          /\ ~cut => lost = <<>>
          /\ Cat(inbox, lost) \in Bytes
          /\ Arriving(ps, d, "long", sum, response, Len(b), Cat(b, Cat(inbox, lost)))
  <2>1. Received("long")
    BY DEF ReadLongField
  <2> QED
    BY <1>1, <1>2, <2>1, FieldComplete
<1>5. /\ d + 1 \in 1..Len(ps) /\ last = Answer(ps[d + 1])
      /\ Arriving(ps, d + 1, "magic", NoGroup, <<>>, 1, Cat(inbox, lost))
  <2>1. PICK x : x = Cat(inbox, lost)
    OBVIOUS
  <2>2. x \in Bytes /\ Arriving(ps, d, "long", sum, response, Len(b), Cat(b, x))
    BY <1>4, <2>1
  <2>3. PICK got, resp : got = sum /\ resp = response
    OBVIOUS
  <2>4. Arriving(ps, d, "long", got, resp, Len(b), Cat(b, x))
    BY <2>2, <2>3
  <2>5. d + 1 \in 1..Len(ps)
    BY <1>3, <2>2, <2>4, ArriveLong
  <2>6. Append(resp, longValue(b)) = Answer(ps[d + 1])
    BY <1>3, <2>2, <2>4, ArriveLong
  <2>7. Arriving(ps, d + 1, "magic", NoGroup, <<>>, 1, x)
    BY <1>3, <2>2, <2>4, ArriveLong
  <2> QED
    BY <1>2, <2>1, <2>3, <2>5, <2>6, <2>7
<1>6. /\ decoded' = Append(decoded, last) /\ response' = <<>> /\ field' = "magic"
      /\ need' = 1 /\ buffer' = <<>> /\ sum' = NoGroup
    BY <1>2 DEF ReadLongField, Await
<1>7. last \in Seq(Values)
  <2>1. PICK p : p = ps[d + 1]
    OBVIOUS
  <2>2. p \in Payloads
    BY <1>3, <1>5, <2>1, ElementOfSeq
  <2>3. p.id \in Nat /\ p.opcode \in Nat /\ p.key \in Bytes /\ p.version \in Int
    BY <2>2, PayloadParts, Sizes DEF Arrays, Longs
  <2>4. p.id \in Values /\ p.opcode + 1 \in Values /\ p.key \in Values /\ p.version \in Values
    BY <2>3 DEF Values
  <2>5. PICK w1, w2, w3, w4 : /\ w1 = p.id /\ w2 = p.opcode + 1 /\ w3 = p.key /\ w4 = p.version
    OBVIOUS
  <2>6. <<w1, w2, w3, w4>> \in Seq(Values)
    BY <2>4, <2>5
  <2> QED
    BY <1>5, <2>1, <2>5, <2>6 DEF Answer
<1>8. decoded \in Seq(Seq(Values))
    BY <1>1 DEF Typing
<1>9. /\ decoded' \in Seq(Seq(Values)) /\ Len(decoded') = d + 1 /\ decoded'[d + 1] = last
      /\ \A i \in 1..d : decoded'[i] = decoded[i]
  <2>1. PICK S, e : S = Seq(Values) /\ e = decoded'
    OBVIOUS
  <2>2. /\ e \in Seq(S) /\ Len(e) = d + 1 /\ e[d + 1] = last
        /\ \A i \in 1..d : e[i] = decoded[i]
    BY <1>2, <1>6, <1>7, <1>8, <2>1, AppendProperties
  <2> QED
    BY <2>1, <2>2
<1>10. Typing'
  <2>1. inbox' \in Bytes /\ buffer' \in Bytes /\ need' \in Nat
    BY <1>1, <1>6, EmptySeq DEF Typing, Bytes
  <2> QED
    BY <1>1, <1>9, <2>1, ReaderTyping
<1>11. Incoming(lost)'
    BY <1>1, <1>2, <1>5, <1>6, <1>9, Resumed
<1>12. ASSUME NEW i \in 1..(d + 1) PROVE decoded'[i] = Answer(parsed[i])
  <2>1. CASE i = d + 1
    BY <1>2, <1>5, <1>9, <2>1
  <2>2. CASE i \in 1..d
    BY <1>1, <1>2, <1>9, <2>2 DEF Receiving
  <2> QED
    BY <1>3, <2>1, <2>2
<1>13. parsed' = parsed /\ cut' = cut /\ d + 1 <= Len(parsed)
    BY <1>2, <1>5
<1>14. Receiving'
    BY <1>4, <1>9, <1>11, <1>12, <1>13 DEF Receiving, Answer
<1> QED
    BY <1>10, <1>14, ReaderSending DEF IInv

\* Every step keeps the invariant.
LEMMA StepKeeps ==
    ASSUME IInv, [Next]_vars
    PROVE  IInv'
<1>1. ASSUME NEW t \in Threads, Sender(t) PROVE IInv'
    BY <1>1, SenderTyping, SenderLocking, SenderSending, SenderReceiving DEF IInv
<1>2. CASE Reader
  <2>1. UNCHANGED <<senderVars, wire, cut, request, parsed>>
    BY <1>2 DEF Reader
  <2>2. CASE Recv
    BY <2>1, <2>2, RecvStep
  <2>3. CASE RecvThrows
    BY <2>1, <2>3, RecvThrowsStep
  <2>4. ASSUME inbox' = inbox,
               \/ ReadMagic \/ ReadGroup("id", VLongValues) \/ ReadId \/ ReadTail
               \/ ReadGroup("length", VIntValues) \/ ReadLength \/ ReadBytes
        PROVE  IInv'
    BY <2>1, <2>4, FieldStep
  <2>5. ASSUME inbox' = inbox, ReadLongField PROVE IInv'
    BY <2>1, <2>5, LastFieldStep
  <2> QED
    BY <1>2, <2>2, <2>3, <2>4, <2>5 DEF Reader
<1>3. CASE UNCHANGED vars
  <2>1. /\ payload' = payload /\ pc' = pc /\ rest' = rest /\ writeMutex' = writeMutex
        /\ protocolVersion' = protocolVersion /\ wire' = wire /\ cut' = cut
        /\ request' = request /\ parsed' = parsed /\ decoded' = decoded /\ field' = field
        /\ sum' = sum /\ response' = response /\ need' = need /\ buffer' = buffer
        /\ inbox' = inbox
    BY <1>3 DEF vars, senderVars, readerVars
  <2>2. UNCHANGED <<senderVars, wire, cut, request, parsed>>
    BY <2>1 DEF senderVars
  <2>3. Typing /\ Receiving
    BY DEF IInv
  <2>4. Typing'
    BY <2>1, <2>3 DEF Typing
  <2>5. ASSUME NEW lost \in Bytes, Incoming(lost) PROVE Incoming(lost)'
    BY <2>1, <2>5 DEF Incoming
  <2>6. Receiving'
    BY <2>1, <2>3, <2>5 DEF Receiving
  <2> QED
    BY <2>2, <2>4, <2>6, ReaderSending DEF IInv
<1> QED
    BY <1>1, <1>2, <1>3, ServerReadStep, ServerAnswerStep, CutStep DEF Next

-----------------------------------------------------------------------------
\* Fields that agree with those of p are a prefix of them.
LEMMA FieldsPrefix ==
    ASSUME NEW p \in Payloads, NEW req \in Seq(Values), Len(req) \in 0..13,
           \A i \in 1..Len(req) : req[i] = FieldValues(protocolVersion, p)[i]
    PROVE  IsPrefix(req, Fields(p))
<1>1. PICK q, n : q = Fields(p) /\ n = Len(req)
    OBVIOUS
<1>2. PICK S : S = {REQUEST_MAGIC, p.id, protocolVersion, p.opcode, p.cache, p.flags,
                    p.intelligence, p.topology, 0, p.key, p.version}
    OBVIOUS
<1>3. q \in Seq(S) /\ Len(q) = 13
    BY <1>1, <1>2 DEF Fields
<1>4. q = FieldValues(protocolVersion, p)
    BY <1>1 DEF Fields, FieldValues
<1>5. n \in 0..13 /\ n \in Nat
  <2>1. n \in 0..13
    BY <1>1
  <2> QED
    BY <2>1
<1>6. PICK T : T = S \cup Values
    OBVIOUS
<1>7. PICK r : r = req
    OBVIOUS
<1>8. q \in Seq(T) /\ r \in Seq(T) /\ Len(r) = n
    BY <1>1, <1>3, <1>6, <1>7, ElementOfSeq
<1>9. PICK a, b : a = SubSeq(r, 1, n) /\ b = SubSeq(q, 1, n)
    OBVIOUS
<1>10. a \in Seq(T) /\ Len(a) = n /\ \A i \in 1..n : a[i] = r[i]
    BY <1>5, <1>8, <1>9, SubSeqProperties
<1>11. b \in Seq(T) /\ Len(b) = n /\ \A i \in 1..n : b[i] = q[i]
  <2>1. ASSUME NEW i \in 1..n PROVE q[i] \in T
    <3>1. i \in 1..13
      BY <1>5
    <3>2. i \in 1..Len(q)
      BY <1>3, <3>1
    <3>3. q \in Seq(T)
      BY <1>8
    <3> QED
      BY <3>2, <3>3, ElementOfSeq
  <2>2. \A i \in 1..n : i \in 1..(n - 1 + 1) /\ 1 + i - 1 = i
    BY <1>5
  <2> QED
    BY <1>5, <1>9, <2>1, <2>2, SubSeqProperties
<1>12. ASSUME NEW i \in 1..n PROVE a[i] = b[i]
    BY <1>1, <1>4, <1>7, <1>10, <1>11
<1>13. a = b
    BY <1>10, <1>11, <1>12, SeqEqual
<1>14. n <= Len(q)
    BY <1>3, <1>5
<1> QED
    BY <1>1, <1>7, <1>8, <1>9, <1>13, <1>14 DEF IsPrefix

\* The invariant says what the property says.
LEMMA InvariantSuffices ==
    ASSUME IInv
    PROVE  ReadAsWritten
<1>1. Typing /\ Sending /\ Receiving
    BY DEF IInv
<1>2. PICK order : Ordered(order) /\ (~cut => Outgoing(order))
    BY <1>1 DEF Sending
<1>3. /\ order \in Seq(Threads) /\ Len(parsed) \in 0..Len(order)
      /\ payload \in [Threads -> Payloads]
      /\ Len(order) \in Nat /\ Len(parsed) \in Nat
    BY <1>1, <1>2 DEF Typing, Ordered
<1>4. \E t \in Threads : IsPrefix(request, Fields(payload[t]))
  <2>1. CASE request = <<>>
    <3>1. PICK t \in Threads : TRUE
      BY WireAssumption
    <3>2. payload[t] \in Payloads
      BY <1>3
    <3>3. request \in Seq(Values) /\ Len(request) = 0 /\ Len(request) \in 0..13
      BY <1>1, <2>1, EmptySeq DEF Typing
    <3>4. \A i \in 1..Len(request) :
              request[i] = FieldValues(protocolVersion, payload[t])[i]
      BY <3>3
    <3> QED
      BY <3>2, <3>3, <3>4, FieldsPrefix
  <2>2. CASE request # <<>>
    <3>1. Outgoing(order)
      BY <1>1, <1>2, <2>2 DEF Sending
    <3>2. request \in Seq(Values) /\ Len(request) > 0
      BY <1>1, <2>2, EmptySeq DEF Typing
    <3>3. PICK m, stream : m = Len(parsed) /\ stream = Cat(wire, Unsent)
      OBVIOUS
    <3>4. Within(protocolVersion, payload, order, m, request, stream)
      <4>1. protocolVersion \in Nat /\ protocolVersion >= 40
        BY <1>1, Known
      <4>2. Flowing(protocolVersion, payload, order, m, request, stream)
        BY <3>1, <3>3 DEF Outgoing
      <4>3. stream # <<>> \/ Len(request) > 0
        BY <3>2
      <4> QED
        BY <1>3, <3>3, <4>1, <4>2, <4>3, FlowWithin
    <3>5. PICK t : t = order[m + 1]
      OBVIOUS
    <3>6. /\ m + 1 \in 1..Len(order) /\ payload[t] \in Payloads /\ Len(request) \in 0..13
          /\ \A i \in 1..Len(request) :
                request[i] = FieldValues(protocolVersion, payload[t])[i]
      BY <3>4, <3>5 DEF Within
    <3>7. t \in Threads
      BY <1>3, <3>5, <3>6, ElementOfSeq
    <3>8. IsPrefix(request, Fields(payload[t]))
      BY <3>2, <3>6, FieldsPrefix
    <3> QED
      BY <3>7, <3>8
  <2> QED
    BY <2>1, <2>2
<1>5. ASSUME NEW i \in 1..Len(parsed)
      PROVE  i \in 1..Len(order) /\ order[i] \in Threads /\ parsed[i] = payload[order[i]]
  <2>1. i \in 1..Len(order)
    BY <1>3
  <2>2. order[i] \in Threads
    BY <1>3, <2>1, ElementOfSeq
  <2> QED
    BY <1>2, <2>1, <2>2 DEF Ordered
<1>6. ASSUME NEW i \in 1..Len(parsed), NEW j \in 1..Len(parsed), parsed[i] = parsed[j]
      PROVE  i = j
  <2>1. order[i] = order[j]
    BY <1>1, <1>5, <1>6 DEF Typing
  <2> QED
    BY <1>2, <1>5, <2>1 DEF Ordered
<1>7. \A i \in 1..Len(parsed) : \E t \in Threads : parsed[i] = payload[t]
    BY <1>5
<1>8. Len(decoded) <= Len(parsed) /\ \A i \in 1..Len(decoded) : decoded[i] = Answer(parsed[i])
    BY <1>1 DEF Receiving
<1> QED
    BY <1>4, <1>6, <1>7, <1>8 DEF ReadAsWritten

\* What one side decodes is what the other encoded.
THEOREM DecodedAsEncoded == Spec => []ReadAsWritten
<1>1. Init => IInv
    BY NothingYet
<1>2. IInv /\ [Next]_vars => IInv'
    BY StepKeeps
<1>3. IInv => ReadAsWritten
    BY InvariantSuffices
<1> QED
    BY <1>1, <1>2, <1>3, PTL DEF Spec
===============================================================================
