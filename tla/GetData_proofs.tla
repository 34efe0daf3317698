----------------------------- MODULE GetData_proofs ----------------------------
(***************************************************************************)
(* What is read of a column in pieces is the value, and what is sent of a  *)
(* parameter in pieces is stored: for every table, every room and every    *)
(* length, on an exact row (Exact of GetData).                             *)
(*                                                                         *)
(* The first half is about the operators (folds over lists of segments,    *)
(* streams, digits, one conversion); the second about the machine: Sending *)
(* is inductive for writing, Inv for reading.                              *)
(***************************************************************************)
EXTENDS GetData, WellFoundedInduction, SequenceTheorems, TLAPS

-----------------------------------------------------------------------------
\* Induction over numbers, and the folds of the library
\* by it: a fold exists as the function that its equations define.

\* A set of numbers that is not empty has a least one: the order of Nat is well founded.
LEMMA LeastNumber ==
  ASSUME NEW T \in SUBSET Nat, T # {}
  PROVE \E x \in T : \A y \in T : x <= y
<1>1. PICK x \in T : \A y \in T : ~(<<y, x>> \in OpToRel(<, Nat))
  BY WFMin, NatLessThanWellFounded
<1>2. ASSUME NEW y \in T PROVE x <= y
  <2>1. x \in Nat /\ y \in Nat
    OBVIOUS
  <2>2. ~(<<y, x>> \in OpToRel(<, Nat))
    BY <1>1
  <2>3. ~(y < x)
    BY <2>1, <2>2 DEF OpToRel
  <2> QED BY <2>1, <2>3
<1> QED BY <1>2

\* Induction: a set that holds 0, and n + 1 with every n of it, holds every number.
LEMMA Induction ==
  ASSUME NEW S, 0 \in S, \A n \in Nat : n \in S => n + 1 \in S
  PROVE Nat \subseteq S
<1>1. SUFFICES ASSUME Nat \ S # {} PROVE FALSE
  OBVIOUS
<1>2. PICK x \in Nat \ S : \A y \in Nat \ S : x <= y
  BY <1>1, LeastNumber
<1>3. x # 0 /\ x - 1 \in Nat
  BY <1>2
<1>4. x - 1 \in S
  BY <1>2, <1>3
<1> QED BY <1>2, <1>3, <1>4

\* The greatest member of an interval.
LEMMA MaxOfInterval ==
  ASSUME NEW k \in Nat, NEW S \in SUBSET (1..k), k \in S
  PROVE Max(S) = k
<1>1. \A x \in S : x <= k /\ x \in Nat
  OBVIOUS
<1>2. \A y \in S : k >= y
  BY <1>1
<1>3. \A x \in S : (\A y \in S : x >= y) => x = k
  BY <1>1
<1>4. \E x \in S : \A y \in S : x >= y
  BY <1>2
<1>5. Max(S) \in S /\ \A y \in S : Max(S) >= y
  BY <1>4 DEF Max
<1> QED BY <1>3, <1>5

\* The greatest member of the domain of a sequence.
LEMMA MaxWithin ==
  ASSUME NEW k \in Nat, NEW S \in SUBSET (1..k), S # {}
  PROVE Max(S) \in S
<1> DEFINE T == {j \in Nat : \E x \in S : j = k - x}
<1>1. T \in SUBSET Nat /\ T # {}
  <2>1. PICK x \in S : TRUE
    OBVIOUS
  <2>2. x \in 1..k /\ k - x \in Nat
    OBVIOUS
  <2> QED BY <2>1, <2>2
<1>2. PICK j \in T : \A i \in T : j <= i
  BY <1>1, LeastNumber
<1>3. PICK m \in S : j = k - m
  OBVIOUS
<1>4. ASSUME NEW y \in S PROVE m >= y
  <2>1. y \in 1..k /\ m \in 1..k
    OBVIOUS
  <2>2. k - y \in T
    BY <2>1
  <2>3. j <= k - y
    BY <2>2, <1>2
  <2> QED BY <2>1, <2>3, <1>3
<1>5. \E x \in S : \A y \in S : x >= y
  BY <1>4
<1> QED BY <1>5 DEF Max

IsFold(f, n, base, step) ==
  \A S \in SUBSET (1..n) : f[S] = IF S = {} THEN base ELSE step[<<Max(S), f[S \ {Max(S)}]>>]
IsIteration(f, n, base, step) ==
  f[0] = base /\ \A i \in 1..n : f[i] = step[<<i, f[i - 1]>>]

\* A fold over the first members of a function exists: there is a function that gives each of its
\* values.
LEMMA FoldExists ==
  ASSUME NEW n \in Nat, NEW X, NEW base \in X, NEW step \in [(1..n) \X X -> X]
  PROVE  \E f \in [SUBSET (1..n) -> X] : IsFold(f, n, base, step)
<1> DEFINE Good(k, f) == \A S \in SUBSET (1..k) :
              f[S] = IF S = {} THEN base ELSE step[<<Max(S), f[S \ {Max(S)}]>>]
           Some(k) == k <= n => \E f \in [SUBSET (1..k) -> X] : Good(k, f)
           K == {k \in Nat : Some(k)}
<1>1. Some(0)
  <2> DEFINE f == [S \in SUBSET (1..0) |-> base]
  <2>1. f \in [SUBSET (1..0) -> X]
    OBVIOUS
  <2>2. \A S \in SUBSET (1..0) : S = {}
    OBVIOUS
  <2>3. Good(0, f)
    BY <2>2
  <2> HIDE DEF f
  <2> QED BY <2>1, <2>3
<1>2. ASSUME NEW k \in Nat, Some(k) PROVE Some(k + 1)
  <2> HIDE DEF Good
  <2>1. SUFFICES ASSUME k + 1 <= n PROVE \E f \in [SUBSET (1..(k + 1)) -> X] : Good(k + 1, f)
    OBVIOUS
  <2>2. PICK g \in [SUBSET (1..k) -> X] : Good(k, g)
    <3>1. k <= n
      BY <2>1
    <3> QED BY <1>2, <3>1, Zenon
  <2> USE DEF Good
  <2> DEFINE f == [S \in SUBSET (1..(k + 1)) |->
                     IF k + 1 \in S THEN step[<<k + 1, g[S \ {k + 1}]>>] ELSE g[S]]
  <2>3. \A S \in SUBSET (1..(k + 1)) : S \ {k + 1} \in SUBSET (1..k)
    OBVIOUS
  <2>4. \A S \in SUBSET (1..(k + 1)) : k + 1 \notin S => S \in SUBSET (1..k)
    OBVIOUS
  <2>5. k + 1 \in 1..n
    BY <2>1
  <2>6. ASSUME NEW S \in SUBSET (1..(k + 1)) PROVE f[S] \in X
    <3>1. CASE k + 1 \in S
      <4>1. g[S \ {k + 1}] \in X
        BY <2>3
      <4> QED BY <3>1, <4>1, <2>5
    <3>2. CASE k + 1 \notin S
      BY <3>2, <2>4
    <3> QED BY <3>1, <3>2
  <2>7. f \in [SUBSET (1..(k + 1)) -> X]
    BY <2>6
  <2>8. ASSUME NEW S \in SUBSET (1..(k + 1))
        PROVE  f[S] = IF S = {} THEN base ELSE step[<<Max(S), f[S \ {Max(S)}]>>]
    <3>1. CASE k + 1 \in S
      <4>1. Max(S) = k + 1
        BY <3>1, MaxOfInterval
      <4>2. f[S \ {k + 1}] = g[S \ {k + 1}]
        BY <2>3
      <4> QED BY <3>1, <4>1, <4>2
    <3>2. CASE k + 1 \notin S
      <4>1. S \in SUBSET (1..k) /\ f[S] = g[S]
        BY <3>2, <2>4
      <4>2. CASE S = {}
        BY <4>1, <4>2, <2>2
      <4>3. CASE S # {}
        <5>1. Max(S) \in S
          BY <4>1, <4>3, MaxWithin
        <5>2. k + 1 \notin S \ {Max(S)} /\ S \ {Max(S)} \in SUBSET (1..k)
          BY <4>1, <3>2
        <5>3. f[S \ {Max(S)}] = g[S \ {Max(S)}]
          BY <5>2
        <5>4. g[S] = step[<<Max(S), g[S \ {Max(S)}]>>]
          BY <2>2, <4>1, <4>3
        <5> QED BY <4>1, <4>3, <5>3, <5>4
      <4> QED BY <4>2, <4>3
    <3> QED BY <3>1, <3>2
  <2> HIDE DEF f
  <2> QED BY <2>7, <2>8
<1>3. Some(n)
  <2> HIDE DEF Some
  <2>1. 0 \in K /\ \A k \in Nat : k \in K => k + 1 \in K
    BY <1>1, <1>2
  <2>2. \A k \in K : Some(k)
    OBVIOUS
  <2> HIDE DEF K
  <2>3. Nat \subseteq K
    BY <2>1, Induction
  <2> QED BY <2>2, <2>3
<1>4. \E f \in [SUBSET (1..n) -> X] : Good(n, f)
  <2> HIDE DEF Good
  <2>1. n <= n
    OBVIOUS
  <2> QED BY <1>3, <2>1, Zenon
<1> QED BY <1>4 DEF IsFold

\* The same for a fold over the domain of a sequence, which takes the place too.
LEMMA StepsExist ==
  ASSUME NEW n \in Nat, NEW X, NEW base \in X, NEW step \in [(1..n) \X X -> X]
  PROVE  \E f \in [0..n -> X] : IsIteration(f, n, base, step)
<1>1. PICK g \in [SUBSET (1..n) -> X] : IsFold(g, n, base, step)
  BY FoldExists
<1> DEFINE f == [i \in 0..n |-> g[1..i]]
<1>2. \A i \in 0..n : 1..i \in SUBSET (1..n)
  OBVIOUS
<1>3. f \in [0..n -> X]
  BY <1>2
<1>4. f[0] = base
  <2>1. 1..0 = {} /\ f[0] = g[1..0]
    OBVIOUS
  <2> QED BY <2>1, <1>1 DEF IsFold
<1>5. ASSUME NEW i \in 1..n PROVE f[i] = step[<<i, f[i - 1]>>]
  <2>1. i \in Nat /\ i \in 1..i /\ 1..i \in SUBSET (1..i) /\ i \in 0..n /\ i - 1 \in 0..n
    OBVIOUS
  <2>2. Max(1..i) = i
    BY <2>1, MaxOfInterval
  <2>3. (1..i) \ {i} = 1..(i - 1)
    BY <2>1
  <2>4. g[1..i] = step[<<i, g[1..(i - 1)]>>]
    BY <2>1, <2>2, <2>3, <1>1, <1>2 DEF IsFold
  <2> QED BY <2>1, <2>4
<1> HIDE DEF f
<1> QED BY <1>3, <1>4, <1>5 DEF IsIteration

\* Flattening takes the sequences one at a time, from the first.
LEMMA FlattenValues ==
  ASSUME NEW V, NEW ss \in Seq(Seq(V))
  PROVE  \E f \in [0..Len(ss) -> Seq(V)] :
            /\ f[0] = << >>
            /\ \A i \in 1..Len(ss) : f[i] = f[i - 1] \o ss[i]
            /\ FlattenSeq(ss) = f[Len(ss)]
<1> DEFINE n == Len(ss)
           step == [p \in (1..n) \X Seq(V) |-> p[2] \o ss[p[1]]]
<1>1. n \in Nat /\ \A i \in 1..n : ss[i] \in Seq(V)
  OBVIOUS
<1>2. step \in [(1..n) \X Seq(V) -> Seq(V)]
  <2>1. \A p \in (1..n) \X Seq(V) : p[2] \o ss[p[1]] \in Seq(V)
    BY <1>1
  <2> QED BY <2>1
<1>3. PICK f \in [0..n -> Seq(V)] : IsIteration(f, n, << >>, step)
  <2>1. << >> \in Seq(V)
    OBVIOUS
  <2> HIDE DEF step, n
  <2> QED BY <1>1, <1>2, <2>1, StepsExist
<1>4. \A i \in 1..n : f[i - 1] \in Seq(V) /\ f[i] = f[i - 1] \o ss[i]
  <2> TAKE i \in 1..n
  <2>1. i - 1 \in 0..n
    BY <1>1
  <2>2. <<i, f[i - 1]>> \in (1..n) \X Seq(V)
    BY <2>1
  <2> QED BY <1>3, <2>1, <2>2 DEF IsIteration
<1>5. FlattenSeq(ss) = f[n]
  <2>1. CASE n = 0
    BY <2>1, <1>3 DEF FlattenSeq, IsIteration
  <2>2. CASE n # 0
    <3> DEFINE Is(g) == g = [i \in 1..n |-> IF i = 1 THEN ss[i] ELSE g[i - 1] \o ss[i]]
               F == [i \in 1..n |-> f[i]]
               C == CHOOSE g : Is(g)
    <3>1. FlattenSeq(ss) = C[n]
      BY <2>2 DEF FlattenSeq
    <3>2. Is(F)
      <4>1. \A i \in 1..n : F[i] = IF i = 1 THEN ss[i] ELSE F[i - 1] \o ss[i]
        <5> TAKE i \in 1..n
        <5>1. CASE i = 1
          <6>1. f[1 - 1] = << >> /\ f[1] = f[1 - 1] \o ss[1] /\ ss[1] \in Seq(V)
            <7>1. 1 \in 1..n /\ 1 - 1 = 0
              BY <5>1
            <7> QED BY <7>1, <1>1, <1>3, <1>4 DEF IsIteration
          <6>2. f[1] = ss[1]
            BY <6>1
          <6> QED BY <5>1, <6>2
        <5>2. CASE i # 1
          <6>1. i - 1 \in 1..n
            BY <5>2, <1>1
          <6> QED BY <5>2, <6>1, <1>4
        <5> QED BY <5>1, <5>2
      <4> QED BY <4>1
    <3>3. Is(C)
      <4> HIDE DEF Is, F
      <4> QED BY <3>2
    <3> HIDE DEF C
    <3> DEFINE K == {k \in Nat : k + 1 \in 1..n => C[k + 1] = f[k + 1]}
    <3>4. 0 \in K
      <4>1. 1 \in 1..n /\ f[1] = f[0] \o ss[1]
        <5>1. 1 \in 1..n /\ 1 - 1 = 0
          BY <2>2, <1>1
        <5> QED BY <5>1, <1>4
      <4>2. C[1] = ss[1]
        BY <4>1, <3>3
      <4>3. f[1] = ss[1]
        BY <4>1, <1>1, <1>3 DEF IsIteration
      <4> QED BY <4>2, <4>3
    <3>5. ASSUME NEW k \in Nat, k \in K PROVE k + 1 \in K
      <4>1. SUFFICES ASSUME k + 2 \in 1..n PROVE C[k + 2] = f[k + 2]
        OBVIOUS
      <4>2. k + 1 \in 1..n /\ k + 2 # 1
        BY <4>1, <1>1
      <4>3. C[k + 2] = C[k + 1] \o ss[k + 2]
        <5>1. (k + 2) - 1 = k + 1
          OBVIOUS
        <5> QED BY <4>1, <4>2, <3>3, <5>1
      <4>4. C[k + 1] = f[k + 1]
        BY <3>5, <4>2
      <4>5. (k + 2) - 1 = k + 1
        OBVIOUS
      <4> QED BY <4>1, <4>3, <4>4, <4>5, <1>4
    <3>6. Nat \subseteq K
      <4> HIDE DEF K
      <4> QED BY <3>4, <3>5, Induction
    <3>7. n - 1 \in Nat /\ (n - 1) + 1 \in 1..n /\ (n - 1) + 1 = n
      BY <2>2, <1>1
    <3>8. C[n] = f[n]
      BY <3>6, <3>7
    <3> QED BY <3>1, <3>8
  <2> QED BY <2>1, <2>2
<1> QED BY <1>3, <1>4, <1>5 DEF IsIteration

\* Nothing is flattened to nothing.
LEMMA FlattenEmpty == FlattenSeq(<< >>) = << >>
BY DEF FlattenSeq

\* What is flattened is a sequence of what the sequences hold.
LEMMA FlattenType ==
  ASSUME NEW V, NEW ss \in Seq(Seq(V))
  PROVE  FlattenSeq(ss) \in Seq(V)
<1>1. PICK f \in [0..Len(ss) -> Seq(V)] : FlattenSeq(ss) = f[Len(ss)]
  BY FlattenValues
<1> QED BY <1>1

\* One more sequence adds its members at the end.
LEMMA FlattenAppend ==
  ASSUME NEW V, NEW ss \in Seq(Seq(V)), NEW x \in Seq(V)
  PROVE  FlattenSeq(Append(ss, x)) = FlattenSeq(ss) \o x
<1> DEFINE n == Len(ss) tt == Append(ss, x)
<1>1. n \in Nat /\ tt \in Seq(Seq(V)) /\ Len(tt) = n + 1 /\ tt[n + 1] = x
      /\ \A i \in 1..n : tt[i] = ss[i]
  OBVIOUS
<1> HIDE DEF tt
<1>2. PICK f \in [0..n -> Seq(V)] :
            /\ f[0] = << >>
            /\ \A i \in 1..n : f[i] = f[i - 1] \o ss[i]
            /\ FlattenSeq(ss) = f[n]
  BY FlattenValues
<1>3. PICK g \in [0..(n + 1) -> Seq(V)] :
            /\ g[0] = << >>
            /\ \A i \in 1..(n + 1) : g[i] = g[i - 1] \o tt[i]
            /\ FlattenSeq(tt) = g[n + 1]
  <2>1. PICK g \in [0..Len(tt) -> Seq(V)] :
            /\ g[0] = << >>
            /\ \A i \in 1..Len(tt) : g[i] = g[i - 1] \o tt[i]
            /\ FlattenSeq(tt) = g[Len(tt)]
    BY <1>1, FlattenValues, Zenon
  <2> QED BY <1>1, <2>1
<1> DEFINE K == {k \in Nat : k <= n => f[k] = g[k]}
<1>4. 0 \in K
  BY <1>2, <1>3
<1>5. ASSUME NEW k \in Nat, k \in K PROVE k + 1 \in K
  <2>1. SUFFICES ASSUME k + 1 <= n PROVE f[k + 1] = g[k + 1]
    OBVIOUS
  <2>2. k <= n /\ k + 1 \in 1..n /\ k + 1 \in 1..(n + 1) /\ (k + 1) - 1 = k
    BY <2>1, <1>1
  <2>3. f[k + 1] = f[k] \o ss[k + 1]
    BY <1>2, <2>2
  <2>4. g[k + 1] = g[k] \o tt[k + 1]
    BY <1>3, <2>2
  <2> QED BY <2>2, <2>3, <2>4, <1>1, <1>5
<1>6. Nat \subseteq K
  <2> HIDE DEF K
  <2> QED BY <1>4, <1>5, Induction
<1>7. f[n] = g[n]
  <2>1. n \in K /\ n <= n
    <3> HIDE DEF K
    <3> QED BY <1>1, <1>6
  <2> QED BY <2>1
<1>8. g[n + 1] = g[n] \o x
  <2>1. n + 1 \in 1..(n + 1) /\ (n + 1) - 1 = n
    BY <1>1
  <2> QED BY <1>1, <1>3, <2>1
<1> QED BY <1>2, <1>3, <1>7, <1>8 DEF tt

-----------------------------------------------------------------------------
\* Lists of segments, and the pieces of a write.

Joins(s, t, u) == (s \o t) \o u = s \o (t \o u)

\* Joining three sequences: the order of the two joins does not matter.
LEMMA Associative ==
  ASSUME NEW S, NEW s \in Seq(S), NEW t \in Seq(S), NEW u \in Seq(S)
  PROVE  Joins(s, t, u)
<1>1. s \o t \in Seq(S) /\ t \o u \in Seq(S)
  BY ConcatProperties
<1>2. (s \o t) \o u \in Seq(S) /\ s \o (t \o u) \in Seq(S) /\ Len((s \o t) \o u) = Len(s \o (t \o u))
  BY <1>1, ConcatProperties
<1>3. \A i \in 1..Len((s \o t) \o u) : ((s \o t) \o u)[i] = (s \o (t \o u))[i]
  BY <1>1
<1> QED BY <1>2, <1>3, SeqEqual DEF Joins

\* The first k + 1 sequences hold those of the first k and of the next one.
LEMMA FlattenNext ==
  ASSUME NEW V, NEW ss \in Seq(Seq(V)), NEW k \in 1..Len(ss)
  PROVE  FlattenSeq(SubSeq(ss, 1, k)) = FlattenSeq(SubSeq(ss, 1, k - 1)) \o ss[k]
<1>1. SubSeq(ss, 1, k - 1) \in Seq(Seq(V)) /\ ss[k] \in Seq(V)
  OBVIOUS
<1>2. SubSeq(ss, 1, k) = Append(SubSeq(ss, 1, k - 1), ss[k])
  OBVIOUS
<1> QED BY <1>1, <1>2, FlattenAppend

\* Flattening two lists one after the other.
LEMMA FlattenConcat ==
  ASSUME NEW V, NEW a \in Seq(Seq(V)), NEW b \in Seq(Seq(V))
  PROVE  FlattenSeq(a \o b) = FlattenSeq(a) \o FlattenSeq(b)
<1> DEFINE C(k) == FlattenSeq(a \o SubSeq(b, 1, k)) = FlattenSeq(a) \o FlattenSeq(SubSeq(b, 1, k))
           K == {k \in Nat : k <= Len(b) => C(k)}
<1>0. FlattenSeq(a) \in Seq(V) /\ Len(b) \in Nat
  BY FlattenType
<1>1. C(0)
  <2>1. SubSeq(b, 1, 0) = << >> /\ a \o << >> = a /\ FlattenSeq(a) \o << >> = FlattenSeq(a)
    BY <1>0, ConcatEmptySeq
  <2> QED BY <2>1, FlattenEmpty
<1>2. ASSUME NEW k \in Nat, k <= Len(b) => C(k), k + 1 <= Len(b) PROVE C(k + 1)
  <2> DEFINE p == SubSeq(b, 1, k)
  <2>1. p \in Seq(Seq(V)) /\ b[k + 1] \in Seq(V) /\ C(k) /\ k + 1 \in 1..Len(b) /\ (k + 1) - 1 = k
    BY <1>2
  <2>2. SubSeq(b, 1, k + 1) = Append(p, b[k + 1])
    BY <2>1
  <2> HIDE DEF p
  <2>3. a \o Append(p, b[k + 1]) = Append(a \o p, b[k + 1]) /\ a \o p \in Seq(Seq(V))
    <3> DEFINE e == b[k + 1]
    <3>1. e \in Seq(V) /\ <<e>> \in Seq(Seq(V)) /\ a \o p \in Seq(Seq(V))
      BY <2>1, ConcatProperties
    <3> HIDE DEF e
    <3>2. Append(p, e) = p \o <<e>> /\ Append(a \o p, e) = (a \o p) \o <<e>>
      BY <2>1, <3>1, AppendIsConcat
    <3>3. (a \o p) \o <<e>> = a \o (p \o <<e>>)
      <4>1. Joins(a, p, <<e>>)
        BY <2>1, <3>1, Associative
      <4> QED BY <4>1 DEF Joins
    <3> QED BY <3>1, <3>2, <3>3 DEF e
  <2>4. FlattenSeq(Append(a \o p, b[k + 1])) = FlattenSeq(a \o p) \o b[k + 1]
    BY <2>1, <2>3, FlattenAppend
  <2>5. FlattenSeq(Append(p, b[k + 1])) = FlattenSeq(p) \o b[k + 1]
    BY <2>1, FlattenAppend
  <2>6. FlattenSeq(p) \in Seq(V)
    BY <2>1, FlattenType
  <2>7. FlattenSeq(a \o p) = FlattenSeq(a) \o FlattenSeq(p)
    BY <2>1 DEF p
  <2>8. (FlattenSeq(a) \o FlattenSeq(p)) \o b[k + 1] = FlattenSeq(a) \o (FlattenSeq(p) \o b[k + 1])
    <3>1. Joins(FlattenSeq(a), FlattenSeq(p), b[k + 1])
      BY <1>0, <2>1, <2>6, Associative
    <3> QED BY <3>1 DEF Joins
  <2> QED BY <2>2, <2>3, <2>4, <2>5, <2>7, <2>8
<1>3. 0 \in K /\ \A k \in Nat : k \in K => k + 1 \in K
  <2> HIDE DEF C
  <2>1. \A k \in Nat : k + 1 <= Len(b) => k <= Len(b)
    BY <1>0
  <2> QED BY <1>1, <1>2
<1>4. C(Len(b))
  <2>1. \A k \in K : k <= Len(b) => C(k)
    OBVIOUS
  <2> HIDE DEF K
  <2>2. Len(b) \in K
    BY <1>0, <1>3, Induction
  <2> HIDE DEF C
  <2> QED BY <1>0, <2>1, <2>2
<1> QED BY <1>4, SubSeqFull

\* A list is the first k of its members and the others.
LEMMA FlattenSplit ==
  ASSUME NEW V, NEW ss \in Seq(Seq(V)), NEW k \in 0..Len(ss)
  PROVE  /\ FlattenSeq(ss) = FlattenSeq(SubSeq(ss, 1, k)) \o FlattenSeq(SubSeq(ss, k + 1, Len(ss)))
         /\ FlattenSeq(SubSeq(ss, 1, k)) \in Seq(V)
         /\ FlattenSeq(SubSeq(ss, k + 1, Len(ss))) \in Seq(V)
<1>1. SubSeq(ss, 1, k) \in Seq(Seq(V)) /\ SubSeq(ss, k + 1, Len(ss)) \in Seq(Seq(V))
  OBVIOUS
<1>2. ss = SubSeq(ss, 1, k) \o SubSeq(ss, k + 1, Len(ss))
  <2>1. 1 \in 1..(Len(ss) + 1) /\ k \in (1 - 1)..Len(ss) /\ Len(ss) \in k..Len(ss)
    OBVIOUS
  <2>2. SubSeq(ss, 1, k) \o SubSeq(ss, k + 1, Len(ss)) = SubSeq(ss, 1, Len(ss))
    BY <2>1, ConcatAdjacentSubSeq
  <2>3. SubSeq(ss, 1, Len(ss)) = ss
    BY SubSeqFull
  <2> QED BY <2>2, <2>3
<1> QED BY <1>1, <1>2, FlattenConcat, FlattenType

(* Cut *)

\* How many blocks a long write is cut into.
LEMMA CutCount ==
  ASSUME NEW l \in Nat, NEW n \in Nat \ {0}
  PROVE  /\ (l + n - 1) \div n \in Nat
         /\ l <= ((l + n - 1) \div n) * n
         /\ ((l + n - 1) \div n) * n < l + n
OBVIOUS

\* A part of a sequence is a sequence of the same members.
LEMMA SubSeqIn ==
  ASSUME NEW S, NEW s \in Seq(S), NEW m \in Nat \ {0}, NEW n \in Nat, n <= Len(s)
  PROVE  /\ SubSeq(s, m, n) \in Seq(S)
         /\ Len(SubSeq(s, m, n)) = IF m <= n THEN n - m + 1 ELSE 0
         /\ \A i \in 1..(n - m + 1) : SubSeq(s, m, n)[i] = s[m + i - 1]
<1>1. \A i \in m..n : s[i] \in S
  OBVIOUS
<1> QED BY <1>1, SubSeqProperties

\* The blocks of a long write, one after the other, are what was written.
LEMMA CutPieces ==
  ASSUME NEW V, NEW data \in Seq(V), NEW n \in Nat \ {0}
  PROVE  /\ Cut(data, n) \in Seq(Seq(V))
         /\ FlattenSeq(Cut(data, n)) = data
         /\ \A i \in 1..Len(Cut(data, n)) :
               /\ Len(Cut(data, n)[i]) \in 1..n
               /\ i < Len(Cut(data, n)) => Len(Cut(data, n)[i]) = n
<1> DEFINE l == Len(data)
           c == (l + n - 1) \div n
           e(i) == SubSeq(data, (i - 1) * n + 1, Least2(i * n, l))
           cs == Cut(data, n)
<1>1. l \in Nat /\ c \in Nat /\ l <= c * n /\ c * n < l + n
  <2>1. l \in Nat
    OBVIOUS
  <2> HIDE DEF l
  <2> QED BY <2>1, CutCount
<1> HIDE DEF c
<1>2. ASSUME NEW i \in 1..c
      PROVE  /\ (i - 1) * n \in Nat /\ (i - 1) * n < l
             /\ i * n = (i - 1) * n + n /\ i * n \in Nat
             /\ i < c => i * n <= l
  <2>1. i * n = (i - 1) * n + n /\ i * n \in Nat /\ (i - 1) * n \in Nat
    OBVIOUS
  <2>2. i * n <= c * n
    BY <1>1
  <2>3. i < c => i * n + n <= c * n
    <3>1. SUFFICES ASSUME i < c PROVE (i + 1) * n <= c * n
      OBVIOUS
    <3> QED BY <3>1, <1>1
  <2> QED BY <1>1, <2>1, <2>2, <2>3
<1>3. ASSUME NEW i \in 1..c
      PROVE  /\ e(i) \in Seq(V) /\ Len(e(i)) \in 1..n /\ (i < c => Len(e(i)) = n)
  <2>1. Least2(i * n, l) \in Nat /\ Least2(i * n, l) <= l /\ (i - 1) * n + 1 <= Least2(i * n, l)
    BY <1>1, <1>2 DEF Least2
  <2>2. e(i) \in Seq(V) /\ Len(e(i)) = Least2(i * n, l) - ((i - 1) * n + 1) + 1
    BY <2>1, <1>2, SubSeqIn
  <2> QED BY <1>1, <1>2, <2>1, <2>2 DEF Least2
<1>4. cs = [i \in 1..c |-> e(i)]
  BY DEF Cut, c
<1>5. cs \in Seq(Seq(V)) /\ Len(cs) = c /\ \A i \in 1..c : cs[i] = e(i)
  <2> HIDE DEF e, cs
  <2> QED BY <1>1, <1>3, <1>4
<1> HIDE DEF cs
<1> DEFINE Done(k) == FlattenSeq(SubSeq(cs, 1, k)) = SubSeq(data, 1, Least2(k * n, l))
           K == {k \in Nat : k <= c => Done(k)}
<1>6. Done(0)
  <2>1. SubSeq(cs, 1, 0) = << >> /\ Least2(0 * n, l) = 0 /\ SubSeq(data, 1, 0) = << >>
    BY <1>1 DEF Least2
  <2> QED BY <2>1, FlattenEmpty
<1>7. ASSUME NEW k \in Nat, k + 1 <= c, Done(k) PROVE Done(k + 1)
  <2>1. k + 1 \in 1..c /\ (k + 1) - 1 = k
    BY <1>7
  <2>2. k * n \in Nat /\ k * n < l /\ (k + 1) * n = k * n + n
    BY <2>1, <1>2
  <2>3. FlattenSeq(SubSeq(cs, 1, k + 1)) = FlattenSeq(SubSeq(cs, 1, k)) \o cs[k + 1]
    BY <2>1, <1>5, FlattenNext
  <2>4. FlattenSeq(SubSeq(cs, 1, k)) = SubSeq(data, 1, k * n)
    BY <1>7, <2>2, <1>1 DEF Least2
  <2>5. cs[k + 1] = SubSeq(data, k * n + 1, Least2((k + 1) * n, l))
    BY <1>5, <2>1
  <2> DEFINE a == k * n b == Least2((k + 1) * n, l)
  <2>6. 1 \in 1..(Len(data) + 1) /\ a \in (1 - 1)..Len(data) /\ b \in a..Len(data)
    BY <2>2, <1>1 DEF Least2
  <2> HIDE DEF a, b
  <2>7. SubSeq(data, 1, a) \o SubSeq(data, a + 1, b) = SubSeq(data, 1, b)
    BY <2>6, ConcatAdjacentSubSeq
  <2> QED BY <2>3, <2>4, <2>5, <2>7 DEF a, b
<1>8. Done(c)
  <2> HIDE DEF Done
  <2>1. 0 \in K
    BY <1>6
  <2>2. \A k \in Nat : k \in K => k + 1 \in K
    <3>1. \A k \in Nat : k + 1 <= c => k <= c
      BY <1>1
    <3> QED BY <3>1, <1>7
  <2>3. \A k \in K : k <= c => Done(k)
    OBVIOUS
  <2> HIDE DEF K
  <2>4. c \in K
    BY <1>1, <2>1, <2>2, Induction
  <2> QED BY <1>1, <2>3, <2>4
<1>9. Least2(c * n, l) = l /\ SubSeq(data, 1, l) = data /\ SubSeq(cs, 1, c) = cs
  BY <1>1, <1>5, SubSeqFull DEF Least2
<1>10. \A i \in 1..c : Len(cs[i]) \in 1..n /\ (i < c => Len(cs[i]) = n)
  BY <1>3, <1>5
<1> QED BY <1>5, <1>8, <1>9, <1>10 DEF cs

-----------------------------------------------------------------------------
\* Writing a stream (Stream.cpp 90-182): what is put is at the end of what was there.

StreamOf(V) ==
  [segments : Seq(Seq(V)), room : Nat, minimum : Nat, read : Seq(Seq(V)), readN : Nat]
\* Room is always that of a last segment.
RoomAtEnd(s) == s.room > 0 => s.segments # << >>
\* Every segment but the last is full.
Packed(s) ==
  /\ s.minimum = PieceLength
  /\ \A i \in 1..Len(s.segments) :
       Len(s.segments[i]) = IF i < Len(s.segments) THEN PieceLength ELSE PieceLength - s.room
  /\ s.segments # << >> => s.room <= PieceLength

Lengthen(ss, x) == [ss EXCEPT ![Len(ss)] = @ \o x]

\* The last segment grows by what is appended to it.
LEMMA FlattenLast ==
  ASSUME NEW V, NEW ss \in Seq(Seq(V)), NEW x \in Seq(V), ss # << >>
  PROVE  /\ Lengthen(ss, x) \in Seq(Seq(V)) /\ Len(Lengthen(ss, x)) = Len(ss)
         /\ \A i \in 1..Len(ss) :
              Lengthen(ss, x)[i] = IF i = Len(ss) THEN ss[i] \o x ELSE ss[i]
         /\ FlattenSeq(Lengthen(ss, x)) = FlattenSeq(ss) \o x
<1> DEFINE k == Len(ss)
           y == ss[k] \o x
           tt == Lengthen(ss, x)
           a == SubSeq(ss, 1, k - 1)
<1>1. k \in Nat \ {0} /\ ss[k] \in Seq(V) /\ k \in 1..k
  OBVIOUS
<1>2. y \in Seq(V)
  BY <1>1
<1> HIDE DEF y
<1>3. tt \in Seq(Seq(V)) /\ Len(tt) = k /\ \A i \in 1..k : tt[i] = IF i = k THEN y ELSE ss[i]
  <2>1. tt = [ss EXCEPT ![k] = y]
    BY DEF Lengthen, y
  <2> QED BY <1>1, <1>2, <2>1, ExceptSeq
<1> HIDE DEF tt
<1>4. SubSeq(tt, 1, k) = tt /\ SubSeq(ss, 1, k) = ss
  BY <1>1, <1>3, SubSeqFull
<1>5. a \in Seq(Seq(V)) /\ Len(a) = k - 1 /\ \A i \in 1..(k - 1) : a[i] = ss[i]
  <2>1. k - 1 \in Nat /\ k - 1 <= Len(ss) /\ \A i \in 1..(k - 1) : 1 + i - 1 = i
    BY <1>1
  <2>2. a \in Seq(Seq(V)) /\ Len(a) = IF 1 <= k - 1 THEN (k - 1) - 1 + 1 ELSE 0
    <3> DEFINE j == k - 1
    <3>1. j \in Nat /\ j <= Len(ss) /\ 1 \in Nat \ {0}
      BY <2>1
    <3> HIDE DEF j
    <3>2. SubSeq(ss, 1, j) \in Seq(Seq(V)) /\ Len(SubSeq(ss, 1, j)) = IF 1 <= j THEN j - 1 + 1 ELSE 0
      BY <3>1, SubSeqIn
    <3> QED BY <3>2 DEF j
  <2>3. Len(a) = k - 1
    <3> HIDE DEF a, k
    <3> QED BY <1>1, <2>2
  <2> QED BY <2>1, <2>2, <2>3
<1>6. SubSeq(tt, 1, k - 1) \in Seq(Seq(V)) /\ Len(SubSeq(tt, 1, k - 1)) = k - 1
      /\ \A i \in 1..(k - 1) : SubSeq(tt, 1, k - 1)[i] = tt[i]
  BY <1>1, <1>3, SubSeqIn
<1>7. SubSeq(tt, 1, k - 1) = a
  <2> DEFINE b == SubSeq(tt, 1, k - 1)
  <2> HIDE DEF a
  <2>1. Len(a) = Len(b) /\ \A i \in 1..Len(a) : a[i] = b[i]
    BY <1>1, <1>3, <1>5, <1>6
  <2> HIDE DEF b
  <2>2. b \in Seq(Seq(V))
    BY <1>6 DEF b
  <2>3. a = b
    BY <2>1, <2>2, <1>5, SeqEqual
  <2> QED BY <2>3 DEF b
<1>8. FlattenSeq(tt) = FlattenSeq(a) \o y
  BY <1>1, <1>3, <1>4, <1>7, FlattenNext
<1>9. FlattenSeq(ss) = FlattenSeq(a) \o ss[k]
  BY <1>1, <1>4, FlattenNext
<1>10. FlattenSeq(a) \in Seq(V)
  BY <1>5, FlattenType
<1>11. Joins(FlattenSeq(a), ss[k], x)
  BY <1>1, <1>10, Associative
<1>12. FlattenSeq(tt) = FlattenSeq(ss) \o x
  BY <1>8, <1>9, <1>11 DEF Joins, y
<1>13. \A i \in 1..k : tt[i] = IF i = k THEN ss[i] \o x ELSE ss[i]
  BY <1>3 DEF y
<1> QED BY <1>3, <1>12, <1>13 DEF tt

\* putSegment adds its bytes at the end of the stream, whether they fit in the open segment or
\* not.
LEMMA PutSegmentAdds ==
  ASSUME NEW V, NEW s \in StreamOf(V), RoomAtEnd(s), NEW data \in Seq(V)
  PROVE  LET r == PutSegment(s, data)
         IN  /\ r \in StreamOf(V) /\ RoomAtEnd(r)
             /\ r.minimum = s.minimum /\ r.read = s.read /\ r.readN = s.readN
             /\ FlattenSeq(r.segments) = FlattenSeq(s.segments) \o data
             /\ Packed(s) /\ Len(data) <= PieceLength => Packed(r)
<1> DEFINE fill == Least2(s.room, Len(data))
           rest == SubSeq(data, fill + 1, Len(data))
           part == SubSeq(data, 1, fill)
           ss == s.segments
           k == Len(ss)
           grown == IF fill = 0 THEN ss ELSE Lengthen(ss, part)
           r == PutSegment(s, data)
<1>0. PieceLength \in Nat \ {0}
  BY PieceLengthEven
<1>1. /\ fill \in Nat /\ fill <= Len(data) /\ Len(data) \in Nat /\ fill <= s.room
      /\ fill < Len(data) => fill = s.room
      /\ ss \in Seq(Seq(V)) /\ k \in Nat /\ s.room \in Nat /\ s.minimum \in Nat
      /\ fill # 0 => ss # << >> /\ k > 0
      /\ k = 0 => s.room = 0 /\ ss = << >>
  <2>1. ss \in Seq(Seq(V)) /\ s.room \in Nat /\ s.minimum \in Nat
    BY DEF StreamOf
  <2> QED BY <2>1 DEF Least2, RoomAtEnd
<1> HIDE DEF fill
<1>2. rest \in Seq(V) /\ Len(rest) = Len(data) - fill /\ part \in Seq(V) /\ Len(part) = fill
  BY <1>1, SubSeqIn
<1>3. part \o rest = data
  <2>1. 1 \in 1..(Len(data) + 1) /\ fill \in (1 - 1)..Len(data) /\ Len(data) \in fill..Len(data)
    BY <1>1
  <2>2. part \o rest = SubSeq(data, 1, Len(data))
    BY <2>1, ConcatAdjacentSubSeq
  <2> QED BY <2>2, SubSeqFull
<1> HIDE DEF rest, part
<1>4. /\ grown \in Seq(Seq(V)) /\ Len(grown) = k
      /\ FlattenSeq(grown) = FlattenSeq(ss) \o part
      /\ \A i \in 1..k : Len(grown[i]) = IF i = k THEN Len(ss[i]) + fill ELSE Len(ss[i])
  <2>1. CASE fill = 0
    <3>1. part = << >>
      BY <2>1, <1>2
    <3>2. FlattenSeq(ss) \in Seq(V) /\ FlattenSeq(ss) \o << >> = FlattenSeq(ss)
      BY <1>1, FlattenType, ConcatEmptySeq
    <3>3. \A i \in 1..k : Len(ss[i]) \in Nat
      BY <1>1
    <3> QED BY <2>1, <3>1, <3>2, <3>3, <1>1
  <2>2. CASE fill # 0
    <3>1. ss # << >>
      BY <2>2, <1>1
    <3>2. \A i \in 1..k : ss[i] \in Seq(V)
      BY <1>1
    <3>3. \A i \in 1..k : ss[i] \o part \in Seq(V) /\ Len(ss[i] \o part) = Len(ss[i]) + fill
      BY <1>2, <3>2, ConcatProperties
    <3>4. grown = Lengthen(ss, part)
      BY <2>2
    <3>5. /\ grown \in Seq(Seq(V)) /\ Len(grown) = k
          /\ FlattenSeq(grown) = FlattenSeq(ss) \o part
          /\ \A i \in 1..k : grown[i] = IF i = k THEN ss[i] \o part ELSE ss[i]
      <4>1. ss \in Seq(Seq(V)) /\ part \in Seq(V)
        BY <1>1, <1>2
      <4> HIDE DEF ss
      <4> QED BY <3>1, <3>4, <4>1, FlattenLast
    <3> QED BY <3>3, <3>5
  <2> QED BY <2>1, <2>2
<1> HIDE DEF grown
<1>5. r = IF rest = << >> /\ k > 0 THEN [s EXCEPT !.segments = grown, !.room = @ - fill]
          ELSE [s EXCEPT !.segments = Append(grown, rest), !.room = Most2(Len(rest), s.minimum) - Len(rest)]
  BY DEF PutSegment, grown, rest, part, fill, Lengthen
<1> HIDE DEF r
<1>6. CASE rest = << >> /\ k > 0
  <2>1. r = [s EXCEPT !.segments = grown, !.room = @ - fill]
    BY <1>5, <1>6
  <2>2. /\ r \in StreamOf(V) /\ r.segments = grown /\ r.room = s.room - fill
        /\ r.minimum = s.minimum /\ r.read = s.read /\ r.readN = s.readN
    <3>1. s.room - fill \in Nat
      BY <1>1
    <3> QED BY <2>1, <3>1, <1>1, <1>4 DEF StreamOf
  <2>3. part = data
    BY <1>2, <1>3, <1>6, ConcatEmptySeq
  <2>4. RoomAtEnd(r)
    BY <2>2, <1>1, <1>4, <1>6 DEF RoomAtEnd
  <2>5. ASSUME Packed(s), Len(data) <= PieceLength PROVE Packed(r)
    <3>1. \A i \in 1..k : Len(grown[i]) = IF i < k THEN PieceLength ELSE PieceLength - (s.room - fill)
      <4>1. \A i \in 1..k : Len(ss[i]) = IF i < k THEN PieceLength ELSE PieceLength - s.room
        BY <2>5 DEF Packed
      <4>2. TAKE i \in 1..k
      <4>3. Len(grown[i]) = IF i = k THEN Len(ss[i]) + fill ELSE Len(ss[i])
        BY <1>4
      <4>4. Len(ss[i]) = IF i < k THEN PieceLength ELSE PieceLength - s.room
        BY <4>1
      <4>5. i = k <=> ~(i < k)
        BY <1>1
      <4> QED BY <4>3, <4>4, <4>5, <1>0, <1>1
    <3> QED BY <2>2, <2>5, <3>1, <1>0, <1>1, <1>4, <1>6 DEF Packed
  <2> QED BY <2>2, <2>3, <2>4, <2>5, <1>4 DEF r
<1>7. CASE ~(rest = << >> /\ k > 0)
  <2> DEFINE aa == Append(grown, rest)
             space == Most2(Len(rest), s.minimum) - Len(rest)
  <2>1. r = [s EXCEPT !.segments = aa, !.room = space]
    BY <1>5, <1>7
  <2>2. aa \in Seq(Seq(V)) /\ Len(aa) = k + 1 /\ aa # << >> /\ aa[k + 1] = rest
        /\ \A i \in 1..k : aa[i] = grown[i]
    <3>1. aa \in Seq(Seq(V)) /\ Len(aa) = k + 1 /\ aa # << >>
      <4>1. grown \in Seq(Seq(V)) /\ rest \in Seq(V) /\ Len(grown) = k
        BY <1>2, <1>4
      <4> HIDE DEF k
      <4> QED BY <4>1, AppendProperties
    <3>2. aa[k + 1] = rest /\ \A i \in 1..k : aa[i] = grown[i]
      BY <1>1, <1>2, <1>4
    <3> QED BY <3>1, <3>2
  <2>3. FlattenSeq(aa) = FlattenSeq(grown) \o rest
    BY <1>2, <1>4, FlattenAppend
  <2>4. Len(rest) \in Nat /\ space \in Nat
    BY <1>1, <1>2 DEF Most2
  <2> HIDE DEF aa, space
  <2>5. /\ r \in StreamOf(V) /\ r.segments = aa /\ r.room = space
        /\ r.minimum = s.minimum /\ r.read = s.read /\ r.readN = s.readN
    BY <2>1, <2>2, <2>4, <1>1 DEF StreamOf
  <2>6. FlattenSeq(ss) \in Seq(V) /\ FlattenSeq(aa) = FlattenSeq(ss) \o data
    <3>1. FlattenSeq(ss) \in Seq(V)
      BY <1>1, FlattenType
    <3>2. Joins(FlattenSeq(ss), part, rest)
      BY <3>1, <1>2, Associative
    <3> QED BY <3>1, <3>2, <2>3, <1>3, <1>4 DEF Joins
  <2>7. RoomAtEnd(r)
    BY <2>2, <2>5 DEF RoomAtEnd
  <2>8. ASSUME Packed(s), Len(data) <= PieceLength PROVE Packed(r)
    <3>1. s.minimum = PieceLength
      BY <2>8 DEF Packed
    <3>2. k > 0 => fill = s.room
      BY <1>1, <1>2, <1>7
    <3>3. Len(rest) <= PieceLength /\ space = PieceLength - Len(rest) /\ space <= PieceLength
      BY <3>1, <2>4, <2>8, <1>0, <1>1, <1>2 DEF space, Most2
    <3>4. \A i \in 1..k : Len(aa[i]) = PieceLength
      <4>1. \A i \in 1..k : Len(ss[i]) = IF i < k THEN PieceLength ELSE PieceLength - s.room
        BY <2>8 DEF Packed
      <4>2. TAKE i \in 1..k
      <4>3. Len(grown[i]) = IF i = k THEN Len(ss[i]) + fill ELSE Len(ss[i])
        BY <1>4
      <4>4. Len(ss[i]) = IF i < k THEN PieceLength ELSE PieceLength - s.room
        BY <4>1
      <4>5. k > 0 /\ fill = s.room /\ (i = k <=> ~(i < k))
        BY <3>2, <1>1
      <4>6. Len(grown[i]) = PieceLength
        BY <4>3, <4>4, <4>5, <1>0, <1>1
      <4> QED BY <4>6, <2>2
    <3>5. \A i \in 1..(k + 1) : Len(aa[i]) = IF i < k + 1 THEN PieceLength ELSE PieceLength - space
      <4>1. TAKE i \in 1..(k + 1)
      <4>2. CASE i = k + 1
        BY <4>2, <3>3, <2>2, <2>4, <1>0, <1>1
      <4>3. CASE i # k + 1
        <5> HIDE DEF k
        <5>1. i \in 1..k /\ i < k + 1
          BY <4>3, <1>1
        <5> QED BY <5>1, <3>4
      <4> QED BY <4>2, <4>3
    <3> QED BY <3>1, <3>3, <3>5, <2>2, <2>5 DEF Packed
  <2> QED BY <2>5, <2>6, <2>7, <2>8 DEF r
<1> QED BY <1>6, <1>7

FoldPut(s, xs) == FoldLeft(PutSegment, s, xs)

GoodStream(V) == {s \in StreamOf(V) : RoomAtEnd(s)}

\* A sequence of putSegment adds the pieces in their order.
LEMMA PutFold ==
  ASSUME NEW V, NEW s \in GoodStream(V), NEW xs \in Seq(Seq(V))
  PROVE  \E f \in [0..Len(xs) -> GoodStream(V)] :
            /\ f[0] = s
            /\ \A i \in 1..Len(xs) : f[i] = PutSegment(f[i - 1], xs[i])
            /\ FoldPut(s, xs) = f[Len(xs)]
<1> DEFINE n == Len(xs)
           X == GoodStream(V)
           D == SUBSET (1..n)
           step == [p \in (1..n) \X X |-> PutSegment(p[2], xs[p[1]])]
           Is(g) == g = [S \in D |-> IF S = {} THEN s ELSE PutSegment(g[S \ {Max(S)}], xs[Max(S)])]
           C == CHOOSE g : Is(g)
<1>1. n \in Nat /\ DOMAIN xs = 1..n /\ \A i \in 1..n : xs[i] \in Seq(V)
  OBVIOUS
<1>2. \A t \in X, d \in Seq(V) : PutSegment(t, d) \in X
  BY PutSegmentAdds DEF GoodStream
<1>3. step \in [(1..n) \X X -> X]
  <2> HIDE DEF X, n
  <2>1. \A p \in (1..n) \X X : PutSegment(p[2], xs[p[1]]) \in X
    BY <1>1, <1>2
  <2> QED BY <2>1
<1>4. PICK g \in [D -> X] : IsFold(g, n, s, step)
  <2> HIDE DEF step, n
  <2> QED BY <1>1, <1>3, FoldExists
<1>5. Is(g)
  <2>1. ASSUME NEW S \in D
        PROVE g[S] = IF S = {} THEN s ELSE PutSegment(g[S \ {Max(S)}], xs[Max(S)])
    <3>1. CASE S = {}
      BY <3>1, <1>4 DEF IsFold
    <3>2. CASE S # {}
      <4>1. Max(S) \in S
        BY <3>2, <1>1, MaxWithin
      <4>2. Max(S) \in 1..n /\ S \ {Max(S)} \in D
        BY <4>1
      <4>3. <<Max(S), g[S \ {Max(S)}]>> \in (1..n) \X X
        BY <4>2
      <4>4. step[<<Max(S), g[S \ {Max(S)}]>>] = PutSegment(g[S \ {Max(S)}], xs[Max(S)])
        <5> HIDE DEF X, n, D
        <5> QED BY <4>3
      <4>5. g[S] = step[<<Max(S), g[S \ {Max(S)}]>>]
        <5> HIDE DEF step
        <5> QED BY <3>2, <1>4 DEF IsFold
      <4> QED BY <3>2, <4>4, <4>5
    <3> QED BY <3>1, <3>2
  <2> HIDE DEF X, D
  <2> QED BY <2>1
<1>6. Is(C)
  <2> HIDE DEF Is
  <2> QED BY <1>5
<1>7. FoldPut(s, xs) = C[1..n]
  BY <1>1 DEF FoldPut, FoldLeft, MapThenFoldSet
<1> HIDE DEF C
<1> DEFINE c == [i \in 0..n |-> C[1..i]]
<1>8. c[0] = s
  <2>1. 1..0 = {} /\ 1..0 \in D
    OBVIOUS
  <2> QED BY <2>1, <1>6, <1>1
<1>9. ASSUME NEW i \in 1..n PROVE c[i] = PutSegment(c[i - 1], xs[i])
  <2>1. i \in Nat /\ i \in 1..i /\ 1..i \in SUBSET (1..i) /\ i \in 0..n /\ i - 1 \in 0..n
    BY <1>1
  <2>5. 1..i \in D /\ 1..i # {}
    <3>1. 1..i \subseteq 1..n /\ 1 \in 1..i
      BY <1>1
    <3> QED BY <3>1
  <2>2. Max(1..i) = i
    BY <2>1, MaxOfInterval
  <2>3. (1..i) \ {i} = 1..(i - 1)
    BY <2>1
  <2>4. C[1..i] = PutSegment(C[1..(i - 1)], xs[i])
    BY <2>5, <2>2, <2>3, <1>6
  <2> QED BY <2>1, <2>4
<1> HIDE DEF c
<1>10. \A k \in Nat : k <= n => c[k] \in X
  <2> DEFINE K == {k \in Nat : k <= n => c[k] \in X}
  <2> HIDE DEF X
  <2>1. 0 \in K
    BY <1>8 DEF X
  <2>2. \A k \in Nat : k \in K => k + 1 \in K
    <3> TAKE k \in Nat
    <3>1. SUFFICES ASSUME c[k] \in X, k + 1 <= n PROVE c[k + 1] \in X
      BY <1>1
    <3>2. k + 1 \in 1..n /\ (k + 1) - 1 = k
      BY <3>1, <1>1
    <3> QED BY <3>1, <3>2, <1>1, <1>2, <1>9
  <2>3. Nat \subseteq K
    <3> HIDE DEF K
    <3> QED BY <2>1, <2>2, Induction
  <2> QED BY <2>3
<1>11. c \in [0..n -> X]
  <2>1. \A i \in 0..n : c[i] \in X
    BY <1>10
  <2> QED BY <2>1 DEF c
<1>12. FoldPut(s, xs) = c[n]
  BY <1>1, <1>7 DEF c
<1> QED BY <1>8, <1>9, <1>11, <1>12

\* The same, stated of the fold of the model.
LEMMA PutAllAdds ==
  ASSUME NEW V, NEW s \in GoodStream(V), NEW xs \in Seq(Seq(V))
  PROVE  LET r == FoldPut(s, xs)
         IN  /\ r \in GoodStream(V)
             /\ r.minimum = s.minimum /\ r.read = s.read /\ r.readN = s.readN
             /\ FlattenSeq(r.segments) = FlattenSeq(s.segments) \o FlattenSeq(xs)
             /\ Packed(s) /\ (\A i \in 1..Len(xs) : Len(xs[i]) <= PieceLength) => Packed(r)
<1> DEFINE n == Len(xs)
           Small == \A i \in 1..n : Len(xs[i]) <= PieceLength
           Adds(r, k) ==
             /\ r.minimum = s.minimum /\ r.read = s.read /\ r.readN = s.readN
             /\ FlattenSeq(r.segments) = FlattenSeq(s.segments) \o FlattenSeq(SubSeq(xs, 1, k))
             /\ Packed(s) /\ Small => Packed(r)
<1>1. n \in Nat /\ \A i \in 1..n : xs[i] \in Seq(V)
  OBVIOUS
<1>2. PICK f \in [0..n -> GoodStream(V)] :
            /\ f[0] = s
            /\ \A i \in 1..n : f[i] = PutSegment(f[i - 1], xs[i])
            /\ FoldPut(s, xs) = f[n]
  BY PutFold
<1>3. s.segments \in Seq(Seq(V)) /\ FlattenSeq(s.segments) \in Seq(V)
  BY FlattenType DEF GoodStream, StreamOf
<1> DEFINE K == {k \in Nat : k <= n => Adds(f[k], k)}
<1>4. Adds(s, 0)
  <2>1. SubSeq(xs, 1, 0) = << >> /\ FlattenSeq(s.segments) \o << >> = FlattenSeq(s.segments)
    BY <1>3, ConcatEmptySeq
  <2> QED BY <2>1, FlattenEmpty
<1>5. ASSUME NEW k \in Nat, k + 1 <= n, Adds(f[k], k) PROVE Adds(f[k + 1], k + 1)
  <2> DEFINE p == f[k] x == xs[k + 1] r == f[k + 1]
  <2>1. k + 1 \in 1..n /\ (k + 1) - 1 = k /\ k \in 0..n
    BY <1>1, <1>5
  <2>2. p \in GoodStream(V) /\ x \in Seq(V) /\ r = PutSegment(p, x)
    BY <1>1, <1>2, <2>1
  <2>3. FlattenSeq(SubSeq(xs, 1, k + 1)) = FlattenSeq(SubSeq(xs, 1, k)) \o x
    BY <2>1, FlattenNext
  <2>4. Adds(p, k)
    BY <1>5
  <2>5. Small => Len(x) <= PieceLength
    BY <2>1
  <2> HIDE DEF p, x, r
  <2>6. /\ r.minimum = p.minimum /\ r.read = p.read /\ r.readN = p.readN
        /\ FlattenSeq(r.segments) = FlattenSeq(p.segments) \o x
        /\ Packed(p) /\ Len(x) <= PieceLength => Packed(r)
    BY <2>2, PutSegmentAdds DEF GoodStream
  <2>7. FlattenSeq(SubSeq(xs, 1, k)) \in Seq(V)
    <3>1. SubSeq(xs, 1, k) \in Seq(Seq(V))
      BY <2>1
    <3> QED BY <3>1, FlattenType
  <2>8. Joins(FlattenSeq(s.segments), FlattenSeq(SubSeq(xs, 1, k)), x)
    BY <2>2, <2>7, <1>3, Associative
  <2>9. FlattenSeq(r.segments) = FlattenSeq(s.segments) \o FlattenSeq(SubSeq(xs, 1, k + 1))
    BY <2>3, <2>4, <2>6, <2>8 DEF Joins
  <2>10. Packed(s) /\ Small => Packed(r)
    <3> HIDE DEF Small
    <3> QED BY <2>4, <2>5, <2>6
  <2>11. r.minimum = s.minimum /\ r.read = s.read /\ r.readN = s.readN
    BY <2>4, <2>6
  <2> HIDE DEF Small
  <2> QED BY <2>9, <2>10, <2>11 DEF r
<1>6. Adds(f[n], n)
  <2> HIDE DEF Adds
  <2>1. 0 \in K
    BY <1>2, <1>4
  <2>2. \A k \in Nat : k \in K => k + 1 \in K
    <3> TAKE k \in Nat
    <3>1. SUFFICES ASSUME k <= n => Adds(f[k], k), k + 1 <= n PROVE Adds(f[k + 1], k + 1)
      OBVIOUS
    <3>2. k <= n
      BY <3>1, <1>1
    <3> QED BY <3>1, <3>2, <1>5
  <2>3. \A k \in K : k <= n => Adds(f[k], k)
    OBVIOUS
  <2> HIDE DEF K
  <2>4. n \in K
    BY <1>1, <2>1, <2>2, Induction
  <2> QED BY <1>1, <2>3, <2>4
<1>7. SubSeq(xs, 1, n) = xs /\ f[n] \in GoodStream(V)
  BY <1>1, SubSeqFull
<1> HIDE DEF Small
<1> QED BY <1>2, <1>6, <1>7 DEF Small

\* A stream that was cleared.
LEMMA EmptyStream ==
  ASSUME NEW V, NEW m \in Nat
  PROVE  Empty(m) \in GoodStream(V) /\ FlattenSeq(Empty(m).segments) = << >>
         /\ Empty(m).read = << >> /\ Empty(m).minimum = m /\ (m = PieceLength => Packed(Empty(m)))
<1>1. << >> \in Seq(Seq(V))
  OBVIOUS
<1>2. \A i \in 1..Len(<< >>) : FALSE
  OBVIOUS
<1> QED BY <1>1, <1>2, FlattenEmpty DEF Empty, GoodStream, StreamOf, RoomAtEnd, Packed

\* putLongSegment adds its bytes at the end of the stream.
LEMMA PutLongSegmentAdds ==
  ASSUME NEW V, NEW s \in GoodStream(V), NEW data \in Seq(V)
  PROVE  LET r == PutLongSegment(s, data)
         IN  /\ r \in GoodStream(V)
             /\ FlattenSeq(r.segments) = FlattenSeq(s.segments) \o data
             /\ r.minimum = s.minimum
             /\ Packed(s) => Packed(r)
<1> DEFINE xs == Cut(data, PieceLength)
<1>0. PieceLength \in Nat \ {0}
  BY PieceLengthEven
<1>1. xs \in Seq(Seq(V)) /\ FlattenSeq(xs) = data
      /\ \A i \in 1..Len(xs) : Len(xs[i]) <= PieceLength
  <2>1. xs \in Seq(Seq(V)) /\ FlattenSeq(xs) = data
      /\ \A i \in 1..Len(xs) : Len(xs[i]) \in 1..PieceLength
    BY <1>0, CutPieces
  <2> HIDE DEF xs
  <2> QED BY <2>1, <1>0
<1>2. PutLongSegment(s, data) = FoldPut(s, xs)
  BY DEF PutLongSegment, FoldPut
<1> HIDE DEF xs
<1>3. LET r == FoldPut(s, xs)
      IN  /\ r \in GoodStream(V) /\ r.minimum = s.minimum
          /\ FlattenSeq(r.segments) = FlattenSeq(s.segments) \o FlattenSeq(xs)
          /\ Packed(s) /\ (\A i \in 1..Len(xs) : Len(xs[i]) <= PieceLength) => Packed(r)
  BY <1>1, PutAllAdds
<1> QED BY <1>1, <1>2, <1>3

\* fetchBlob appends the segments of the row to the stream it has.
LEMMA FetchIntoAdds ==
  ASSUME NEW V, NEW s \in GoodStream(V), NEW server \in Seq(Seq(V))
  PROVE  LET r == FetchInto(s, server)
         IN  /\ r \in GoodStream(V)
             /\ r.minimum = s.minimum /\ r.read = s.read /\ r.readN = s.readN
             /\ FlattenSeq(r.segments) = FlattenSeq(s.segments) \o FlattenSeq(server)
<1> DEFINE n == Len(server)
           e(i) == Cut(server[i], PieceLength)
           cuts == [i \in 1..n |-> e(i)]
           xs == FlattenSeq(cuts)
           Cuts(k) == SubSeq(cuts, 1, k)
           Same(k) == FlattenSeq(FlattenSeq(Cuts(k))) = FlattenSeq(SubSeq(server, 1, k))
<1>0. PieceLength \in Nat \ {0}
  BY PieceLengthEven
<1>1. n \in Nat /\ \A i \in 1..n : server[i] \in Seq(V)
  OBVIOUS
<1>2. \A i \in 1..n : e(i) \in Seq(Seq(V)) /\ FlattenSeq(e(i)) = server[i]
  BY <1>0, <1>1, CutPieces
<1>3. cuts \in Seq(Seq(Seq(V))) /\ Len(cuts) = n /\ \A i \in 1..n : cuts[i] = e(i)
  <2> HIDE DEF e, n
  <2> QED BY <1>1, <1>2
<1> HIDE DEF cuts, e
<1>4. Same(0)
  <2>1. SubSeq(cuts, 1, 0) = << >> /\ SubSeq(server, 1, 0) = << >>
    OBVIOUS
  <2> QED BY <2>1, FlattenEmpty
<1>5. ASSUME NEW k \in Nat, k + 1 <= n, Same(k) PROVE Same(k + 1)
  <2>1. k + 1 \in 1..n /\ (k + 1) - 1 = k
    BY <1>1, <1>5
  <2>2. FlattenSeq(SubSeq(server, 1, k + 1)) = FlattenSeq(SubSeq(server, 1, k)) \o server[k + 1]
    BY <2>1, FlattenNext
  <2>3. FlattenSeq(Cuts(k + 1)) = FlattenSeq(Cuts(k)) \o cuts[k + 1]
    BY <2>1, <1>3, FlattenNext
  <2>4. Cuts(k) \in Seq(Seq(Seq(V)))
    BY <2>1, <1>1, <1>3, SubSeqIn
  <2>5. FlattenSeq(Cuts(k)) \in Seq(Seq(V)) /\ cuts[k + 1] \in Seq(Seq(V))
    BY <2>1, <2>4, <1>2, <1>3, FlattenType
  <2>6. FlattenSeq(FlattenSeq(Cuts(k)) \o cuts[k + 1])
         = FlattenSeq(FlattenSeq(Cuts(k))) \o FlattenSeq(cuts[k + 1])
    BY <2>5, FlattenConcat
  <2>7. FlattenSeq(cuts[k + 1]) = server[k + 1]
    BY <2>1, <1>2, <1>3
  <2> QED BY <2>2, <2>3, <2>6, <2>7, <1>5
<1>6. Same(n)
  <2> DEFINE K == {k \in Nat : k <= n => Same(k)}
  <2> HIDE DEF Same
  <2>1. 0 \in K
    BY <1>4
  <2>2. \A k \in Nat : k \in K => k + 1 \in K
    <3> TAKE k \in Nat
    <3>1. SUFFICES ASSUME k <= n => Same(k), k + 1 <= n PROVE Same(k + 1)
      OBVIOUS
    <3>2. k <= n
      BY <3>1, <1>1
    <3> QED BY <3>1, <3>2, <1>5
  <2>3. \A k \in K : k <= n => Same(k)
    OBVIOUS
  <2> HIDE DEF K
  <2>4. n \in K
    BY <1>1, <2>1, <2>2, Induction
  <2> QED BY <1>1, <2>3, <2>4
<1>7. SubSeq(cuts, 1, n) = cuts /\ SubSeq(server, 1, n) = server
  BY <1>3, SubSeqFull
<1>8. xs \in Seq(Seq(V)) /\ FlattenSeq(xs) = FlattenSeq(server)
  BY <1>3, <1>6, <1>7, FlattenType
<1>9. FetchInto(s, server) = FoldPut(s, xs)
  BY DEF FetchInto, FoldPut, cuts, e
<1> HIDE DEF xs
<1>10. LET r == FoldPut(s, xs)
       IN  /\ r \in GoodStream(V)
           /\ r.minimum = s.minimum /\ r.read = s.read /\ r.readN = s.readN
           /\ FlattenSeq(r.segments) = FlattenSeq(s.segments) \o FlattenSeq(xs)
  BY <1>8, PutAllAdds
<1> QED BY <1>8, <1>9, <1>10

-----------------------------------------------------------------------------
\* Reading a stream (Stream.cpp 184-331): what is read is the bytes between two places.

Loose(V) == V \cup {Wild}
Reading(V) ==
  [data : Seq(Loose(V)), wanted : Int, offset : Int, done : BOOLEAN, n : Nat,
   read : Seq(Seq(V)), readN : Nat]

\* What a read takes from one segment.
Taken(seg, off, l) == [j \in 1..l |-> IF off + j < 1 THEN Wild ELSE seg[off + j]]

\* What one step copies out of a segment is bytes of the segment, or of what is before it.
LEMMA TakenType ==
  ASSUME NEW V, NEW seg \in Seq(V), NEW off \in Int, NEW l \in Int, l <= Len(seg) - off
  PROVE  /\ Taken(seg, off, l) \in Seq(Loose(V))
         /\ Len(Taken(seg, off, l)) = IF l < 0 THEN 0 ELSE l
<1> DEFINE e(j) == IF off + j < 1 THEN Wild ELSE seg[off + j]
           m == IF l < 0 THEN 0 ELSE l
<1>1. m \in Nat /\ 1..l = 1..m
  OBVIOUS
<1>2. \A j \in 1..m : e(j) \in Loose(V)
  <2> TAKE j \in 1..m
  <2>1. off + j >= 1 => off + j \in 1..Len(seg)
    OBVIOUS
  <2> QED BY <2>1 DEF Loose
<1>3. Taken(seg, off, l) = [j \in 1..m |-> e(j)]
  BY <1>1 DEF Taken
<1> HIDE DEF e, m
<1>4. [j \in 1..m |-> e(j)] \in Seq(Loose(V)) /\ Len([j \in 1..m |-> e(j)]) = m
  BY <1>1, <1>2
<1> QED BY <1>3, <1>4 DEF m

\* One step of getSegment keeps the read within its types, for every offset and length.
LEMMA ReadStepType ==
  ASSUME NEW V, NEW list \in Seq(Seq(V)), NEW hex \in BOOLEAN, NEW r \in Reading(V),
         NEW i \in 1..Len(list)
  PROVE  ReadStep(list, hex, r, i) \in Reading(V)
<1> DEFINE seg == list[i]
           off == r.offset - r.n
           l == Least2(r.wanted, Len(seg) - off)
           taken == Taken(seg, off, l)
           whole == l = Len(seg) /\ ~hex
           data == r.data \o taken
           from == IF whole THEN i + 1 ELSE i
           rest == SubSeq(list, from, Len(list))
           readN == r.n + IF whole THEN Len(seg) ELSE 0
           skip == [r EXCEPT !.n = @ + Len(seg)]
           more == [r EXCEPT !.data = data, !.wanted = @ - l, !.offset = @ + l, !.n = @ + Len(seg)]
           last == [r EXCEPT !.data = data, !.wanted = 0, !.done = TRUE, !.read = rest, !.readN = readN]
<1>1. /\ seg \in Seq(V) /\ Len(seg) \in Nat /\ r.offset \in Int /\ r.n \in Nat /\ r.wanted \in Int
      /\ r.data \in Seq(Loose(V)) /\ off \in Int
  BY DEF Reading
<1>2. l \in Int /\ l <= Len(seg) - off
  BY <1>1 DEF Least2
<1>3. data \in Seq(Loose(V))
  BY <1>1, <1>2, TakenType, ConcatProperties
<1>4. rest \in Seq(Seq(V)) /\ readN \in Nat
  <2>1. from \in Nat \ {0} /\ Len(list) \in Nat
    OBVIOUS
  <2> HIDE DEF from
  <2>2. rest \in Seq(Seq(V))
    BY <2>1, SubSeqIn
  <2> HIDE DEF seg, l
  <2>3. readN \in Nat
    <3> HIDE DEF whole
    <3> QED BY <1>1
  <2> QED BY <2>2, <2>3
<1>5. r.wanted - l \in Int /\ r.offset + l \in Int /\ r.n + Len(seg) \in Nat
  <2> HIDE DEF seg, l
  <2>1. r.wanted \in Int /\ r.offset \in Int /\ r.n \in Nat /\ Len(seg) \in Nat
    BY <1>1
  <2>2. l \in Int
    BY <1>2
  <2> QED BY <2>1, <2>2
<1>6. ReadStep(list, hex, r, i) =
        IF r.done THEN r ELSE IF r.n + Len(seg) <= r.offset THEN skip
        ELSE IF l < r.wanted THEN more ELSE last
  BY DEF ReadStep, Taken
<1> HIDE DEF data, rest, readN, l, seg
<1>7. skip \in Reading(V) /\ more \in Reading(V) /\ last \in Reading(V)
  <2> HIDE DEF off
  <2>1. skip \in Reading(V)
    BY <1>5 DEF Reading
  <2>2. more \in Reading(V)
    BY <1>3, <1>5 DEF Reading
  <2>3. last \in Reading(V)
    <3>1. 0 \in Int /\ TRUE \in BOOLEAN
      OBVIOUS
    <3> HIDE DEF whole, from
    <3> QED BY <3>1, <1>3, <1>4, <1>5 DEF Reading
  <2> QED BY <2>1, <2>2, <2>3
<1> HIDE DEF skip, more, last
<1> QED BY <1>6, <1>7

ReadAll(list, hex, start) == FoldLeftDomain(LAMBDA x, i : ReadStep(list, hex, x, i), start, list)

\* The steps of a read, one after the other.
LEMMA ReadFold ==
  ASSUME NEW V, NEW list \in Seq(Seq(V)), NEW hex \in BOOLEAN, NEW start \in Reading(V)
  PROVE  \E f \in [0..Len(list) -> Reading(V)] :
            /\ f[0] = start
            /\ \A i \in 1..Len(list) : f[i] = ReadStep(list, hex, f[i - 1], i)
            /\ ReadAll(list, hex, start) = f[Len(list)]
<1> DEFINE n == Len(list)
           X == Reading(V)
           N == [i \in DOMAIN list |-> i]
           D == SUBSET (DOMAIN N)
           step == [p \in (1..n) \X X |-> ReadStep(list, hex, p[2], p[1])]
           Is(g) == g = [S \in D |-> IF S = {} THEN start
                                     ELSE ReadStep(list, hex, g[S \ {Max(S)}], N[Max(S)])]
           C == CHOOSE g : Is(g)
<1>1. n \in Nat /\ DOMAIN N = 1..n /\ \A i \in 1..n : N[i] = i
  OBVIOUS
<1>2. \A t \in X, i \in 1..n : ReadStep(list, hex, t, i) \in X
  BY ReadStepType
<1>3. step \in [(1..n) \X X -> X]
  <2> HIDE DEF X, n
  <2>1. \A p \in (1..n) \X X : ReadStep(list, hex, p[2], p[1]) \in X
    BY <1>1, <1>2
  <2> QED BY <2>1
<1>4. PICK g \in [SUBSET (1..n) -> X] : IsFold(g, n, start, step)
  <2> HIDE DEF step, n
  <2> QED BY <1>1, <1>3, FoldExists
<1> HIDE DEF N
<1>5. Is(g)
  <2>1. ASSUME NEW S \in SUBSET (1..n)
        PROVE g[S] = IF S = {} THEN start ELSE ReadStep(list, hex, g[S \ {Max(S)}], N[Max(S)])
    <3>1. CASE S = {}
      BY <3>1, <1>4 DEF IsFold
    <3>2. CASE S # {}
      <4>1. Max(S) \in S
        BY <3>2, <1>1, MaxWithin
      <4>2. Max(S) \in 1..n /\ S \ {Max(S)} \in SUBSET (1..n) /\ N[Max(S)] = Max(S)
        BY <4>1, <1>1
      <4>3. <<Max(S), g[S \ {Max(S)}]>> \in (1..n) \X X
        BY <4>2
      <4>4. step[<<Max(S), g[S \ {Max(S)}]>>] = ReadStep(list, hex, g[S \ {Max(S)}], Max(S))
        <5> HIDE DEF X, n
        <5> QED BY <4>3
      <4>5. g[S] = step[<<Max(S), g[S \ {Max(S)}]>>]
        <5> HIDE DEF step
        <5> QED BY <3>2, <1>4 DEF IsFold
      <4> QED BY <3>2, <4>2, <4>4, <4>5
    <3> QED BY <3>1, <3>2
  <2>2. D = SUBSET (1..n)
    BY <1>1
  <2> HIDE DEF X, D
  <2> QED BY <2>1, <2>2
<1>6. Is(C)
  <2> HIDE DEF Is
  <2> QED BY <1>5
<1>7. ReadAll(list, hex, start) = C[DOMAIN N]
  BY DEF ReadAll, FoldLeftDomain, FoldLeft, MapThenFoldSet, N
<1> HIDE DEF C
<1> DEFINE c == [i \in 0..n |-> C[1..i]]
<1>8. c[0] = start
  <2>1. 1..0 = {} /\ 1..0 \in D
    OBVIOUS
  <2> QED BY <2>1, <1>6, <1>1
<1>9. ASSUME NEW i \in 1..n PROVE c[i] = ReadStep(list, hex, c[i - 1], i)
  <2>1. i \in Nat /\ i \in 1..i /\ 1..i \in SUBSET (1..i) /\ i \in 0..n /\ i - 1 \in 0..n
    BY <1>1
  <2>2. Max(1..i) = i /\ N[i] = i
    BY <2>1, <1>1, MaxOfInterval
  <2>3. (1..i) \ {i} = 1..(i - 1)
    BY <2>1
  <2>5. 1..i \in D /\ 1..i # {}
    <3>1. 1..i \subseteq 1..n /\ 1 \in 1..i
      BY <1>1
    <3> QED BY <3>1, <1>1
  <2>4. C[1..i] = ReadStep(list, hex, C[1..(i - 1)], i)
    BY <2>5, <2>2, <2>3, <1>6
  <2> QED BY <2>1, <2>4
<1> HIDE DEF c
<1>10. \A k \in Nat : k <= n => c[k] \in X
  <2> DEFINE K == {k \in Nat : k <= n => c[k] \in X}
  <2> HIDE DEF X
  <2>1. 0 \in K
    BY <1>8 DEF X
  <2>2. \A k \in Nat : k \in K => k + 1 \in K
    <3> TAKE k \in Nat
    <3>1. SUFFICES ASSUME c[k] \in X, k + 1 <= n PROVE c[k + 1] \in X
      BY <1>1
    <3>2. k + 1 \in 1..n /\ (k + 1) - 1 = k
      BY <3>1, <1>1
    <3> QED BY <3>1, <3>2, <1>2, <1>9
  <2>3. Nat \subseteq K
    <3> HIDE DEF K
    <3> QED BY <2>1, <2>2, Induction
  <2> QED BY <2>3
<1>11. c \in [0..n -> X]
  <2>1. \A i \in 0..n : c[i] \in X
    BY <1>10
  <2> QED BY <2>1 DEF c
<1>12. ReadAll(list, hex, start) = c[n]
  BY <1>1, <1>7 DEF c
<1> QED BY <1>8, <1>9, <1>11, <1>12

(* A read gives a sequence and leaves a stream. *)

\* getSegment gives bytes, and leaves the segments as they were, for every offset and length.
LEMMA GetSegmentType ==
  ASSUME NEW V, NEW s \in GoodStream(V), NEW offset \in Int, NEW wanted \in Int, NEW hex \in BOOLEAN
  PROVE  LET g == GetSegment(s, offset, wanted, hex)
         IN  /\ g.data \in Seq(Loose(V))
             /\ g.stream \in GoodStream(V)
             /\ g.stream.segments = s.segments /\ g.stream.minimum = s.minimum
<1> DEFINE list == IF s.read # << >> THEN s.read ELSE s.segments
           start == [data |-> << >>, wanted |-> wanted, offset |-> offset, done |-> FALSE,
                     n |-> IF s.read # << >> THEN s.readN ELSE 0, read |-> s.read, readN |-> s.readN]
           r == ReadAll(list, hex, start)
           wild == [j \in 1..r.wanted |-> Wild]
<1>1. s \in StreamOf(V) /\ list \in Seq(Seq(V)) /\ s.read \in Seq(Seq(V)) /\ s.readN \in Nat
  BY DEF GoodStream, StreamOf
<1>2. start \in Reading(V)
  <2>1. << >> \in Seq(Loose(V)) /\ FALSE \in BOOLEAN
    OBVIOUS
  <2> HIDE DEF list
  <2> QED BY <2>1, <1>1 DEF Reading
<1> HIDE DEF list, start
<1>3. r \in Reading(V)
  <2>1. PICK f \in [0..Len(list) -> Reading(V)] : r = f[Len(list)]
    BY <1>1, <1>2, ReadFold
  <2>2. Len(list) \in 0..Len(list)
    BY <1>1
  <2> QED BY <2>1, <2>2
<1>4. GetSegment(s, offset, wanted, hex)
        = [data |-> r.data \o wild, stream |-> [s EXCEPT !.read = r.read, !.readN = r.readN]]
  BY DEF GetSegment, ReadAll, list, start
<1> HIDE DEF r
<1>5. wild \in Seq(Loose(V))
  <2> DEFINE m == IF r.wanted < 0 THEN 0 ELSE r.wanted
  <2>1. r.wanted \in Int
    BY <1>3 DEF Reading
  <2>2. m \in Nat /\ 1..r.wanted = 1..m
    BY <2>1
  <2>3. Wild \in Loose(V)
    BY DEF Loose
  <2> HIDE DEF m
  <2>4. wild = [j \in 1..m |-> Wild]
    BY <2>2
  <2>5. [j \in 1..m |-> Wild] \in Seq(Loose(V))
    BY <2>2, <2>3
  <2> HIDE DEF wild
  <2> QED BY <2>4, <2>5
<1> HIDE DEF wild
<1>6. r.data \in Seq(Loose(V)) /\ r.read \in Seq(Seq(V)) /\ r.readN \in Nat
  BY <1>3 DEF Reading
<1>7. r.data \o wild \in Seq(Loose(V))
  BY <1>5, <1>6, ConcatProperties
<1> DEFINE t == [s EXCEPT !.read = r.read, !.readN = r.readN]
           d == r.data \o wild
<1>8. t \in GoodStream(V) /\ t.segments = s.segments /\ t.minimum = s.minimum
  BY <1>1, <1>6 DEF GoodStream, StreamOf, RoomAtEnd
<1> HIDE DEF t, d
<1>9. GetSegment(s, offset, wanted, hex) = [data |-> d, stream |-> t]
  BY <1>4 DEF t, d
<1>10. d \in Seq(Loose(V))
  BY <1>7 DEF d
<1> QED BY <1>8, <1>9, <1>10

Before(list, k) == Len(FlattenSeq(SubSeq(list, 1, k)))

\* Nothing is before the first segment.
LEMMA BeforeZero == ASSUME NEW list PROVE Before(list, 0) = 0
<1>1. SubSeq(list, 1, 0) = << >>
  BY SubSeqEmpty
<1>2. Len(<< >>) = 0
  OBVIOUS
<1> QED BY <1>1, <1>2, FlattenEmpty DEF Before

\* Where a segment of the list is within the bytes of the whole list.
LEMMA SegmentAt ==
  ASSUME NEW V, NEW list \in Seq(Seq(V)), NEW k \in 1..Len(list)
  PROVE  /\ Before(list, k - 1) \in Nat
         /\ Before(list, k) = Before(list, k - 1) + Len(list[k])
         /\ Before(list, k) <= Len(FlattenSeq(list))
         /\ \A j \in 1..Len(list[k]) : FlattenSeq(list)[Before(list, k - 1) + j] = list[k][j]
<1> DEFINE F == FlattenSeq(list)
           a == FlattenSeq(SubSeq(list, 1, k - 1))
           b == FlattenSeq(SubSeq(list, 1, k))
           c == FlattenSeq(SubSeq(list, k + 1, Len(list)))
           x == list[k]
<1>1. b = a \o x
  BY FlattenNext
<1>2. F = b \o c /\ b \in Seq(V) /\ c \in Seq(V)
  <2>1. k \in 0..Len(list)
    OBVIOUS
  <2> QED BY <2>1, FlattenSplit
<1>3. a \in Seq(V) /\ x \in Seq(V)
  <2>1. SubSeq(list, 1, k - 1) \in Seq(Seq(V))
    OBVIOUS
  <2>2. x \in Seq(V)
    OBVIOUS
  <2>3. a \in Seq(V)
    BY <2>1, FlattenType
  <2> QED BY <2>2, <2>3
<1> HIDE DEF F, a, b, c, x
<1>4. Len(a) \in Nat /\ Len(b) = Len(a) + Len(x) /\ Len(x) \in Nat /\ Len(c) \in Nat
      /\ Len(F) = Len(b) + Len(c)
  BY <1>1, <1>2, <1>3, ConcatProperties
<1>5. ASSUME NEW j \in 1..Len(x) PROVE F[Len(a) + j] = x[j]
  <2>1. Len(a) + j \in 1..(Len(a) + Len(x)) /\ Len(a) + j \in 1..(Len(b) + Len(c))
        /\ ~(Len(a) + j <= Len(a)) /\ (Len(a) + j) - Len(a) = j /\ Len(a) + j <= Len(b)
    BY <1>4
  <2>2. b[Len(a) + j] = x[j]
    BY <2>1, <1>1, <1>3, ConcatProperties
  <2>3. F[Len(a) + j] = b[Len(a) + j]
    BY <2>1, <1>2, ConcatProperties
  <2> QED BY <2>2, <2>3
<1>6. Before(list, k - 1) = Len(a) /\ Before(list, k) = Len(b)
  BY DEF Before, a, b
<1>7. Len(b) <= Len(F)
  BY <1>4
<1>8. /\ Before(list, k - 1) \in Nat
      /\ Before(list, k) = Before(list, k - 1) + Len(x)
      /\ Before(list, k) <= Len(F)
      /\ \A j \in 1..Len(x) : F[Before(list, k - 1) + j] = x[j]
  BY <1>4, <1>5, <1>6, <1>7
<1> QED BY <1>8 DEF F, x

\* The segments from a place on hold the rest of the bytes.
LEMMA RestOfSegments ==
  ASSUME NEW V, NEW list \in Seq(Seq(V)), NEW k \in 0..Len(list)
  PROVE  /\ Before(list, k) \in Nat /\ Before(list, k) <= Len(FlattenSeq(list))
         /\ FlattenSeq(SubSeq(list, k + 1, Len(list)))
              = SubSeq(FlattenSeq(list), Before(list, k) + 1, Len(FlattenSeq(list)))
<1> DEFINE F == FlattenSeq(list)
           b == FlattenSeq(SubSeq(list, 1, k))
           c == FlattenSeq(SubSeq(list, k + 1, Len(list)))
           d == SubSeq(F, Len(b) + 1, Len(F))
<1>1. F = b \o c /\ b \in Seq(V) /\ c \in Seq(V)
  BY FlattenSplit
<1> HIDE DEF F, b, c
<1>2. Len(b) \in Nat /\ Len(c) \in Nat /\ Len(F) = Len(b) + Len(c) /\ F \in Seq(V)
  BY <1>1, ConcatProperties
<1>3. /\ d \in Seq(V) /\ Len(d) = Len(c)
      /\ \A i \in 1..Len(c) : d[i] = F[Len(b) + 1 + i - 1]
  <2> DEFINE m == Len(b) + 1 n == Len(F)
  <2>1. m \in Nat \ {0} /\ n \in Nat /\ n <= Len(F) /\ n - m + 1 = Len(c)
        /\ (IF m <= n THEN n - m + 1 ELSE 0) = Len(c)
    BY <1>2
  <2> HIDE DEF m, n
  <2>2. /\ SubSeq(F, m, n) \in Seq(V)
        /\ Len(SubSeq(F, m, n)) = IF m <= n THEN n - m + 1 ELSE 0
        /\ \A i \in 1..(n - m + 1) : SubSeq(F, m, n)[i] = F[m + i - 1]
    BY <1>2, <2>1, SubSeqIn
  <2> QED BY <2>1, <2>2 DEF m, n
<1>4. ASSUME NEW i \in 1..Len(c) PROVE F[Len(b) + 1 + i - 1] = c[i]
  <2>1. Len(b) + 1 + i - 1 \in 1..(Len(b) + Len(c)) /\ ~(Len(b) + 1 + i - 1 <= Len(b))
        /\ (Len(b) + 1 + i - 1) - Len(b) = i
    BY <1>2
  <2> QED BY <2>1, <1>1, ConcatProperties
<1> HIDE DEF d
<1>5. \A i \in 1..Len(d) : d[i] = c[i]
  BY <1>3, <1>4
<1>6. d = c
  BY <1>1, <1>3, <1>5, SeqEqual
<1> QED BY <1>2, <1>6 DEF Before, F, b, c, d

\* A part of a part.
LEMMA PartOf ==
  ASSUME NEW V, NEW t \in Seq(V), NEW a \in Nat, NEW b \in Nat, a <= b, b <= Len(t)
  PROVE  /\ SubSeq(t, a + 1, b) \in Seq(V)
         /\ Len(SubSeq(t, a + 1, b)) = b - a
         /\ \A i \in 1..(b - a) : SubSeq(t, a + 1, b)[i] = t[a + i]
<1> DEFINE m == a + 1
<1>1. m \in Nat \ {0} /\ b - m + 1 = b - a /\ (IF m <= b THEN b - m + 1 ELSE 0) = b - a
      /\ \A i \in 1..(b - a) : m + i - 1 = a + i
  OBVIOUS
<1> HIDE DEF m
<1>2. /\ SubSeq(t, m, b) \in Seq(V)
      /\ Len(SubSeq(t, m, b)) = IF m <= b THEN b - m + 1 ELSE 0
      /\ \A i \in 1..(b - m + 1) : SubSeq(t, m, b)[i] = t[m + i - 1]
  BY <1>1, SubSeqIn
<1> QED BY <1>1, <1>2 DEF m

\* g is what t has from b on.
Follows(t, a, b, g) ==
  a <= b /\ b + Len(g) <= Len(t) /\ \A j \in 1..Len(g) : g[j] = t[b + j]

\* A part grows by the part that follows it.
LEMMA PartGrows ==
  ASSUME NEW V, NEW t \in Seq(V), NEW a \in Nat, NEW b \in Nat, NEW g \in Seq(Loose(V)),
         Follows(t, a, b, g)
  PROVE  SubSeq(t, a + 1, b) \o g = SubSeq(t, a + 1, b + Len(g))
<1> DEFINE l == Len(g)
<1>00. l \in Nat /\ l = Len(g) /\ a <= b /\ b + l <= Len(t) /\ \A j \in 1..l : g[j] = t[b + j]
  BY DEF Follows
<1> HIDE DEF l
<1> DEFINE p == SubSeq(t, a + 1, b) q == SubSeq(t, a + 1, b + l) W == Loose(V)
<1>0. V \subseteq W
  BY DEF Loose
<1> HIDE DEF W
<1>1. p \in Seq(V) /\ Len(p) = b - a /\ \A i \in 1..(b - a) : p[i] = t[a + i]
  <2>1. a <= b /\ b <= Len(t)
    BY <1>00
  <2> QED BY <2>1, PartOf
<1>2. q \in Seq(V) /\ Len(q) = (b + l) - a /\ \A i \in 1..((b + l) - a) : q[i] = t[a + i]
  <2> DEFINE e == b + l
  <2>1. e \in Nat /\ a <= e /\ e <= Len(t)
    BY <1>00
  <2> HIDE DEF e
  <2>2. SubSeq(t, a + 1, e) \in Seq(V) /\ Len(SubSeq(t, a + 1, e)) = e - a
        /\ \A i \in 1..(e - a) : SubSeq(t, a + 1, e)[i] = t[a + i]
    BY <2>1, PartOf
  <2> QED BY <2>2 DEF e
<1> HIDE DEF p, q
<1>3. p \in Seq(W) /\ q \in Seq(W)
  BY <1>0, <1>1, <1>2, SeqMonotonic
<1>4a. g \in Seq(W)
  BY DEF W
<1>4. /\ p \o g \in Seq(W) /\ Len(p \o g) = Len(p) + Len(g)
      /\ \A i \in 1..(Len(p) + Len(g)) : (p \o g)[i] = IF i <= Len(p) THEN p[i] ELSE g[i - Len(p)]
  BY <1>3, <1>4a, ConcatProperties
<1>5. Len(p \o g) = Len(q)
  <2>1. Len(p) = b - a /\ Len(q) = (b + l) - a
    BY <1>1, <1>2
  <2>2. Len(p \o g) = Len(p) + l
    BY <1>4, <1>00
  <2> HIDE DEF p, q
  <2> QED BY <1>00, <2>1, <2>2
<1>6. ASSUME NEW i \in 1..Len(q) PROVE (p \o g)[i] = q[i]
  <2>1. CASE i <= Len(p)
    BY <2>1, <1>1, <1>2, <1>4, <1>00
  <2>2. CASE ~(i <= Len(p))
    <3>1. i - Len(p) \in 1..l /\ b + (i - Len(p)) = a + i
      BY <2>2, <1>1, <1>2, <1>00
    <3>2. (p \o g)[i] = g[i - Len(p)]
      BY <2>2, <1>1, <1>2, <1>4, <1>00
    <3> QED BY <3>1, <3>2, <1>2, <1>00
  <2> QED BY <2>1, <2>2
<1>7. p \o g = q
  <2> DEFINE u == p \o g
  <2>1. u \in Seq(W) /\ Len(u) = Len(q) /\ \A i \in 1..Len(u) : u[i] = q[i]
    BY <1>4, <1>5, <1>6
  <2> HIDE DEF u
  <2>2. u = q
    BY <2>1, <1>3, SeqEqual
  <2> QED BY <2>2 DEF u
<1> QED BY <1>7 DEF p, q, l

\* The rest of a rest.
LEMMA TailOfTail ==
  ASSUME NEW V, NEW t \in Seq(V), NEW a \in Nat, NEW m \in Nat, a + m <= Len(t)
  PROVE  SubSeq(SubSeq(t, a + 1, Len(t)), m + 1, Len(t) - a) = SubSeq(t, a + m + 1, Len(t))
<1> DEFINE n == Len(t) u == SubSeq(t, a + 1, n)
           p == SubSeq(u, m + 1, n - a) q == SubSeq(t, a + m + 1, n)
<1>1. n \in Nat /\ a <= n /\ n - a \in Nat /\ m <= n - a /\ a + m \in Nat
  OBVIOUS
<1>2. u \in Seq(V) /\ Len(u) = n - a /\ \A i \in 1..(n - a) : u[i] = t[a + i]
  <2>1. n = Len(t)
    OBVIOUS
  <2> HIDE DEF n
  <2> QED BY <1>1, <2>1, PartOf
<1>3. q \in Seq(V) /\ Len(q) = n - (a + m) /\ \A i \in 1..(n - (a + m)) : q[i] = t[a + m + i]
  <2>1. n = Len(t) /\ a + m <= n
    OBVIOUS
  <2> DEFINE b == a + m
  <2> HIDE DEF n, b
  <2>2. SubSeq(t, b + 1, n) \in Seq(V) /\ Len(SubSeq(t, b + 1, n)) = n - b
        /\ \A i \in 1..(n - b) : SubSeq(t, b + 1, n)[i] = t[b + i]
    <3>1. b \in Nat /\ b <= n /\ n <= Len(t)
      BY <1>1, <2>1 DEF b
    <3> QED BY <1>1, <3>1, PartOf
  <2> QED BY <2>2 DEF b
<1> HIDE DEF u, n
<1>4. p \in Seq(V) /\ Len(p) = (n - a) - m /\ \A i \in 1..((n - a) - m) : p[i] = u[m + i]
  <2> DEFINE e == n - a
  <2>1. e \in Nat /\ m <= e /\ e <= Len(u)
    BY <1>1, <1>2
  <2> HIDE DEF e
  <2>2. SubSeq(u, m + 1, e) \in Seq(V) /\ Len(SubSeq(u, m + 1, e)) = e - m
        /\ \A i \in 1..(e - m) : SubSeq(u, m + 1, e)[i] = u[m + i]
    BY <1>2, <2>1, PartOf
  <2> QED BY <2>2 DEF e
<1> HIDE DEF p, q
<1>5. Len(p) = Len(q)
  BY <1>1, <1>3, <1>4
<1>6. ASSUME NEW i \in 1..Len(p) PROVE p[i] = q[i]
  <2>1. i \in 1..((n - a) - m) /\ m + i \in 1..(n - a) /\ i \in 1..(n - (a + m)) /\ a + (m + i) = a + m + i
    BY <1>1, <1>4
  <2> QED BY <2>1, <1>2, <1>3, <1>4
<1>7. p = q
  BY <1>3, <1>4, <1>5, <1>6, SeqEqual
<1> QED BY <1>7 DEF p, q, u, n

\* The rest of t from which a list of segments, n0 bytes into it, is read.
Holds(list, n0, t) == n0 <= Len(t) /\ FlattenSeq(list) = SubSeq(t, n0 + 1, Len(t))

\* Between two segments of a read from off0 to end; and when it has what it wanted.
Going(r, t, off0, end) ==
  /\ ~r.done /\ off0 <= r.offset /\ r.offset <= end /\ r.wanted = end - r.offset
  /\ r.data = SubSeq(t, off0 + 1, r.offset)
  /\ r.n <= off0 => r.offset = off0
  /\ off0 < r.n => r.offset = r.n
Finished(r, t, off0, end) ==
  /\ r.done /\ r.data = SubSeq(t, off0 + 1, end) /\ r.wanted = 0
  /\ r.readN <= end /\ Holds(r.read, r.readN, t)

\* What is known of a segment, n bytes into t.
SegmentIs(x, list, k, n, t) ==
  /\ n \in Nat /\ n + Len(x) <= Len(t)
  /\ \A j \in 1..Len(x) : x[j] = t[n + j]
  /\ Holds(SubSeq(list, k, Len(list)), n, t)
  /\ Holds(SubSeq(list, k + 1, Len(list)), n + Len(x), t)

\* A segment of a list that holds the rest of t is a part of t.
LEMMA SegmentOf ==
  ASSUME NEW V, NEW t \in Seq(V), NEW list \in Seq(Seq(V)), NEW n0 \in Nat, Holds(list, n0, t),
         NEW k \in 1..Len(list)
  PROVE  /\ SegmentIs(list[k], list, k, n0 + Before(list, k - 1), t)
         /\ n0 + Before(list, k) = n0 + Before(list, k - 1) + Len(list[k])
<1> DEFINE F == FlattenSeq(list) m == Before(list, k - 1) M == Before(list, k)
           T == Len(t) x == list[k] X == Len(x)
<1>1. /\ m \in Nat /\ M = m + X /\ M <= Len(F) /\ \A j \in 1..X : F[m + j] = x[j]
      /\ x \in Seq(V) /\ X \in Nat
  <2>1. list[k] \in Seq(V) /\ x \in Seq(V) /\ X \in Nat
    OBVIOUS
  <2>2. /\ Before(list, k - 1) \in Nat /\ Before(list, k) = Before(list, k - 1) + Len(list[k])
        /\ Before(list, k) <= Len(FlattenSeq(list))
        /\ \A j \in 1..Len(list[k]) : FlattenSeq(list)[Before(list, k - 1) + j] = list[k][j]
    BY SegmentAt
  <2> HIDE DEF X
  <2>3. list[k] = x /\ Len(list[k]) = X
    BY DEF X
  <2> HIDE DEF x
  <2> QED BY <2>1, <2>2, <2>3
<1>2. n0 <= T /\ F = SubSeq(t, n0 + 1, T) /\ T \in Nat /\ T <= Len(t)
  BY DEF Holds
<1> HIDE DEF F
<1>3. F \in Seq(V) /\ Len(F) = T - n0 /\ \A i \in 1..(T - n0) : F[i] = t[n0 + i]
  <2> HIDE DEF T
  <2> QED BY <1>2, PartOf
<1>4. FlattenSeq(SubSeq(list, k, Len(list))) = SubSeq(F, m + 1, Len(F))
  <2> DEFINE h == k - 1
  <2>1. h \in 0..Len(list) /\ h + 1 = k
    OBVIOUS
  <2> HIDE DEF h
  <2>2. FlattenSeq(SubSeq(list, h + 1, Len(list))) = SubSeq(F, Before(list, h) + 1, Len(F))
    BY <2>1, RestOfSegments DEF F
  <2> QED BY <2>1, <2>2 DEF h
<1>5. FlattenSeq(SubSeq(list, k + 1, Len(list))) = SubSeq(F, M + 1, Len(F))
  <2>1. k \in 0..Len(list)
    OBVIOUS
  <2> QED BY <2>1, RestOfSegments DEF F
<1> HIDE DEF m, M, X, x
<1>6. /\ n0 + m \in Nat /\ n0 + M = (n0 + m) + X /\ n0 + M <= T /\ M \in Nat /\ n0 + m <= T
  <2> HIDE DEF T
  <2>1. m \in Nat /\ M = m + X /\ M <= Len(F) /\ X \in Nat
    BY <1>1
  <2>2. n0 <= T /\ T \in Nat /\ Len(F) = T - n0
    BY <1>2, <1>3
  <2> QED BY <2>1, <2>2
<1>7. SubSeq(F, m + 1, Len(F)) = SubSeq(t, n0 + m + 1, T)
  <2>1. SubSeq(SubSeq(t, n0 + 1, Len(t)), m + 1, Len(t) - n0) = SubSeq(t, n0 + m + 1, Len(t))
    BY <1>1, <1>6, TailOfTail
  <2>2. F = SubSeq(t, n0 + 1, Len(t)) /\ Len(F) = Len(t) - n0
    BY <1>2, <1>3
  <2> QED BY <2>1, <2>2
<1>8. SubSeq(F, M + 1, Len(F)) = SubSeq(t, n0 + M + 1, T)
  <2>1. SubSeq(SubSeq(t, n0 + 1, Len(t)), M + 1, Len(t) - n0) = SubSeq(t, n0 + M + 1, Len(t))
    BY <1>6, TailOfTail
  <2>2. F = SubSeq(t, n0 + 1, Len(t)) /\ Len(F) = Len(t) - n0
    BY <1>2, <1>3
  <2> QED BY <2>1, <2>2
<1>9. ASSUME NEW j \in 1..X PROVE x[j] = t[(n0 + m) + j]
  <2>1. m + j \in 1..(T - n0) /\ n0 + (m + j) = (n0 + m) + j
    <3> HIDE DEF T
    <3> QED BY <1>1, <1>2, <1>3
  <2> QED BY <2>1, <1>1, <1>3
<1>10. Holds(SubSeq(list, k, Len(list)), n0 + m, t)
  BY <1>4, <1>6, <1>7 DEF Holds
<1>11. Holds(SubSeq(list, k + 1, Len(list)), n0 + M, t)
  BY <1>5, <1>6, <1>8 DEF Holds
<1>12. Holds(SubSeq(list, k + 1, Len(list)), (n0 + m) + X, t)
  BY <1>6, <1>11
<1>13. (n0 + m) + X <= T
  BY <1>6
<1>14. SegmentIs(x, list, k, n0 + m, t)
  BY <1>6, <1>9, <1>10, <1>12, <1>13 DEF SegmentIs, T, X
<1>15. n0 + M = n0 + m + Len(x)
  BY <1>6 DEF X
<1> QED BY <1>14, <1>15 DEF m, M, x

(* The numbers of one step. *)
StepGiven(n, S, o, w, off0, end, l) ==
  /\ n \in Nat /\ S \in Nat /\ o \in Int /\ w \in Int /\ off0 \in Nat /\ end \in Nat
  /\ off0 <= o /\ o <= end /\ w = end - o /\ (n <= off0 => o = off0) /\ (off0 < n => o = n)
  /\ l = Least2(w, S - (o - n))
StepSkips(n, S, o, off0) ==
  n + S <= o => (n + S <= off0 => o = off0) /\ (off0 < n + S => o = n + S)
StepTakes(n, S, o, w, off0, end, l) ==
  ~(n + S <= o) =>
    /\ o - n \in Nat /\ l \in Nat /\ l <= S - (o - n) /\ o \in Nat /\ n <= end
    /\ n + (o - n) = o /\ o + l <= n + S
    /\ l < w => /\ o + l = n + S /\ off0 < n + S /\ off0 <= o + l /\ o + l <= end
                /\ w - l = end - (o + l)
    /\ ~(l < w) => o + l = end /\ (l = S => n + S <= end)

\* One step, by the four cases of where the wanted bytes are.
LEMMA StepPlace ==
  ASSUME NEW n, NEW S, NEW o, NEW w, NEW off0, NEW end, NEW l, StepGiven(n, S, o, w, off0, end, l)
  PROVE  StepSkips(n, S, o, off0) /\ StepTakes(n, S, o, w, off0, end, l)
<1> USE DEF StepGiven
<1>1. StepSkips(n, S, o, off0)
  BY DEF StepSkips
<1>2. ASSUME ~(n + S <= o)
      PROVE  /\ o - n \in Nat /\ l \in Nat /\ l <= S - (o - n) /\ o \in Nat /\ n <= end
             /\ n + (o - n) = o /\ o + l <= n + S
             /\ l < w => /\ o + l = n + S /\ off0 < n + S /\ off0 <= o + l /\ o + l <= end
                         /\ w - l = end - (o + l)
             /\ ~(l < w) => o + l = end /\ (l = S => n + S <= end)
  <2>1. l = IF w < S - (o - n) THEN w ELSE S - (o - n)
    BY <1>2 DEF Least2
  <2>2. o - n \in Nat /\ w \in Nat /\ o \in Nat /\ n <= end /\ n + (o - n) = o
    OBVIOUS
  <2>3. l \in Nat /\ l <= S - (o - n) /\ o + l <= n + S
    BY <1>2, <2>1, <2>2
  <2>4. l < w => /\ o + l = n + S /\ off0 < n + S /\ off0 <= o + l /\ o + l <= end
                 /\ w - l = end - (o + l)
    BY <1>2, <2>1, <2>2
  <2>5. ~(l < w) => o + l = end /\ (l = S => n + S <= end)
    BY <1>2, <2>1, <2>2
  <2> QED BY <2>2, <2>3, <2>4, <2>5
<1> QED BY <1>1, <1>2 DEF StepTakes

(* One segment of a read that began in its own place. *)

\* One step of getSegment copies the part of t that the segment has of what is wanted.
LEMMA ReadStepExact ==
  ASSUME NEW V, NEW t \in Seq(V), NEW list \in Seq(Seq(V)), NEW n0 \in Nat, Holds(list, n0, t),
         NEW off0 \in Nat, NEW end \in Nat, n0 <= off0, off0 <= end, end <= Len(t),
         NEW hex \in BOOLEAN, NEW r \in Reading(V), NEW k \in 1..Len(list),
         Going(r, t, off0, end), r.n = n0 + Before(list, k - 1)
  PROVE  LET q == ReadStep(list, hex, r, k)
         IN  \/ Going(q, t, off0, end) /\ q.n = n0 + Before(list, k)
                /\ q.read = r.read /\ q.readN = r.readN
             \/ Finished(q, t, off0, end)
<1> DEFINE seg == list[k]
           S == Len(seg)
           o == r.offset
           w == r.wanted
           n == r.n
           off == o - n
           l == Least2(w, S - off)
           taken == Taken(seg, off, l)
           whole == l = S /\ ~hex
           data == r.data \o taken
           from == IF whole THEN k + 1 ELSE k
           rest == SubSeq(list, from, Len(list))
           readN == n + IF whole THEN S ELSE 0
           B == n0 + Before(list, k)
           T == Len(t)
           q == ReadStep(list, hex, r, k)
           skip == [r EXCEPT !.n = n + S]
           more == [r EXCEPT !.data = data, !.wanted = w - l, !.offset = o + l, !.n = n + S]
           last == [r EXCEPT !.data = data, !.wanted = 0, !.done = TRUE, !.read = rest, !.readN = readN]
<1> HIDE DEF seg, n
<1>1. /\ n \in Nat /\ B = n + S /\ n + S <= T
      /\ \A j \in 1..S : seg[j] = t[n + j]
      /\ Holds(SubSeq(list, k, Len(list)), n, t)
      /\ Holds(SubSeq(list, k + 1, Len(list)), n + S, t)
  <2>1. n = n0 + Before(list, k - 1) /\ seg = list[k]
    BY DEF n, seg
  <2>2. SegmentIs(seg, list, k, n, t) /\ n0 + Before(list, k) = n + Len(seg)
    BY <2>1, SegmentOf
  <2> QED BY <2>2 DEF SegmentIs
<1>1a. n \in Nat /\ S \in Nat /\ n + S \in Nat /\ T \in Nat /\ n + S <= T
  <2>1. seg \in Seq(V) /\ S \in Nat /\ T \in Nat
    BY DEF seg
  <2>2. n \in Nat /\ n + S <= T
    BY <1>1
  <2> HIDE DEF S, T
  <2> QED BY <2>1, <2>2
<1>2. /\ seg \in Seq(V) /\ S \in Nat /\ o \in Int /\ w \in Int /\ T \in Nat
      /\ r.data \in Seq(Loose(V)) /\ r \in Reading(V)
  <2>1. seg \in Seq(V)
    BY DEF seg
  <2> QED BY <2>1 DEF Reading
<1>3. q = IF r.done THEN r ELSE IF n + S <= o THEN skip ELSE IF l < w THEN more ELSE last
  BY DEF ReadStep, Taken, seg, n
<1> HIDE DEF q, skip, more, last
<1>4. /\ r.done = FALSE /\ off0 <= o /\ o <= end /\ w = end - o
      /\ r.data = SubSeq(t, off0 + 1, o)
      /\ n <= off0 => o = off0
      /\ off0 < n => o = n
  BY <1>2 DEF Going, Reading, n
<1> HIDE DEF o, w, T, S
<1>0. /\ n + S <= o => /\ n + S <= off0 => o = off0
                       /\ off0 < n + S => o = n + S
      /\ ~(n + S <= o) =>
              /\ off \in Nat /\ l \in Nat /\ l <= S - off /\ o \in Nat /\ n <= end
              /\ n + off = o /\ o + l <= n + S
              /\ l < w => /\ o + l = n + S /\ off0 < n + S /\ off0 <= o + l /\ o + l <= end
                          /\ w - l = end - (o + l)
              /\ ~(l < w) => o + l = end /\ (l = S => n + S <= end)
  <2>1. n \in Nat /\ S \in Nat /\ o \in Int /\ w \in Int
    BY <1>1a, <1>2
  <2>2. off0 <= o /\ o <= end /\ w = end - o /\ (n <= off0 => o = off0) /\ (off0 < n => o = n)
    BY <1>4
  <2> HIDE DEF data, rest, readN, taken, whole, B
  <2>3. StepGiven(n, S, o, w, off0, end, l)
    <3> HIDE DEF l
    <3> QED BY <2>1, <2>2 DEF StepGiven, l
  <2>4. StepSkips(n, S, o, off0) /\ StepTakes(n, S, o, w, off0, end, l)
    <3> HIDE DEF l
    <3> QED BY <2>3, StepPlace
  <2> HIDE DEF l
  <2> QED BY <2>4 DEF StepSkips, StepTakes
<1> HIDE DEF l, off
<1>5. CASE n + S <= o
  <2> HIDE DEF data, rest, readN
  <2>1. q = [r EXCEPT !.n = n + S]
    <3>1. q = skip
      BY <1>3, <1>4, <1>5
    <3> QED BY <3>1 DEF skip
  <2>2. /\ q.n = n + S /\ q.done = r.done /\ q.offset = o /\ q.wanted = w
        /\ q.data = r.data /\ q.read = r.read /\ q.readN = r.readN
    <3> DEFINE h == n + S
    <3> HIDE DEF h
    <3>1. q = [r EXCEPT !.n = h]
      BY <2>1 DEF h
    <3> QED BY <3>1, <1>2 DEF Reading, h, o, w
  <2>4. Going(q, t, off0, end)
    BY <2>2, <1>0, <1>4, <1>5 DEF Going
  <2> QED BY <2>2, <2>4, <1>1 DEF q, B
<1>6. CASE ~(n + S <= o)
  <2> HIDE DEF B, taken, data, rest, readN, whole
  <2>1. off \in Nat /\ n + off = o /\ o \in Nat /\ off \in Int /\ n <= end
    BY <1>0, <1>6
  <2>2. l \in Nat /\ l <= S - off /\ o + l <= n + S
    BY <1>0, <1>6
  <2>3. taken \in Seq(Loose(V)) /\ Len(taken) = l
    <3>1. seg \in Seq(V) /\ l \in Int /\ l <= Len(seg) - off /\ ~(l < 0)
      BY <2>2, <1>2 DEF S
    <3> QED BY <2>1, <3>1, TakenType DEF taken
  <2>4. \A j \in 1..l : taken[j] = t[o + j]
    <3> TAKE j \in 1..l
    <3>1. off + j \in 1..S /\ ~(off + j < 1) /\ n + (off + j) = o + j
      BY <1>1a, <2>1, <2>2
    <3>2. taken[j] = seg[off + j]
      BY <3>1 DEF Taken, taken
    <3>3. seg[off + j] = t[n + (off + j)]
      BY <3>1, <1>1
    <3> QED BY <3>1, <3>2, <3>3
  <2>5. data = SubSeq(t, off0 + 1, o + l)
    <3>1. o \in Nat /\ off0 <= o /\ o + l <= T /\ V \subseteq Loose(V)
      <4>1. V \subseteq Loose(V)
        BY DEF Loose
      <4>3. o + l <= T
        BY <1>1a, <2>1, <2>2
      <4> QED BY <4>1, <4>3, <2>1, <1>4
    <3>2. r.data = SubSeq(t, off0 + 1, o) /\ T = Len(t)
      BY <1>4 DEF T
    <3>3. o + l <= Len(t)
      BY <3>1, <3>2
    <3> HIDE DEF T
    <3>5. Follows(t, off0, o, taken)
      BY <2>3, <2>4, <3>1, <3>3 DEF Follows
    <3>4. SubSeq(t, off0 + 1, o) \o taken = SubSeq(t, off0 + 1, o + l)
      <4>1. SubSeq(t, off0 + 1, o) \o taken = SubSeq(t, off0 + 1, o + Len(taken))
        <5>1. o \in Nat /\ taken \in Seq(Loose(V))
          BY <2>3, <3>1
        <5> QED BY <5>1, <3>5, PartGrows
      <4> QED BY <4>1, <2>3
    <3> QED BY <3>2, <3>4 DEF data
  <2>6. CASE l < w
    <3>1. q = [r EXCEPT !.data = data, !.wanted = w - l, !.offset = o + l, !.n = n + S]
      BY <1>3, <1>4, <1>6, <2>6 DEF more
    <3>2. /\ q.n = n + S /\ q.done = r.done /\ q.offset = o + l
          /\ q.wanted = w - l /\ q.data = data /\ q.read = r.read /\ q.readN = r.readN
      <4> DEFINE e == w - l g == o + l h == n + S
      <4> HIDE DEF e, g, h
      <4>1. q = [r EXCEPT !.data = data, !.wanted = e, !.offset = g, !.n = h]
        BY <3>1 DEF e, g, h
      <4>2. /\ q.n = h /\ q.done = r.done /\ q.offset = g
            /\ q.wanted = e /\ q.data = data /\ q.read = r.read /\ q.readN = r.readN
        BY <4>1, <1>2 DEF Reading
      <4> QED BY <4>2 DEF e, g, h
    <3>3. o + l = n + S /\ off0 < n + S /\ off0 <= o + l /\ o + l <= end /\ w - l = end - (o + l)
      BY <2>6, <1>0, <1>6
    <3>4. ~(n + S <= off0)
      BY <1>1a, <3>3
    <3>5. Going(q, t, off0, end)
      BY <3>2, <3>3, <3>4, <2>5, <1>4 DEF Going
    <3>6. q.n = B
      BY <3>2, <1>1
    <3> QED BY <3>2, <3>5, <3>6 DEF q, B
  <2>7. CASE ~(l < w)
    <3>1. o + l = end /\ (l = S => n + S <= end)
      BY <2>7, <1>0, <1>6
    <3>2. q = [r EXCEPT !.data = data, !.wanted = 0, !.done = TRUE, !.read = rest, !.readN = readN]
      BY <1>3, <1>4, <1>6, <2>7 DEF last
    <3>3. q.done = TRUE /\ q.data = data /\ q.wanted = 0 /\ q.read = rest /\ q.readN = readN
      BY <3>2, <1>2 DEF Reading
    <3>4. Holds(rest, readN, t) /\ readN <= end
      <4>1. CASE whole
        <5>1. rest = SubSeq(list, k + 1, Len(list)) /\ readN = n + S
          BY <4>1 DEF rest, readN
        <5>2. l = S
          BY <4>1 DEF whole
        <5>3. n + S <= end
          BY <5>2, <3>1
        <5> QED BY <5>1, <5>3, <1>1
      <4>2. CASE ~whole
        <5>1. rest = SubSeq(list, k, Len(list)) /\ readN = n
          BY <4>2, <1>1 DEF rest, readN
        <5> QED BY <5>1, <2>1, <1>1
      <4> QED BY <4>1, <4>2
    <3>5. Finished(q, t, off0, end)
      BY <3>1, <3>3, <3>4, <2>5 DEF Finished
    <3> QED BY <3>5 DEF q
  <2> QED BY <2>6, <2>7
<1> QED BY <1>5, <1>6

\* Between segments k and k + 1 of a read, or after its last.
ReadSoFar(r, k, list, n0, t, off0, end, start) ==
  \/ /\ Going(r, t, off0, end) /\ r.n = n0 + Before(list, k)
     /\ r.read = start.read /\ r.readN = start.readN
  \/ Finished(r, t, off0, end)

\* The steps of getSegment, up to each segment of the list.
LEMMA ReadExact ==
  ASSUME NEW V, NEW t \in Seq(V), NEW list \in Seq(Seq(V)), NEW n0 \in Nat, Holds(list, n0, t),
         NEW off0 \in Nat, NEW end \in Nat, n0 <= off0, off0 <= end, end <= Len(t),
         NEW hex \in BOOLEAN, NEW start \in Reading(V), Going(start, t, off0, end), start.n = n0
  PROVE  LET r == ReadAll(list, hex, start)
         IN  /\ r.data = SubSeq(t, off0 + 1, end) /\ r.wanted = 0
             /\ \/ r.read = start.read /\ r.readN = start.readN
                \/ r.readN <= end /\ Holds(r.read, r.readN, t)
<1> DEFINE n == Len(list) r == ReadAll(list, hex, start)
<1>1. PICK f \in [0..n -> Reading(V)] :
            /\ f[0] = start
            /\ \A i \in 1..n : f[i] = ReadStep(list, hex, f[i - 1], i)
            /\ r = f[n]
  BY ReadFold
<1>2. n \in Nat
  OBVIOUS
<1> DEFINE P(k) == ReadSoFar(f[k], k, list, n0, t, off0, end, start)
<1>3. P(0)
  <2>1. n0 + Before(list, 0) = n0
    BY BeforeZero
  <2> QED BY <2>1, <1>1 DEF ReadSoFar
<1>4. ASSUME NEW k \in Nat, P(k), k + 1 <= n PROVE P(k + 1)
  <2> DEFINE j == k + 1 x == f[k]
  <2>1. j \in 1..n /\ j - 1 = k /\ k \in 0..n
    BY <1>2, <1>4
  <2> HIDE DEF j, n
  <2>2. x \in Reading(V)
    BY <2>1
  <2>3. f[j] = ReadStep(list, hex, x, j)
    BY <2>1, <1>1
  <2> HIDE DEF x
  <2>4. CASE Finished(x, t, off0, end)
    <3>1. ReadStep(list, hex, x, j) = x
      BY <2>4 DEF Finished, ReadStep
    <3> QED BY <3>1, <2>3, <2>4 DEF ReadSoFar, j
  <2>5. CASE Going(x, t, off0, end) /\ x.n = n0 + Before(list, k)
                /\ x.read = start.read /\ x.readN = start.readN
    <3>1. x.n = n0 + Before(list, j - 1)
      BY <2>1, <2>5
    <3>2. j \in 1..Len(list)
      BY <2>1 DEF n
    <3>3. \/ /\ Going(ReadStep(list, hex, x, j), t, off0, end)
             /\ ReadStep(list, hex, x, j).n = n0 + Before(list, j)
             /\ ReadStep(list, hex, x, j).read = x.read /\ ReadStep(list, hex, x, j).readN = x.readN
          \/ Finished(ReadStep(list, hex, x, j), t, off0, end)
      BY <2>2, <2>5, <3>1, <3>2, ReadStepExact
    <3>4. ReadSoFar(f[j], j, list, n0, t, off0, end, start)
      BY <2>3, <2>5, <3>3 DEF ReadSoFar
    <3> QED BY <3>4 DEF j
  <2>6. Finished(x, t, off0, end) \/
        (Going(x, t, off0, end) /\ x.n = n0 + Before(list, k)
                /\ x.read = start.read /\ x.readN = start.readN)
    BY <1>4 DEF ReadSoFar, x
  <2> QED BY <2>4, <2>5, <2>6
<1>5. P(n)
  <2> DEFINE K == {k \in Nat : k <= n => P(k)}
  <2> HIDE DEF P, n
  <2>1. 0 \in K
    BY <1>3
  <2>2. \A k \in Nat : k \in K => k + 1 \in K
    <3> TAKE k \in Nat
    <3>1. SUFFICES ASSUME k <= n => P(k), k + 1 <= n PROVE P(k + 1)
      OBVIOUS
    <3>2. P(k)
      BY <3>1, <1>2
    <3> QED BY <3>1, <3>2, <1>4
  <2>3. \A k \in K : k <= n => P(k)
    OBVIOUS
  <2> HIDE DEF K
  <2>4. n \in K
    BY <1>2, <2>1, <2>2, Induction
  <2> QED BY <1>2, <2>3, <2>4
<1> HIDE DEF n
<1>6. r \in Reading(V)
  BY <1>1, <1>2
<1>7. ReadSoFar(r, n, list, n0, t, off0, end, start)
  BY <1>1, <1>5
<1> HIDE DEF r, P
<1>8. CASE Finished(r, t, off0, end)
  BY <1>8 DEF Finished, r
<1>9. CASE Going(r, t, off0, end) /\ r.n = n0 + Before(list, n)
             /\ r.read = start.read /\ r.readN = start.readN
  <2>1. SubSeq(list, 1, n) = list
    BY SubSeqFull DEF n
  <2>2. n0 + Before(list, n) = Len(t)
    <3>1. Before(list, n) = Len(FlattenSeq(list))
      BY <2>1 DEF Before
    <3>2. n0 <= Len(t) /\ FlattenSeq(list) = SubSeq(t, n0 + 1, Len(t))
      BY DEF Holds
    <3>3. Len(SubSeq(t, n0 + 1, Len(t))) = Len(t) - n0
      <4>1. Len(t) \in Nat /\ Len(t) <= Len(t)
        OBVIOUS
      <4> QED BY <3>2, <4>1, PartOf
    <3>4. Len(t) \in Nat /\ n0 + (Len(t) - n0) = Len(t)
      OBVIOUS
    <3> QED BY <3>1, <3>2, <3>3, <3>4
  <2>3. r.n = Len(t) /\ r.offset \in Int /\ r.wanted = end - r.offset /\ r.data = SubSeq(t, off0 + 1, r.offset)
        /\ (r.n <= off0 => r.offset = off0) /\ (off0 < r.n => r.offset = r.n)
        /\ r.offset <= end /\ Len(t) \in Nat
    BY <2>2, <1>9, <1>6 DEF Going, Reading
  <2>4. r.offset = end
    <3> DEFINE o == r.offset T == Len(t) m == r.n
    <3>1. m = T /\ o \in Int /\ (m <= off0 => o = off0) /\ (off0 < m => o = m) /\ o <= end /\ T \in Nat /\ end <= T
      BY <2>3
    <3> HIDE DEF o, T, m
    <3>2. o = end
      BY <3>1
    <3> QED BY <3>2 DEF o
  <2>5. r.wanted = 0
    BY <2>3, <2>4
  <2> QED BY <2>3, <2>4, <2>5, <1>9 DEF r
<1> QED BY <1>7, <1>8, <1>9 DEF ReadSoFar

\* What a stream remembers of a read lets the next one begin at `offset'.
InPlace(s, offset, t) == s.read = << >> \/ (s.readN <= offset /\ Holds(s.read, s.readN, t))

\* getSegment gives the bytes of the stream between the two places, when the place it kept is not
\* past them.
LEMMA GetSegmentExact ==
  ASSUME NEW V, NEW s \in GoodStream(V), NEW t, t = FlattenSeq(s.segments),
         NEW offset \in Nat, NEW wanted \in Nat, offset + wanted <= Len(t), InPlace(s, offset, t),
         NEW hex \in BOOLEAN
  PROVE  LET g == GetSegment(s, offset, wanted, hex)
         IN  /\ g.data = SubSeq(t, offset + 1, offset + wanted)
             /\ InPlace(g.stream, offset + wanted, t)
<1> DEFINE list == IF s.read # << >> THEN s.read ELSE s.segments
           n0 == IF s.read # << >> THEN s.readN ELSE 0
           start == [data |-> << >>, wanted |-> wanted, offset |-> offset, done |-> FALSE,
                     n |-> n0, read |-> s.read, readN |-> s.readN]
           r == ReadAll(list, hex, start)
           wild == [j \in 1..r.wanted |-> Wild]
           end == offset + wanted
<1>1. s \in StreamOf(V) /\ s.segments \in Seq(Seq(V)) /\ s.read \in Seq(Seq(V)) /\ s.readN \in Nat
  BY DEF GoodStream, StreamOf
<1>2. list \in Seq(Seq(V)) /\ n0 \in Nat /\ t \in Seq(V)
  <2>1. t \in Seq(V)
    BY <1>1, FlattenType
  <2> QED BY <1>1, <2>1
<1>3. Holds(list, n0, t) /\ n0 <= offset
  <2>1. CASE s.read # << >>
    BY <2>1 DEF InPlace
  <2>2. CASE s.read = << >>
    <3>1. list = s.segments /\ n0 = 0
      BY <2>2
    <3>2. SubSeq(t, 0 + 1, Len(t)) = t
      <4>1. SubSeq(t, 1, Len(t)) = t
        BY <1>2, SubSeqFull
      <4> QED BY <4>1
    <3>3. 0 <= Len(t) /\ 0 <= offset
      BY <1>2
    <3> QED BY <3>1, <3>2, <3>3 DEF Holds
  <2> QED BY <2>1, <2>2
<1>4. GetSegment(s, offset, wanted, hex)
        = [data |-> r.data \o wild, stream |-> [s EXCEPT !.read = r.read, !.readN = r.readN]]
  BY DEF GetSegment, ReadAll
<1> HIDE DEF list, n0
<1>5. start \in Reading(V)
  <2>1. << >> \in Seq(Loose(V)) /\ FALSE \in BOOLEAN /\ wanted \in Int /\ offset \in Int
    OBVIOUS
  <2> QED BY <2>1, <1>1, <1>2 DEF Reading
<1>6. end \in Nat /\ offset <= end /\ end <= Len(t) /\ wanted = end - offset
  OBVIOUS
<1>7. start.n = n0 /\ start.read = s.read /\ start.readN = s.readN
  OBVIOUS
<1>8. Going(start, t, offset, end)
  <2>1. /\ start.done = FALSE /\ start.offset = offset /\ start.wanted = wanted /\ start.data = << >>
        /\ start.n = n0
    OBVIOUS
  <2> HIDE DEF start
  <2>2. SubSeq(t, offset + 1, offset) = << >>
    <3>1. offset \in Int /\ offset + 1 \in Int /\ offset + 1 > offset
      OBVIOUS
    <3> QED BY <3>1, SubSeqEmpty
  <2>3. ~(offset < n0)
    BY <1>2, <1>3
  <2> HIDE DEF end
  <2> QED BY <2>1, <2>2, <2>3, <1>6 DEF Going
<1> HIDE DEF start, end
<1>9. /\ r.data = SubSeq(t, offset + 1, end) /\ r.wanted = 0
      /\ \/ r.read = start.read /\ r.readN = start.readN
         \/ r.readN <= end /\ Holds(r.read, r.readN, t)
  BY <1>2, <1>3, <1>5, <1>6, <1>7, <1>8, ReadExact
<1>10. r.data \o wild = r.data
  <2>1. r.data \in Seq(V) /\ wild = << >>
    <3>1. wild = << >>
      BY <1>9
    <3>2. SubSeq(t, offset + 1, end) \in Seq(V)
      BY <1>2, <1>6, PartOf
    <3> QED BY <3>1, <3>2, <1>9
  <2> HIDE DEF r, wild
  <2> QED BY <2>1
<1> HIDE DEF r, wild
<1> DEFINE u == [s EXCEPT !.read = r.read, !.readN = r.readN]
<1>11. u.read = r.read /\ u.readN = r.readN
  BY <1>1 DEF StreamOf
<1>12. InPlace(u, end, t)
  <2> HIDE DEF u
  <2>1. CASE r.readN <= end /\ Holds(r.read, r.readN, t)
    BY <2>1, <1>11 DEF InPlace
  <2>2. CASE r.read = start.read /\ r.readN = start.readN
    <3>1. u.read = s.read /\ u.readN = s.readN
      BY <2>2, <1>7, <1>11
    <3>2. s.readN <= offset => s.readN <= end
      BY <1>1, <1>6
    <3> QED BY <3>1, <3>2 DEF InPlace
  <2> QED BY <2>1, <2>2, <1>9
<1> HIDE DEF u
<1>13. GetSegment(s, offset, wanted, hex) = [data |-> r.data, stream |-> u]
  BY <1>4, <1>10 DEF u
<1> QED BY <1>9, <1>12, <1>13 DEF end

-----------------------------------------------------------------------------
\* Storing a stream (Stream.cpp 710-736).

\* Dropping the empty segments drops no byte.
LEMMA KeepFold ==
  ASSUME NEW V, NEW xs \in Seq(V)
  PROVE  \E f \in [0..Len(xs) -> Seq(V)] :
            /\ f[0] = << >>
            /\ \A i \in 1..Len(xs) : f[i] = Keep(f[i - 1], xs[i])
            /\ NotEmpty(xs) = f[Len(xs)]
<1> DEFINE n == Len(xs)
           X == Seq(V)
           D == SUBSET (1..n)
           step == [p \in (1..n) \X X |-> Keep(p[2], xs[p[1]])]
           Is(g) == g = [S \in D |-> IF S = {} THEN << >> ELSE Keep(g[S \ {Max(S)}], xs[Max(S)])]
           C == CHOOSE g : Is(g)
<1>1. n \in Nat /\ DOMAIN xs = 1..n /\ \A i \in 1..n : xs[i] \in V
    OBVIOUS
<1>2. \A t \in X, d \in V : Keep(t, d) \in X
  BY DEF Keep
<1>3. step \in [(1..n) \X X -> X]
  <2> HIDE DEF X, n
  <2>1. \A p \in (1..n) \X X : Keep(p[2], xs[p[1]]) \in X
    BY <1>1, <1>2
  <2> QED BY <2>1
<1>3a. << >> \in X
  OBVIOUS
<1>4. PICK g \in [D -> X] : IsFold(g, n, << >>, step)
  <2> HIDE DEF step, n, X
  <2> QED BY <1>1, <1>3, <1>3a, FoldExists
<1>5. Is(g)
  <2>1. ASSUME NEW S \in D
        PROVE g[S] = IF S = {} THEN << >> ELSE Keep(g[S \ {Max(S)}], xs[Max(S)])
    <3>1. CASE S = {}
      BY <3>1, <1>4 DEF IsFold
    <3>2. CASE S # {}
      <4>1. Max(S) \in S
        BY <3>2, <1>1, MaxWithin
      <4>2. Max(S) \in 1..n /\ S \ {Max(S)} \in D
        BY <4>1
      <4>3. <<Max(S), g[S \ {Max(S)}]>> \in (1..n) \X X
        BY <4>2
      <4>4. step[<<Max(S), g[S \ {Max(S)}]>>] = Keep(g[S \ {Max(S)}], xs[Max(S)])
        <5> HIDE DEF X, n, D
        <5> QED BY <4>3
      <4>5. g[S] = step[<<Max(S), g[S \ {Max(S)}]>>]
        <5> HIDE DEF step
        <5> QED BY <3>2, <1>4 DEF IsFold
      <4> QED BY <3>2, <4>4, <4>5
    <3> QED BY <3>1, <3>2
  <2> HIDE DEF X, D
  <2> QED BY <2>1
<1>6. Is(C)
  <2> HIDE DEF Is
  <2> QED BY <1>5
<1>7. NotEmpty(xs) = C[1..n]
  BY <1>1 DEF NotEmpty, FoldLeft, MapThenFoldSet
<1> HIDE DEF C
<1> DEFINE c == [i \in 0..n |-> C[1..i]]
<1>8. c[0] = << >>
  <2>1. 1..0 = {} /\ 1..0 \in D
    OBVIOUS
  <2> QED BY <2>1, <1>6, <1>1
<1>9. ASSUME NEW i \in 1..n PROVE c[i] = Keep(c[i - 1], xs[i])
  <2>1. i \in Nat /\ i \in 1..i /\ 1..i \in SUBSET (1..i) /\ i \in 0..n /\ i - 1 \in 0..n
    BY <1>1
  <2>5. 1..i \in D /\ 1..i # {}
    <3>1. 1..i \subseteq 1..n /\ 1 \in 1..i
      BY <1>1
    <3> QED BY <3>1
  <2>2. Max(1..i) = i
    BY <2>1, MaxOfInterval
  <2>3. (1..i) \ {i} = 1..(i - 1)
    BY <2>1
  <2>4. C[1..i] = Keep(C[1..(i - 1)], xs[i])
    BY <2>5, <2>2, <2>3, <1>6
  <2> QED BY <2>1, <2>4
<1> HIDE DEF c
<1>10. \A k \in Nat : k <= n => c[k] \in X
  <2> DEFINE K == {k \in Nat : k <= n => c[k] \in X}
  <2> HIDE DEF X
  <2>1. 0 \in K
    BY <1>3a, <1>8
  <2>2. \A k \in Nat : k \in K => k + 1 \in K
    <3> TAKE k \in Nat
    <3>1. SUFFICES ASSUME c[k] \in X, k + 1 <= n PROVE c[k + 1] \in X
      BY <1>1
    <3>2. k + 1 \in 1..n /\ (k + 1) - 1 = k
      BY <3>1, <1>1
    <3> QED BY <3>1, <3>2, <1>1, <1>2, <1>9
  <2>3. Nat \subseteq K
    <3> HIDE DEF K
    <3> QED BY <2>1, <2>2, Induction
  <2> QED BY <2>3
<1>11. c \in [0..n -> X]
  <2>1. \A i \in 0..n : c[i] \in X
    BY <1>10
  <2> QED BY <2>1 DEF c
<1>12. NotEmpty(xs) = c[n]
  BY <1>1, <1>7 DEF c
<1> QED BY <1>8, <1>9, <1>11, <1>12

\* The segments that are not empty hold the bytes of them all.
LEMMA NotEmptyKeeps ==
  ASSUME NEW V, NEW E \in SUBSET Seq(V), NEW ss \in Seq(E)
  PROVE  NotEmpty(ss) \in Seq(E) /\ FlattenSeq(NotEmpty(ss)) = FlattenSeq(ss)
<1> DEFINE n == Len(ss)
           Same(r, k) == FlattenSeq(r) = FlattenSeq(SubSeq(ss, 1, k))
<1>1. n \in Nat /\ ss \in Seq(Seq(V)) /\ \A i \in 1..n : ss[i] \in Seq(V)
  <2>1. ss \in Seq(Seq(V))
    BY SeqMonotonic
  <2> QED BY <2>1
<1>2. PICK f \in [0..n -> Seq(E)] :
            /\ f[0] = << >>
            /\ \A i \in 1..n : f[i] = Keep(f[i - 1], ss[i])
            /\ NotEmpty(ss) = f[n]
  BY KeepFold
<1> DEFINE P(k) == Same(f[k], k)
<1>3. P(0)
  <2>1. SubSeq(ss, 1, 0) = << >>
    BY SubSeqEmpty
  <2> QED BY <2>1, <1>2
<1>4. ASSUME NEW k \in Nat, P(k), k + 1 <= n PROVE P(k + 1)
  <2> DEFINE j == k + 1 r == f[k] x == ss[j] a == SubSeq(ss, 1, k) b == SubSeq(ss, 1, j)
  <2>1. j \in 1..n /\ j - 1 = k /\ k \in 0..n
    BY <1>1, <1>4
  <2>2. r \in Seq(E) /\ x \in Seq(V) /\ a \in Seq(Seq(V))
    <3>1. r \in Seq(E) /\ x \in Seq(V)
      BY <2>1, <1>1
    <3>2. SubSeq(ss, 1, k) \in Seq(Seq(V))
      <4>1. k <= Len(ss) /\ 1 \in Nat \ {0}
        BY <1>4, <1>1
      <4> QED BY <4>1, <1>1, SubSeqIn
    <3> QED BY <3>1, <3>2
  <2>3. r \in Seq(Seq(V))
    BY <2>2, SeqMonotonic
  <2> HIDE DEF j, n
  <2>4. f[j] = Keep(r, x)
    BY <2>1, <1>2
  <2>5. FlattenSeq(b) = FlattenSeq(a) \o x
    <3>1. FlattenSeq(SubSeq(ss, 1, j)) = FlattenSeq(SubSeq(ss, 1, j - 1)) \o ss[j]
      BY <2>1, <1>1, FlattenNext DEF n
    <3> QED BY <2>1, <3>1
  <2>6. FlattenSeq(r) = FlattenSeq(a)
    BY <1>4
  <2>7. FlattenSeq(a) \in Seq(V)
    BY <2>2, FlattenType
  <2> HIDE DEF r, x, a, b
  <2>8. CASE x = << >>
    <3>1. f[j] = r
      BY <2>4, <2>8 DEF Keep
    <3>2. FlattenSeq(b) = FlattenSeq(a)
      BY <2>5, <2>7, <2>8
    <3>3. FlattenSeq(f[j]) = FlattenSeq(b)
      BY <3>1, <3>2, <2>6
    <3> QED BY <3>3 DEF b, j
  <2>9. CASE x # << >>
    <3>1. f[j] = Append(r, x)
      BY <2>4, <2>9 DEF Keep
    <3>2. FlattenSeq(Append(r, x)) = FlattenSeq(r) \o x
      BY <2>2, <2>3, FlattenAppend
    <3>3. FlattenSeq(f[j]) = FlattenSeq(b)
      BY <3>1, <3>2, <2>5, <2>6
    <3> QED BY <3>3 DEF b, j
  <2> QED BY <2>8, <2>9
<1>5. P(n)
  <2> DEFINE K == {k \in Nat : k <= n => P(k)}
  <2> HIDE DEF P, n
  <2>1. 0 \in K
    BY <1>3
  <2>2. \A k \in Nat : k \in K => k + 1 \in K
    <3> TAKE k \in Nat
    <3>1. SUFFICES ASSUME k <= n => P(k), k + 1 <= n PROVE P(k + 1)
      OBVIOUS
    <3>2. P(k)
      BY <3>1, <1>1
    <3> QED BY <3>1, <3>2, <1>4
  <2>3. \A k \in K : k <= n => P(k)
    OBVIOUS
  <2> HIDE DEF K
  <2>4. n \in K
    BY <1>1, <2>1, <2>2, Induction
  <2> QED BY <1>1, <2>3, <2>4
<1>6. SubSeq(ss, 1, n) = ss
  BY SubSeqFull
<1>7. f[n] \in Seq(E)
  BY <1>1, <1>2
<1> QED BY <1>2, <1>5, <1>6, <1>7

-----------------------------------------------------------------------------
\* Digits: two of them for a byte (IscBlob.cpp 205-284).

Digit(V) == V \X {1, 2}

\* Numbers of digits and of bytes.
LEMMA Halves ==
  ASSUME NEW i \in Nat \ {0}
  PROVE  /\ (2 * i + 1) \div 2 = i /\ ((2 * i - 1) + 1) \div 2 = i
         /\ (2 * i) % 2 = 0 /\ (2 * i - 1) % 2 = 1
         /\ (2 * i) \div 2 = i
OBVIOUS

\* The byte of a digit, and which of its two digits it is.
LEMMA HalfWithin ==
  ASSUME NEW l \in Nat, NEW i \in 1..2 * l
  PROVE  (i + 1) \div 2 \in 1..l /\ 2 - (i % 2) \in {1, 2}
OBVIOUS

\* The digits of a byte.
LEMMA HalfLength ==
  ASSUME NEW l \in Nat
  PROVE  /\ l \div 2 \in Nat
         /\ \A i \in 1..l \div 2 : 2 * i - 1 \in 1..l /\ 2 * i \in 1..l
         /\ l % 2 = 0 => l = 2 * (l \div 2)
OBVIOUS

\* The bytes of two digit strings.
LEMMA HalfSum ==
  ASSUME NEW m \in Nat, NEW k \in Nat
  PROVE  (2 * m + k) \div 2 = m + (k \div 2)
OBVIOUS

\* Each byte is written as two digits.
LEMMA ToHexIs ==
  ASSUME NEW V, NEW b \in Seq(V)
  PROVE  /\ ToHex(b) \in Seq(Digit(V)) /\ Len(ToHex(b)) = 2 * Len(b)
         /\ \A i \in 1..Len(b) : ToHex(b)[2 * i - 1] = <<b[i], 1>> /\ ToHex(b)[2 * i] = <<b[i], 2>>
<1> DEFINE l == Len(b) m == 2 * l e(i) == <<b[(i + 1) \div 2], 2 - (i % 2)>>
<1>1. l \in Nat /\ m \in Nat /\ \A i \in 1..l : b[i] \in V
  OBVIOUS
<1>2. \A i \in 1..m : e(i) \in Digit(V)
  <2> TAKE i \in 1..m
  <2>1. (i + 1) \div 2 \in 1..l /\ 2 - (i % 2) \in {1, 2}
    BY <1>1, HalfWithin
  <2> HIDE DEF l, m
  <2> QED BY <2>1, <1>1 DEF Digit
<1>3. ToHex(b) = [i \in 1..m |-> e(i)]
  BY DEF ToHex
<1> HIDE DEF m
<1>4. ToHex(b) \in Seq(Digit(V)) /\ Len(ToHex(b)) = m /\ \A i \in 1..m : ToHex(b)[i] = e(i)
  <2> HIDE DEF e
  <2> QED BY <1>1, <1>2, <1>3
<1>5. ASSUME NEW i \in 1..l
      PROVE  ToHex(b)[2 * i - 1] = <<b[i], 1>> /\ ToHex(b)[2 * i] = <<b[i], 2>>
  <2>1. 2 * i - 1 \in 1..m /\ 2 * i \in 1..m /\ i \in Nat \ {0}
    BY <1>1 DEF m
  <2>2. (2 * i + 1) \div 2 = i /\ ((2 * i - 1) + 1) \div 2 = i /\ (2 * i) % 2 = 0 /\ (2 * i - 1) % 2 = 1
    BY <2>1, Halves
  <2>3. e(2 * i - 1) = <<b[i], 1>> /\ e(2 * i) = <<b[i], 2>>
    <3>1. 2 - 1 = 1 /\ 2 - 0 = 2
      OBVIOUS
    <3> QED BY <2>2, <3>1
  <2> HIDE DEF e
  <2> QED BY <2>1, <2>3, <1>4
<1> QED BY <1>4, <1>5 DEF m

\* Each two digits are read as one byte.
LEMMA FromHexIs ==
  ASSUME NEW V, NEW d \in Seq(Digit(V))
  PROVE  /\ FromHex(d) \in Seq(Loose(V)) /\ Len(FromHex(d)) = Len(d) \div 2
         /\ \A i \in 1..(Len(d) \div 2) : FromHex(d)[i] =
              IF d[2 * i - 1][1] = d[2 * i][1] /\ d[2 * i - 1][2] = 1 /\ d[2 * i][2] = 2
              THEN d[2 * i - 1][1] ELSE Wild
<1> DEFINE l == Len(d) h == l \div 2
           e(i) == IF d[2 * i - 1][1] = d[2 * i][1] /\ d[2 * i - 1][2] = 1 /\ d[2 * i][2] = 2
                   THEN d[2 * i - 1][1] ELSE Wild
<1>1. l \in Nat /\ \A i \in 1..l : d[i] \in Digit(V)
  OBVIOUS
<1>2. h \in Nat /\ \A i \in 1..h : 2 * i - 1 \in 1..l
  BY <1>1, HalfLength
<1>3. FromHex(d) = [i \in 1..h |-> e(i)]
  BY DEF FromHex
<1> HIDE DEF h
<1>4. \A i \in 1..h : e(i) \in Loose(V)
  <2> TAKE i \in 1..h
  <2>1. d[2 * i - 1] \in V \X {1, 2}
    BY <1>1, <1>2 DEF Digit
  <2>2. d[2 * i - 1][1] \in V
    BY <2>1
  <2> QED BY <2>2 DEF Loose
<1> HIDE DEF e
<1>5. FromHex(d) \in Seq(Loose(V)) /\ Len(FromHex(d)) = h /\ \A i \in 1..h : FromHex(d)[i] = e(i)
  BY <1>2, <1>3, <1>4
<1> QED BY <1>5 DEF e, h

\* What was written as digits is read back.
LEMMA FromToHex ==
  ASSUME NEW V, NEW b \in Seq(V)
  PROVE  FromHex(ToHex(b)) = b
<1> DEFINE d == ToHex(b) l == Len(b) x == FromHex(d)
<1>1. /\ d \in Seq(Digit(V)) /\ Len(d) = 2 * l /\ l \in Nat
      /\ \A i \in 1..l : d[2 * i - 1] = <<b[i], 1>> /\ d[2 * i] = <<b[i], 2>>
  <2>1. l \in Nat
    OBVIOUS
  <2>2. /\ ToHex(b) \in Seq(Digit(V)) /\ Len(ToHex(b)) = 2 * Len(b)
        /\ \A i \in 1..Len(b) : ToHex(b)[2 * i - 1] = <<b[i], 1>> /\ ToHex(b)[2 * i] = <<b[i], 2>>
    BY ToHexIs
  <2> QED BY <2>1, <2>2
<1> HIDE DEF d
<1>2. Len(d) \div 2 = l
  BY <1>1
<1>3. /\ x \in Seq(Loose(V)) /\ Len(x) = l
      /\ \A i \in 1..l : x[i] =
              IF d[2 * i - 1][1] = d[2 * i][1] /\ d[2 * i - 1][2] = 1 /\ d[2 * i][2] = 2
              THEN d[2 * i - 1][1] ELSE Wild
  BY <1>1, <1>2, FromHexIs
<1> HIDE DEF x
<1>4. ASSUME NEW i \in 1..Len(x) PROVE x[i] = b[i]
  <2>1. i \in 1..l
    BY <1>3
  <2>2. d[2 * i - 1] = <<b[i], 1>> /\ d[2 * i] = <<b[i], 2>>
    BY <2>1, <1>1
  <2>3. d[2 * i - 1][1] = b[i] /\ d[2 * i][1] = b[i] /\ d[2 * i - 1][2] = 1 /\ d[2 * i][2] = 2
    BY <2>2
  <2> QED BY <2>1, <2>3, <1>3
<1>5. x = b
  BY <1>3, <1>4, SeqEqual
<1> QED BY <1>5 DEF x, d

\* A string of whole bytes is read on its own.
LEMMA FromHexConcat ==
  ASSUME NEW V, NEW a \in Seq(Digit(V)), NEW b \in Seq(Digit(V)), Len(a) % 2 = 0
  PROVE  FromHex(a \o b) = FromHex(a) \o FromHex(b)
<1> DEFINE c == a \o b p == FromHex(a) q == FromHex(b) r == FromHex(c)
           m == Len(a) \div 2 n == Len(b) \div 2
           D(d, i) == IF d[2 * i - 1][1] = d[2 * i][1] /\ d[2 * i - 1][2] = 1 /\ d[2 * i][2] = 2
                      THEN d[2 * i - 1][1] ELSE Wild
<1>1. /\ c \in Seq(Digit(V)) /\ Len(c) = Len(a) + Len(b)
      /\ \A i \in 1..(Len(a) + Len(b)) : c[i] = IF i <= Len(a) THEN a[i] ELSE b[i - Len(a)]
  BY ConcatProperties
<1>2. Len(a) \in Nat /\ Len(b) \in Nat
  OBVIOUS
<1>3. /\ m \in Nat /\ Len(a) = 2 * m /\ n \in Nat
      /\ \A i \in 1..n : 2 * i - 1 \in 1..Len(b) /\ 2 * i \in 1..Len(b)
  BY <1>2, HalfLength
<1>4. Len(c) \div 2 = m + n
  <2>1. (2 * m + Len(b)) \div 2 = m + n
    <3>1. m \in Nat /\ Len(b) \in Nat
      BY <1>2, <1>3
    <3> HIDE DEF m
    <3> QED BY <3>1, HalfSum
  <2> QED BY <2>1, <1>1, <1>3
<1>5. /\ p \in Seq(Loose(V)) /\ Len(p) = m /\ \A i \in 1..m : p[i] = D(a, i)
      /\ q \in Seq(Loose(V)) /\ Len(q) = n /\ \A i \in 1..n : q[i] = D(b, i)
  <2> HIDE DEF D
  <2> QED BY FromHexIs DEF D
<1>6. r \in Seq(Loose(V)) /\ Len(r) = m + n /\ \A i \in 1..(m + n) : r[i] = D(c, i)
  <2> HIDE DEF c, D
  <2>1. r \in Seq(Loose(V)) /\ Len(r) = Len(c) \div 2 /\ \A i \in 1..(Len(c) \div 2) : r[i] = D(c, i)
    BY <1>1, FromHexIs DEF D
  <2> QED BY <2>1, <1>4
<1> HIDE DEF c, p, q, r, m, n
<1>7. /\ p \o q \in Seq(Loose(V)) /\ Len(p \o q) = m + n
      /\ \A i \in 1..(m + n) : (p \o q)[i] = IF i <= m THEN p[i] ELSE q[i - m]
  <2> HIDE DEF D
  <2> QED BY <1>5, ConcatProperties
<1>8. ASSUME NEW i \in 1..(m + n) PROVE r[i] = (p \o q)[i]
  <2>1. i \in Nat \ {0}
    BY <1>3
  <2>2. CASE i <= m
    <3>1. i \in 1..m /\ 2 * i - 1 \in 1..(Len(a) + Len(b)) /\ 2 * i \in 1..(Len(a) + Len(b))
          /\ 2 * i - 1 <= Len(a) /\ 2 * i <= Len(a)
      BY <2>1, <2>2, <1>2, <1>3
    <3>2. c[2 * i - 1] = a[2 * i - 1] /\ c[2 * i] = a[2 * i]
      BY <3>1, <1>1
    <3>3. D(c, i) = D(a, i)
      BY <3>2
    <3> HIDE DEF D
    <3> QED BY <3>1, <3>3, <2>2, <1>5, <1>6, <1>7
  <2>3. CASE ~(i <= m)
    <3> DEFINE j == i - m
    <3>1. j \in 1..n /\ 2 * i - 1 \in 1..(Len(a) + Len(b)) /\ 2 * i \in 1..(Len(a) + Len(b))
          /\ ~(2 * i - 1 <= Len(a)) /\ ~(2 * i <= Len(a))
          /\ 2 * i - 1 - Len(a) = 2 * j - 1 /\ 2 * i - Len(a) = 2 * j
      <4>1. j \in 1..n
        BY <2>1, <2>3, <1>3
      <4>2. 2 * j - 1 \in 1..Len(b) /\ 2 * j \in 1..Len(b)
        BY <4>1, <1>3
      <4>3. 2 * i - 1 - Len(a) = 2 * j - 1 /\ 2 * i - Len(a) = 2 * j
        BY <2>1, <1>3
      <4>4. Len(a) \in Nat /\ Len(b) \in Nat /\ i \in Nat
        BY <1>2, <2>1
      <4> HIDE DEF j
      <4> QED BY <4>1, <4>2, <4>3, <4>4
    <3>2. c[2 * i - 1] = b[2 * j - 1] /\ c[2 * i] = b[2 * j]
      <4> HIDE DEF j
      <4> QED BY <3>1, <1>1
    <3> HIDE DEF j
    <3>3. D(c, i) = D(b, j)
      BY <3>2
    <3> HIDE DEF D
    <3>4. r[i] = D(c, i) /\ q[j] = D(b, j) /\ (p \o q)[i] = q[i - m]
      BY <3>1, <2>3, <1>5, <1>6, <1>7
    <3> QED BY <3>3, <3>4 DEF j
  <2> QED BY <2>2, <2>3
<1> DEFINE u == p \o q
<1>9. u \in Seq(Loose(V)) /\ Len(u) = Len(r) /\ \A i \in 1..Len(u) : r[i] = u[i]
  BY <1>6, <1>7, <1>8
<1> HIDE DEF u
<1>10. r = u
  BY <1>6, <1>9, SeqEqual
<1> QED BY <1>10 DEF u, r, c, p, q

EvenSeq(V) == {x \in Seq(V) : Len(x) % 2 = 0}

\* Two even numbers.
LEMMA EvenSum ==
  ASSUME NEW a \in Nat, NEW b \in Nat, a % 2 = 0
  PROVE  (a + b) % 2 = b % 2
OBVIOUS

\* Reading the segments as digits one by one reads the string they make, if each has whole bytes.
LEMMA FlattenFromHex ==
  ASSUME NEW V, NEW ss \in Seq(EvenSeq(Digit(V)))
  PROVE  LET hh == [i \in 1..Len(ss) |-> FromHex(ss[i])]
         IN  /\ hh \in Seq(Seq(Loose(V)))
             /\ FlattenSeq(hh) = FromHex(FlattenSeq(ss))
             /\ FlattenSeq(ss) \in EvenSeq(Digit(V))
<1> DEFINE n == Len(ss)
           D == Digit(V)
           W == Loose(V)
           e(i) == FromHex(ss[i])
           hh == [i \in 1..n |-> e(i)]
           A(k) == FlattenSeq(SubSeq(ss, 1, k))
           B(k) == FlattenSeq(SubSeq(hh, 1, k))
           P(k) == B(k) = FromHex(A(k)) /\ A(k) \in EvenSeq(D)
<1>1. n \in Nat /\ ss \in Seq(Seq(D)) /\ \A i \in 1..n : ss[i] \in EvenSeq(D)
  <2>1. ss \in Seq(Seq(D))
    <3>1. EvenSeq(D) \subseteq Seq(D)
      BY DEF EvenSeq
    <3> QED BY <3>1, SeqMonotonic
  <2>2. ss \in Seq(EvenSeq(D)) /\ n \in Nat
    OBVIOUS
  <2> DEFINE E == EvenSeq(D)
  <2> HIDE DEF E
  <2>3. \A i \in 1..n : ss[i] \in E
    BY <2>2 DEF E
  <2> QED BY <2>1, <2>2, <2>3 DEF E
<1>2. \A i \in 1..n : e(i) \in Seq(W)
  <2>1. ASSUME NEW i \in 1..n PROVE e(i) \in Seq(W)
    <3>1. ss[i] \in Seq(Digit(V))
      BY <1>1 DEF EvenSeq
    <3> QED BY <3>1, FromHexIs
  <2> QED BY <2>1
<1>3. hh \in Seq(Seq(W)) /\ Len(hh) = n /\ \A i \in 1..n : hh[i] = e(i)
  <2> HIDE DEF e, n, W
  <2> QED BY <1>1, <1>2
<1> HIDE DEF hh
<1>4. P(0)
  <2>1. SubSeq(hh, 1, 0) = << >> /\ SubSeq(ss, 1, 0) = << >>
    BY SubSeqEmpty
  <2>2. A(0) = << >> /\ B(0) = << >>
    BY <2>1, FlattenEmpty
  <2>3. << >> \in Seq(D) /\ Len(<< >>) = 0 /\ 0 % 2 = 0
    OBVIOUS
  <2>4. FromHex(<< >>) = << >>
    <3>1. << >> \in Seq(Digit(V)) /\ Len(<< >>) = 0 /\ 0 \div 2 = 0
      OBVIOUS
    <3>2. FromHex(<< >>) \in Seq(Loose(V)) /\ Len(FromHex(<< >>)) = 0
      BY <3>1, FromHexIs
    <3> QED BY <3>2, EmptySeq
  <2> HIDE DEF D, A, B
  <2> QED BY <2>2, <2>3, <2>4 DEF EvenSeq
<1>5. ASSUME NEW k \in Nat, P(k), k + 1 <= n PROVE P(k + 1)
  <2> DEFINE j == k + 1 a == A(k) x == ss[j] c == A(j)
  <2>1. j \in 1..n /\ j - 1 = k
    BY <1>1, <1>5
  <2> HIDE DEF j
  <2>2. A(j) = A(j - 1) \o ss[j]
    BY <2>1, <1>1, FlattenNext
  <2>3. B(j) = B(j - 1) \o hh[j]
    <3> HIDE DEF n
    <3>1. j \in 1..Len(hh)
      BY <2>1, <1>3
    <3> QED BY <3>1, <1>3, FlattenNext
  <2>4. hh[j] = FromHex(x)
    BY <2>1, <1>3
  <2> HIDE DEF A, B, n
  <2>5. a \in Seq(D) /\ Len(a) % 2 = 0 /\ x \in Seq(D) /\ Len(x) % 2 = 0
    BY <1>1, <1>5, <2>1 DEF EvenSeq
  <2>6. c = a \o x /\ B(j) = FromHex(a) \o FromHex(x)
    BY <2>1, <2>2, <2>3, <2>4, <1>5
  <2> HIDE DEF a, x, c
  <2>7. FromHex(a \o x) = FromHex(a) \o FromHex(x)
    BY <2>5, FromHexConcat
  <2>8. c \in Seq(D) /\ Len(c) % 2 = 0
    <3> HIDE DEF D
    <3>1. c \in Seq(D) /\ Len(c) = Len(a) + Len(x) /\ Len(a) \in Nat /\ Len(x) \in Nat
      <4>1. a \in Seq(D) /\ x \in Seq(D) /\ c = a \o x
        BY <2>5, <2>6
      <4>2. a \o x \in Seq(D) /\ Len(a \o x) = Len(a) + Len(x)
        BY <4>1, ConcatProperties
      <4>3. Len(a) \in Nat /\ Len(x) \in Nat
        BY <4>1
      <4> QED BY <4>1, <4>2, <4>3
    <3>2. (Len(a) + Len(x)) % 2 = Len(x) % 2
      BY <3>1, <2>5, EvenSum
    <3> QED BY <3>1, <3>2, <2>5
  <2>9. B(j) = FromHex(c) /\ c \in EvenSeq(D)
    BY <2>6, <2>7, <2>8 DEF EvenSeq
  <2> QED BY <2>9 DEF c, j
<1>6. P(n)
  <2> DEFINE K == {k \in Nat : k <= n => P(k)}
  <2> HIDE DEF P, n
  <2>1. 0 \in K
    BY <1>4
  <2>2. \A k \in Nat : k \in K => k + 1 \in K
    <3> TAKE k \in Nat
    <3>1. SUFFICES ASSUME k <= n => P(k), k + 1 <= n PROVE P(k + 1)
      OBVIOUS
    <3>2. P(k)
      BY <3>1, <1>1
    <3> QED BY <3>1, <3>2, <1>5
  <2>3. \A k \in K : k <= n => P(k)
    OBVIOUS
  <2> HIDE DEF K
  <2>4. n \in K
    BY <1>1, <2>1, <2>2, Induction
  <2> QED BY <1>1, <2>3, <2>4
<1>7. SubSeq(ss, 1, n) = ss
  BY <1>1, SubSeqFull
<1>8. SubSeq(hh, 1, n) = hh
  BY <1>3, SubSeqFull
<1>9. FlattenSeq(hh) = FromHex(FlattenSeq(ss)) /\ FlattenSeq(ss) \in EvenSeq(D)
  BY <1>6, <1>7, <1>8
<1> QED BY <1>3, <1>9 DEF hh

\* The segments of a stream of digits have whole bytes but for the last, and the last if the
\* whole has.
LEMMA PackedEven ==
  ASSUME NEW V, NEW s \in GoodStream(Digit(V)), Packed(s), Len(FlattenSeq(s.segments)) % 2 = 0
  PROVE  s.segments \in Seq(EvenSeq(Digit(V)))
<1> DEFINE ss == s.segments n == Len(ss) D == Digit(V)
<1>1. ss \in Seq(Seq(D)) /\ n \in Nat
  BY DEF GoodStream, StreamOf
<1> HIDE DEF D
<1>2. \A i \in 1..n : i < n => Len(ss[i]) % 2 = 0
  BY PieceLengthEven DEF Packed
<1>3. n # 0 => Len(ss[n]) % 2 = 0
  <2> SUFFICES ASSUME n # 0 PROVE Len(ss[n]) % 2 = 0
    OBVIOUS
  <2> DEFINE m == n - 1 a == SubSeq(ss, 1, m) f == FlattenSeq(a) x == ss[n]
  <2>1. n \in 1..n /\ m \in Nat /\ m <= n /\ m < n
    BY <1>1
  <2>2. SubSeq(ss, 1, n) = ss
    BY <1>1, SubSeqFull
  <2>3. FlattenSeq(ss) = f \o x
    <3>1. FlattenSeq(SubSeq(ss, 1, n)) = FlattenSeq(SubSeq(ss, 1, n - 1)) \o ss[n]
      BY <2>1, <1>1, FlattenNext
    <3> QED BY <2>2, <3>1
  <2> HIDE DEF m
  <2>4. a \in Seq(EvenSeq(D))
    <3>1. a \in Seq(Seq(D)) /\ Len(a) = m /\ \A i \in 1..m : a[i] = ss[i]
      <4> DEFINE zero == 0
      <4>1. SubSeq(ss, 0 + 1, m) \in Seq(Seq(D)) /\ Len(SubSeq(ss, 0 + 1, m)) = m - 0
            /\ \A i \in 1..(m - 0) : SubSeq(ss, 0 + 1, m)[i] = ss[0 + i]
        <5>1. 0 \in Nat /\ 0 <= m /\ m <= Len(ss)
          BY <2>1
        <5> QED BY <5>1, <1>1, <2>1, PartOf
      <4>2. 0 + 1 = 1 /\ m - 0 = m /\ \A i \in 1..m : 0 + i = i
        BY <2>1
      <4> QED BY <4>1, <4>2
    <3> HIDE DEF a
    <3>2. \A i \in 1..m : a[i] \in EvenSeq(D)
      <4> TAKE i \in 1..m
      <4>1. i \in 1..n /\ i < n
        BY <2>1, <1>1
      <4>3. ss[i] \in Seq(D)
        BY <4>1, <1>1
      <4>2. ss[i] \in Seq(D) /\ Len(ss[i]) % 2 = 0
        <5> HIDE DEF ss, n
        <5> QED BY <4>1, <4>3, <1>2
      <4> QED BY <4>2, <3>1 DEF EvenSeq
    <3>3. a = [i \in 1..m |-> a[i]]
      BY <3>1, <2>1
    <3> QED BY <3>2, <3>3, <2>1
  <2>5. f \in Seq(D) /\ Len(f) % 2 = 0
    <3>1. f \in EvenSeq(D)
      BY <2>4, FlattenFromHex DEF D
    <3> QED BY <3>1 DEF EvenSeq
  <2>6. x \in Seq(D)
    BY <1>1, <2>1
  <2> HIDE DEF f, x, a
  <2>7. Len(f) \in Nat /\ Len(x) \in Nat /\ Len(FlattenSeq(ss)) = Len(f) + Len(x)
    BY <2>3, <2>5, <2>6, ConcatProperties
  <2>8. (Len(f) + Len(x)) % 2 = Len(x) % 2
    BY <2>5, <2>7, EvenSum
  <2> QED BY <2>7, <2>8 DEF x
<1>4. \A i \in 1..n : ss[i] \in EvenSeq(D)
  <2> TAKE i \in 1..n
  <2>1. ss[i] \in Seq(D) /\ Len(ss[i]) % 2 = 0
    <3>1. i < n \/ (i = n /\ n # 0)
      BY <1>1
    <3>2. ss[i] \in Seq(D)
      BY <1>1
    <3> HIDE DEF ss, n
    <3> QED BY <3>1, <3>2, <1>2, <1>3
  <2> QED BY <2>1 DEF EvenSeq
<1>5. ss = [i \in 1..n |-> ss[i]]
  BY <1>1
<1> HIDE DEF ss
<1>6. ss \in Seq(EvenSeq(D))
  BY <1>1, <1>4, <1>5
<1> QED BY <1>6 DEF ss, D

\* The digits of a part of the bytes are a part of their digits.
LEMMA ToHexPart ==
  ASSUME NEW V, NEW b \in Seq(V), NEW p \in Nat, NEW q \in Nat, p <= q, q <= Len(b)
  PROVE  ToHex(SubSeq(b, p + 1, q)) = SubSeq(ToHex(b), 2 * p + 1, 2 * q)
<1> DEFINE d == ToHex(b) x == SubSeq(b, p + 1, q) y == ToHex(x)
           P == 2 * p Q == 2 * q z == SubSeq(d, P + 1, Q) l == q - p
<1>1. x \in Seq(V) /\ Len(x) = l /\ \A i \in 1..l : x[i] = b[p + i]
  BY PartOf
<1>2. l \in Nat /\ Len(b) \in Nat /\ P \in Nat /\ Q \in Nat /\ P <= Q /\ Q <= 2 * Len(b) /\ Q - P = 2 * l
  OBVIOUS
<1>3. /\ d \in Seq(Digit(V)) /\ Len(d) = 2 * Len(b)
      /\ \A i \in 1..Len(b) : d[2 * i - 1] = <<b[i], 1>> /\ d[2 * i] = <<b[i], 2>>
  BY ToHexIs
<1> HIDE DEF d, x
<1>4. /\ y \in Seq(Digit(V)) /\ Len(y) = 2 * Len(x)
      /\ \A i \in 1..Len(x) : y[2 * i - 1] = <<x[i], 1>> /\ y[2 * i] = <<x[i], 2>>
  BY <1>1, ToHexIs
<1>5. z \in Seq(Digit(V)) /\ Len(z) = Q - P /\ \A i \in 1..(Q - P) : z[i] = d[P + i]
  <2> HIDE DEF P, Q
  <2>1. Q <= Len(d)
    BY <1>2, <1>3
  <2> QED BY <2>1, <1>2, <1>3, PartOf
<1> HIDE DEF y, z
<1>6. ASSUME NEW i \in 1..l
      PROVE  y[2 * i - 1] = z[2 * i - 1] /\ y[2 * i] = z[2 * i]
  <2>1. p + i \in 1..Len(b) /\ 2 * i - 1 \in 1..(Q - P) /\ 2 * i \in 1..(Q - P)
        /\ P + (2 * i - 1) = 2 * (p + i) - 1 /\ P + 2 * i = 2 * (p + i)
    BY <1>2
  <2>2. y[2 * i - 1] = <<b[p + i], 1>> /\ y[2 * i] = <<b[p + i], 2>>
    BY <1>1, <1>4
  <2>3. d[2 * (p + i) - 1] = <<b[p + i], 1>> /\ d[2 * (p + i)] = <<b[p + i], 2>>
    BY <2>1, <1>3
  <2>4. z[2 * i - 1] = d[2 * (p + i) - 1] /\ z[2 * i] = d[2 * (p + i)]
    <3> HIDE DEF P, Q
    <3> QED BY <2>1, <1>5
  <2> QED BY <2>2, <2>3, <2>4
<1>7. Len(y) = 2 * l /\ Len(z) = 2 * l
  BY <1>1, <1>2, <1>4, <1>5
<1>8. ASSUME NEW j \in 1..Len(y) PROVE y[j] = z[j]
  <2>1. \E i \in 1..l : j = 2 * i - 1 \/ j = 2 * i
    <3>1. j \in 1..2 * l /\ l \in Nat
      BY <1>2, <1>7
    <3> HIDE DEF l
    <3>2. (j + 1) \div 2 \in 1..l /\ (j = 2 * ((j + 1) \div 2) - 1 \/ j = 2 * ((j + 1) \div 2))
      BY <3>1
    <3> QED BY <3>2
  <2>2. PICK i \in 1..l : j = 2 * i - 1 \/ j = 2 * i
    BY <2>1
  <2> QED BY <2>2, <1>6
<1>9. y = z
  BY <1>4, <1>5, <1>7, <1>8, SeqEqual
<1> QED BY <1>9 DEF y, z, d, x

-----------------------------------------------------------------------------
\* One call of a conversion (OdbcConvert.cpp 2609-3039, 3214-3356): what it gives of a value
\* and where it leaves the record.

Mem == Loose(Byte)
Unit == Mem \cup Digit(Mem)
Rows == {Null} \cup Seq(Seq(Mem))
Copies == {None} \cup Seq(Mem)
Recs == [current : Nat, offset : Nat, started : BOOLEAN]
Blobs == [id : Nat, fetched : BOOLEAN, stream : GoodStream(Mem)]
Rets == {"success", "info", "error", "crash", NoData}
Worlds == [rec : Recs, blob : Blobs, copy : Copies, boundCopy : Copies, count : Nat, row : Nat,
           value : Rows \cup Seq(Mem), len : Int, piece : Seq(Unit), ret : Rets]

\* Bytes, and what was never written.
LEMMA MemIs == Loose(Mem) = Mem /\ Wild \in Mem /\ Byte \subseteq Mem
BY DEF Mem, Loose

\* What a call takes of a value of `total' units when `o' were given before.
TakenLength(o, total, cap, even) ==
  LET n == Least2(total - o, cap) IN IF even THEN n - (n % 2) ELSE n

TakenFacts(o, total, cap, even, len) ==
  /\ len \in Int /\ o + len \in Nat
  /\ len > 0 => o + len <= total
  /\ o <= total => len \in Nat /\ o + len <= total
  /\ o % 2 = 0 /\ (even \/ (cap % 2 = 0 /\ total % 2 = 0)) => (o + len) % 2 = 0
  /\ o < total /\ cap >= 2 /\ (even => total % 2 = 0) => len > 0
  /\ o <= total /\ cap >= 2 /\ (even => total % 2 = 0 /\ cap % 2 = 0)
       /\ ~(len > 0 /\ len < total - o) => o + len = total

\* The arithmetic of a piece: it stays within the value, it is whole bytes where digits must be,
\* and it is not empty while something is left and there is room.
LEMMA TakenNumbers ==
  ASSUME NEW o \in Nat, NEW total \in Nat, NEW cap \in Nat, NEW even \in BOOLEAN,
         even => o % 2 = 0
  PROVE  TakenFacts(o, total, cap, even, TakenLength(o, total, cap, even))
<1> DEFINE n == Least2(total - o, cap)
           len == TakenLength(o, total, cap, even)
<1>0. SUFFICES TakenFacts(o, total, cap, even, len)
  OBVIOUS
<1> USE DEF TakenFacts
<1>1. n \in Int /\ n <= total - o /\ n <= cap /\ (n = total - o \/ n = cap)
  BY DEF Least2
<1>2. len = IF even THEN n - (n % 2) ELSE n
  BY DEF TakenLength
<1> HIDE DEF n, len
<1>3. CASE ~even
  <2>1. len = n
    BY <1>2, <1>3
  <2> QED BY <2>1, <1>1, <1>3
<1>4. CASE even
  <2>1. len = n - (n % 2) /\ o % 2 = 0
    BY <1>2, <1>4
  <2>2. n % 2 \in {0, 1} /\ len \in Int /\ len % 2 = 0 /\ len <= n
    BY <2>1, <1>1
  <2>3. o + n \in Nat /\ (o + len) % 2 = 0
    BY <2>1, <2>2, <1>1
  <2>4. o + len \in Nat
    BY <2>1, <2>2, <2>3, <1>1
  <2>5. (len > 0 => o + len <= total) /\ (o <= total => len \in Nat /\ o + len <= total)
    BY <2>1, <2>2, <1>1
  <2>6. total % 2 = 0 => (total - o) % 2 = 0
    BY <2>1
  <2>7. o < total /\ cap >= 2 /\ total % 2 = 0 => len > 0
    BY <2>1, <2>2, <2>6, <1>1
  <2>8. o <= total /\ cap >= 2 /\ total % 2 = 0 /\ cap % 2 = 0
              /\ ~(len > 0 /\ len < total - o) => o + len = total
    <3> SUFFICES ASSUME o <= total, cap >= 2, total % 2 = 0, cap % 2 = 0,
                        ~(len > 0 /\ len < total - o)
                 PROVE  o + len = total
      OBVIOUS
    <3>1. n % 2 = 0
      BY <2>6, <1>1
    <3> QED BY <3>1, <2>1, <2>2, <1>1
  <2> QED BY <1>4, <2>2, <2>3, <2>4, <2>5, <2>7, <2>8
<1> QED BY <1>3, <1>4

\* What one call of Advance changes in w.
AdvanceGives(a, w, was, total, length, cap, even, moves) ==
  /\ a \in Worlds
  /\ a.blob = w.blob /\ a.copy = w.copy /\ a.boundCopy = w.boundCopy /\ a.piece = w.piece
  /\ a.rec.current = w.rec.current
  /\ a.len > 0 => w.rec.offset + a.len <= total
  /\ w.rec.offset % 2 = 0 /\ (even \/ (cap % 2 = 0 /\ total % 2 = 0)) => a.rec.offset % 2 = 0
  /\ ~moves /\ w.rec.offset = 0 => a.rec.offset = 0
\* And when the place was within the value.
AdvanceExact(a, w, was, total, length, cap, even) ==
  /\ a.len \in Nat /\ a.ret \in {"success", "info", NoData}
  /\ a.ret = NoData => w.rec.offset = total /\ a.len = 0
  /\ a.ret # NoData => a.rec.offset = w.rec.offset + a.len /\ w.rec.offset + a.len <= total
  /\ w.rec.started => a.rec.started
  /\ cap >= 2 /\ a.ret # NoData /\ (even => total % 2 = 0) =>
       /\ a.rec.started
       /\ a.len > 0 \/ w.rec.offset = total
       /\ was /\ w.rec.started => a.len > 0
  /\ cap >= 2 /\ (even => total % 2 = 0 /\ cap % 2 = 0) /\ a.ret = "success"
       => w.rec.offset + a.len = total

AdvanceDoes(a, w, was, total, length, cap, even, moves) ==
  /\ AdvanceGives(a, w, was, total, length, cap, even, moves)
  /\ moves /\ w.rec.offset <= total => AdvanceExact(a, w, was, total, length, cap, even)

\* The record after a call: how much was given, what is said of it, and where it stands.
LEMMA AdvanceIs ==
  ASSUME NEW w \in Worlds, NEW was \in BOOLEAN, NEW total \in Nat, NEW length \in Nat,
         NEW cap \in Nat, NEW even \in BOOLEAN, NEW moves \in BOOLEAN,
         even => w.rec.offset % 2 = 0, w.len = 0, w.ret = "success", length = 0 => cap = 0
  PROVE  AdvanceDoes(Advance(w, was, total, length, cap, even, moves), w, was, total, length, cap, even, moves)
<1> DEFINE a == Advance(w, was, total, length, cap, even, moves)
           o == w.rec.offset
           left == total - o
           len == TakenLength(o, total, cap, even)
           s == IF len > 0 /\ len < left THEN "info" ELSE "success"
           p == IF moves THEN o + len ELSE o
           over == [w EXCEPT !.rec = [w.rec EXCEPT !.offset = 0], !.ret = NoData]
           more == [w EXCEPT !.rec = [w.rec EXCEPT !.started = TRUE, !.offset = p], !.len = len, !.ret = s]
<1>1. /\ w.rec \in Recs /\ w.rec.current \in Nat /\ o \in Nat /\ w.rec.started \in BOOLEAN
      /\ w.ret = "success" /\ NoData # "success" /\ NoData # "info"
  BY GetDataNames DEF Worlds, Recs
<1>2. a = IF length = 0 THEN w
          ELSE IF left = 0 /\ (o # 0 \/ was) /\ w.rec.started THEN over ELSE more
  BY DEF Advance, TakenLength, Worlds, Recs
<1>3. /\ len \in Int /\ o + len \in Nat
      /\ len > 0 => o + len <= total
      /\ o <= total => len \in Nat /\ o + len <= total
      /\ o % 2 = 0 /\ (even \/ (cap % 2 = 0 /\ total % 2 = 0)) => (o + len) % 2 = 0
      /\ o < total /\ cap >= 2 /\ (even => total % 2 = 0) => len > 0
      /\ o <= total /\ cap >= 2 /\ (even => total % 2 = 0 /\ cap % 2 = 0)
              /\ ~(len > 0 /\ len < left) => o + len = total
  <2>1. TakenFacts(o, total, cap, even, len)
    BY <1>1, TakenNumbers
  <2> HIDE DEF o, len
  <2> QED BY <2>1 DEF TakenFacts
<1> HIDE DEF a, len
<1>4. CASE length = 0
  <2>1. a = w /\ cap = 0
    BY <1>2, <1>4
  <2>2. AdvanceGives(w, w, was, total, length, cap, even, moves)
    BY <1>1 DEF AdvanceGives
  <2>3. moves /\ o <= total => AdvanceExact(w, w, was, total, length, cap, even)
    BY <2>1, <1>1 DEF AdvanceExact
  <2> QED BY <2>1, <2>2, <2>3 DEF a, AdvanceDoes
<1>5. CASE length # 0 /\ left = 0 /\ (o # 0 \/ was) /\ w.rec.started
  <2>1. a = over
    BY <1>2, <1>5
  <2> DEFINE v == [w.rec EXCEPT !.offset = 0]
  <2>2. v \in Recs /\ v.offset = 0 /\ v.started = w.rec.started /\ v.current = w.rec.current
    BY <1>1 DEF Recs
  <2> HIDE DEF v
  <2>3. a = [w EXCEPT !.rec = v, !.ret = NoData]
    BY <2>1 DEF v
  <2>4. /\ a \in Worlds /\ a.rec = v /\ a.ret = NoData /\ a.len = w.len
        /\ a.blob = w.blob /\ a.copy = w.copy /\ a.boundCopy = w.boundCopy /\ a.piece = w.piece
    BY <2>2, <2>3 DEF Worlds, Rets
  <2>5. 0 % 2 = 0
    OBVIOUS
  <2>6. AdvanceGives(a, w, was, total, length, cap, even, moves)
    BY <2>2, <2>4, <2>5 DEF AdvanceGives
  <2>7. o = total
    BY <1>1, <1>5
  <2>8. AdvanceExact(a, w, was, total, length, cap, even)
    BY <2>2, <2>4, <2>7, <1>1 DEF AdvanceExact
  <2> QED BY <2>6, <2>8 DEF a, AdvanceDoes
<1>6. CASE length # 0 /\ ~(left = 0 /\ (o # 0 \/ was) /\ w.rec.started)
  <2>1. a = more
    BY <1>2, <1>6
  <2> DEFINE v == [w.rec EXCEPT !.started = TRUE, !.offset = p]
  <2>2. p \in Nat /\ (moves => p = o + len) /\ (~moves => p = o)
    BY <1>1, <1>3
  <2>3. s \in {"success", "info"} /\ (s = "success" => ~(len > 0 /\ len < left))
    OBVIOUS
  <2> HIDE DEF p, s
  <2>4. v \in Recs /\ v.offset = p /\ v.started = TRUE /\ v.current = w.rec.current
    BY <1>1, <2>2 DEF Recs
  <2> HIDE DEF v
  <2>5. a = [w EXCEPT !.rec = v, !.len = len, !.ret = s]
    BY <2>1 DEF v
  <2>6. /\ a \in Worlds /\ a.rec = v /\ a.ret = s /\ a.len = len
        /\ a.blob = w.blob /\ a.copy = w.copy /\ a.boundCopy = w.boundCopy /\ a.piece = w.piece
    BY <2>3, <2>4, <2>5, <1>3 DEF Worlds, Rets
  <2>7. AdvanceGives(a, w, was, total, length, cap, even, moves)
    <3>1. len > 0 => o + len <= total
      BY <1>3
    <3>2. o % 2 = 0 /\ (even \/ (cap % 2 = 0 /\ total % 2 = 0)) => p % 2 = 0
      BY <1>3, <2>2
    <3>3. ~moves /\ o = 0 => p = 0
      BY <2>2
    <3> QED BY <2>4, <2>6, <3>1, <3>2, <3>3 DEF AdvanceGives
  <2>8. ASSUME moves, o <= total PROVE AdvanceExact(a, w, was, total, length, cap, even)
    <3>1. len \in Nat /\ p = o + len /\ o + len <= total
      BY <1>3, <2>2, <2>8
    <3>2. s # NoData
      BY <2>3, <1>1
    <3>3. cap >= 2 /\ (even => total % 2 = 0) => len > 0 \/ o = total
      BY <1>1, <1>3, <2>8
    <3>4. cap >= 2 /\ (even => total % 2 = 0) /\ was /\ w.rec.started => len > 0
      <4>1. was /\ w.rec.started => left # 0
        BY <1>6
      <4>2. left # 0 => o < total
        BY <1>1, <2>8
      <4> QED BY <4>1, <4>2, <1>3
    <3>5. cap >= 2 /\ (even => total % 2 = 0 /\ cap % 2 = 0) /\ s = "success" => o + len = total
      BY <1>3, <2>3, <2>8
    <3> QED BY <2>3, <2>4, <2>6, <3>1, <3>2, <3>3, <3>4, <3>5 DEF AdvanceExact
  <2> QED BY <2>7, <2>8 DEF a, AdvanceDoes
<1> QED BY <1>4, <1>5, <1>6

Ready(w) == w \in Worlds /\ w.len = 0 /\ w.ret = "success" /\ w.piece = << >>
\* The piece of `whole' that a call gave.
GivesPiece(c, w, was, whole, length, cap, even) ==
  /\ AdvanceExact(c, w, was, Len(whole), length, cap, even)
  /\ c.piece = SubSeq(whole, w.rec.offset + 1, w.rec.offset + c.len)

\* The room for a piece, less the terminator.
LEMMA CapacityIs ==
  ASSUME NEW t \in Targets, NEW length \in Nat
  PROVE  Capacity(t, length) \in Nat /\ (length = 0 => Capacity(t, length) = 0)
<1>1. WideChar \in Nat \ {0}
  BY GetDataConstants
<1>2. length \div WideChar \in Nat /\ (length = 0 => length \div WideChar = 0)
  BY <1>1
<1>3. Most2(0, length - 1) \in Nat /\ (length = 0 => Most2(0, length - 1) = 0)
  BY DEF Most2
<1>4. Most2(0, length \div WideChar - 1) \in Nat /\ (length = 0 => Most2(0, length \div WideChar - 1) = 0)
  <2> DEFINE q == length \div WideChar
  <2> HIDE DEF q
  <2>1. Most2(0, q - 1) \in Nat /\ (q = 0 => Most2(0, q - 1) = 0)
    BY <1>2 DEF Most2, q
  <2> QED BY <2>1, <1>2 DEF q
<1>5. CASE t = "char"
  BY <1>3, <1>5 DEF Capacity
<1>6. CASE t = "wide"
  BY <1>4, <1>6 DEF Capacity
<1>7. CASE t = "binary"
  BY <1>7 DEF Capacity
<1> QED BY <1>5, <1>6, <1>7 DEF Targets

\* The piece of a text.
LEMMA PieceType ==
  ASSUME NEW V, NEW text \in Seq(V), NEW o \in Nat, NEW len \in Int, len > 0 => o + len <= Len(text)
  PROVE  SubSeq(text, o + 1, o + len) \in Seq(V)
<1>1. CASE len > 0
  <2> DEFINE e == o + len m == o + 1
  <2>1. e \in Nat /\ e <= Len(text) /\ m \in Nat \ {0}
    BY <1>1
  <2> HIDE DEF e, m
  <2>2. SubSeq(text, m, e) \in Seq(V)
    BY <2>1, SubSeqIn
  <2> QED BY <2>2 DEF e, m
<1>2. CASE ~(len > 0)
  <2>1. o + 1 \in Int /\ o + len \in Int /\ o + 1 > o + len
    BY <1>2
  <2>2. SubSeq(text, o + 1, o + len) = << >>
    BY <2>1, SubSeqEmpty
  <2> QED BY <2>2
<1> QED BY <1>1, <1>2

\* Bytes and digits are units.
LEMMA MemUnit == Seq(Mem) \subseteq Seq(Unit) /\ Seq(Digit(Mem)) \subseteq Seq(Unit)
<1>1. Mem \subseteq Unit /\ Digit(Mem) \subseteq Unit
  BY DEF Unit
<1> QED BY <1>1, SeqMonotonic

\* Text: a piece of `text' is taken where w.rec stands.
TakeText(w, was, text, length, cap, moves) ==
  LET a == Advance(w, was, Len(text), length, cap, FALSE, moves)
  IN  [a EXCEPT !.piece = SubSeq(text, w.rec.offset + 1, w.rec.offset + a.len)]
\* What the application finds afterwards.
TextTaken(c, w, was, text, length, cap, moves) ==
  /\ c \in Worlds /\ c.rec.current = w.rec.current
  /\ c.blob = w.blob /\ c.copy = w.copy /\ c.boundCopy = w.boundCopy
  /\ ~moves /\ w.rec.offset = 0 => c.rec.offset = 0
  /\ moves /\ w.rec.offset <= Len(text) => GivesPiece(c, w, was, text, length, cap, FALSE)

\* A call on a text gives the next piece of it.
LEMMA TakeTextIs ==
  ASSUME NEW w, Ready(w), NEW was \in BOOLEAN, NEW text \in Seq(Mem), NEW length \in Nat,
         NEW cap \in Nat, NEW moves \in BOOLEAN, length = 0 => cap = 0
  PROVE  TextTaken(TakeText(w, was, text, length, cap, moves), w, was, text, length, cap, moves)
<1> DEFINE T == Len(text)
           a == Advance(w, was, T, length, cap, FALSE, moves)
           o == w.rec.offset
           p == SubSeq(text, o + 1, o + a.len)
           c == TakeText(w, was, text, length, cap, moves)
<1>1. w \in Worlds /\ w.len = 0 /\ w.ret = "success" /\ T \in Nat /\ FALSE \in BOOLEAN
  BY DEF Ready
<1>2. AdvanceGives(a, w, was, T, length, cap, FALSE, moves)
      /\ (moves /\ o <= T => AdvanceExact(a, w, was, T, length, cap, FALSE))
  <2> DEFINE even == FALSE
  <2>1. even \in BOOLEAN
    OBVIOUS
  <2> HIDE DEF T, even
  <2>2. even => w.rec.offset % 2 = 0
    BY DEF even
  <2>3. AdvanceDoes(Advance(w, was, T, length, cap, even, moves), w, was, T, length, cap, even, moves)
    BY <1>1, <2>1, <2>2, AdvanceIs
  <2> QED BY <2>3 DEF AdvanceDoes, even
<1> HIDE DEF a
<1>3. /\ a \in Worlds /\ a.len \in Int /\ o \in Nat /\ (a.len > 0 => o + a.len <= T)
      /\ a.blob = w.blob /\ a.copy = w.copy /\ a.boundCopy = w.boundCopy
      /\ a.rec.current = w.rec.current /\ (~moves /\ o = 0 => a.rec.offset = 0)
  BY <1>1, <1>2 DEF AdvanceGives, Worlds, Recs
<1>4. p \in Seq(Unit)
  <2>1. p \in Seq(Mem)
    BY <1>3, PieceType
  <2> QED BY <2>1, MemUnit
<1>5. c = [a EXCEPT !.piece = p]
  BY DEF TakeText, a
<1> HIDE DEF p, c, T
<1>6. /\ c \in Worlds /\ c.rec = a.rec /\ c.len = a.len /\ c.ret = a.ret /\ c.piece = p
      /\ c.blob = a.blob /\ c.copy = a.copy /\ c.boundCopy = a.boundCopy
  BY <1>3, <1>4, <1>5 DEF Worlds
<1>7. moves /\ o <= T => GivesPiece(c, w, was, text, length, cap, FALSE)
  <2> SUFFICES ASSUME moves, o <= T PROVE GivesPiece(c, w, was, text, length, cap, FALSE)
    OBVIOUS
  <2>1. AdvanceExact(a, w, was, T, length, cap, FALSE)
    BY <1>2
  <2>2. AdvanceExact(c, w, was, T, length, cap, FALSE)
    BY <2>1, <1>6 DEF AdvanceExact
  <2>3. c.piece = SubSeq(text, o + 1, o + c.len)
    BY <1>6 DEF p
  <2> QED BY <2>2, <2>3 DEF GivesPiece, T
<1>8. TextTaken(c, w, was, text, length, cap, moves)
  BY <1>3, <1>6, <1>7 DEF TextTaken, T
<1> QED BY <1>8 DEF c

\* convStringToString gives the next piece of the text.
LEMMA NarrowTextIs ==
  ASSUME NEW w, Ready(w), w.value \in Seq(Mem), NEW was \in BOOLEAN, NEW t \in Targets,
         NEW length \in Nat, NEW bound \in BOOLEAN
  PROVE  TextTaken(NarrowText(w, was, t, length, bound), w, was, w.value, length, Capacity(t, length), ~bound)
<1> DEFINE v == w.value cap == Capacity(t, length) moves == ~bound
<1>1. v \in Seq(Mem) /\ cap \in Nat /\ (length = 0 => cap = 0) /\ moves \in BOOLEAN
  BY CapacityIs
<1>2. NarrowText(w, was, t, length, bound) = TakeText(w, was, v, length, cap, moves)
  BY DEF NarrowText, TakeText
<1> HIDE DEF v, cap, moves
<1>3. TextTaken(TakeText(w, was, v, length, cap, moves), w, was, v, length, cap, moves)
  BY <1>1, TakeTextIs
<1> QED BY <1>2, <1>3 DEF v, cap, moves

\* The wide text read: the copy of the row, or the value.
WideOf(w, was, bound) == IF was THEN (IF bound THEN w.boundCopy ELSE w.copy) ELSE w.value
WideTextTaken(c, w, was, text, length, bound) ==
  /\ c \in Worlds /\ c.rec.current = w.rec.current
  /\ text = None => c.ret = "crash" /\ c.copy = w.copy /\ c.piece = << >>
  /\ text # None /\ ~bound => c.copy = text
  /\ text # None /\ w.rec.offset <= Len(text)
       => GivesPiece(c, w, was, text, length, Capacity("wide", length), FALSE)

\* convStringToStringW gives the next piece of the text it keeps, and keeps the text it began
\* with.
LEMMA WideTextIs ==
  ASSUME NEW w, Ready(w), w.value \in Seq(Mem), NEW was \in BOOLEAN,
         NEW length \in Nat, NEW bound \in BOOLEAN
  PROVE  WideTextTaken(WideText(w, was, length, bound), w, was, WideOf(w, was, bound), length, bound)
<1> DEFINE text == WideOf(w, was, bound)
           cap == Capacity("wide", length)
           b == TakeText(w, was, text, length, cap, TRUE)
           c == WideText(w, was, length, bound)
<1>1. /\ w \in Worlds /\ w.copy \in Copies /\ w.boundCopy \in Copies /\ w.rec \in Recs
      /\ w.piece = << >>
  BY DEF Ready, Worlds
<1>2. text \in Copies
  BY <1>1 DEF WideOf, Copies
<1>3. c = IF text = None THEN [w EXCEPT !.ret = "crash"]
          ELSE IF bound THEN [b EXCEPT !.boundCopy = text] ELSE [b EXCEPT !.copy = text]
  BY DEF WideText, TakeText, WideOf
<1>4. cap \in Nat /\ (length = 0 => cap = 0) /\ TRUE \in BOOLEAN
  <2>1. "wide" \in Targets
    BY DEF Targets
  <2> QED BY <2>1, CapacityIs
<1> HIDE DEF c, b, text, cap
<1>5. CASE text = None
  <2>1. c = [w EXCEPT !.ret = "crash"]
    BY <1>3, <1>5
  <2>2. c \in Worlds /\ c.rec = w.rec /\ c.ret = "crash" /\ c.copy = w.copy /\ c.piece = w.piece
    BY <2>1, <1>1 DEF Worlds, Rets
  <2> QED BY <2>2, <1>1, <1>5 DEF c, text, WideTextTaken
<1>6. CASE text # None
  <2>1. text \in Seq(Mem)
    BY <1>2, <1>6 DEF Copies
  <2>2. TextTaken(b, w, was, text, length, cap, TRUE)
    BY <2>1, <1>4, TakeTextIs DEF b
  <2>3. b \in Worlds /\ b.rec.current = w.rec.current
        /\ (w.rec.offset <= Len(text) => GivesPiece(b, w, was, text, length, cap, FALSE))
    BY <2>2 DEF TextTaken
  <2>4. /\ c \in Worlds /\ c.rec = b.rec /\ c.len = b.len /\ c.ret = b.ret /\ c.piece = b.piece
        /\ ~bound => c.copy = text
    <3>1. CASE bound
      <4>1. c = [b EXCEPT !.boundCopy = text]
        BY <1>3, <1>6, <3>1
      <4> QED BY <4>1, <3>1, <2>3, <1>2 DEF Worlds
    <3>2. CASE ~bound
      <4>1. c = [b EXCEPT !.copy = text]
        BY <1>3, <1>6, <3>2
      <4> QED BY <4>1, <3>2, <2>3, <1>2 DEF Worlds
    <3> QED BY <3>1, <3>2
  <2>5. w.rec.offset <= Len(text) => GivesPiece(c, w, was, text, length, cap, FALSE)
    BY <2>3, <2>4 DEF GivesPiece, AdvanceExact
  <2> QED BY <2>3, <2>4, <2>5, <1>6 DEF c, text, cap, WideTextTaken
<1> QED BY <1>5, <1>6

StoredBytes(w) == FlattenSeq(w.blob.stream.segments)
\* Reading from the stream changes the stream and the piece, nothing else.
OnlyRead(c, w) ==
  /\ c \in Worlds
  /\ c.rec = w.rec /\ c.copy = w.copy /\ c.boundCopy = w.boundCopy /\ c.len = w.len /\ c.ret = w.ret
  /\ c.blob.id = w.blob.id /\ c.blob.fetched = w.blob.fetched /\ StoredBytes(c) = StoredBytes(w)

\* The bytes of the blob of a world.
LEMMA StoredIs ==
  ASSUME NEW w \in Worlds
  PROVE  /\ w.blob \in Blobs /\ w.blob.stream \in GoodStream(Mem) /\ StoredBytes(w) \in Seq(Mem)
         /\ w.blob.id \in Nat /\ w.blob.fetched \in BOOLEAN
         /\ BlobLength(w) = Len(StoredBytes(w))
<1>1. w.blob \in Blobs
  BY DEF Worlds
<1>2. w.blob.stream \in GoodStream(Mem) /\ w.blob.id \in Nat /\ w.blob.fetched \in BOOLEAN
  BY <1>1 DEF Blobs
<1>3. w.blob.stream.segments \in Seq(Seq(Mem))
  BY <1>2 DEF GoodStream, StreamOf
<1> QED BY <1>1, <1>2, <1>3, FlattenType DEF StoredBytes, BlobLength, TotalLength

\* A world whose blob is read on, with a piece.
ReadWorld(w, s, p) == [w EXCEPT !.blob.stream = s, !.piece = p]

\* Reading on changes the place kept in the stream, and the piece.
LEMMA ReadOn ==
  ASSUME NEW w \in Worlds, NEW s \in GoodStream(Mem), s.segments = w.blob.stream.segments,
         NEW p \in Seq(Unit)
  PROVE  LET c == ReadWorld(w, s, p)
         IN  OnlyRead(c, w) /\ c.blob.stream = s /\ c.piece = p
<1> DEFINE b == [w.blob EXCEPT !.stream = s]
           c == ReadWorld(w, s, p)
<1>1. w.blob \in Blobs
  BY StoredIs
<1>2. b \in Blobs /\ b.stream = s /\ b.id = w.blob.id /\ b.fetched = w.blob.fetched
  BY <1>1 DEF Blobs
<1>3. c = [w EXCEPT !.blob = b, !.piece = p]
  BY DEF Worlds, ReadWorld
<1> HIDE DEF b, c
<1>4. /\ c \in Worlds /\ c.blob = b /\ c.piece = p
      /\ c.rec = w.rec /\ c.copy = w.copy /\ c.boundCopy = w.boundCopy /\ c.len = w.len /\ c.ret = w.ret
  BY <1>2, <1>3 DEF Worlds
<1>5. OnlyRead(c, w) /\ c.blob.stream = s /\ c.piece = p
  BY <1>2, <1>4 DEF OnlyRead, StoredBytes
<1> QED BY <1>5 DEF c

BytesTaken(c, w, o, len) ==
  /\ OnlyRead(c, w)
  /\ len \in Nat /\ o + len <= Len(StoredBytes(w)) /\ InPlace(w.blob.stream, o, StoredBytes(w))
       => /\ c.piece = SubSeq(StoredBytes(w), o + 1, o + len)
          /\ InPlace(c.blob.stream, o + len, StoredBytes(w))

\* getBinary gives the bytes at the place.
LEMMA TakeBytesIs ==
  ASSUME NEW w \in Worlds, w.piece = << >>, NEW o \in Nat, NEW len \in Int
  PROVE  BytesTaken(TakeBytes(w, o, len), w, o, len)
         /\ TakeBytes(w, o, len).piece \in Seq(Mem)
<1> DEFINE s == w.blob.stream t == StoredBytes(w)
           h == FALSE
           g == GetSegment(s, o, len, h)
           c == TakeBytes(w, o, len)
<1>1. s \in GoodStream(Mem) /\ t \in Seq(Mem) /\ t = FlattenSeq(s.segments) /\ h \in BOOLEAN
  BY StoredIs DEF StoredBytes
<1>2. c = IF len = 0 THEN w ELSE [w EXCEPT !.blob.stream = g.stream, !.piece = g.data]
  BY DEF TakeBytes
<1>3. CASE len = 0
  <2>1. c = w
    BY <1>2, <1>3
  <2>2. OnlyRead(w, w)
    BY DEF OnlyRead
  <2>3. SubSeq(t, o + 1, o + 0) = << >> /\ o + 0 = o
    BY SubSeqEmpty
  <2>4. c.piece = << >> /\ << >> \in Seq(Mem)
    BY <2>1
  <2> QED BY <1>3, <2>1, <2>2, <2>3, <2>4 DEF BytesTaken
<1>4. CASE len # 0
  <2> DEFINE gs == g.stream gd == g.data
  <2>1. gd \in Seq(Loose(Mem)) /\ gs \in GoodStream(Mem) /\ gs.segments = s.segments
    <3> HIDE DEF s, h
    <3> QED BY <1>1, GetSegmentType
  <2>2. gd \in Seq(Mem) /\ gd \in Seq(Unit)
    BY <2>1, MemIs, MemUnit
  <2>3. len \in Nat /\ o + len <= Len(t) /\ InPlace(s, o, t)
          => gd = SubSeq(t, o + 1, o + len) /\ InPlace(gs, o + len, t)
    <3> SUFFICES ASSUME len \in Nat, o + len <= Len(t), InPlace(s, o, t)
                 PROVE  gd = SubSeq(t, o + 1, o + len) /\ InPlace(gs, o + len, t)
      OBVIOUS
    <3> HIDE DEF s, t, h
    <3> QED BY <1>1, GetSegmentExact
  <2>4. c = [w EXCEPT !.blob.stream = gs, !.piece = gd]
    BY <1>2, <1>4
  <2> HIDE DEF gs, gd, g, c
  <2>5. OnlyRead(c, w) /\ c.blob.stream = gs /\ c.piece = gd
    <3> HIDE DEF s
    <3>1. gs \in GoodStream(Mem) /\ gs.segments = w.blob.stream.segments /\ gd \in Seq(Unit)
      BY <2>1, <2>2 DEF s
    <3> DEFINE d == ReadWorld(w, gs, gd)
    <3>2. OnlyRead(d, w) /\ d.blob.stream = gs /\ d.piece = gd
      BY <3>1, ReadOn
    <3> QED BY <3>2, <2>4 DEF ReadWorld
  <2>6. BytesTaken(c, w, o, len) /\ c.piece \in Seq(Mem)
    BY <2>2, <2>3, <2>5 DEF BytesTaken
  <2> QED BY <2>6 DEF c
<1> QED BY <1>3, <1>4

HexTaken(c, w, o, len) ==
  /\ OnlyRead(c, w)
  /\ len \in Nat /\ len % 2 = 0 /\ o % 2 = 0 /\ o + len <= 2 * Len(StoredBytes(w))
       /\ InPlace(w.blob.stream, o \div 2, StoredBytes(w))
       => /\ c.piece = SubSeq(ToHex(StoredBytes(w)), o + 1, o + len)
          /\ InPlace(c.blob.stream, (o + len) \div 2, StoredBytes(w))

\* Two digits for each byte.
LEMMA HalfOf ==
  ASSUME NEW o \in Nat, NEW len \in Nat, NEW n \in Nat, o % 2 = 0, len % 2 = 0, o + len <= 2 * n
  PROVE  /\ o \div 2 \in Nat /\ len \div 2 \in Nat /\ o \div 2 + len \div 2 <= n
         /\ o = 2 * (o \div 2) /\ o + len = 2 * (o \div 2 + len \div 2)
         /\ (o + len) \div 2 = o \div 2 + len \div 2
OBVIOUS

\* getHexString gives the digits at the place.
LEMMA TakeHexIs ==
  ASSUME NEW w \in Worlds, w.piece = << >>, NEW o \in Nat, NEW len \in Int
  PROVE  HexTaken(TakeHex(w, o, len), w, o, len)
<1> DEFINE s == w.blob.stream t == StoredBytes(w)
           p == o \div 2 k == len \div 2
           h == TRUE
           g == GetSegment(s, p, k, h)
           c == TakeHex(w, o, len)
           loose == IF len % 2 = 0 THEN << >> ELSE <<Wild>>
<1>1. s \in GoodStream(Mem) /\ t \in Seq(Mem) /\ t = FlattenSeq(s.segments) /\ h \in BOOLEAN
      /\ p \in Int /\ k \in Int
  BY StoredIs DEF StoredBytes
<1>2. c = IF len = 0 THEN w ELSE [w EXCEPT !.blob.stream = g.stream, !.piece = ToHex(g.data) \o loose]
  BY DEF TakeHex
<1>3. CASE len = 0
  <2>1. c = w
    BY <1>2, <1>3
  <2>2. OnlyRead(w, w)
    BY DEF OnlyRead
  <2>3. SubSeq(ToHex(t), o + 1, o + 0) = << >> /\ o + 0 = o
    BY SubSeqEmpty
  <2> QED BY <1>3, <2>1, <2>2, <2>3 DEF HexTaken
<1>4. CASE len # 0
  <2> DEFINE gs == g.stream gd == g.data piece == ToHex(gd) \o loose
  <2>1. gd \in Seq(Loose(Mem)) /\ gs \in GoodStream(Mem) /\ gs.segments = s.segments
    <3>1. s \in GoodStream(Mem) /\ p \in Int /\ k \in Int /\ h \in BOOLEAN
      BY <1>1
    <3> HIDE DEF p, k, s, h, t, loose, c, gs, gd, piece
    <3>2. /\ g.data \in Seq(Loose(Mem)) /\ g.stream \in GoodStream(Mem)
          /\ g.stream.segments = s.segments
      BY <3>1, GetSegmentType
    <3> QED BY <3>2 DEF gs, gd
  <2>2. gd \in Seq(Mem)
    BY <2>1, MemIs
  <2>3. ToHex(gd) \in Seq(Digit(Mem))
    BY <2>2, ToHexIs
  <2>4. ToHex(gd) \in Seq(Unit) /\ loose \in Seq(Unit)
    <3>1. <<Wild>> \in Seq(Mem)
      BY MemIs
    <3>2. loose \in Seq(Mem)
      BY <3>1
    <3> HIDE DEF loose, gd
    <3> QED BY <2>3, <3>2, MemUnit
  <2>5. piece \in Seq(Unit)
    <3> HIDE DEF loose, gd
    <3> QED BY <2>4, ConcatProperties
  <2>6. len \in Nat /\ len % 2 = 0 /\ o % 2 = 0 /\ o + len <= 2 * Len(t) /\ InPlace(s, p, t)
          => piece = SubSeq(ToHex(t), o + 1, o + len) /\ InPlace(gs, (o + len) \div 2, t)
    <3> SUFFICES ASSUME len \in Nat, len % 2 = 0, o % 2 = 0, o + len <= 2 * Len(t), InPlace(s, p, t)
                 PROVE  piece = SubSeq(ToHex(t), o + 1, o + len) /\ InPlace(gs, (o + len) \div 2, t)
      OBVIOUS
    <3>1. /\ p \in Nat /\ k \in Nat /\ p + k <= Len(t)
          /\ o = 2 * p /\ o + len = 2 * (p + k) /\ (o + len) \div 2 = p + k
      BY <1>1, HalfOf
    <3>2. gd = SubSeq(t, p + 1, p + k) /\ InPlace(gs, p + k, t)
      <4>1. /\ s \in GoodStream(Mem) /\ t = FlattenSeq(s.segments) /\ p \in Nat /\ k \in Nat
            /\ p + k <= Len(t) /\ InPlace(s, p, t) /\ h \in BOOLEAN
        BY <1>1, <3>1
      <4> HIDE DEF p, k, s, t, h, loose, c
      <4> QED BY <4>1, GetSegmentExact
    <3>3. ToHex(SubSeq(t, p + 1, p + k)) = SubSeq(ToHex(t), 2 * p + 1, 2 * (p + k))
      <4> DEFINE q == p + k
      <4>1. q \in p..Len(t) /\ p \in Nat
        BY <3>1
      <4> HIDE DEF p, q, k, t
      <4>2. ToHex(SubSeq(t, p + 1, q)) = SubSeq(ToHex(t), 2 * p + 1, 2 * q)
        BY <4>1, <1>1, ToHexPart
      <4> QED BY <4>2 DEF q
    <3>4. loose = << >>
      OBVIOUS
    <3>5. piece = ToHex(gd)
      BY <2>3, <3>4
    <3> HIDE DEF p, k, piece, gd, gs, t
    <3> QED BY <3>1, <3>2, <3>3, <3>5
  <2>7. c = [w EXCEPT !.blob.stream = gs, !.piece = piece]
    BY <1>2, <1>4
  <2> HIDE DEF gs, gd, g, c, piece
  <2>8. OnlyRead(c, w) /\ c.blob.stream = gs /\ c.piece = piece
    <3>1. gs \in GoodStream(Mem) /\ gs.segments = w.blob.stream.segments /\ piece \in Seq(Unit)
      BY <2>1, <2>5 DEF s
    <3> DEFINE d == ReadWorld(w, gs, piece)
    <3>2. OnlyRead(d, w) /\ d.blob.stream = gs /\ d.piece = piece
      BY <3>1, ReadOn
    <3> QED BY <3>2, <2>7 DEF ReadWorld
  <2>9. HexTaken(c, w, o, len)
    BY <2>6, <2>8 DEF HexTaken
  <2> QED BY <2>9 DEF c
<1> QED BY <1>3, <1>4

-----------------------------------------------------------------------------
\* Blobs: the bytes come through the stream, or through the copy a wide call makes.

WholeOf(b, t) == IF Hex(t) THEN ToHex(b) ELSE b
PlaceOf(t, o) == IF Hex(t) THEN o \div 2 ELSE o
EvenOnly(t) == Hex(t) /\ t = "wide"
Pairs(t, length) == Hex(t) /\ t # "wide" => Capacity(t, length) % 2 = 0

PiecesTaken(c, x, was, t, length, bound) ==
  /\ c \in Worlds /\ c.rec.current = x.rec.current /\ c.blob.fetched = x.blob.fetched
  /\ c.copy = x.copy
  /\ bound /\ x.rec.offset = 0 => c.rec.offset = 0
  /\ Hex(t) /\ Pairs(t, length) => c.rec.offset % 2 = 0
PiecesExact(c, x, was, t, length) ==
  x.rec.offset <= Len(WholeOf(StoredBytes(x), t)) /\ Pairs(t, length)
    /\ InPlace(x.blob.stream, PlaceOf(t, x.rec.offset), StoredBytes(x))
  => /\ GivesPiece(c, x, was, WholeOf(StoredBytes(x), t), length, Capacity(t, length), EvenOnly(t))
     /\ StoredBytes(c) = StoredBytes(x)
     /\ c.ret # NoData => InPlace(c.blob.stream, PlaceOf(t, c.rec.offset), StoredBytes(x))

PiecesOf(x, was, t, length, bound) ==
  LET a == Advance(x, was, BlobLength(x) * (IF Hex(t) THEN 2 ELSE 1), length, Capacity(t, length),
                   Hex(t) /\ t = "wide", ~bound)
  IN  IF Hex(t) THEN TakeHex(a, x.rec.offset, a.len) ELSE TakeBytes(a, x.rec.offset, a.len)

\* The value as the target has it: bytes, or two digits for each.
LEMMA WholeIs ==
  ASSUME NEW b \in Seq(Mem), NEW t \in Targets
  PROVE  /\ WholeOf(b, t) \in Seq(Unit)
         /\ Len(WholeOf(b, t)) = Len(b) * (IF Hex(t) THEN 2 ELSE 1)
         /\ Hex(t) => Len(WholeOf(b, t)) = 2 * Len(b)
         /\ Hex(t) => Len(WholeOf(b, t)) % 2 = 0
<1>1. ToHex(b) \in Seq(Digit(Mem)) /\ Len(ToHex(b)) = 2 * Len(b)
  BY ToHexIs
<1>2. b \in Seq(Unit) /\ ToHex(b) \in Seq(Unit)
  BY <1>1, MemUnit
<1>3. (2 * Len(b)) % 2 = 0
  OBVIOUS
<1>4. Len(b) \in Nat
  OBVIOUS
<1>5. CASE Hex(t)
  <2>1. WholeOf(b, t) = ToHex(b)
    BY <1>5 DEF WholeOf
  <2>2. Len(ToHex(b)) = Len(b) * (IF Hex(t) THEN 2 ELSE 1)
    <3> DEFINE n == Len(b) m == Len(ToHex(b))
    <3>1. m = 2 * n /\ n \in Nat
      BY <1>1, <1>4
    <3> HIDE DEF n, m
    <3>2. m = n * (IF Hex(t) THEN 2 ELSE 1)
      BY <3>1, <1>5
    <3> QED BY <3>2 DEF n, m
  <2> QED BY <1>1, <1>2, <1>3, <2>1, <2>2
<1>6. CASE ~Hex(t)
  <2>1. WholeOf(b, t) = b
    BY <1>6 DEF WholeOf
  <2>2. Len(b) = Len(b) * (IF Hex(t) THEN 2 ELSE 1)
    BY <1>4, <1>6
  <2> QED BY <1>2, <1>6, <2>1, <2>2
<1> QED BY <1>5, <1>6

\* A call on a blob gives the next piece of it.
LEMMA PiecesAre ==
  ASSUME NEW x, Ready(x), NEW was \in BOOLEAN, NEW t \in Targets, NEW length \in Nat,
         NEW bound \in BOOLEAN, Hex(t) => x.rec.offset % 2 = 0
  PROVE  LET c == PiecesOf(x, was, t, length, bound)
         IN  PiecesTaken(c, x, was, t, length, bound) /\ (~bound => PiecesExact(c, x, was, t, length))
<1> DEFINE b == StoredBytes(x)
           whole == WholeOf(b, t)
           T == Len(whole)
           o == x.rec.offset
           cap == Capacity(t, length)
           even == EvenOnly(t)
           moves == ~bound
           a == Advance(x, was, T, length, cap, even, moves)
           c == PiecesOf(x, was, t, length, bound)
<1>1. /\ x \in Worlds /\ x.len = 0 /\ x.ret = "success" /\ x.piece = << >>
      /\ b \in Seq(Mem) /\ BlobLength(x) = Len(b) /\ o \in Nat /\ x.rec.current \in Nat
  BY StoredIs DEF Ready, Worlds, Recs
<1>2. /\ T \in Nat /\ T = Len(b) * (IF Hex(t) THEN 2 ELSE 1)
      /\ Hex(t) => T = 2 * Len(b) /\ T % 2 = 0
      /\ ~Hex(t) => T = Len(b) /\ whole = b
      /\ Hex(t) => whole = ToHex(b)
  <2>1. whole \in Seq(Unit) /\ Len(whole) = Len(b) * (IF Hex(t) THEN 2 ELSE 1)
        /\ (Hex(t) => Len(whole) = 2 * Len(b)) /\ (Hex(t) => Len(whole) % 2 = 0)
    <3> HIDE DEF b
    <3> QED BY <1>1, WholeIs
  <2>2. (Hex(t) => whole = ToHex(b)) /\ (~Hex(t) => whole = b)
    BY DEF WholeOf
  <2>3. T \in Nat
    BY <2>1
  <2> HIDE DEF whole
  <2> QED BY <2>1, <2>2, <2>3
<1>3. cap \in Nat /\ (length = 0 => cap = 0) /\ moves \in BOOLEAN /\ even \in BOOLEAN
      /\ (even => o % 2 = 0) /\ (Hex(t) /\ Pairs(t, length) => even \/ cap % 2 = 0)
  <2>1. even \in BOOLEAN /\ moves \in BOOLEAN
    BY DEF EvenOnly, Hex
  <2> QED BY <2>1, CapacityIs DEF EvenOnly, Pairs
<1>4. c = IF Hex(t) THEN TakeHex(a, o, a.len) ELSE TakeBytes(a, o, a.len)
  <2>1. BlobLength(x) * (IF Hex(t) THEN 2 ELSE 1) = T
    BY <1>1, <1>2
  <2> HIDE DEF T, b, whole
  <2> QED BY <2>1 DEF PiecesOf, EvenOnly
<1>5. AdvanceGives(a, x, was, T, length, cap, even, moves)
      /\ (moves /\ o <= T => AdvanceExact(a, x, was, T, length, cap, even))
  <2>1. T \in Nat
    BY <1>2
  <2>2. /\ x \in Worlds /\ x.len = 0 /\ x.ret = "success" /\ T \in Nat /\ cap \in Nat
        /\ even \in BOOLEAN /\ moves \in BOOLEAN /\ (even => x.rec.offset % 2 = 0)
        /\ (length = 0 => cap = 0)
    BY <1>1, <2>1, <1>3
  <2> HIDE DEF T, cap, even, moves, c, b, whole
  <2>3. AdvanceDoes(a, x, was, T, length, cap, even, moves)
    BY <2>2, AdvanceIs
  <2> QED BY <2>3 DEF AdvanceDoes
<1> HIDE DEF a
<1>6. /\ a \in Worlds /\ a.len \in Int /\ a.blob = x.blob /\ a.copy = x.copy /\ a.piece = << >>
      /\ a.rec.current = x.rec.current
      /\ (a.len > 0 => o + a.len <= T)
      /\ (~moves /\ o = 0 => a.rec.offset = 0)
      /\ (Hex(t) /\ Pairs(t, length) => a.rec.offset % 2 = 0)
      /\ StoredBytes(a) = b
  <2> HIDE DEF T, cap, even, moves, whole, o
  <2>1. AdvanceGives(a, x, was, T, length, cap, even, moves)
    BY <1>5
  <2>2. /\ a \in Worlds /\ a.blob = x.blob /\ a.copy = x.copy /\ a.piece = x.piece
        /\ a.rec.current = x.rec.current /\ (a.len > 0 => o + a.len <= T)
        /\ (~moves /\ o = 0 => a.rec.offset = 0)
        /\ (o % 2 = 0 /\ (even \/ (cap % 2 = 0 /\ T % 2 = 0)) => a.rec.offset % 2 = 0)
    BY <2>1 DEF AdvanceGives, o
  <2>3. a.len \in Int
    BY <2>2 DEF Worlds
  <2>4. Hex(t) /\ Pairs(t, length) => a.rec.offset % 2 = 0
    <3>1. Hex(t) => o % 2 = 0
      BY DEF o
    <3> QED BY <2>2, <3>1, <1>2, <1>3
  <2> QED BY <2>2, <2>3, <2>4, <1>1 DEF StoredBytes
<1>7. /\ OnlyRead(c, a)
      /\ a.len \in Nat /\ o <= T /\ o + a.len <= T /\ (Hex(t) => a.len % 2 = 0)
           /\ InPlace(x.blob.stream, PlaceOf(t, o), b)
         => c.piece = SubSeq(whole, o + 1, o + a.len) /\ InPlace(c.blob.stream, PlaceOf(t, o + a.len), b)
  <2>1. CASE Hex(t)
    <3>1. HexTaken(c, a, o, a.len)
      <4> DEFINE len == a.len
      <4>1. c = TakeHex(a, o, len) /\ len \in Int
        BY <2>1, <1>4, <1>6
      <4> HIDE DEF len, o, c
      <4>2. HexTaken(TakeHex(a, o, len), a, o, len)
        BY <4>1, <1>1, <1>6, TakeHexIs
      <4> QED BY <4>1, <4>2 DEF len
    <3>2. o % 2 = 0
      BY <2>1
    <3> HIDE DEF o, b, T, whole
    <3>3. T = 2 * Len(b) /\ whole = ToHex(b)
      BY <1>2, <2>1
    <3> QED BY <2>1, <3>1, <3>2, <3>3, <1>6 DEF HexTaken, PlaceOf
  <2>2. CASE ~Hex(t)
    <3>1. BytesTaken(c, a, o, a.len)
      <4> DEFINE len == a.len
      <4>1. c = TakeBytes(a, o, len) /\ len \in Int
        BY <2>2, <1>4, <1>6
      <4> HIDE DEF len, o, c
      <4>2. BytesTaken(TakeBytes(a, o, len), a, o, len)
        BY <4>1, <1>1, <1>6, TakeBytesIs
      <4> QED BY <4>1, <4>2 DEF len
    <3> HIDE DEF o, b, T, whole
    <3>3. T = Len(b) /\ whole = b
      BY <1>2, <2>2
    <3> QED BY <2>2, <3>1, <3>3, <1>6 DEF BytesTaken, PlaceOf
  <2> QED BY <2>1, <2>2
<1> HIDE DEF c
<1>8. c \in Worlds /\ c.rec = a.rec /\ c.copy = a.copy /\ c.len = a.len /\ c.ret = a.ret
      /\ c.blob.fetched = x.blob.fetched /\ StoredBytes(c) = b
  BY <1>6, <1>7 DEF OnlyRead
<1>9. PiecesTaken(c, x, was, t, length, bound)
  BY <1>6, <1>8 DEF PiecesTaken
<1>10. ASSUME moves, o <= T, Pairs(t, length), InPlace(x.blob.stream, PlaceOf(t, o), b)
       PROVE  /\ GivesPiece(c, x, was, whole, length, cap, even)
              /\ c.ret # NoData => InPlace(c.blob.stream, PlaceOf(t, c.rec.offset), b)
  <2> HIDE DEF T, cap, even, moves, o, b
  <2>1. AdvanceExact(a, x, was, T, length, cap, even)
    BY <1>5, <1>10
  <2>2. /\ a.len \in Nat /\ (a.ret = NoData => o = T /\ a.len = 0)
        /\ (a.ret # NoData => a.rec.offset = o + a.len /\ o + a.len <= T)
    BY <2>1 DEF AdvanceExact, o
  <2>3. o + a.len <= T
    BY <2>2, <1>1
  <2>4. Hex(t) => a.len % 2 = 0
    <3>1. Hex(t) => o % 2 = 0
      BY DEF o
    <3>2. CASE a.ret = NoData
      BY <3>2, <2>2
    <3>3. CASE a.ret # NoData
      <4> SUFFICES ASSUME Hex(t) PROVE a.len % 2 = 0
        OBVIOUS
      <4>1. (o + a.len) % 2 = 0 /\ o % 2 = 0 /\ a.len \in Nat /\ o \in Nat
        BY <3>1, <3>3, <2>2, <1>6, <1>10, <1>1
      <4>2. (o + a.len) % 2 = a.len % 2
        <5> DEFINE l == a.len
        <5>1. l \in Nat
          BY <4>1
        <5> HIDE DEF l
        <5>2. (o + l) % 2 = l % 2
          BY <4>1, <5>1, EvenSum
        <5> QED BY <5>2 DEF l
      <4> QED BY <4>1, <4>2
    <3> QED BY <3>2, <3>3
  <2>5. c.piece = SubSeq(whole, o + 1, o + a.len) /\ InPlace(c.blob.stream, PlaceOf(t, o + a.len), b)
    BY <1>7, <1>10, <2>2, <2>3, <2>4
  <2>6. AdvanceExact(c, x, was, T, length, cap, even)
    BY <2>1, <1>8 DEF AdvanceExact
  <2>7. GivesPiece(c, x, was, whole, length, cap, even)
    BY <2>5, <2>6, <1>8 DEF GivesPiece, T, o
  <2>8. c.ret # NoData => InPlace(c.blob.stream, PlaceOf(t, c.rec.offset), b)
    BY <2>2, <2>5, <1>8
  <2> QED BY <2>7, <2>8
<1>11. ~bound => PiecesExact(c, x, was, t, length)
  <2>1. ~bound => moves
    OBVIOUS
  <2> HIDE DEF moves
  <2> QED BY <2>1, <1>8, <1>10 DEF PiecesExact
<1> QED BY <1>9, <1>11 DEF c

\* The blob of w can be read: it was, or its row is there.
Readable(w) == ~w.blob.fetched => table[w.blob.id] \in Seq(Seq(Mem))
BlobOnly(x, w) ==
  /\ x \in Worlds
  /\ x.rec = w.rec /\ x.copy = w.copy /\ x.boundCopy = w.boundCopy /\ x.len = w.len
  /\ x.ret = w.ret /\ x.piece = w.piece /\ x.row = w.row /\ x.value = w.value

\* A world with another blob.
LEMMA BlobChange ==
  ASSUME NEW w \in Worlds, NEW b \in Blobs
  PROVE  BlobOnly([w EXCEPT !.blob = b], w) /\ [w EXCEPT !.blob = b].blob = b
<1> DEFINE x == [w EXCEPT !.blob = b]
<1>1. /\ x \in Worlds /\ x.blob = b
      /\ x.rec = w.rec /\ x.copy = w.copy /\ x.boundCopy = w.boundCopy /\ x.len = w.len
      /\ x.ret = w.ret /\ x.piece = w.piece /\ x.row = w.row /\ x.value = w.value
  BY DEF Worlds
<1> HIDE DEF x
<1>2. BlobOnly(x, w) /\ x.blob = b
  BY <1>1 DEF BlobOnly
<1> QED BY <1>2 DEF x

\* fetchBlob holds the blob of the row in the stream.
LEMMA FetchBlobIs ==
  ASSUME NEW w \in Worlds, Readable(w)
  PROVE  LET x == FetchBlob(w)
         IN  /\ BlobOnly(x, w) /\ x.blob.fetched = TRUE
             /\ w.blob.fetched => x = w
             /\ ~w.blob.fetched => /\ StoredBytes(x) = StoredBytes(w) \o FlattenSeq(table[w.blob.id])
                                   /\ x.blob.stream.read = w.blob.stream.read
<1> DEFINE x == FetchBlob(w)
           s == w.blob.stream
           server == table[w.blob.id]
           r == FetchInto(s, server)
           b == [w.blob EXCEPT !.stream = r, !.fetched = TRUE]
<1>1. w.blob \in Blobs /\ s \in GoodStream(Mem) /\ w.blob.fetched \in BOOLEAN
  BY StoredIs
<1>2. CASE w.blob.fetched
  <2>1. x = w
    BY <1>2 DEF FetchBlob
  <2>2. BlobOnly(w, w)
    BY DEF BlobOnly
  <2> QED BY <1>1, <1>2, <2>1, <2>2
<1>3. CASE ~w.blob.fetched
  <2>1. x = [w EXCEPT !.blob = b]
    BY <1>3 DEF FetchBlob, Worlds, Blobs
  <2>2. r \in GoodStream(Mem) /\ r.read = s.read
        /\ FlattenSeq(r.segments) = FlattenSeq(s.segments) \o FlattenSeq(server)
    <3>1. server \in Seq(Seq(Mem))
      BY <1>3 DEF Readable
    <3> HIDE DEF server, s
    <3> QED BY <1>1, <3>1, FetchIntoAdds
  <2> HIDE DEF r
  <2>3. b \in Blobs /\ b.fetched = TRUE /\ b.stream = r
    BY <1>1, <2>2 DEF Blobs
  <2> HIDE DEF b, x
  <2>4. BlobOnly(x, w) /\ x.blob = b
    BY <2>1, <2>3, BlobChange
  <2>5. StoredBytes(x) = FlattenSeq(r.segments) /\ StoredBytes(w) = FlattenSeq(s.segments)
    BY <2>3, <2>4 DEF StoredBytes
  <2> QED BY <1>3, <2>2, <2>3, <2>4, <2>5 DEF x
<1> QED BY <1>1, <1>2, <1>3

\* The bind of a blob: it is the row's, and nothing of it is held.
LEMMA BindIs ==
  ASSUME NEW w \in Worlds
  PROVE  LET x == Bind(w)
         IN  /\ BlobOnly(x, w) /\ x.blob.fetched = FALSE /\ x.blob.id = w.row
             /\ StoredBytes(x) = << >> /\ x.blob.stream.read = << >>
<1> DEFINE x == Bind(w)
           s == Clear(w.blob.stream)
           b == [id |-> w.row, fetched |-> FALSE, stream |-> s]
<1>1. w.blob.stream \in GoodStream(Mem) /\ w.row \in Nat
  BY StoredIs DEF Worlds
<1>2. w.blob.stream.minimum \in Nat
  BY <1>1 DEF GoodStream, StreamOf
<1>3. s \in GoodStream(Mem) /\ s.segments = << >> /\ s.read = << >>
  <2> DEFINE m == w.blob.stream.minimum
  <2>1. m \in Nat /\ s = Empty(m)
    BY <1>2 DEF Clear
  <2> HIDE DEF m, s
  <2>2. Empty(m) \in GoodStream(Mem)
    BY <2>1, EmptyStream
  <2>3. Empty(m).segments = << >> /\ Empty(m).read = << >>
    BY DEF Empty
  <2> QED BY <2>1, <2>2, <2>3
<1>4. x = [w EXCEPT !.blob = b]
  BY DEF Bind
<1> HIDE DEF s
<1>5. b \in Blobs /\ b.fetched = FALSE /\ b.id = w.row /\ b.stream = s
  BY <1>1, <1>3 DEF Blobs
<1> HIDE DEF b, x
<1>6. BlobOnly(x, w) /\ x.blob = b
  BY <1>4, <1>5, BlobChange
<1>7. StoredBytes(x) = << >>
  BY <1>3, <1>5, <1>6, FlattenEmpty DEF StoredBytes
<1> QED BY <1>3, <1>5, <1>6, <1>7 DEF x

\* The blob of the row of the world.
LEMMA AttachBlobIs ==
  ASSUME NEW w \in Worlds, table[w.row] \in Seq(Seq(Mem))
  PROVE  BlobOnly(AttachBlob(w), w) /\ AttachBlob(w).blob.fetched = TRUE
<1> DEFINE x == AttachBlob(w)
           s == w.blob.stream
           e == Empty(0)
           server == table[w.row]
           r == FetchInto(e, server)
           n == [s EXCEPT !.segments = r.segments, !.room = r.room, !.minimum = r.minimum]
           b == [id |-> w.row, fetched |-> TRUE, stream |-> n]
<1>1. s \in GoodStream(Mem) /\ w.row \in Nat
  BY StoredIs DEF Worlds
<1>2. r \in GoodStream(Mem)
  <2>1. e \in GoodStream(Mem) /\ server \in Seq(Seq(Mem))
    BY EmptyStream
  <2> HIDE DEF e, server
  <2> QED BY <2>1, FetchIntoAdds
<1>3. x = [w EXCEPT !.blob = b]
  BY DEF AttachBlob, Attach
<1> HIDE DEF r
<1>4. n \in GoodStream(Mem)
  BY <1>1, <1>2 DEF GoodStream, StreamOf, RoomAtEnd
<1> HIDE DEF n
<1>5. b \in Blobs /\ b.fetched = TRUE
  BY <1>1, <1>4 DEF Blobs
<1> HIDE DEF b, x
<1>6. BlobOnly(x, w) /\ x.blob = b
  BY <1>3, <1>5, BlobChange
<1> QED BY <1>5, <1>6 DEF x

\* What the blob of w holds once it is fetched.
BlobBytes(w) == IF w.blob.fetched THEN StoredBytes(w) ELSE StoredBytes(w) \o FlattenSeq(table[w.blob.id])

\* After the fetch the blob holds its bytes.
LEMMA BlobFetched ==
  ASSUME NEW w \in Worlds, Readable(w)
  PROVE  LET x == FetchBlob(w)
         IN  /\ BlobOnly(x, w) /\ x.blob.fetched = TRUE
             /\ w.blob.fetched => x = w
             /\ StoredBytes(x) = BlobBytes(w) /\ x.blob.stream.read = w.blob.stream.read
<1>1. w.blob.fetched \in BOOLEAN
  BY StoredIs
<1>2. CASE w.blob.fetched
  BY <1>2, FetchBlobIs DEF BlobBytes
<1>3. CASE ~w.blob.fetched
  BY <1>3, FetchBlobIs DEF BlobBytes
<1> QED BY <1>1, <1>2, <1>3

WideTaken(c, w, was, length, bound) ==
  /\ c \in Worlds /\ c.rec.current = w.rec.current /\ c.blob.fetched = TRUE
  /\ bound /\ w.rec.offset = 0 => c.rec.offset = 0
WideExact(c, w, was, length) ==
  /\ was => w.blob.fetched /\ w.copy = BlobBytes(w)
  /\ ~was => w.blob.stream.read = << >>
  /\ w.rec.offset <= Len(BlobBytes(w))
  => /\ GivesPiece(c, w, was, BlobBytes(w), length, Capacity("wide", length), FALSE)
     /\ c.copy = BlobBytes(w) /\ StoredBytes(c) = BlobBytes(w)

\* The copy is made, unless it is there.
CopyMade(x) == LET z == TakeBytes(x, 0, BlobLength(x)) IN [z EXCEPT !.copy = z.piece, !.piece = << >>]
WithCopy(x) == IF x.copy # None THEN x ELSE CopyMade(x)

\* The copy that a wide call makes of the blob at its first piece.
LEMMA WithCopyIs ==
  ASSUME NEW x, Ready(x)
  PROVE  LET y == WithCopy(x)
         IN  /\ Ready(y) /\ y.rec = x.rec /\ y.blob.fetched = x.blob.fetched
             /\ StoredBytes(y) = StoredBytes(x)
             /\ y.copy \in Seq(Mem)
             /\ x.copy # None => y.copy = x.copy
             /\ x.copy = None /\ x.blob.stream.read = << >> => y.copy = StoredBytes(x)
<1> DEFINE y == WithCopy(x)
           b == StoredBytes(x)
           n == BlobLength(x)
           z == TakeBytes(x, 0, n)
<1>1. /\ x \in Worlds /\ x.piece = << >> /\ x.len = 0 /\ x.ret = "success" /\ x.copy \in Copies
      /\ b \in Seq(Mem) /\ n = Len(b) /\ n \in Nat /\ 0 + n = n
  BY StoredIs DEF Ready, Worlds
<1>2. CASE x.copy # None
  <2>1. y = x
    BY <1>2 DEF WithCopy
  <2> QED BY <1>1, <1>2, <2>1 DEF Copies
<1>3. CASE x.copy = None
  <2>1. y = [z EXCEPT !.copy = z.piece, !.piece = << >>]
    BY <1>3 DEF WithCopy, CopyMade
  <2>2. BytesTaken(z, x, 0, n) /\ z.piece \in Seq(Mem)
    <3> HIDE DEF n
    <3>1. n \in Int /\ 0 \in Nat
      BY <1>1
    <3> QED BY <1>1, <3>1, TakeBytesIs
  <2> HIDE DEF z, y
  <2>3. OnlyRead(z, x)
    BY <2>2 DEF BytesTaken
  <2>4. z \in Worlds /\ z.rec = x.rec /\ z.len = 0 /\ z.ret = "success"
        /\ z.blob.fetched = x.blob.fetched /\ StoredBytes(z) = b
    BY <2>3, <1>1 DEF OnlyRead
  <2>5. z.piece \in Copies /\ << >> \in Seq(Unit)
    BY <2>2 DEF Copies
  <2>6. /\ y \in Worlds /\ y.rec = z.rec /\ y.len = z.len /\ y.ret = z.ret /\ y.blob = z.blob
        /\ y.copy = z.piece /\ y.piece = << >>
    BY <2>1, <2>4, <2>5 DEF Worlds
  <2>7. x.blob.stream.read = << >> => z.piece = b
    <3> SUFFICES ASSUME x.blob.stream.read = << >> PROVE z.piece = b
      OBVIOUS
    <3>1. InPlace(x.blob.stream, 0, b)
      BY DEF InPlace
    <3>2. z.piece = SubSeq(b, 0 + 1, 0 + n)
      <4> HIDE DEF b, n
      <4>1. n \in Nat /\ 0 + n <= Len(b)
        BY <1>1
      <4> QED BY <2>2, <3>1, <4>1 DEF BytesTaken, b
    <3>3. SubSeq(b, 1, Len(b)) = b
      <4> HIDE DEF b
      <4> QED BY <1>1
    <3> HIDE DEF b, n
    <3> QED BY <3>2, <3>3, <1>1
  <2>8. StoredBytes(y) = b
    BY <2>4, <2>6 DEF StoredBytes
  <2> HIDE DEF b
  <2> QED BY <1>3, <2>2, <2>4, <2>6, <2>7, <2>8 DEF Ready, y, b
<1> QED BY <1>2, <1>3

\* convBlobToStringW gives the next piece of the copy.
LEMMA WideBlobIs ==
  ASSUME NEW w, Ready(w), Readable(w), NEW was \in BOOLEAN, NEW length \in Nat, NEW bound \in BOOLEAN
  PROVE  LET c == WideBlob(w, was, length, bound)
         IN  WideTaken(c, w, was, length, bound) /\ (~bound => WideExact(c, w, was, length))
<1> DEFINE v == IF was THEN w ELSE [w EXCEPT !.copy = None]
           x == FetchBlob(v)
           y == WithCopy(x)
           text == y.copy
           cap == Capacity("wide", length)
           moves == ~bound
           c == WideBlob(w, was, length, bound)
           b == BlobBytes(w)
<1>1. w \in Worlds /\ w.len = 0 /\ w.ret = "success" /\ w.piece = << >> /\ w.copy \in Copies
  BY DEF Ready, Worlds
<1>2. /\ v \in Worlds /\ v.blob = w.blob /\ v.rec = w.rec /\ v.len = 0 /\ v.ret = "success"
      /\ v.piece = << >> /\ (was => v = w) /\ (~was => v.copy = None)
  <2>1. CASE was
    BY <1>1, <2>1
  <2>2. CASE ~was
    <3>1. v = [w EXCEPT !.copy = None] /\ None \in Copies
      BY <2>2 DEF Copies
    <3> QED BY <3>1, <1>1, <2>2 DEF Worlds
  <2> QED BY <2>1, <2>2
<1> HIDE DEF v
<1>3. Readable(v) /\ BlobBytes(v) = b
  BY <1>2 DEF Readable, BlobBytes, StoredBytes
<1>4. /\ BlobOnly(x, v) /\ x.blob.fetched = TRUE /\ StoredBytes(x) = b
      /\ x.blob.stream.read = w.blob.stream.read
      /\ (v.blob.fetched => x = v)
  <2>1. /\ BlobOnly(x, v) /\ x.blob.fetched = TRUE /\ StoredBytes(x) = BlobBytes(v)
        /\ x.blob.stream.read = v.blob.stream.read
        /\ (v.blob.fetched => x = v)
    BY <1>2, <1>3, BlobFetched
  <2> HIDE DEF x, b
  <2> QED BY <2>1, <1>2, <1>3
<1> HIDE DEF x
<1>5. Ready(x) /\ x.rec = w.rec /\ x.copy = v.copy
  BY <1>2, <1>4 DEF BlobOnly, Ready
<1>6. /\ Ready(y) /\ y.rec = x.rec /\ y.blob.fetched = TRUE /\ StoredBytes(y) = b
      /\ text \in Seq(Mem)
      /\ (x.copy # None => text = x.copy)
      /\ (x.copy = None /\ x.blob.stream.read = << >> => text = b)
  <2> HIDE DEF b
  <2> QED BY <1>4, <1>5, WithCopyIs
<1>7. c = TakeText(y, was, text, length, cap, moves)
  <2>1. w.rec = y.rec
    BY <1>5, <1>6
  <2> QED BY <2>1 DEF WideBlob, TakeText, WithCopy, CopyMade, x, v
<1>8. cap \in Nat /\ (length = 0 => cap = 0) /\ moves \in BOOLEAN
  <2>1. "wide" \in Targets
    BY DEF Targets
  <2> QED BY <2>1, CapacityIs
<1> HIDE DEF y, c, cap, moves
<1>9. TextTaken(c, y, was, y.copy, length, cap, moves)
  BY <1>6, <1>7, <1>8, TakeTextIs
<1>10. /\ c \in Worlds /\ c.rec.current = w.rec.current /\ c.blob = y.blob /\ c.copy = y.copy
       /\ ~moves /\ w.rec.offset = 0 => c.rec.offset = 0
       /\ moves /\ w.rec.offset <= Len(text) => GivesPiece(c, y, was, text, length, cap, FALSE)
  BY <1>5, <1>6, <1>9 DEF TextTaken
<1>11. WideTaken(c, w, was, length, bound)
  BY <1>6, <1>10 DEF WideTaken, moves
<1>12. ASSUME moves, was => w.blob.fetched /\ w.copy = b, ~was => w.blob.stream.read = << >>,
              w.rec.offset <= Len(b)
       PROVE  /\ GivesPiece(c, w, was, b, length, cap, FALSE)
              /\ c.copy = b /\ StoredBytes(c) = b
  <2>1. text = b
    <3>1. CASE was
      <4>1. x.copy = b
        BY <3>1, <1>2, <1>5, <1>12
      <4>2. b \in Seq(Mem)
        <5> HIDE DEF b
        <5> QED BY <1>6, <1>5, StoredIs DEF Ready
      <4>3. b # None
        <5> HIDE DEF b
        <5> QED BY <4>2, GetDataNames DEF Mem, Loose
      <4> HIDE DEF b
      <4> QED BY <4>1, <4>3, <1>6
    <3>2. CASE ~was
      BY <3>2, <1>2, <1>4, <1>5, <1>6, <1>12
    <3> QED BY <3>1, <3>2
  <2>2. GivesPiece(c, y, was, b, length, cap, FALSE)
    <3> HIDE DEF b
    <3> QED BY <2>1, <1>10, <1>12
  <2>3. y.rec = w.rec
    BY <1>5, <1>6
  <2>4. GivesPiece(c, w, was, b, length, cap, FALSE)
    <3> HIDE DEF b
    <3> QED BY <2>2, <2>3 DEF GivesPiece, AdvanceExact
  <2>5. StoredBytes(c) = b
    BY <1>6, <1>10 DEF StoredBytes
  <2> HIDE DEF b
  <2> QED BY <2>1, <2>4, <2>5, <1>10
<1>13. ~bound => WideExact(c, w, was, length)
  <2>1. ~bound => moves
    BY DEF moves
  <2> QED BY <2>1, <1>12 DEF WideExact, cap
<1> QED BY <1>11, <1>13 DEF c

\* A call on a blob that is held gives the next piece.
LEMMA DirectBlobIs ==
  ASSUME NEW w, Ready(w), table[w.row] \in Seq(Seq(Mem)), NEW t \in Targets, NEW length \in Nat,
         w.rec.offset = 0
  PROVE  LET c == DirectBlob(w, t, length)
         IN  c \in Worlds /\ c.rec.current = w.rec.current /\ c.blob.fetched = TRUE /\ c.rec.offset = 0
<1> DEFINE v == FlattenSeq(table[w.row])
           units == WholeOf(v, t)
           T == Len(units)
           cap == Capacity(t, length)
           even == EvenOnly(t)
           was == FALSE
           a == Advance(w, was, T, length, cap, even, was)
           p == SubSeq(units, 1, a.len)
           copied == IF t = "wide" /\ ~Hex(t) THEN units ELSE a.copy
           b == [a.blob EXCEPT !.fetched = TRUE]
           c == DirectBlob(w, t, length)
<1>1. v \in Seq(Mem)
  BY FlattenType
<1> HIDE DEF v
<1>2. units \in Seq(Unit) /\ T \in Nat /\ (~Hex(t) => units \in Seq(Mem))
  <2>1. units \in Seq(Unit)
    BY <1>1, WholeIs
  <2> QED BY <2>1, <1>1 DEF WholeOf
<1>3. c = [a EXCEPT !.piece = p, !.blob.fetched = TRUE, !.copy = copied]
  BY DEF DirectBlob, Units, WholeOf, EvenOnly, Bytes, v
<1>4. /\ w \in Worlds /\ w.len = 0 /\ w.ret = "success" /\ even \in BOOLEAN /\ was \in BOOLEAN
      /\ cap \in Nat /\ (length = 0 => cap = 0) /\ w.rec.offset % 2 = 0
  <2>1. even \in BOOLEAN
    BY DEF EvenOnly, Hex
  <2> QED BY <2>1, CapacityIs DEF Ready
<1>5. AdvanceGives(a, w, was, T, length, cap, even, was)
  <2> HIDE DEF units, T, cap, even, was
  <2>1. AdvanceDoes(a, w, was, T, length, cap, even, was)
    BY <1>2, <1>4, AdvanceIs
  <2> QED BY <2>1 DEF AdvanceDoes
<1> HIDE DEF a
<1>6. /\ a \in Worlds /\ a.rec.current = w.rec.current /\ a.rec.offset = 0
      /\ a.len \in Int /\ (a.len > 0 => a.len <= T)
  <2> HIDE DEF units, T, cap, even
  <2>1. /\ a \in Worlds /\ a.rec.current = w.rec.current
        /\ (a.len > 0 => w.rec.offset + a.len <= T)
        /\ (~was /\ w.rec.offset = 0 => a.rec.offset = 0)
    BY <1>5 DEF AdvanceGives
  <2> QED BY <2>1 DEF Worlds
<1>7. p \in Seq(Unit)
  <2> DEFINE n == a.len
  <2>1. n \in Int /\ (n > 0 => 0 + n <= Len(units)) /\ 0 \in Nat
    BY <1>6
  <2> HIDE DEF n, units
  <2>2. SubSeq(units, 0 + 1, 0 + n) \in Seq(Unit)
    BY <1>2, <2>1, PieceType
  <2>3. 0 + 1 = 1 /\ 0 + n = n
    BY <2>1
  <2> QED BY <2>2, <2>3 DEF n
<1>8. a.blob \in Blobs /\ copied \in Copies
  <2>1. a.copy \in Copies
    BY <1>6 DEF Worlds
  <2> HIDE DEF units
  <2> QED BY <2>1, <1>2, <1>6, StoredIs DEF Copies
<1>9. b \in Blobs /\ b.fetched = TRUE
  BY <1>8 DEF Blobs
<1>10. c = [a EXCEPT !.piece = p, !.blob = b, !.copy = copied]
  BY <1>3, <1>6 DEF Worlds
<1> HIDE DEF p, copied, b, c
<1>11. c \in Worlds /\ c.rec = a.rec /\ c.blob = b
  BY <1>6, <1>7, <1>8, <1>9, <1>10 DEF Worlds
<1> QED BY <1>6, <1>9, <1>11 DEF c

WideBytes(t) == t = "wide" /\ ~Hex(t)
\* What a call leaves of the blob's bytes b for the next.
BlobKept(w, t, b) ==
  /\ StoredBytes(w) = b
  /\ WideBytes(t) => w.copy = b
  /\ ~WideBytes(t) /\ w.ret # NoData => InPlace(w.blob.stream, PlaceOf(t, w.rec.offset), b)
BlobTaken(c, w, t, length, bound) ==
  /\ c \in Worlds /\ c.rec.current = w.rec.current /\ c.blob.fetched = TRUE
  /\ bound /\ w.rec.offset = 0 => c.rec.offset = 0
  /\ Hex(t) /\ Pairs(t, length) => c.rec.offset % 2 = 0
BlobExact(c, w, was, t, length, b) ==
  /\ GivesPiece(c, w, was, WholeOf(b, t), length, Capacity(t, length), EvenOnly(t))
  /\ BlobKept(c, t, b)

\* A call on a blob, by its target.
LEMMA BlobPiecesAre ==
  ASSUME NEW w, Ready(w), Readable(w), NEW was \in BOOLEAN, NEW t \in Targets, ~WideBytes(t),
         NEW length \in Nat, NEW bound \in BOOLEAN, Hex(t) => w.rec.offset % 2 = 0
  PROVE  LET c == BlobPieces(w, was, t, length, bound)
         IN  /\ BlobTaken(c, w, t, length, bound)
             /\ ~bound /\ w.rec.offset <= Len(WholeOf(BlobBytes(w), t)) /\ Pairs(t, length)
                  /\ InPlace(w.blob.stream, PlaceOf(t, w.rec.offset), BlobBytes(w))
                => BlobExact(c, w, was, t, length, BlobBytes(w))
<1> DEFINE x == FetchBlob(w)
           b == BlobBytes(w)
           c == BlobPieces(w, was, t, length, bound)
<1>1. w \in Worlds /\ w.len = 0 /\ w.ret = "success" /\ w.piece = << >>
  BY DEF Ready
<1>2. /\ BlobOnly(x, w) /\ x.blob.fetched = TRUE /\ StoredBytes(x) = b
      /\ x.blob.stream.read = w.blob.stream.read /\ (w.blob.fetched => x = w)
  BY <1>1, BlobFetched
<1>3. Ready(x) /\ x.rec = w.rec
  BY <1>1, <1>2 DEF BlobOnly, Ready
<1>4. c = PiecesOf(x, was, t, length, bound)
  BY <1>3 DEF BlobPieces, PiecesOf
<1> HIDE DEF x, c
<1>5. PiecesTaken(c, x, was, t, length, bound) /\ (~bound => PiecesExact(c, x, was, t, length))
  BY <1>3, <1>4, PiecesAre
<1>6. BlobTaken(c, w, t, length, bound)
  BY <1>2, <1>3, <1>5 DEF PiecesTaken, BlobTaken
<1>7. ASSUME ~bound, w.rec.offset <= Len(WholeOf(b, t)), Pairs(t, length),
             InPlace(w.blob.stream, PlaceOf(t, w.rec.offset), b)
      PROVE  BlobExact(c, w, was, t, length, b)
  <2> HIDE DEF b
  <2>1. InPlace(x.blob.stream, PlaceOf(t, x.rec.offset), b)
    <3>1. CASE w.blob.fetched
      BY <3>1, <1>2, <1>7
    <3>2. CASE ~w.blob.fetched
      <4>1. x.blob.stream.readN = w.blob.stream.readN
        <5>1. x = [w EXCEPT !.blob.stream = FetchInto(@, table[w.blob.id]), !.blob.fetched = TRUE]
          BY <3>2 DEF FetchBlob, x
        <5>2. x.blob.stream = FetchInto(w.blob.stream, table[w.blob.id])
          BY <5>1, <1>1 DEF Worlds, Blobs
        <5> DEFINE s == w.blob.stream server == table[w.blob.id]
        <5>3. s \in GoodStream(Mem) /\ server \in Seq(Seq(Mem)) /\ x.blob.stream = FetchInto(s, server)
          BY <5>2, <3>2, <1>1, StoredIs DEF Readable
        <5> HIDE DEF s, server
        <5>4. FetchInto(s, server).readN = s.readN
          BY <5>3, FetchIntoAdds
        <5> QED BY <5>3, <5>4 DEF s
      <4> QED BY <4>1, <1>2, <1>3, <1>7 DEF InPlace
    <3>3. w.blob.fetched \in BOOLEAN
      BY <1>1, StoredIs
    <3> QED BY <3>1, <3>2, <3>3
  <2>2. PiecesExact(c, x, was, t, length)
    BY <1>5, <1>7
  <2>3. /\ GivesPiece(c, x, was, WholeOf(b, t), length, Capacity(t, length), EvenOnly(t))
        /\ StoredBytes(c) = b
        /\ c.ret # NoData => InPlace(c.blob.stream, PlaceOf(t, c.rec.offset), b)
    BY <1>2, <1>3, <1>7, <2>1, <2>2 DEF PiecesExact
  <2>4. GivesPiece(c, w, was, WholeOf(b, t), length, Capacity(t, length), EvenOnly(t))
    BY <2>3, <1>3 DEF GivesPiece, AdvanceExact
  <2> QED BY <2>3, <2>4 DEF BlobExact, BlobKept
<1> QED BY <1>6, <1>7 DEF c

\* What the row's column wants before a call.
BlobHypothesis(w, was, t, length, b) ==
  /\ w.rec.offset <= Len(WholeOf(b, t)) /\ Pairs(t, length)
  /\ was => w.blob.fetched /\ BlobKept(w, t, b)

\* The conversion of a blob gives the next piece of it, and leaves what the next call needs.
LEMMA ConvertBlobIs ==
  ASSUME NEW w, Ready(w), table[w.row] \in Seq(Seq(Mem)), column.static \in BOOLEAN,
         NEW was \in BOOLEAN, NEW t \in Targets, NEW length \in Nat, NEW bound \in BOOLEAN,
         was /\ ~w.blob.fetched => w.blob.id = w.row, ~was => w.rec.offset = 0, bound => ~was,
         Hex(t) => w.rec.offset % 2 = 0
  PROVE  LET c == ConvertBlob(w, was, t, length, bound)
             b == FlattenSeq(table[w.row])
         IN  /\ BlobTaken(c, w, t, length, bound)
             /\ ~bound /\ ~column.static /\ BlobHypothesis(w, was, t, length, b)
                  => BlobExact(c, w, was, t, length, b)
<1> DEFINE x == IF was THEN w ELSE IF column.static THEN AttachBlob(w) ELSE Bind(w)
           b == FlattenSeq(table[w.row])
           c == ConvertBlob(w, was, t, length, bound)
           direct == bound /\ ~was /\ ~column.static
<1>1. w \in Worlds /\ w.len = 0 /\ w.ret = "success" /\ w.piece = << >> /\ b \in Seq(Mem)
      /\ w.rec.offset \in Nat
  BY FlattenType DEF Ready, Worlds, Recs
<1>2. /\ Ready(x) /\ x.rec = w.rec /\ Readable(x)
      /\ was => x = w
      /\ ~was /\ ~column.static => ~x.blob.fetched /\ BlobBytes(x) = b /\ x.blob.stream.read = << >>
  <2>1. CASE was
    BY <2>1 DEF Readable
  <2>2. CASE ~was /\ column.static
    <3>1. x = AttachBlob(w) /\ BlobOnly(AttachBlob(w), w) /\ AttachBlob(w).blob.fetched = TRUE
      BY <2>2, <1>1, AttachBlobIs
    <3> HIDE DEF x
    <3> QED BY <2>2, <3>1, <1>1 DEF BlobOnly, Ready, Readable
  <2>3. CASE ~was /\ ~column.static
    <3>1. x = Bind(w) /\ BlobOnly(Bind(w), w) /\ Bind(w).blob.fetched = FALSE
          /\ Bind(w).blob.id = w.row /\ StoredBytes(Bind(w)) = << >> /\ Bind(w).blob.stream.read = << >>
      BY <2>3, <1>1, BindIs
    <3> HIDE DEF x
    <3>2. Ready(x) /\ x.rec = w.rec /\ Readable(x)
      BY <3>1, <1>1 DEF BlobOnly, Ready, Readable
    <3>3. BlobBytes(x) = << >> \o b
      BY <3>1 DEF BlobBytes
    <3>4. << >> \o b = b
      <4> HIDE DEF b
      <4> QED BY <1>1
    <3> HIDE DEF b
    <3> QED BY <2>3, <3>1, <3>2, <3>3, <3>4
  <2> QED BY <2>1, <2>2, <2>3
<1> HIDE DEF x
<1>3. CASE direct
  <2>1. c = DirectBlob(w, t, length)
    BY <1>3 DEF ConvertBlob
  <2>2. w.rec.offset = 0 /\ bound
    BY <1>3
  <2>3. c \in Worlds /\ c.rec.current = w.rec.current /\ c.blob.fetched = TRUE /\ c.rec.offset = 0
    <3> HIDE DEF c
    <3> QED BY <2>1, <2>2, DirectBlobIs
  <2> HIDE DEF c
  <2>4. BlobTaken(c, w, t, length, bound)
    BY <2>3 DEF BlobTaken
  <2> QED BY <2>2, <2>4 DEF c
<1>4. CASE ~direct /\ WideBytes(t)
  <2>1. c = WideBlob(x, was, length, bound) /\ ~Hex(t) /\ t = "wide"
    BY <1>4 DEF ConvertBlob, ConvBlobToStringW, WideBytes, x
  <2> HIDE DEF c
  <2>2. WideTaken(c, x, was, length, bound) /\ (~bound => WideExact(c, x, was, length))
    BY <2>1, <1>2, WideBlobIs
  <2>3. BlobTaken(c, w, t, length, bound)
    BY <2>1, <2>2, <1>2 DEF BlobTaken, WideTaken
  <2>4. ASSUME ~bound, ~column.static, BlobHypothesis(w, was, t, length, b)
        PROVE  BlobExact(c, w, was, t, length, b)
    <3> HIDE DEF b
    <3>1. WholeOf(b, t) = b /\ ~EvenOnly(t) /\ EvenOnly(t) = FALSE
      BY <2>1 DEF WholeOf, EvenOnly
    <3>2. BlobBytes(x) = b /\ (was => x.blob.fetched /\ x.copy = b) /\ (~was => x.blob.stream.read = << >>)
      BY <1>2, <1>4, <2>4 DEF BlobHypothesis, BlobKept, BlobBytes
    <3>3. w.rec.offset <= Len(b)
      BY <2>4, <3>1 DEF BlobHypothesis
    <3>4. GivesPiece(c, x, was, b, length, Capacity("wide", length), FALSE)
          /\ c.copy = b /\ StoredBytes(c) = b
      BY <1>2, <2>2, <2>4, <3>2, <3>3 DEF WideExact
    <3>5. GivesPiece(c, w, was, b, length, Capacity(t, length), EvenOnly(t))
      BY <1>2, <2>1, <3>1, <3>4 DEF GivesPiece, AdvanceExact
    <3>6. BlobKept(c, t, b)
      BY <1>4, <3>4 DEF BlobKept
    <3> QED BY <3>1, <3>5, <3>6 DEF BlobExact
  <2> QED BY <2>3, <2>4 DEF c
<1>5. CASE ~direct /\ ~WideBytes(t)
  <2>1. c = BlobPieces(x, was, t, length, bound)
    <3>1. CASE t = "wide"
      BY <1>5, <3>1 DEF ConvertBlob, ConvBlobToStringW, WideBytes, x
    <3>2. CASE t = "char"
      BY <1>5, <3>2 DEF ConvertBlob, ConvBlobToString, x
    <3>3. CASE t = "binary"
      BY <1>5, <3>3 DEF ConvertBlob, ConvBlobToBlob, x
    <3> QED BY <3>1, <3>2, <3>3 DEF Targets
  <2> HIDE DEF c
  <2>2. /\ BlobTaken(c, x, t, length, bound)
        /\ ~bound /\ x.rec.offset <= Len(WholeOf(BlobBytes(x), t)) /\ Pairs(t, length)
             /\ InPlace(x.blob.stream, PlaceOf(t, x.rec.offset), BlobBytes(x))
           => BlobExact(c, x, was, t, length, BlobBytes(x))
    BY <2>1, <1>2, <1>5, BlobPiecesAre
  <2>3. BlobTaken(c, w, t, length, bound)
    BY <2>2, <1>2 DEF BlobTaken
  <2>4. ASSUME ~bound, ~column.static, BlobHypothesis(w, was, t, length, b)
        PROVE  BlobExact(c, w, was, t, length, b)
    <3> HIDE DEF b
    <3>1. BlobBytes(x) = b
      BY <1>2, <2>4 DEF BlobHypothesis, BlobKept, BlobBytes
    <3>2. InPlace(x.blob.stream, PlaceOf(t, x.rec.offset), b)
      <4>1. CASE was
        <5>1. w.ret # NoData
          BY <1>1, GetDataNames
        <5> QED BY <4>1, <5>1, <1>2, <1>5, <2>4 DEF BlobHypothesis, BlobKept
      <4>2. CASE ~was
        BY <4>2, <1>2, <2>4 DEF InPlace
      <4> QED BY <4>1, <4>2
    <3>3. BlobExact(c, x, was, t, length, b)
      BY <1>2, <2>2, <2>4, <3>1, <3>2 DEF BlobHypothesis
    <3> QED BY <3>3, <1>2 DEF BlobExact, GivesPiece, AdvanceExact
  <2> QED BY <2>3, <2>4 DEF c
<1> QED BY <1>3, <1>4, <1>5

-----------------------------------------------------------------------------
\* A call on any column.

Start(w) == IF Fetched(w) THEN w ELSE AtNewRow(w)

\* A call on a new row starts at its beginning.
LEMMA StartIs ==
  ASSUME NEW w, Ready(w)
  PROVE  LET x == Start(w)
         IN  /\ Ready(x) /\ x.rec.current = w.count /\ x.value = w.value /\ x.row = w.row
             /\ x.blob = w.blob /\ x.copy = w.copy
             /\ Fetched(w) => x = w
             /\ ~Fetched(w) => x.rec.offset = 0
<1> DEFINE x == Start(w)
           r == [current |-> w.count, offset |-> 0, started |-> FALSE]
<1>1. w \in Worlds /\ w.len = 0 /\ w.ret = "success" /\ w.piece = << >> /\ w.count \in Nat
  BY DEF Ready, Worlds
<1>2. CASE Fetched(w)
  BY <1>1, <1>2 DEF Start, Fetched, Ready
<1>3. CASE ~Fetched(w)
  <2>1. x = [w EXCEPT !.rec = r]
    BY <1>3 DEF Start, AtNewRow
  <2>2. r \in Recs /\ r.current = w.count /\ r.offset = 0
    BY <1>1 DEF Recs
  <2> HIDE DEF r, x
  <2>3. /\ x \in Worlds /\ x.rec = r /\ x.len = w.len /\ x.ret = w.ret /\ x.piece = w.piece
        /\ x.value = w.value /\ x.row = w.row /\ x.blob = w.blob /\ x.copy = w.copy
    BY <1>1, <2>1, <2>2 DEF Worlds
  <2> QED BY <1>1, <1>3, <2>2, <2>3 DEF Ready, x
<1> QED BY <1>2, <1>3

TextConverted(c, w, t, length, bound) ==
  /\ c \in Worlds /\ c.rec.current = w.rec.current
  /\ bound /\ t # "wide" /\ w.rec.offset = 0 => c.rec.offset = 0
TextExact(c, w, was, t, length, whole) ==
  c.ret = "crash" \/ /\ GivesPiece(c, w, was, whole, length, Capacity(t, length), FALSE)
                     /\ t = "wide" => c.copy = whole

\* The conversion of a text gives the next piece of it.
LEMMA ConvertTextIs ==
  ASSUME NEW w, Ready(w), w.value \in Seq(Seq(Mem)), NEW was \in BOOLEAN, NEW t \in Targets,
         NEW length \in Nat, NEW bound \in BOOLEAN
  PROVE  LET c == ConvertText(w, was, t, length, bound)
             whole == FlattenSeq(w.value)
         IN  /\ TextConverted(c, w, t, length, bound)
             /\ ~bound /\ w.rec.offset <= Len(whole) /\ (was /\ t = "wide" => w.copy \in {None, whole})
                  => TextExact(c, w, was, t, length, whole)
<1> DEFINE whole == FlattenSeq(w.value)
           x == [w EXCEPT !.value = whole]
           c == ConvertText(w, was, t, length, bound)
<1>1. w \in Worlds /\ w.len = 0 /\ w.ret = "success" /\ w.piece = << >> /\ whole \in Seq(Mem)
  BY FlattenType DEF Ready
<1>2. x = [w EXCEPT !.value = Bytes(@)]
  BY DEF Bytes
<1> HIDE DEF whole
<1>3. /\ x \in Worlds /\ x.rec = w.rec /\ x.len = 0 /\ x.ret = "success" /\ x.piece = << >>
      /\ x.copy = w.copy /\ x.value = whole
  BY <1>1 DEF Worlds
<1>4. Ready(x) /\ x.value \in Seq(Mem)
  BY <1>1, <1>3 DEF Ready
<1>5. CASE t # "wide"
  <2>1. c = NarrowText(x, was, t, length, bound)
    BY <1>2, <1>5 DEF ConvertText
  <2> HIDE DEF x, c
  <2>2. TextTaken(c, x, was, whole, length, Capacity(t, length), ~bound)
    BY <1>3, <1>4, <2>1, NarrowTextIs
  <2>3. TextConverted(c, w, t, length, bound)
    BY <2>2, <1>3 DEF TextTaken, TextConverted
  <2>4. ASSUME ~bound, w.rec.offset <= Len(whole) PROVE TextExact(c, w, was, t, length, whole)
    <3>1. GivesPiece(c, x, was, whole, length, Capacity(t, length), FALSE)
      BY <2>2, <2>4, <1>3 DEF TextTaken
    <3> QED BY <3>1, <1>3, <1>5 DEF TextExact, GivesPiece, AdvanceExact
  <2> QED BY <2>3, <2>4 DEF c, whole
<1>6. CASE t = "wide"
  <2>1. c = WideText(x, was, length, bound)
    BY <1>2, <1>6 DEF ConvertText, ConvStringToStringW, ConvVarStringToStringW
  <2> HIDE DEF x, c
  <2> DEFINE text == WideOf(x, was, bound)
  <2>2. /\ c \in Worlds /\ c.rec.current = x.rec.current
        /\ text = None => c.ret = "crash" /\ c.copy = x.copy /\ c.piece = << >>
        /\ text # None /\ ~bound => c.copy = text
        /\ text # None /\ x.rec.offset <= Len(text)
             => GivesPiece(c, x, was, text, length, Capacity("wide", length), FALSE)
    <3>1. WideTextTaken(c, x, was, text, length, bound)
      BY <2>1, <1>4, WideTextIs
    <3> HIDE DEF text
    <3> QED BY <3>1 DEF WideTextTaken
  <2>3. TextConverted(c, w, t, length, bound)
    BY <2>2, <1>3, <1>6 DEF TextConverted
  <2>4. ASSUME ~bound, w.rec.offset <= Len(whole), was => w.copy \in {None, whole}
        PROVE  TextExact(c, w, was, t, length, whole)
    <3>1. text \in {None, whole}
      BY <2>4, <1>3 DEF WideOf
    <3> HIDE DEF text
    <3>2. CASE text = None
      BY <3>2, <2>2 DEF TextExact
    <3>3. CASE text # None
      <4>1. text = whole
        BY <3>1, <3>3
      <4>2. GivesPiece(c, x, was, whole, length, Capacity("wide", length), FALSE) /\ c.copy = whole
        BY <4>1, <3>3, <2>2, <2>4, <1>3
      <4> QED BY <4>2, <1>3, <1>6 DEF TextExact, GivesPiece, AdvanceExact
    <3> QED BY <3>2, <3>3
  <2> QED BY <1>6, <2>3, <2>4 DEF c, whole
<1> QED BY <1>5, <1>6

\* The row that w reads is there.
AtRow(w) == Ready(w) /\ w.value \in Rows /\ table[w.row] = w.value
Converted(c, w, t, length, bound) ==
  /\ w.value = Null => c = w
  /\ w.value # Null =>
       /\ c \in Worlds /\ c.rec.current = w.count
       /\ IsBlob => c.blob.fetched = TRUE
       /\ bound /\ (IsBlob \/ t # "wide") => c.rec.offset = 0
       /\ Hex(t) /\ Pairs(t, length) => c.rec.offset % 2 = 0
\* The place and what is kept fit the value, before the call or after it.
KeptText(w, t, b) == ~IsBlob /\ t = "wide" => w.copy \in {None, b}
ConvertHypothesis(w, t, length, b) ==
  /\ Start(w).rec.offset <= Len(WholeOf(b, t)) /\ Pairs(t, length)
  /\ Fetched(w) => KeptText(w, t, b) /\ (IsBlob => w.blob.fetched /\ BlobKept(w, t, b))
ConvertExact(c, w, t, length, b) ==
  c.ret = "crash" \/ /\ GivesPiece(c, Start(w), Fetched(w), WholeOf(b, t), length, Capacity(t, length), EvenOnly(t))
                     /\ KeptText(c, t, b) /\ (IsBlob => BlobKept(c, t, b))

\* Every conversion gives the next piece of the value.
LEMMA ConvertIs ==
  ASSUME NEW w, AtRow(w), column.static \in BOOLEAN, NEW t \in Targets, NEW length \in Nat,
         NEW bound \in BOOLEAN, bound => ~Fetched(w), IsBlob /\ Fetched(w) /\ ~w.blob.fetched => w.blob.id = w.row,
         Hex(t) /\ Fetched(w) => w.rec.offset % 2 = 0
  PROVE  LET c == Convert(w, t, length, bound)
             b == FlattenSeq(w.value)
         IN  /\ Converted(c, w, t, length, bound)
             /\ w.value # Null /\ ~bound /\ ~(IsBlob /\ column.static) /\ ConvertHypothesis(w, t, length, b)
                  => ConvertExact(c, w, t, length, b)
<1> DEFINE was == Fetched(w)
           x == Start(w)
           b == FlattenSeq(w.value)
           c == Convert(w, t, length, bound)
<1>1. /\ Ready(w) /\ w.value \in Rows /\ table[w.row] = w.value /\ was \in BOOLEAN
      /\ w.rec.current \in Nat /\ w.count \in Nat
  BY DEF AtRow, Fetched, Ready, Worlds, Recs
<1>2. /\ Ready(x) /\ x.rec.current = w.count /\ x.value = w.value /\ x.row = w.row
      /\ x.blob = w.blob /\ x.copy = w.copy
      /\ (was => x = w) /\ (~was => x.rec.offset = 0)
  <2> HIDE DEF x
  <2> QED BY <1>1, StartIs DEF x
<1>3. c = IF w.value = Null THEN w
          ELSE IF IsBlob THEN ConvertBlob(x, was, t, length, bound)
          ELSE ConvertText(x, was, t, length, bound)
  BY DEF Convert, Start
<1> HIDE DEF x, was, c
<1>4. CASE w.value = Null
  <2>1. c = w
    BY <1>3, <1>4
  <2> QED BY <2>1, <1>4 DEF Converted, c
<1>5. CASE w.value # Null /\ IsBlob
  <2>1. c = ConvertBlob(x, was, t, length, bound) /\ x.value \in Seq(Seq(Mem))
    BY <1>1, <1>2, <1>3, <1>5 DEF Rows
  <2>2. /\ table[x.row] = x.value /\ table[x.row] \in Seq(Seq(Mem))
        /\ (was /\ ~x.blob.fetched => x.blob.id = x.row) /\ (~was => x.rec.offset = 0)
        /\ (bound => ~was)
        /\ (Hex(t) => x.rec.offset % 2 = 0) /\ FlattenSeq(table[x.row]) = b
    <3>1. 0 % 2 = 0
      OBVIOUS
    <3>2. (was => Fetched(w)) /\ (~was => ~Fetched(w)) /\ was \in BOOLEAN
      BY <1>1 DEF was
    <3> QED BY <3>1, <3>2, <1>1, <1>2, <2>1, <1>5
  <2>3. /\ BlobTaken(c, x, t, length, bound)
        /\ ~bound /\ ~column.static /\ BlobHypothesis(x, was, t, length, b)
             => BlobExact(c, x, was, t, length, b)
    <3> HIDE DEF b
    <3> QED BY <1>1, <1>2, <2>1, <2>2, ConvertBlobIs
  <2>4. Converted(c, w, t, length, bound)
    <3>1. bound => x.rec.offset = 0
      BY <2>2
    <3> QED BY <3>1, <2>3, <1>2, <1>5 DEF Converted, BlobTaken
  <2>5. ASSUME ~bound, ~column.static, ConvertHypothesis(w, t, length, b)
        PROVE  ConvertExact(c, w, t, length, b)
    <3> HIDE DEF b
    <3>1. BlobHypothesis(x, was, t, length, b)
      BY <2>5, <1>2, <1>5 DEF ConvertHypothesis, BlobHypothesis, x, was
    <3>2. BlobExact(c, x, was, t, length, b)
      BY <3>1, <2>3, <2>5
    <3> QED BY <3>2, <1>5 DEF BlobExact, ConvertExact, KeptText, x, was
  <2> QED BY <1>5, <2>4, <2>5 DEF c
<1>6. CASE w.value # Null /\ ~IsBlob
  <2>1. c = ConvertText(x, was, t, length, bound) /\ x.value \in Seq(Seq(Mem)) /\ ~Hex(t)
    BY <1>1, <1>2, <1>3, <1>6 DEF Rows, Hex, IsBlob
  <2>2. /\ TextConverted(c, x, t, length, bound)
        /\ ~bound /\ x.rec.offset <= Len(b) /\ (was /\ t = "wide" => x.copy \in {None, b})
             => TextExact(c, x, was, t, length, b)
    <3>1. b = FlattenSeq(x.value)
      BY <1>2
    <3> HIDE DEF b
    <3> QED BY <3>1, <1>1, <1>2, <2>1, ConvertTextIs
  <2>3. Converted(c, w, t, length, bound)
    <3>1. bound => x.rec.offset = 0
      BY <1>2 DEF was
    <3> QED BY <3>1, <2>1, <2>2, <1>2, <1>6 DEF Converted, TextConverted
  <2>4. ASSUME ~bound, ConvertHypothesis(w, t, length, b)
        PROVE  ConvertExact(c, w, t, length, b)
    <3> HIDE DEF b
    <3>1. WholeOf(b, t) = b /\ EvenOnly(t) = FALSE
      BY <2>1 DEF WholeOf, EvenOnly
    <3>2. x.rec.offset <= Len(b) /\ (was /\ t = "wide" => x.copy \in {None, b})
      BY <3>1, <2>4, <1>2, <1>6 DEF ConvertHypothesis, KeptText, x, was
    <3>3. TextExact(c, x, was, t, length, b)
      BY <3>2, <2>2, <2>4
    <3>4. CASE c.ret = "crash"
      BY <3>4 DEF ConvertExact
    <3>5. CASE c.ret # "crash"
      <4>1. GivesPiece(c, x, was, b, length, Capacity(t, length), FALSE) /\ (t = "wide" => c.copy = b)
        BY <3>3, <3>5 DEF TextExact
      <4>2. GivesPiece(c, x, was, WholeOf(b, t), length, Capacity(t, length), EvenOnly(t))
        BY <4>1, <3>1
      <4> QED BY <4>1, <4>2, <1>6 DEF ConvertExact, KeptText, x, was
    <3> QED BY <3>4, <3>5
  <2> QED BY <1>6, <2>3, <2>4 DEF c
<1> QED BY <1>4, <1>5, <1>6

-----------------------------------------------------------------------------
\* The calls of a row: what they gave is a beginning of the value.

\* The application has the beginning of `whole' up to the place, and has it all when
\* it was told so; k calls that offered room.
Beginning(g, r, p, whole) ==
  IF r = NoData THEN g = whole ELSE p.offset <= Len(whole) /\ g = SubSeq(whole, 1, p.offset)
Moved(g, k, r, p, whole) ==
  k > 0 => /\ r = NoData \/ p.started
           /\ k <= Len(g) \/ (k = 1 /\ Len(whole) = 0)
Told(g, r, whole, ample) == r = "success" /\ ample => g = whole
GivenSoFar(g, k, r, p, whole, ample) ==
  Beginning(g, r, p, whole) /\ Moved(g, k, r, p, whole) /\ Told(g, r, whole, ample)
NextCalls(k, r, ample) == IF ample /\ r # NoData THEN k + 1 ELSE k

\* Two parts that follow one another are one.
LEMMA Together ==
  ASSUME NEW V, NEW whole \in Seq(V), NEW o \in Nat, NEW n \in Nat, o + n <= Len(whole)
  PROVE  /\ SubSeq(whole, 1, o) \o SubSeq(whole, o + 1, o + n) = SubSeq(whole, 1, o + n)
         /\ Len(SubSeq(whole, 1, o + n)) = o + n
<1> DEFINE a == SubSeq(whole, 1, o) b == SubSeq(whole, o + 1, o + n) c == SubSeq(whole, 1, o + n)
<1>1. /\ a \in Seq(V) /\ Len(a) = o /\ \A i \in 1..o : a[i] = whole[i]
      /\ b \in Seq(V) /\ Len(b) = n /\ \A i \in 1..n : b[i] = whole[o + i]
      /\ c \in Seq(V) /\ Len(c) = o + n /\ \A i \in 1..(o + n) : c[i] = whole[i]
  OBVIOUS
<1> HIDE DEF a, b, c
<1>2. a \o b \in Seq(V) /\ Len(a \o b) = o + n
  BY <1>1
<1>3. ASSUME NEW i \in 1..(o + n) PROVE (a \o b)[i] = c[i]
  <2>0. i \in Int /\ i >= 1 /\ i <= o + n /\ o \in Int
    OBVIOUS
  <2>1. CASE i <= o
    <3>1. i \in 1..o
      BY <2>0, <2>1
    <3>2. (a \o b)[i] = a[i]
      BY <1>1, <3>1, ConcatProperties
    <3> QED BY <1>1, <3>1, <3>2
  <2>2. CASE i > o
    <3>1. i - o \in 1..n /\ o + (i - o) = i
      BY <2>0, <2>2
    <3>2. (a \o b)[i] = b[i - o]
      BY <1>1, <2>0, <2>2, ConcatProperties
    <3>3. b[i - o] = whole[o + (i - o)]
      BY <1>1, <3>1
    <3> QED BY <1>1, <3>1, <3>2, <3>3
  <2>3. i <= o \/ i > o
    BY <2>0
  <2> QED BY <2>1, <2>2, <2>3
<1>4. a \o b = c
  BY <1>1, <1>2, <1>3, SeqEqual
<1> QED BY <1>1, <1>4 DEF a, b, c

\* What a call of an exact row starts from.
StartsFrom(w, was, whole, cap, even, g, k, ample) ==
  /\ whole \in Seq(Unit) /\ w.rec.offset \in Nat /\ was \in BOOLEAN /\ cap \in Nat /\ k \in Nat
  /\ even => Len(whole) % 2 = 0
  /\ g = SubSeq(whole, 1, w.rec.offset) /\ w.rec.offset <= Len(whole)
  /\ ~was => k = 0
  /\ Moved(g, k, "success", w.rec, whole)
  /\ ample => cap >= 2 /\ (even => cap % 2 = 0)

\* One more piece: what was given stays a beginning of the value.
LEMMA PieceGiven ==
  ASSUME NEW c, NEW w, NEW was, NEW whole, NEW length, NEW cap, NEW even, NEW g, NEW k, NEW ample,
         GivesPiece(c, w, was, whole, length, cap, even), StartsFrom(w, was, whole, cap, even, g, k, ample)
  PROVE  GivenSoFar(g \o c.piece, NextCalls(k, c.ret, ample), c.ret, c.rec, whole, ample)
<1> DEFINE T == Len(whole) o == w.rec.offset n == c.len h == g \o c.piece
<1>0. /\ whole \in Seq(Unit) /\ w.rec.offset \in Nat /\ was \in BOOLEAN /\ cap \in Nat /\ k \in Nat
      /\ even => Len(whole) % 2 = 0
      /\ g = SubSeq(whole, 1, w.rec.offset) /\ w.rec.offset <= Len(whole)
      /\ ~was => k = 0
      /\ Moved(g, k, "success", w.rec, whole)
      /\ ample => cap >= 2 /\ (even => cap % 2 = 0)
  BY DEF StartsFrom
<1>1. /\ n \in Nat /\ c.ret \in {"success", "info", NoData}
      /\ c.ret = NoData => o = T /\ n = 0
      /\ c.ret # NoData => c.rec.offset = o + n /\ o + n <= T
      /\ w.rec.started => c.rec.started
      /\ cap >= 2 /\ c.ret # NoData /\ (even => T % 2 = 0) =>
           /\ c.rec.started
           /\ n > 0 \/ o = T
           /\ was /\ w.rec.started => n > 0
      /\ cap >= 2 /\ (even => T % 2 = 0 /\ cap % 2 = 0) /\ c.ret = "success" => o + n = T
      /\ c.piece = SubSeq(whole, o + 1, o + n)
  BY DEF GivesPiece, AdvanceExact
<1>2. T \in Nat /\ o \in Nat /\ o <= T /\ NoData # "success" /\ (even => T % 2 = 0)
  BY <1>0, GetDataNames
<1>3. o + n <= T
  <2> HIDE DEF T, o, n
  <2> QED BY <1>1, <1>2
<1>4. h = SubSeq(whole, 1, o + n) /\ Len(h) = o + n
  <2> HIDE DEF n, o
  <2>1. SubSeq(whole, 1, o) \o SubSeq(whole, o + 1, o + n) = SubSeq(whole, 1, o + n)
        /\ Len(SubSeq(whole, 1, o + n)) = o + n
    BY <1>0, <1>1, <1>2, <1>3, Together
  <2> QED BY <1>0, <1>1, <2>1 DEF o
<1>5. o + n = T => h = whole
  <2> HIDE DEF n, o, h
  <2>1. SubSeq(whole, 1, Len(whole)) = whole
    BY <1>0
  <2> QED BY <1>4, <2>1
<1>6. k > 0 => w.rec.started /\ was /\ (k <= o \/ (k = 1 /\ T = 0))
  <2>1. Len(g) = o
    <3> HIDE DEF o
    <3>1. Len(SubSeq(whole, 1, o)) = o
      BY <1>0, <1>2
    <3> QED BY <3>1, <1>0 DEF o
  <2> QED BY <2>1, <1>0, <1>2 DEF Moved
<1> HIDE DEF T, o, n, h
<1>7. Beginning(h, c.ret, c.rec, whole)
  BY <1>1, <1>2, <1>4, <1>5 DEF Beginning, T
<1>8. Told(h, c.ret, whole, ample)
  BY <1>0, <1>1, <1>2, <1>5 DEF Told
<1>9. Moved(h, NextCalls(k, c.ret, ample), c.ret, c.rec, whole)
  <2>1. CASE c.ret = NoData
    <3>1. NextCalls(k, c.ret, ample) = k
      BY <2>1 DEF NextCalls
    <3>2. k > 0 => k <= Len(h) \/ (k = 1 /\ T = 0)
      BY <1>0, <1>1, <1>2, <1>4, <1>6, <2>1
    <3> QED BY <2>1, <3>1, <3>2 DEF Moved, T
  <2>2. CASE c.ret # NoData /\ ~ample
    <3>1. NextCalls(k, c.ret, ample) = k
      BY <2>2 DEF NextCalls
    <3>2. k > 0 => c.rec.started
      BY <1>1, <1>6
    <3>3. k > 0 => k <= Len(h) \/ (k = 1 /\ T = 0)
      BY <1>0, <1>1, <1>2, <1>4, <1>6
    <3> QED BY <3>1, <3>2, <3>3 DEF Moved, T
  <2>3. CASE c.ret # NoData /\ ample
    <3>1. NextCalls(k, c.ret, ample) = k + 1
      BY <2>3 DEF NextCalls
    <3>2. cap >= 2 /\ (even => T % 2 = 0)
      BY <1>0, <2>3, <1>2
    <3>3. c.rec.started /\ (n > 0 \/ o = T) /\ (was /\ w.rec.started => n > 0)
      BY <1>1, <2>3, <3>2
    <3>4. CASE k = 0
      <4>1. 1 <= o + n \/ T = 0
        BY <1>1, <1>2, <3>3
      <4>0. NextCalls(k, c.ret, ample) = 1
        BY <3>1, <3>4
      <4>3. 1 <= Len(h) \/ T = 0
        BY <1>4, <4>1
      <4>2. NextCalls(k, c.ret, ample) = 1 /\ (1 <= Len(h) \/ Len(whole) = 0)
        BY <4>0, <4>3 DEF T
      <4> QED BY <3>3, <4>2 DEF Moved
    <3>5. CASE k > 0
      <4>1. n > 0
        BY <1>6, <3>3, <3>5
      <4>2. k + 1 <= o + n
        BY <1>0, <1>1, <1>2, <1>3, <1>6, <3>5, <4>1
      <4> QED BY <1>4, <3>1, <3>3, <4>2 DEF Moved
    <3> QED BY <1>0, <3>4, <3>5
  <2> QED BY <2>1, <2>2, <2>3
<1> QED BY <1>7, <1>8, <1>9 DEF h, GivenSoFar

-----------------------------------------------------------------------------
\* Writing a parameter: what was sent is stored, in the stream or still to come.

Routes == {"none", "stream", "hexStream", "hexString", "direct"}
Params == [sent : {None} \cup Seq(Mem), left : Seq(Unit),
           stream : GoodStream(Mem) \cup GoodStream(Digit(Mem)), route : Routes]
\* Nothing of what is sent is lost on the way: it is in the stream or still to come.
OnTheWay(p) ==
  /\ p.route # "none" => p.sent \in Seq(Mem)
  /\ p.route = "stream" => /\ p.stream \in GoodStream(Mem) /\ p.left \in Seq(Mem)
                           /\ FlattenSeq(p.stream.segments) \o p.left = p.sent
  /\ p.route = "hexStream" => /\ p.stream \in GoodStream(Digit(Mem)) /\ p.left \in Seq(Digit(Mem))
                              /\ Packed(p.stream)
                              /\ FlattenSeq(p.stream.segments) \o p.left = ToHex(p.sent)
  /\ p.route = "hexString" => p.left = ToHex(p.sent)
  /\ p.route = "direct" => p.left = p.sent
Sending ==
  /\ table \in Seq(Rows) /\ param \in Params /\ OnTheWay(param)
  /\ Writing => row = 0
  /\ WrittenAsSent

\* A sequence is its first k members and the rest.
LEMMA Apart ==
  ASSUME NEW V, NEW l \in Seq(V), NEW k \in Nat, k <= Len(l)
  PROVE  /\ SubSeq(l, 1, k) \in Seq(V) /\ SubSeq(l, k + 1, Len(l)) \in Seq(V)
         /\ SubSeq(l, 1, k) \o SubSeq(l, k + 1, Len(l)) = l
<1> DEFINE m == Len(l) - k
<1>1. m \in Nat /\ k + m = Len(l)
  OBVIOUS
<1> HIDE DEF m
<1>2. SubSeq(l, 1, k) \o SubSeq(l, k + 1, k + m) = SubSeq(l, 1, k + m)
  BY <1>1, Together
<1>3. SubSeq(l, 1, Len(l)) = l
  OBVIOUS
<1>4. SubSeq(l, 1, k) \in Seq(V) /\ SubSeq(l, k + 1, Len(l)) \in Seq(V)
  OBVIOUS
<1> QED BY <1>1, <1>2, <1>3, <1>4

\* A piece of what is left is added to the stream.
LEMMA Sends ==
  ASSUME NEW V, NEW s \in GoodStream(V), NEW l \in Seq(V), NEW k \in Nat, k <= Len(l)
  PROVE  LET r == PutLongSegment(s, SubSeq(l, 1, k))
             m == SubSeq(l, k + 1, Len(l))
         IN  /\ r \in GoodStream(V) /\ m \in Seq(V)
             /\ FlattenSeq(r.segments) \o m = FlattenSeq(s.segments) \o l
             /\ Packed(s) => Packed(r)
<1> DEFINE a == SubSeq(l, 1, k)
           r == PutLongSegment(s, a)
           m == SubSeq(l, k + 1, Len(l))
           t == FlattenSeq(s.segments)
<1>1. a \in Seq(V) /\ m \in Seq(V) /\ a \o m = l
  BY Apart
<1>2. t \in Seq(V)
  <2>1. s.segments \in Seq(Seq(V))
    BY DEF GoodStream, StreamOf
  <2> QED BY <2>1, FlattenType
<1> HIDE DEF a, m
<1>3. r \in GoodStream(V) /\ FlattenSeq(r.segments) = t \o a /\ (Packed(s) => Packed(r))
  BY <1>1, PutLongSegmentAdds
<1> HIDE DEF t, r
<1>4. (t \o a) \o m = t \o (a \o m)
  <2>1. Joins(t, a, m)
    BY <1>1, <1>2, Associative
  <2> QED BY <2>1 DEF Joins
<1>5. FlattenSeq(r.segments) \o m = t \o l
  BY <1>1, <1>3, <1>4
<1> QED BY <1>1, <1>3, <1>5 DEF r, m, a, t

\* What each route leaves at the server.
LEMMA StreamWritten ==
  ASSUME NEW s \in GoodStream(Mem)
  PROVE  /\ NotEmpty(WriteBlob(s)) \in Seq(Seq(Mem))
         /\ FlattenSeq(NotEmpty(WriteBlob(s))) = FlattenSeq(s.segments)
<1> DEFINE ss == s.segments n == NotEmpty(ss) E == Seq(Mem)
<1>1. ss \in Seq(E) /\ E \in SUBSET Seq(Mem)
  BY DEF GoodStream, StreamOf
<1> HIDE DEF ss, E
<1>2. n \in Seq(E) /\ FlattenSeq(n) = FlattenSeq(ss)
  BY <1>1, NotEmptyKeeps
<1> HIDE DEF n
<1>3. NotEmpty(n) \in Seq(E) /\ FlattenSeq(NotEmpty(n)) = FlattenSeq(n)
  BY <1>1, <1>2, NotEmptyKeeps
<1>4. WriteBlob(s) = n
  BY DEF WriteBlob, SegmentsFrom, n, ss
<1> QED BY <1>2, <1>3, <1>4 DEF ss, E

\* A stream of digits that has them all holds the bytes they stand for.
LEMMA HexStreamWritten ==
  ASSUME NEW s \in GoodStream(Digit(Mem)), Packed(s), NEW b \in Seq(Mem),
         FlattenSeq(s.segments) = ToHex(b)
  PROVE  /\ NotEmpty(WriteStreamHexToBlob(s)) \in Seq(Seq(Mem))
         /\ FlattenSeq(NotEmpty(WriteStreamHexToBlob(s))) = b
<1> DEFINE ss == s.segments n == NotEmpty(ss) D == Digit(Mem) E == EvenSeq(D)
           hh == [i \in 1..Len(n) |-> FromHex(n[i])]
<1>1. Len(ToHex(b)) % 2 = 0
  <2>1. Len(ToHex(b)) = 2 * Len(b) /\ Len(b) \in Nat
    BY ToHexIs
  <2>2. (2 * Len(b)) % 2 = 0
    BY <2>1
  <2> QED BY <2>1, <2>2
<1>2. ss \in Seq(E)
  BY <1>1, PackedEven
<1>3. E \in SUBSET Seq(D)
  BY DEF EvenSeq
<1> HIDE DEF E
<1>4. n \in Seq(E) /\ FlattenSeq(n) = FlattenSeq(ss)
  <2> HIDE DEF ss, D
  <2> QED BY <1>2, <1>3, NotEmptyKeeps
<1>5. WriteStreamHexToBlob(s) = hh
  BY DEF WriteStreamHexToBlob, SegmentsFrom
<1> HIDE DEF n
<1>6. hh \in Seq(Seq(Loose(Mem))) /\ FlattenSeq(hh) = FromHex(FlattenSeq(n))
  BY <1>4, FlattenFromHex DEF E, D
<1>7. hh \in Seq(Seq(Mem)) /\ FlattenSeq(hh) = b
  <2>1. FlattenSeq(hh) = FromHex(ToHex(b))
    BY <1>4, <1>6
  <2> HIDE DEF hh
  <2> QED BY <1>6, <2>1, MemIs, FromToHex
<1> HIDE DEF hh
<1>8. NotEmpty(hh) \in Seq(Seq(Mem)) /\ FlattenSeq(NotEmpty(hh)) = FlattenSeq(hh)
  <2> DEFINE S == Seq(Mem)
  <2>1. S \in SUBSET Seq(Mem) /\ hh \in Seq(S)
    BY <1>7
  <2> HIDE DEF S
  <2>2. NotEmpty(hh) \in Seq(S) /\ FlattenSeq(NotEmpty(hh)) = FlattenSeq(hh)
    BY <2>1, NotEmptyKeeps
  <2> QED BY <2>2 DEF S
<1> QED BY <1>5, <1>7, <1>8

\* A buffer that is written at once holds its bytes.
LEMMA DataWritten ==
  ASSUME NEW b \in Seq(Mem)
  PROVE  /\ NotEmpty(WriteData(b)) \in Seq(Seq(Mem))
         /\ FlattenSeq(NotEmpty(WriteData(b))) = b
<1> DEFINE c == Cut(b, PieceLength) S == Seq(Mem) n == PieceLength
<1>1. c \in Seq(Seq(Mem)) /\ FlattenSeq(c) = b
  <2>1. n \in Nat \ {0}
    BY PieceLengthEven
  <2> HIDE DEF n
  <2>2. Cut(b, n) \in Seq(Seq(Mem)) /\ FlattenSeq(Cut(b, n)) = b
    BY <2>1, CutPieces
  <2> QED BY <2>2 DEF n
<1> HIDE DEF c
<1>2. S \in SUBSET Seq(Mem) /\ c \in Seq(S)
  BY <1>1
<1> HIDE DEF S
<1>3. NotEmpty(c) \in Seq(S) /\ FlattenSeq(NotEmpty(c)) = FlattenSeq(c)
  BY <1>2, NotEmptyKeeps
<1>4. WriteData(b) = c
  BY DEF WriteData, c
<1> QED BY <1>1, <1>3, <1>4 DEF S

\* Digits that are read at once are the bytes they stand for.
LEMMA HexStringWritten ==
  ASSUME NEW b \in Seq(Mem)
  PROVE  /\ NotEmpty(WriteStringHexToBlob(ToHex(b))) \in Seq(Seq(Mem))
         /\ FlattenSeq(NotEmpty(WriteStringHexToBlob(ToHex(b)))) = b
<1>1. FromHex(ToHex(b)) = b
  BY FromToHex
<1> QED BY <1>1, DataWritten DEF WriteStringHexToBlob

\* Nothing is sent at first.
LEMMA SendingInit == Init => Sending
<1> SUFFICES ASSUME Init PROVE Sending
  OBVIOUS
<1> DEFINE e == Empty(PieceLength)
<1>1. /\ e \in GoodStream(Mem) /\ e \in GoodStream(Digit(Mem)) /\ FlattenSeq(e.segments) = << >> /\ Packed(e)
  <2>1. PieceLength \in Nat
    BY PieceLengthEven
  <2> QED BY <2>1, EmptyStream
<1> HIDE DEF e
<1>2. row = 0
  BY DEF Init
<1>3. CASE table \in Tables /\ param = [sent |-> None, left |-> << >>, stream |-> e, route |-> "none"]
  <2>1. {Null} \cup Seq(Seq(Byte)) \subseteq Rows
    <3>1. Seq(Byte) \subseteq Seq(Mem)
      BY MemIs, SeqMonotonic
    <3>2. Seq(Seq(Byte)) \subseteq Seq(Seq(Mem))
      <4> DEFINE X == Seq(Byte) Y == Seq(Mem)
      <4>1. X \subseteq Y
        BY <3>1
      <4> HIDE DEF X, Y
      <4>2. Seq(X) \subseteq Seq(Y)
        BY <4>1, SeqMonotonic
      <4> QED BY <4>2 DEF X, Y
    <3> QED BY <3>2 DEF Rows
  <2>2. table \in Seq(Rows)
    <3> DEFINE X == {Null} \cup Seq(Seq(Byte))
    <3>1. X \subseteq Rows /\ table \in Seq(X)
      BY <1>3, <2>1, GetDataConstants
    <3> HIDE DEF X
    <3> QED BY <3>1, SeqMonotonic
  <2>3. param \in Params
    <3>1. << >> \in Seq(Unit)
      OBVIOUS
    <3> QED BY <3>1, <1>1, <1>3 DEF Params, Routes
  <2>4. param.route = "none" /\ param.sent = None
    BY <1>3
  <2> QED BY <2>2, <2>3, <2>4 DEF Sending, OnTheWay, Writing, WrittenAsSent
<1>4. ASSUME table = << >>,
             NEW s \in Sent, NEW r \in {"stream", "hexStream", "hexString", "direct"},
             param = [sent |-> s, left |-> IF r \in {"hexStream", "hexString"} THEN ToHex(s) ELSE s,
                      stream |-> e, route |-> r]
      PROVE  Sending
  <2> DEFINE l == IF r \in {"hexStream", "hexString"} THEN ToHex(s) ELSE s
  <2>1. s \in Seq(Mem)
    <3>1. s \in Seq(Byte)
      BY GetDataConstants
    <3> QED BY <3>1, MemIs, SeqMonotonic
  <2>2. ToHex(s) \in Seq(Digit(Mem))
    BY <2>1, ToHexIs
  <2>3. l \in Seq(Unit)
    BY <2>1, <2>2, MemUnit
  <2>4. /\ r \in {"hexStream", "hexString"} => l = ToHex(s)
        /\ r \in {"stream", "direct"} => l = s
    BY DEF l
  <2> HIDE DEF l
  <2>5. param.sent = s /\ param.left = l /\ param.stream = e /\ param.route = r
    BY <1>4 DEF l
  <2>6. param \in Params
    BY <1>1, <1>4, <2>1, <2>3 DEF Params, Routes, l
  <2>7. /\ << >> \o l = l
    BY <2>3
  <2>8. OnTheWay(param)
    <3>1. r = "stream" => /\ param.stream \in GoodStream(Mem) /\ param.left \in Seq(Mem)
                          /\ FlattenSeq(param.stream.segments) \o param.left = param.sent
      BY <1>1, <2>1, <2>4, <2>5, <2>7
    <3>2. r = "hexStream" => /\ param.stream \in GoodStream(Digit(Mem)) /\ param.left \in Seq(Digit(Mem))
                             /\ Packed(param.stream)
                             /\ FlattenSeq(param.stream.segments) \o param.left = ToHex(param.sent)
      BY <1>1, <2>2, <2>4, <2>5, <2>7
    <3> QED BY <2>1, <2>4, <2>5, <3>1, <3>2 DEF OnTheWay
  <2>9. Writing
    BY <2>5 DEF Writing
  <2>10. table \in Seq(Rows)
    BY <1>4
  <2> QED BY <1>2, <2>6, <2>8, <2>9, <2>10 DEF Sending, WrittenAsSent
<1> QED BY <1>3, <1>4 DEF Init, e

\* The end of the transfer: the table holds what was sent.
LEMMA StoredKeeps ==
  ASSUME Sending, Writing, NEW segments, Stored(segments),
         NotEmpty(segments) \in Seq(Seq(Mem)), FlattenSeq(NotEmpty(segments)) = param.sent
  PROVE  Sending' /\ row' = row /\ row = 0 /\ table' \in Seq(Rows)
<1> DEFINE n == NotEmpty(segments) s == Clear(param.stream)
<1>1. table' = <<n>> /\ param' = [param EXCEPT !.route = "none", !.stream = s] /\ row' = row
  BY DEF Stored, place
<1>2. param \in Params /\ row = 0
  BY DEF Sending
<1>3. s \in GoodStream(Mem)
  <2>1. param.stream.minimum \in Nat
    BY <1>2 DEF Params, GoodStream, StreamOf
  <2> DEFINE m == param.stream.minimum
  <2>2. s = Empty(m)
    BY DEF Clear
  <2> HIDE DEF m, s
  <2> QED BY <2>1, <2>2, EmptyStream DEF m
<1> HIDE DEF s
<1>4. param' \in Params /\ param'.route = "none" /\ param'.sent = param.sent
  BY <1>1, <1>2, <1>3 DEF Params, Routes
<1> HIDE DEF n
<1>5. table' \in Seq(Rows) /\ table'[1] = n
  <2>1. n \in Rows
    BY DEF n, Rows
  <2> QED BY <1>1, <2>1
<1>6. (Bytes(table[1]) = param.sent)'
  BY <1>4, <1>5 DEF Bytes, n
<1> QED BY <1>1, <1>2, <1>4, <1>5, <1>6 DEF Sending, OnTheWay, Writing, WrittenAsSent

\* A call of SQLPutData, by its route, moves what it takes from what is left into the stream.
LEMMA PutDataSends ==
  ASSUME Sending, PutData
  PROVE  Sending'
<1>1. /\ param.route \in {"stream", "hexStream"} /\ param.left # << >>
      /\ table' = table /\ row' = row /\ param \in Params /\ OnTheWay(param) /\ row = 0 /\ table \in Seq(Rows)
  BY DEF PutData, place, Sending, Writing
<1>2. PICK n \in Pieces :
        param' = [param EXCEPT !.left = SubSeq(@, Least2(n, Len(param.left)) + 1, Len(@)),
                               !.stream = PutLongSegment(@, SubSeq(param.left, 1, Least2(n, Len(param.left))))]
  BY DEF PutData
<1> DEFINE l == param.left s == param.stream k == Least2(n, Len(l))
           m == SubSeq(l, k + 1, Len(l)) a == SubSeq(l, 1, k) r == PutLongSegment(s, a)
<1>3. param' = [param EXCEPT !.left = m, !.stream = r]
  BY <1>1, <1>2 DEF Params
<1>4. n \in Nat \ {0}
  BY GetDataConstants
<1>5. ASSUME NEW V, l \in Seq(V), s \in GoodStream(V)
      PROVE  /\ r \in GoodStream(V) /\ m \in Seq(V)
             /\ FlattenSeq(r.segments) \o m = FlattenSeq(s.segments) \o l
             /\ Packed(s) => Packed(r)
  <2>1. k \in Nat /\ k <= Len(l)
    BY <1>4, <1>5 DEF Least2
  <2> HIDE DEF k, l, s
  <2> QED BY <1>5, <2>1, Sends
<1> HIDE DEF l, s, k, m, a, r
<1>6. CASE param.route = "stream"
  <2>1. s \in GoodStream(Mem) /\ l \in Seq(Mem) /\ FlattenSeq(s.segments) \o l = param.sent /\ param.sent \in Seq(Mem)
    BY <1>1, <1>6 DEF OnTheWay, s, l
  <2>2. r \in GoodStream(Mem) /\ m \in Seq(Mem) /\ FlattenSeq(r.segments) \o m = param.sent
    BY <2>1, <1>5
  <2>3. m \in Seq(Unit)
    BY <2>2, MemUnit
  <2>4. param' \in Params /\ param'.route = "stream" /\ param'.sent = param.sent
        /\ param'.left = m /\ param'.stream = r
    BY <1>1, <1>3, <1>6, <2>2, <2>3 DEF Params
  <2> QED BY <1>1, <2>1, <2>2, <2>4 DEF Sending, OnTheWay, Writing, WrittenAsSent
<1>7. CASE param.route = "hexStream"
  <2>1. s \in GoodStream(Digit(Mem)) /\ l \in Seq(Digit(Mem)) /\ Packed(s) /\ param.sent \in Seq(Mem)
        /\ FlattenSeq(s.segments) \o l = ToHex(param.sent)
    BY <1>1, <1>7 DEF OnTheWay, s, l
  <2>2. r \in GoodStream(Digit(Mem)) /\ m \in Seq(Digit(Mem)) /\ Packed(r)
        /\ FlattenSeq(r.segments) \o m = ToHex(param.sent)
    BY <2>1, <1>5
  <2>3. m \in Seq(Unit)
    BY <2>2, MemUnit
  <2>4. param' \in Params /\ param'.route = "hexStream" /\ param'.sent = param.sent
        /\ param'.left = m /\ param'.stream = r
    BY <1>1, <1>3, <1>7, <2>2, <2>3 DEF Params
  <2> QED BY <1>1, <2>1, <2>2, <2>4 DEF Sending, OnTheWay, Writing, WrittenAsSent
<1> QED BY <1>1, <1>6, <1>7

\* The end of the data, by its route, stores what the stream has, or all that was left.
LEMMA EndPutSends ==
  ASSUME Sending, EndPut
  PROVE  Sending' /\ row' = row /\ row = 0 /\ table' \in Seq(Rows)
<1>1. /\ param.route \in {"stream", "hexStream"} /\ param.left = << >> /\ Writing
      /\ Stored(IF param.route = "stream" THEN WriteBlob(param.stream) ELSE WriteStreamHexToBlob(param.stream))
      /\ OnTheWay(param)
  BY DEF EndPut, Sending, Writing
<1>2. CASE param.route = "stream"
  <2> DEFINE s == param.stream w == WriteBlob(s)
  <2>1. s \in GoodStream(Mem) /\ FlattenSeq(s.segments) \o << >> = param.sent
    BY <1>1, <1>2 DEF OnTheWay
  <2>2. FlattenSeq(s.segments) = param.sent
    <3>1. s.segments \in Seq(Seq(Mem))
      BY <2>1 DEF GoodStream, StreamOf
    <3>2. FlattenSeq(s.segments) \in Seq(Mem)
      BY <3>1, FlattenType
    <3> QED BY <2>1, <3>2
  <2>3. NotEmpty(w) \in Seq(Seq(Mem)) /\ FlattenSeq(NotEmpty(w)) = param.sent
    <3> HIDE DEF s
    <3> QED BY <2>1, <2>2, StreamWritten
  <2>4. Stored(w)
    BY <1>1, <1>2
  <2> HIDE DEF w
  <2> QED BY <1>1, <2>3, <2>4, StoredKeeps
<1>3. CASE param.route = "hexStream"
  <2> DEFINE s == param.stream w == WriteStreamHexToBlob(s) b == param.sent
  <2>1. s \in GoodStream(Digit(Mem)) /\ Packed(s) /\ FlattenSeq(s.segments) \o << >> = ToHex(b) /\ b \in Seq(Mem)
    BY <1>1, <1>3 DEF OnTheWay
  <2>2. FlattenSeq(s.segments) = ToHex(b)
    <3>1. s.segments \in Seq(Seq(Digit(Mem)))
      BY <2>1 DEF GoodStream, StreamOf
    <3>2. FlattenSeq(s.segments) \in Seq(Digit(Mem))
      BY <3>1, FlattenType
    <3> QED BY <2>1, <3>2
  <2>3. NotEmpty(w) \in Seq(Seq(Mem)) /\ FlattenSeq(NotEmpty(w)) = b
    <3> HIDE DEF s, b
    <3> QED BY <2>1, <2>2, HexStreamWritten
  <2>4. Stored(w)
    BY <1>1, <1>3
  <2> HIDE DEF w
  <2> QED BY <1>1, <2>3, <2>4, StoredKeeps
<1> QED BY <1>1, <1>2, <1>3

\* A bound buffer is stored as it is.
LEMMA WriteBoundSends ==
  ASSUME Sending, WriteBound
  PROVE  Sending' /\ row' = row /\ row = 0 /\ table' \in Seq(Rows)
<1> DEFINE b == param.sent
           w == IF param.route = "direct" THEN WriteData(param.left) ELSE WriteStringHexToBlob(param.left)
<1>1. /\ param.route \in {"hexString", "direct"} /\ Writing /\ Stored(w) /\ b \in Seq(Mem)
      /\ param.route = "direct" => param.left = b
      /\ param.route = "hexString" => param.left = ToHex(b)
  BY DEF WriteBound, Sending, Writing, OnTheWay
<1>2. NotEmpty(w) \in Seq(Seq(Mem)) /\ FlattenSeq(NotEmpty(w)) = b
  <2>1. CASE param.route = "direct"
    <3>1. w = WriteData(b)
      BY <1>1, <2>1
    <3> HIDE DEF w, b
    <3> QED BY <1>1, <3>1, DataWritten
  <2>2. CASE param.route = "hexString"
    <3>1. w = WriteStringHexToBlob(ToHex(b))
      BY <1>1, <2>2
    <3> HIDE DEF w, b
    <3> QED BY <1>1, <3>1, HexStringWritten
  <2> QED BY <1>1, <2>1, <2>2
<1> HIDE DEF w
<1> QED BY <1>1, <1>2, StoredKeeps

\* No other step touches what is being sent.
LEMMA OthersSend ==
  ASSUME Sending, table' = table, param' = param, row' # row => row' = 0 \/ ~Writing
  PROVE  Sending'
BY DEF Sending, OnTheWay, Writing, WrittenAsSent, Bytes

\* Every step keeps it.
LEMMA SendingStep == Sending /\ [Next]_vars => Sending'
<1> SUFFICES ASSUME Sending, [Next]_vars PROVE Sending'
  OBVIOUS
<1>1. CASE PutData
  BY <1>1, PutDataSends
<1>2. CASE EndPut
  BY <1>2, EndPutSends
<1>3. CASE WriteBound
  BY <1>3, WriteBoundSends
<1>4. CASE Fetch
  BY <1>4, OthersSend DEF Fetch
<1>5. CASE SetPos
  BY <1>5, OthersSend DEF SetPos
<1>6. CASE Execute
  BY <1>6, OthersSend DEF Execute
<1>7. CASE Unbind
  BY <1>7, OthersSend DEF Unbind
<1>8. CASE GetPiece
  <2>1. table' = table /\ param' = param /\ row' = row
    BY <1>8 DEF GetPiece, SqlGetData
  <2> QED BY <2>1, OthersSend
<1>9. CASE GetFails
  BY <1>9, OthersSend DEF GetFails
<1>10. CASE UNCHANGED vars
  BY <1>10, OthersSend DEF vars
<1> QED BY <1>1, <1>2, <1>3, <1>4, <1>5, <1>6, <1>7, <1>8, <1>9, <1>10 DEF Next

(***************************************************************************)
(* Every row holds what its parameter was sent: the bytes of a parameter   *)
(* are stored as they were sent, whichever way they went (bytes put into   *)
(* the stream, digits put into the stream, digits read at once, a bound    *)
(* buffer) and however they were cut into pieces (IscBlob.cpp 178-289,     *)
(* Stream.cpp 123-182, OdbcConvert.cpp 3399-3490).                         *)
(***************************************************************************)
THEOREM SentKept == Spec => []WrittenAsSent
<1>1. Sending => WrittenAsSent
  BY DEF Sending
<1> QED BY <1>1, SendingInit, SendingStep, PTL DEF Spec

-----------------------------------------------------------------------------
\* The inductive invariant of reading. A call gives the right piece only if the blob, its copy and
\* the place kept in the stream are those of the row, which Kept says; Given carries what the
\* application has so far.

TypeOK ==
  /\ column \in [source : Sources, static : BOOLEAN, bound : Targets \cup {"no"}]
  /\ table \in Seq(Rows) /\ countFetched \in Nat /\ row \in Nat /\ row <= Len(table)
  /\ rec \in Recs /\ rec.current <= countFetched /\ blob \in Blobs
  /\ copy \in Copies /\ boundCopy \in Copies
  /\ target \in Targets \cup {None} /\ room \in Nat /\ got \in Seq(Unit) /\ calls \in Nat
  /\ ret \in Rets /\ torn \in BOOLEAN
Fresh == rec.current # countFetched
HasValue == row > 0 /\ Value # Null
RowOK ==
  /\ row = 0 => target = None
  /\ target = None => got = << >> /\ calls = 0 /\ ret = "success" /\ ~torn
  /\ HasValue /\ target # None => ~Fresh
  /\ HasValue /\ ~Fresh /\ target = None =>
       column.bound # "no" /\ (IsBlob \/ column.bound # "wide" => rec.offset = 0)
  /\ HasValue /\ ~Fresh /\ target # None /\ Hex(target) => rec.offset % 2 = 0
  /\ HasValue /\ ~Fresh /\ IsBlob /\ ~blob.fetched => blob.id = row
  /\ calls > 0 /\ ret # "crash" => HasValue /\ Exact
ExactRow == target # None /\ HasValue /\ Exact /\ ret # "crash"
Given == ExactRow => GivenSoFar(got, calls, ret, rec, Whole, Ample(target, room))
Kept == ExactRow =>
  /\ IsBlob => /\ blob.fetched
               /\ FlattenSeq(blob.stream.segments) = Bytes(Value)
               /\ WideBytes(target) => copy = Bytes(Value)
               /\ ~WideBytes(target) /\ ret # NoData =>
                    InPlace(blob.stream, PlaceOf(target, rec.offset), Bytes(Value))
  /\ ~IsBlob /\ target = "wide" => copy \in {None, Bytes(Value)}
Inv == TypeOK /\ RowOK /\ Given /\ Kept

\* The value of the column in the row.
LEMMA ValueIs == ASSUME TypeOK PROVE Value \in Rows /\ (row > 0 => Value = table[row])
<1>1. CASE row = 0
  BY <1>1 DEF Value, Rows
<1>2. CASE row > 0
  <2>1. row \in 1..Len(table)
    BY <1>2 DEF TypeOK
  <2>2. table[row] \in Rows
    BY <2>1 DEF TypeOK
  <2> QED BY <1>2, <2>2 DEF Value, TypeOK
<1> QED BY <1>1, <1>2 DEF TypeOK

\* What a call finds is within its types.
LEMMA WorldIs ==
  ASSUME TypeOK
  PROVE  /\ Ready(World) /\ World.rec = rec /\ World.blob = blob /\ World.copy = copy
         /\ World.boundCopy = boundCopy /\ World.count = countFetched /\ World.row = row
         /\ World.value = Value /\ World.ret = "success" /\ World.piece = << >>
         /\ (Fetched(World) <=> ~Fresh)
         /\ row > 0 => AtRow(World)
<1>1. Value \in Rows /\ (row > 0 => Value = table[row])
  BY ValueIs
<1> DEFINE v == Value
<1>2. World = [rec |-> rec, blob |-> blob, copy |-> copy, boundCopy |-> boundCopy, count |-> countFetched,
               row |-> row, value |-> v, len |-> 0, piece |-> << >>, ret |-> "success"]
  BY DEF World
<1> HIDE DEF v
<1>3. World \in Worlds
  <2>1. v \in Rows \cup Seq(Mem) /\ << >> \in Seq(Unit) /\ "success" \in Rets
    BY <1>1 DEF v, Rets
  <2> QED BY <1>2, <2>1 DEF Worlds, TypeOK
<1>4. /\ World.rec = rec /\ World.blob = blob /\ World.copy = copy
      /\ World.boundCopy = boundCopy /\ World.count = countFetched /\ World.row = row
      /\ World.value = v /\ World.ret = "success" /\ World.piece = << >> /\ World.len = 0
  BY <1>2
<1>5. Fetched(World) <=> ~Fresh
  BY <1>4 DEF Fetched, Fresh
<1> QED BY <1>1, <1>3, <1>4, <1>5 DEF Ready, AtRow, v

\* The next row, before the fetch converts the bound column.
RowWorld(r) == [World EXCEPT !.count = countFetched + 1, !.row = r, !.value = table[r]]

\* What a fetch of a row finds.
LEMMA RowWorldIs ==
  ASSUME TypeOK, NEW r \in 1..Len(table)
  PROVE  LET w == RowWorld(r)
         IN  /\ AtRow(w) /\ w.rec = rec /\ w.blob = blob /\ w.copy = copy /\ w.boundCopy = boundCopy
             /\ w.count = countFetched + 1 /\ w.value = table[r] /\ ~Fetched(w)
<1> DEFINE w == RowWorld(r) v == table[r]
<1>1. World \in Worlds /\ World.rec = rec /\ World.blob = blob /\ World.copy = copy
      /\ World.boundCopy = boundCopy /\ World.ret = "success" /\ World.piece = << >> /\ World.len = 0
  BY WorldIs DEF Ready
<1>2. v \in Rows /\ r \in Nat /\ countFetched + 1 \in Nat
  BY DEF TypeOK
<1>3. w = [World EXCEPT !.count = countFetched + 1, !.row = r, !.value = v]
  BY DEF RowWorld
<1> HIDE DEF w, v
<1>4. /\ w \in Worlds /\ w.rec = rec /\ w.blob = blob /\ w.copy = copy /\ w.boundCopy = boundCopy
      /\ w.count = countFetched + 1 /\ w.row = r /\ w.value = v /\ w.len = 0 /\ w.ret = "success"
      /\ w.piece = << >>
  BY <1>1, <1>2, <1>3 DEF Worlds
<1>5. ~Fetched(w)
  <2>1. rec.current \in Nat /\ countFetched \in Nat /\ rec.current <= countFetched
    BY DEF TypeOK, Recs
  <2>2. rec.current # countFetched + 1
    BY <2>1
  <2> QED BY <2>2, <1>4 DEF Fetched
<1> QED BY <1>2, <1>4, <1>5 DEF Ready, AtRow, w, v

\* Nothing was fetched at first.
LEMMA InvInit == Init => Inv
<1> SUFFICES ASSUME Init PROVE Inv
  OBVIOUS
<1>1. Sending
  BY SendingInit
<1>2. NoBlob \in Blobs
  <2> DEFINE e == Empty(PieceLength)
  <2>1. PieceLength \in Nat
    BY PieceLengthEven
  <2>2. e \in GoodStream(Mem)
    BY <2>1, EmptyStream
  <2> HIDE DEF e
  <2>3. NoBlob = [id |-> 0, fetched |-> FALSE, stream |-> e]
    BY DEF NoBlob, e
  <2> QED BY <2>2, <2>3 DEF Blobs
<1>3. column \in [source : Sources, static : BOOLEAN, bound : Targets \cup {"no"}]
  BY GetDataConstants DEF Init
<1>4. NewRecord \in Recs /\ NewRecord.current = 0
  BY DEF NewRecord, Recs
<1>5. /\ countFetched = 0 /\ row = 0 /\ rec = NewRecord /\ blob = NoBlob /\ copy = None /\ boundCopy = None
      /\ target = None /\ room = 0 /\ got = << >> /\ calls = 0 /\ ret = "success" /\ torn = FALSE
  BY DEF Init
<1>6. TypeOK
  <2>1. table \in Seq(Rows) /\ 0 <= Len(table)
    BY <1>1 DEF Sending
  <2>2. << >> \in Seq(Unit)
    OBVIOUS
  <2>3. rec \in Recs /\ rec.current <= countFetched /\ blob \in Blobs
    BY <1>2, <1>4, <1>5
  <2>4. copy \in Copies /\ boundCopy \in Copies /\ ret \in Rets /\ torn \in BOOLEAN
    BY <1>5 DEF Copies, Rets
  <2>5. /\ target \in Targets \cup {None} /\ room \in Nat /\ got \in Seq(Unit) /\ calls \in Nat
        /\ countFetched \in Nat /\ row \in Nat /\ row <= Len(table)
    BY <1>5, <2>1, <2>2
  <2> QED BY <1>3, <2>1, <2>3, <2>4, <2>5 DEF TypeOK
<1> QED BY <1>5, <1>6 DEF Inv, RowOK, Given, Kept, ExactRow, HasValue

-----------------------------------------------------------------------------
\* One call keeps it.

\* One call of SQLGetData.
Asked(c, t, length) ==
  /\ rec' = c.rec /\ blob' = c.blob /\ copy' = c.copy /\ boundCopy' = c.boundCopy
  /\ target' = t /\ room' = length /\ ret' = c.ret /\ got' = got \o c.piece
  /\ calls' = IF Ample(t, length) /\ c.ret # NoData /\ Value # Null /\ ExactFor(t)
              THEN calls + 1 ELSE calls
  /\ UNCHANGED <<column, table, countFetched, row, torn>>

\* A call of SQLGetData stays within its types, and is exact on an exact row.
LEMMA AskedIs ==
  ASSUME TypeOK, GetPiece
  PROVE  /\ row > 0 /\ ret # NoData /\ ret # "crash"
         /\ \E t \in Targets, length \in Nat :
              /\ target = None \/ t = target
              /\ Pairs(t, length)
              /\ Asked(Convert(World, t, length, FALSE), t, length)
<1>1. row > 0 /\ ret # NoData /\ ret # "crash"
  BY DEF GetPiece
<1>2. PICK t \in IF target = None THEN Targets ELSE {target}, length \in Buffers :
        Even(t, length) /\ SqlGetData(t, length)
  BY DEF GetPiece
<1>3. length \in Nat /\ (target = None \/ t = target) /\ t \in Targets
  BY <1>2, GetDataConstants DEF TypeOK
<1>5. Pairs(t, length)
  BY <1>2, <1>3 DEF Even, Pairs, Hex, Targets
<1>4. Asked(Convert(World, t, length, FALSE), t, length)
  <2> DEFINE d == Convert(World, t, length, FALSE)
  <2>1. PICK c \in {d} :
          /\ Become(c) /\ target' = t /\ room' = length /\ ret' = c.ret /\ got' = got \o c.piece
          /\ calls' = IF Ample(t, length) /\ ret' # NoData /\ Value # Null /\ ExactFor(t)
                      THEN calls + 1 ELSE calls
          /\ UNCHANGED <<column, table, param, countFetched, row, restarts, torn>>
    BY <1>2 DEF SqlGetData
  <2>2. c = d
    BY <2>1
  <2> HIDE DEF d
  <2>3. Asked(d, t, length)
    BY <2>1, <2>2 DEF Asked, Become
  <2> QED BY <2>3 DEF d
<1> QED BY <1>1, <1>3, <1>4, <1>5

\* The call's value stays what it is.
LEMMA SameRow ==
  ASSUME TypeOK, column' = column, row' = row, table' = table, torn' = torn, NEW t, target' = t
  PROVE  /\ Value' = Value /\ IsBlob' = IsBlob /\ HasValue' = HasValue
         /\ Hex(target)' = Hex(t) /\ WideBytes(target)' = WideBytes(t)
         /\ Whole' = WholeOf(Bytes(Value), t) /\ Exact' = ExactFor(t)
         /\ Bytes(Value)' = Bytes(Value)
<1>1. Value' = Value /\ IsBlob' = IsBlob
  BY DEF Value, IsBlob
<1>2. Hex(target)' = Hex(t)
  BY DEF Hex
<1>3. Exact' = ExactFor(t)
  BY <1>1 DEF Exact, ExactFor, IsBlob
<1>4. Whole' = WholeOf(Bytes(Value), t)
  BY <1>1, <1>2 DEF Whole, Units, WholeOf, Bytes, Hex
<1> QED BY <1>1, <1>2, <1>3, <1>4 DEF HasValue, WideBytes, Bytes

\* The piece of a null.
LEMMA NullPiece ==
  ASSUME Inv, GetPiece, Value = Null
  PROVE  Inv'
<1>1. TypeOK /\ RowOK
  BY DEF Inv
<1>2. row > 0 /\ ret # NoData /\ ret # "crash"
  BY <1>1, AskedIs
<1>3. PICK t \in Targets, length \in Nat : Asked(Convert(World, t, length, FALSE), t, length)
  BY <1>1, AskedIs
<1>4. /\ World.rec = rec /\ World.blob = blob /\ World.copy = copy
      /\ World.boundCopy = boundCopy /\ World.value = Value /\ World.ret = "success" /\ World.piece = << >>
  BY <1>1, WorldIs
<1>5. Convert(World, t, length, FALSE) = World
  BY <1>4 DEF Convert
<1>6. /\ rec' = rec /\ blob' = blob /\ copy' = copy /\ boundCopy' = boundCopy
      /\ target' = t /\ room' = length /\ ret' = "success" /\ got' = got \o << >> /\ calls' = calls
      /\ UNCHANGED <<column, table, countFetched, row, torn>>
  BY <1>3, <1>4, <1>5 DEF Asked
<1>7. got' = got
  BY <1>1, <1>6 DEF TypeOK
<1>8. calls = 0
  BY <1>1, <1>2 DEF RowOK, HasValue, TypeOK
<1>9. HasValue' = HasValue /\ ~HasValue
  BY <1>6 DEF HasValue, Value
<1>10. target' # None
  BY <1>3, <1>6, GetDataNames
<1>11. TypeOK'
  BY <1>1, <1>6, <1>7 DEF TypeOK, Rets
<1>12. RowOK'
  BY <1>2, <1>6, <1>8, <1>9, <1>10 DEF RowOK
<1> QED BY <1>9, <1>11, <1>12 DEF Inv, Given, Kept, ExactRow

\* Before a call of an exact row: what the application has is the beginning of the value.
LEMMA BeforeCall ==
  ASSUME Inv, row > 0, Value # Null, ret # NoData, ret # "crash", NEW t \in Targets, target = None \/ t = target,
         ExactFor(t)
  PROVE  LET w == Start(World) whole == WholeOf(Bytes(Value), t)
         IN  /\ w.rec.offset \in Nat /\ w.rec.offset <= Len(whole)
             /\ got = SubSeq(whole, 1, w.rec.offset)
             /\ Moved(got, calls, "success", w.rec, whole)
             /\ ~Fetched(World) => calls = 0
             /\ Fetched(World) => /\ KeptText(World, t, Bytes(Value))
                                  /\ IsBlob => World.blob.fetched /\ BlobKept(World, t, Bytes(Value))
<1> DEFINE w == Start(World) b == Bytes(Value) whole == WholeOf(b, t) was == Fetched(World)
<1>1. TypeOK /\ RowOK /\ Given /\ Kept /\ HasValue
  BY DEF Inv, HasValue
<1>2. /\ Ready(World) /\ World.rec = rec /\ World.blob = blob /\ World.copy = copy
      /\ World.ret = "success" /\ (was <=> ~Fresh)
  BY <1>1, WorldIs
<1>3. /\ Ready(w) /\ (was => w = World) /\ (~was => w.rec.offset = 0)
  <2> HIDE DEF w
  <2> QED BY <1>2, StartIs DEF w
<1>4. b \in Seq(Mem) /\ whole \in Seq(Unit) /\ Len(whole) \in Nat
  <2>1. Value \in Seq(Seq(Mem))
    BY <1>1, ValueIs DEF Rows
  <2>2. b \in Seq(Mem)
    BY <2>1, FlattenType DEF Bytes
  <2> HIDE DEF b
  <2>3. whole \in Seq(Unit)
    BY <2>2, WholeIs
  <2> QED BY <2>2, <2>3
<1>5. w.rec.offset \in Nat
  BY <1>3 DEF Ready, Worlds, Recs
<1>6. SubSeq(whole, 1, 0) = << >>
  BY SubSeqEmpty
<1> HIDE DEF w, whole, b
<1>7. CASE target = None
  <2>1. got = << >> /\ calls = 0
    BY <1>1, <1>7 DEF RowOK
  <2>2. was => column.bound # "no" /\ ~IsBlob /\ t # "wide" /\ rec.offset = 0
    BY <1>1, <1>2, <1>7 DEF RowOK, ExactFor
  <2>3. w.rec.offset = 0
    <3>1. CASE was
      BY <1>2, <1>3, <2>2, <3>1
    <3>2. CASE ~was
      BY <1>3, <3>2
    <3> QED BY <3>1, <3>2
  <2>4. Moved(got, calls, "success", w.rec, whole)
    BY <2>1 DEF Moved
  <2>5. was => KeptText(World, t, b) /\ ~IsBlob
    BY <2>2 DEF KeptText
  <2> QED BY <1>4, <1>5, <1>6, <2>1, <2>3, <2>4, <2>5 DEF was, w, whole, b
<1>8. CASE target # None
  <2>1. t = target /\ was /\ w = World
    BY <1>1, <1>2, <1>3, <1>8 DEF RowOK
  <2>2. ExactRow
    BY <1>1, <1>8, <2>1 DEF ExactRow, Exact
  <2>3. Whole = whole
    BY <2>1 DEF Whole, Units, WholeOf, whole, b
  <2>4. Beginning(got, ret, rec, whole) /\ Moved(got, calls, ret, rec, whole)
    BY <1>1, <2>2, <2>3 DEF Given, GivenSoFar
  <2>5. rec.offset <= Len(whole) /\ got = SubSeq(whole, 1, rec.offset)
    BY <2>4 DEF Beginning
  <2>6. "success" # NoData
    BY GetDataNames
  <2>7. Moved(got, calls, "success", rec, whole)
    BY <2>4, <2>6 DEF Moved
  <2>8. /\ IsBlob => /\ blob.fetched
                     /\ FlattenSeq(blob.stream.segments) = b
                     /\ WideBytes(t) => copy = b
                     /\ ~WideBytes(t) => InPlace(blob.stream, PlaceOf(t, rec.offset), b)
        /\ ~IsBlob /\ t = "wide" => copy \in {None, b}
    BY <1>1, <2>1, <2>2 DEF Kept, b
  <2>9. IsBlob => World.blob.fetched /\ BlobKept(World, t, b)
    BY <1>2, <2>6, <2>8 DEF BlobKept, StoredBytes
  <2>10. KeptText(World, t, b)
    BY <1>2, <2>8 DEF KeptText
  <2> QED BY <1>2, <1>5, <2>1, <2>5, <2>7, <2>9, <2>10 DEF was, w, whole, b
<1> QED BY <1>7, <1>8

\* After the call the application has the beginning of the value, one piece longer.
LEMMA PieceGot ==
  ASSUME Inv, GetPiece, Value # Null
  PROVE  Inv'
<1>1. TypeOK /\ RowOK /\ Given /\ Kept
  BY DEF Inv
<1>2. row > 0 /\ ret # NoData /\ ret # "crash"
  BY <1>1, AskedIs
<1>3. PICK t \in Targets, length \in Nat : /\ target = None \/ t = target
                                           /\ Pairs(t, length)
                                           /\ Asked(Convert(World, t, length, FALSE), t, length)
  BY <1>1, AskedIs
<1> DEFINE no == FALSE
           c == Convert(World, t, length, no)
           b == Bytes(Value)
           whole == WholeOf(b, t)
           was == Fetched(World)
           w == Start(World)
           cap == Capacity(t, length)
           ample == Ample(t, length)
           even == EvenOnly(t)
<1>4. /\ AtRow(World) /\ World.rec = rec /\ World.blob = blob /\ World.copy = copy
      /\ World.count = countFetched /\ World.row = row /\ World.value = Value /\ (was <=> ~Fresh)
      /\ Ready(World)
  BY <1>1, <1>2, WorldIs
<1>5. HasValue
  BY <1>2 DEF HasValue
<1>6. /\ Converted(c, World, t, length, no)
      /\ ~(IsBlob /\ column.static) /\ ConvertHypothesis(World, t, length, b)
           => ConvertExact(c, World, t, length, b)
  <2>1. column.static \in BOOLEAN /\ no \in BOOLEAN
    BY <1>1 DEF TypeOK
  <2>2. IsBlob /\ was /\ ~World.blob.fetched => World.blob.id = World.row
    BY <1>1, <1>4, <1>5 DEF RowOK
  <2>3. Hex(t) /\ was => World.rec.offset % 2 = 0
    <3>1. Hex(t) => IsBlob
      BY DEF Hex, IsBlob
    <3>2. 0 % 2 = 0
      OBVIOUS
    <3> QED BY <1>1, <1>3, <1>4, <1>5, <3>1, <3>2 DEF RowOK
  <2>4. World.value # Null /\ b = FlattenSeq(World.value) /\ ~no
    BY <1>4 DEF Bytes
  <2> HIDE DEF no, b
  <2>5. no => ~Fetched(World)
    BY <2>4
  <2> QED BY <1>4, <2>1, <2>2, <2>3, <2>4, <2>5, ConvertIs
<1>7. /\ c \in Worlds /\ c.rec.current = countFetched /\ (IsBlob => c.blob.fetched = TRUE)
      /\ (Hex(t) => c.rec.offset % 2 = 0)
  <2> HIDE DEF c, no
  <2> QED BY <1>3, <1>4, <1>6 DEF Converted
<1>8. Asked(c, t, length)
  BY <1>3
<1> HIDE DEF c
<1>9. /\ rec' = c.rec /\ blob' = c.blob /\ copy' = c.copy /\ boundCopy' = c.boundCopy
      /\ target' = t /\ room' = length /\ ret' = c.ret /\ got' = got \o c.piece
      /\ calls' = IF ample /\ c.ret # NoData /\ ExactFor(t) THEN calls + 1 ELSE calls
      /\ column' = column /\ table' = table /\ countFetched' = countFetched /\ row' = row /\ torn' = torn
  BY <1>8 DEF Asked
<1>10. /\ Value' = Value /\ IsBlob' = IsBlob /\ HasValue' = HasValue
       /\ Hex(target)' = Hex(t) /\ WideBytes(target)' = WideBytes(t)
       /\ Whole' = whole /\ Exact' = ExactFor(t) /\ Bytes(Value)' = b
  <2> HIDE DEF b
  <2> QED BY <1>1, <1>9, SameRow DEF b
<1>11. target' # None
  BY <1>9, GetDataNames
<1>12. TypeOK'
  <2>1. /\ c.rec \in Recs /\ c.blob \in Blobs /\ c.copy \in Copies /\ c.boundCopy \in Copies
        /\ c.ret \in Rets /\ c.piece \in Seq(Unit)
    BY <1>7 DEF Worlds
  <2>2. got' \in Seq(Unit)
    BY <1>1, <1>9, <2>1, ConcatProperties DEF TypeOK
  <2>3. calls' \in Nat
    BY <1>1, <1>9 DEF TypeOK
  <2>4. rec'.current <= countFetched'
    BY <1>1, <1>7, <1>9 DEF TypeOK
  <2> HIDE DEF ample
  <2> QED BY <1>1, <1>9, <2>1, <2>2, <2>3, <2>4 DEF TypeOK
<1>13. RowOK'
  <2>1. ~Fresh'
    BY <1>7, <1>9 DEF Fresh
  <2>2. Hex(target)' => rec'.offset % 2 = 0
    BY <1>7, <1>9, <1>10
  <2>3. IsBlob' => blob'.fetched
    BY <1>7, <1>9, <1>10
  <2>4. calls' > 0 /\ ret' # "crash" => HasValue' /\ Exact'
    <3>1. calls > 0 => Exact /\ target # None
      BY <1>1, <1>2 DEF RowOK
    <3>2. calls > 0 => ExactFor(t)
      BY <1>3, <3>1 DEF Exact
    <3>3. calls' > 0 => ExactFor(t)
      <4>1. CASE ExactFor(t)
        BY <4>1
      <4>2. CASE ~ExactFor(t)
        BY <3>2, <4>2, <1>9
      <4> QED BY <4>1, <4>2
    <3> QED BY <1>5, <1>10, <3>3
  <2>5. row' # 0
    BY <1>1, <1>2, <1>9 DEF TypeOK
  <2> QED BY <1>11, <2>1, <2>2, <2>3, <2>4, <2>5 DEF RowOK
<1>14. ASSUME ExactFor(t), c.ret # "crash"
       PROVE  /\ GivenSoFar(got', calls', ret', rec', whole, ample)
              /\ KeptText(c, t, b) /\ (IsBlob => BlobKept(c, t, b))
  <2>1. /\ w.rec.offset \in Nat /\ w.rec.offset <= Len(whole)
        /\ got = SubSeq(whole, 1, w.rec.offset)
        /\ Moved(got, calls, "success", w.rec, whole)
        /\ (~was => calls = 0)
        /\ was => /\ KeptText(World, t, b)
                  /\ IsBlob => World.blob.fetched /\ BlobKept(World, t, b)
    BY <1>2, <1>3, <1>14, BeforeCall
  <2>2. ConvertHypothesis(World, t, length, b)
    BY <1>3, <2>1 DEF ConvertHypothesis
  <2>3. ConvertExact(c, World, t, length, b)
    BY <1>6, <1>14, <2>2 DEF ExactFor
  <2>4. /\ GivesPiece(c, w, was, whole, length, cap, even)
        /\ KeptText(c, t, b) /\ (IsBlob => BlobKept(c, t, b))
    BY <1>14, <2>3 DEF ConvertExact
  <2>5. whole \in Seq(Unit) /\ (even => Len(whole) % 2 = 0) /\ even \in BOOLEAN
    <3>1. Value \in Seq(Seq(Mem))
      BY <1>1, ValueIs DEF Rows
    <3>2. b \in Seq(Mem)
      BY <3>1, FlattenType DEF Bytes
    <3> HIDE DEF b
    <3> QED BY <3>2, WholeIs DEF EvenOnly, Hex
  <2>6. cap \in Nat /\ ample \in BOOLEAN /\ (ample => cap >= 2 /\ (even => cap % 2 = 0))
    BY CapacityIs DEF Ample, EvenOnly
  <2>7. was \in BOOLEAN /\ calls \in Nat
    BY <1>1 DEF TypeOK, Fetched
  <2>8. calls' = NextCalls(calls, c.ret, ample)
    BY <1>9, <1>14 DEF NextCalls
  <2> HIDE DEF w, whole, b, was, cap, ample, even
  <2>10. StartsFrom(w, was, whole, cap, even, got, calls, ample)
    BY <2>1, <2>5, <2>6, <2>7 DEF StartsFrom
  <2>11. GivesPiece(c, w, was, whole, length, cap, even)
    BY <2>4
  <2>9. GivenSoFar(got \o c.piece, NextCalls(calls, c.ret, ample), c.ret, c.rec, whole, ample)
    BY <2>10, <2>11, PieceGiven
  <2> QED BY <1>9, <2>4, <2>8, <2>9
<1>15. ExactRow' => ExactFor(t) /\ c.ret # "crash"
  BY <1>9, <1>10 DEF ExactRow
<1> HIDE DEF whole, b, ample
<1>16. Given'
  <2>1. Ample(target, room)' = ample
    BY <1>9 DEF Ample, Hex, Capacity, ample
  <2> QED BY <1>10, <1>14, <1>15, <2>1 DEF Given
<1>17. Kept'
  <2>1. PlaceOf(target, rec.offset)' = PlaceOf(t, c.rec.offset)
    BY <1>9, <1>10 DEF PlaceOf
  <2>2. ExactRow' => KeptText(c, t, b) /\ (IsBlob => BlobKept(c, t, b))
    BY <1>14, <1>15
  <2> QED BY <1>7, <1>9, <1>10, <2>1, <2>2 DEF Kept, KeptText, BlobKept, StoredBytes
<1> QED BY <1>12, <1>13, <1>16, <1>17 DEF Inv

-----------------------------------------------------------------------------
\* Every other step keeps it.

\* A row begins with nothing read of it.
LEMMA RowBegins ==
  ASSUME TypeOK', StartRow, HasValue' /\ ~Fresh' => column'.bound # "no" /\ (IsBlob' \/ column'.bound # "wide" => rec'.offset = 0),
         HasValue' /\ ~Fresh' /\ IsBlob' => blob'.fetched
  PROVE  Inv'
<1>1. target' = None /\ room' = 0 /\ got' = << >> /\ calls' = 0 /\ ret' = "success" /\ torn' = FALSE
  BY DEF StartRow
<1>2. RowOK'
  BY <1>1 DEF RowOK
<1> QED BY <1>1, <1>2 DEF Inv, Given, Kept, ExactRow

\* The types after a row is fetched.
LEMMA RowType ==
  ASSUME TypeOK, StartRow, column' = column, table' = table, countFetched' \in Nat,
         row' \in Nat, row' <= Len(table), rec' \in Recs, rec'.current <= countFetched', blob' \in Blobs,
         copy' \in Copies, boundCopy' \in Copies
  PROVE  TypeOK'
<1>1. target' = None /\ room' = 0 /\ got' = << >> /\ calls' = 0 /\ ret' = "success" /\ torn' = FALSE
  BY DEF StartRow
<1>2. << >> \in Seq(Unit)
  OBVIOUS
<1> QED BY <1>1, <1>2 DEF TypeOK, Rets

\* SQLFetch, with and without a bound column.
LEMMA FetchKeeps ==
  ASSUME Inv, Fetch
  PROVE  Inv'
<1> DEFINE r == row + 1 w == RowWorld(r) t == column.bound yes == TRUE
           c == Convert(w, t, BoundLength, yes)
           d == IF column.bound = "no" THEN w ELSE c
<1>1. TypeOK /\ RowOK
  BY DEF Inv
<1>2. /\ row < Len(table) /\ countFetched' = countFetched + 1 /\ row' = r /\ Become(d)
      /\ StartRow /\ column' = column /\ table' = table
  BY DEF Fetch, NewRow, RowWorld
<1>3. r \in 1..Len(table) /\ Len(table) \in Nat /\ countFetched \in Nat /\ rec.current \in Nat
      /\ rec.current <= countFetched /\ rec \in Recs
  BY <1>1, <1>2 DEF TypeOK, Recs
<1> HIDE DEF r
<1>4. /\ AtRow(w) /\ w.rec = rec /\ w.blob = blob /\ w.copy = copy /\ w.boundCopy = boundCopy
      /\ w.count = countFetched + 1 /\ w.value = table[r] /\ ~Fetched(w)
  BY <1>1, <1>3, RowWorldIs
<1> HIDE DEF w
<1>5. Value' = w.value /\ IsBlob' = IsBlob
  BY <1>2, <1>3, <1>4 DEF Value, IsBlob
<1>6. w \in Worlds
  BY <1>4 DEF AtRow, Ready
<1>7. CASE t = "no" \/ w.value = Null
  <2>1. d = w
    <3>1. CASE t = "no"
      BY <3>1
    <3>2. CASE w.value = Null
      BY <3>2 DEF Convert
    <3> QED BY <1>7, <3>1, <3>2
  <2> HIDE DEF d
  <2>2. rec' = rec /\ blob' = blob /\ copy' = copy /\ boundCopy' = boundCopy
    BY <1>2, <1>4, <2>1 DEF Become
  <2>3. rec'.current <= countFetched' /\ countFetched' \in Nat /\ rec'.current # countFetched'
    BY <1>2, <1>3, <2>2
  <2>4. TypeOK'
    <3>1. row' \in Nat /\ row' <= Len(table)
      BY <1>2, <1>3
    <3> QED BY <1>1, <1>2, <2>2, <2>3, <3>1, RowType DEF TypeOK
  <2>5. Fresh'
    BY <2>3 DEF Fresh
  <2> QED BY <1>2, <2>4, <2>5, RowBegins
<1>8. CASE t # "no" /\ w.value # Null
  <2>1. d = c
    BY <1>8
  <2>2. t \in Targets /\ column.static \in BOOLEAN /\ BoundLength \in Nat /\ yes \in BOOLEAN /\ yes
    BY <1>1, <1>8, GetDataConstants DEF TypeOK
  <2>3. Converted(c, w, t, BoundLength, yes)
    <3>1. Hex(t) /\ Fetched(w) => w.rec.offset % 2 = 0
      BY <1>4
    <3> HIDE DEF yes, t
    <3> QED BY <1>4, <2>2, <3>1, ConvertIs
  <2> HIDE DEF c, d, yes
  <2>4. /\ c \in Worlds /\ c.rec.current = countFetched + 1 /\ (IsBlob => c.blob.fetched = TRUE)
        /\ IsBlob \/ t # "wide" => c.rec.offset = 0
    BY <1>4, <1>8, <2>2, <2>3 DEF Converted
  <2>5. rec' = c.rec /\ blob' = c.blob /\ copy' = c.copy /\ boundCopy' = c.boundCopy
    BY <1>2, <2>1 DEF Become
  <2>6. /\ c.rec \in Recs /\ c.blob \in Blobs /\ c.copy \in Copies /\ c.boundCopy \in Copies
    BY <2>4 DEF Worlds
  <2>7. TypeOK'
    <3>1. row' \in Nat /\ row' <= Len(table)
      BY <1>2, <1>3
    <3>2. rec'.current <= countFetched' /\ countFetched' \in Nat
      BY <1>2, <1>3, <2>4, <2>5
    <3> QED BY <1>1, <1>2, <2>5, <2>6, <3>1, <3>2, RowType
  <2>8. column'.bound # "no" /\ (IsBlob' \/ column'.bound # "wide" => rec'.offset = 0)
    BY <1>2, <1>5, <1>8, <2>4, <2>5
  <2>9. IsBlob' => blob'.fetched
    BY <1>5, <2>4, <2>5
  <2> QED BY <1>2, <2>7, <2>8, <2>9, RowBegins
<1> QED BY <1>7, <1>8

\* A bookmark or a position on a row of a static cursor.
LEMMA SetPosKeeps ==
  ASSUME Inv, SetPos
  PROVE  Inv'
<1>1. TypeOK
  BY DEF Inv
<1>2. /\ countFetched' = countFetched + 1 /\ StartRow
      /\ UNCHANGED <<column, table, row, rec, blob, copy, boundCopy>>
  BY DEF SetPos
<1>3. countFetched \in Nat /\ rec.current \in Nat /\ rec.current <= countFetched
  BY <1>1 DEF TypeOK, Recs
<1>4. rec'.current <= countFetched' /\ countFetched' \in Nat /\ rec'.current # countFetched'
  BY <1>2, <1>3
<1>5. TypeOK'
  <2>1. /\ row' \in Nat /\ row' <= Len(table) /\ rec' \in Recs /\ blob' \in Blobs
        /\ copy' \in Copies /\ boundCopy' \in Copies
    BY <1>1, <1>2 DEF TypeOK
  <2> QED BY <1>1, <1>2, <1>4, <2>1, RowType
<1>6. Fresh'
  BY <1>4 DEF Fresh
<1> QED BY <1>2, <1>5, <1>6, RowBegins

\* Before the first bind.
LEMMA NoBlobIs == NoBlob \in Blobs
<1> DEFINE e == Empty(PieceLength)
<1>1. PieceLength \in Nat
  BY PieceLengthEven
<1>2. e \in GoodStream(Mem)
  BY <1>1, EmptyStream
<1> HIDE DEF e
<1>3. NoBlob = [id |-> 0, fetched |-> FALSE, stream |-> e]
  BY DEF NoBlob, e
<1> QED BY <1>2, <1>3 DEF Blobs

\* A statement that is executed anew has no row.
LEMMA ExecuteKeeps ==
  ASSUME Inv, Execute
  PROVE  Inv'
<1>1. TypeOK
  BY DEF Inv
<1>2. /\ countFetched' = 0 /\ row' = 0 /\ rec' = [rec EXCEPT !.current = 0] /\ blob' = NoBlob /\ copy' = None
      /\ StartRow /\ UNCHANGED <<column, table, boundCopy>>
  BY DEF Execute
<1>3. rec' \in Recs /\ rec'.current = 0
  BY <1>1, <1>2 DEF TypeOK, Recs
<1>4. TypeOK'
  <2>1. row' \in Nat /\ row' <= Len(table) /\ countFetched' \in Nat /\ rec'.current <= countFetched'
    BY <1>1, <1>2, <1>3 DEF TypeOK
  <2>2. copy' \in Copies /\ boundCopy' \in Copies /\ blob' \in Blobs
    BY <1>1, <1>2, NoBlobIs DEF TypeOK, Copies
  <2> QED BY <1>1, <1>2, <1>3, <2>1, <2>2, RowType
<1>5. ~HasValue'
  BY <1>2 DEF HasValue
<1> QED BY <1>2, <1>4, <1>5, RowBegins

\* SQLFreeStmt(SQL_UNBIND).
LEMMA UnbindKeeps ==
  ASSUME Inv, Unbind
  PROVE  Inv'
<1>1. TypeOK /\ RowOK /\ Given /\ Kept
  BY DEF Inv
<1>2. /\ copy' = IF IsBlob THEN copy ELSE None
      /\ UNCHANGED <<column, table, countFetched, row, rec, blob, boundCopy, target, room, got, calls, ret, torn>>
  BY DEF Unbind
<1>3. /\ Value' = Value /\ IsBlob' = IsBlob /\ HasValue' = HasValue
      /\ Hex(target)' = Hex(target) /\ WideBytes(target)' = WideBytes(target)
      /\ Whole' = WholeOf(Bytes(Value), target) /\ Exact' = ExactFor(target) /\ Bytes(Value)' = Bytes(Value)
  BY <1>1, <1>2, SameRow
<1>4. Whole' = Whole /\ Exact' = Exact
  BY <1>3 DEF Whole, WholeOf, Units, Exact
<1>5. TypeOK'
  BY <1>1, <1>2 DEF TypeOK, Copies
<1>6. RowOK'
  BY <1>1, <1>2, <1>3, <1>4 DEF RowOK, Fresh
<1>7. ExactRow' = ExactRow
  BY <1>2, <1>3, <1>4 DEF ExactRow
<1>8. Given'
  <2>1. Ample(target, room)' = Ample(target, room)
    BY <1>2 DEF Ample, Hex, Capacity
  <2> QED BY <1>1, <1>2, <1>4, <1>7, <2>1 DEF Given
<1>9. Kept'
  <2>1. PlaceOf(target, rec.offset)' = PlaceOf(target, rec.offset)
    BY <1>2, <1>3 DEF PlaceOf
  <2> QED BY <1>1, <1>2, <1>3, <1>7, <2>1 DEF Kept
<1> QED BY <1>5, <1>6, <1>8, <1>9 DEF Inv

-----------------------------------------------------------------------------
\* The invariant of the module.

\* While the blob is written there is no row.
LEMMA WritingKeeps ==
  ASSUME Inv, row = 0, row' = 0, table' \in Seq(Rows),
         UNCHANGED <<column, countFetched, rec, blob, copy, boundCopy, target, room, got, calls, ret, torn>>
  PROVE  Inv'
<1>1. TypeOK /\ RowOK
  BY DEF Inv
<1>2. target = None /\ got = << >> /\ calls = 0 /\ ret = "success" /\ ~torn
  BY <1>1 DEF RowOK
<1>3. TypeOK'
  <2>1. row' \in Nat /\ row' <= Len(table')
    OBVIOUS
  <2> QED BY <1>1, <2>1 DEF TypeOK
<1>4. ~HasValue'
  BY DEF HasValue
<1>5. RowOK'
  BY <1>2, <1>4 DEF RowOK
<1> QED BY <1>2, <1>3, <1>4, <1>5 DEF Inv, Given, Kept, ExactRow

\* Reading broke off: what was read of the row is no longer followed.
LEMMA FailKeeps ==
  ASSUME Inv, GetFails
  PROVE  Inv'
<1>1. TypeOK /\ RowOK /\ Given /\ Kept
  BY DEF Inv
<1>2. row > 0 /\ ret # NoData /\ ret # "crash" /\ IsBlob /\ Value # Null /\ ~column.static
  BY DEF GetFails
<1> DEFINE w == IF Fetched(World) THEN World ELSE Bind(AtNewRow(World))
           part(k) == SubSeq(Value, 1, k)
           cp(t) == IF t = "wide" /\ ~Hex(t) THEN None ELSE w.copy
           x(t, k) == [w EXCEPT !.blob.stream = FetchInto(@, part(k)), !.copy = IF t = "wide" /\ ~Hex(t) THEN None ELSE @]
<1>3. PICK t \in IF target = None THEN Targets ELSE {target}, k \in 0..Len(Value) :
        /\ ~w.blob.fetched /\ Become(x(t, k)) /\ target' = t /\ ret' = "error" /\ torn' = TRUE
  BY DEF GetFails
<1>4. UNCHANGED <<column, table, countFetched, row, room, got, calls>>
  BY DEF GetFails
<1>5. t \in Targets /\ (target = None \/ t = target)
  BY <1>1, <1>3 DEF TypeOK
<1>6. /\ AtRow(World) /\ Ready(World) /\ World.rec = rec /\ World.blob = blob /\ World.copy = copy
      /\ World.count = countFetched /\ World.row = row /\ World.value = Value /\ (Fetched(World) <=> ~Fresh)
  BY <1>1, <1>2, WorldIs
<1>7. HasValue /\ Value \in Seq(Seq(Mem))
  BY <1>1, <1>2, ValueIs DEF HasValue, Rows
\* What is left of the record and the blob.
<1>8. /\ w \in Worlds /\ w.rec.current = countFetched
      /\ Fetched(World) => w = World
      /\ ~Fetched(World) => w.rec.offset = 0 /\ w.blob.id = row
  <2>1. CASE Fetched(World)
    BY <2>1, <1>6 DEF Ready, Fetched
  <2>2. CASE ~Fetched(World)
    <3> DEFINE a == Start(World)
    <3>1. /\ Ready(a) /\ a.rec.current = countFetched /\ a.row = row /\ a.rec.offset = 0
      BY <1>6, <2>2, StartIs
    <3>2. w = Bind(a)
      BY <2>2 DEF Start
    <3> HIDE DEF a, w
    <3>3. a \in Worlds
      BY <3>1 DEF Ready
    <3>4. BlobOnly(w, a) /\ w.blob.id = a.row
      BY <3>2, <3>3, BindIs
    <3> QED BY <2>2, <3>1, <3>4 DEF BlobOnly
  <2> QED BY <2>1, <2>2
<1> DEFINE s == w.blob.stream p == part(k) r == FetchInto(s, p) q == cp(t) c == x(t, k)
<1>9. p \in Seq(Seq(Mem))
  BY <1>7
<1>10. c = [w EXCEPT !.blob = [w.blob EXCEPT !.stream = r], !.copy = q]
  BY <1>8 DEF Worlds
<1> HIDE DEF w, x, cp, part
<1>11. s \in GoodStream(Mem) /\ w.blob \in Blobs /\ w.copy \in Copies /\ w.rec \in Recs
  BY <1>8, StoredIs DEF Worlds
<1>12. r \in GoodStream(Mem)
  <2> HIDE DEF s, p
  <2> QED BY <1>9, <1>11, FetchIntoAdds
<1> HIDE DEF r
<1>13. q \in Copies
  BY <1>11 DEF cp, Copies
<1> DEFINE b == [w.blob EXCEPT !.stream = r]
<1>14. b \in Blobs /\ b.id = w.blob.id /\ b.fetched = w.blob.fetched
  BY <1>11, <1>12 DEF Blobs
<1> HIDE DEF b, q, c, s, p
<1>15. c.rec = w.rec /\ c.blob = b /\ c.copy = q /\ c.boundCopy = w.boundCopy /\ w.boundCopy \in Copies
  BY <1>8, <1>10 DEF b, Worlds
<1>16. rec' = w.rec /\ blob' = b /\ copy' = q /\ boundCopy' = w.boundCopy
  BY <1>3, <1>15 DEF Become, c
<1>17. TypeOK'
  <2>1. rec' \in Recs /\ rec'.current <= countFetched' /\ blob' \in Blobs /\ copy' \in Copies /\ boundCopy' \in Copies
    BY <1>1, <1>4, <1>8, <1>11, <1>13, <1>14, <1>15, <1>16 DEF TypeOK
  <2>2. target' \in Targets \cup {None} /\ ret' \in Rets /\ torn' \in BOOLEAN
    BY <1>3, <1>5 DEF Rets
  <2> QED BY <1>1, <1>4, <2>1, <2>2 DEF TypeOK
<1>18. target' # None /\ torn' /\ target' = t
  BY <1>3, <1>5, GetDataNames
<1>19. Value' = Value /\ IsBlob' = IsBlob /\ HasValue' = HasValue /\ Hex(target)' = Hex(t)
  BY <1>4, <1>18 DEF Value, IsBlob, HasValue, Hex
<1>20. ~Fresh'
  BY <1>4, <1>8, <1>16 DEF Fresh
<1>21. Hex(t) => w.rec.offset % 2 = 0
  <2>1. 0 % 2 = 0
    OBVIOUS
  <2>2. CASE Fetched(World)
    BY <2>1, <2>2, <1>1, <1>2, <1>5, <1>6, <1>7, <1>8 DEF RowOK
  <2>3. CASE ~Fetched(World)
    BY <2>1, <2>3, <1>8
  <2> QED BY <2>2, <2>3
<1>22. b.id = row
  <2>1. CASE Fetched(World)
    BY <2>1, <1>1, <1>2, <1>3, <1>6, <1>7, <1>8, <1>14 DEF RowOK
  <2>2. CASE ~Fetched(World)
    BY <2>2, <1>8, <1>14
  <2> QED BY <2>1, <2>2
<1>23. calls = 0
  <2>1. SUFFICES ASSUME calls # 0 PROVE FALSE
    OBVIOUS
  <2>2. calls > 0
    BY <1>1, <2>1 DEF TypeOK
  <2>3. ExactRow /\ ~Fresh
    BY <1>1, <1>2, <1>7, <2>2 DEF RowOK, ExactRow
  <2>4. blob.fetched
    BY <1>1, <1>2, <2>3 DEF Kept
  <2> QED BY <1>3, <1>6, <1>8, <2>3, <2>4
<1>24. RowOK'
  <2>1. row' # 0 /\ row' = row /\ calls' = 0
    BY <1>1, <1>2, <1>4, <1>23 DEF TypeOK
  <2> QED BY <1>16, <1>18, <1>19, <1>20, <1>21, <1>22, <2>1 DEF RowOK
<1>25. ~ExactRow'
  BY <1>18 DEF ExactRow, Exact, ExactFor
<1> QED BY <1>17, <1>24, <1>25 DEF Inv, Given, Kept

\* A step that changes nothing.
LEMMA StutterKeeps ==
  ASSUME Inv, UNCHANGED vars
  PROVE  Inv'
<1>1. TypeOK /\ RowOK /\ Given /\ Kept
  BY DEF Inv
<1>2. UNCHANGED <<column, table, countFetched, row, rec, blob, copy, boundCopy, target, room, got, calls, ret, torn>>
  BY DEF vars
<1>3. /\ Value' = Value /\ IsBlob' = IsBlob /\ HasValue' = HasValue
      /\ Hex(target)' = Hex(target) /\ WideBytes(target)' = WideBytes(target)
      /\ Whole' = WholeOf(Bytes(Value), target) /\ Exact' = ExactFor(target) /\ Bytes(Value)' = Bytes(Value)
  BY <1>1, <1>2, SameRow
<1>4. Whole' = Whole /\ Exact' = Exact
  BY <1>3 DEF Whole, WholeOf, Units, Exact
<1>5. TypeOK'
  BY <1>1, <1>2 DEF TypeOK
<1>6. RowOK'
  BY <1>1, <1>2, <1>3, <1>4 DEF RowOK, Fresh
<1>7. ExactRow' = ExactRow
  BY <1>2, <1>3, <1>4 DEF ExactRow
<1>8. Given'
  <2>1. Ample(target, room)' = Ample(target, room)
    BY <1>2 DEF Ample, Hex, Capacity
  <2> QED BY <1>1, <1>2, <1>4, <1>7, <2>1 DEF Given
<1>9. Kept'
  <2>1. PlaceOf(target, rec.offset)' = PlaceOf(target, rec.offset)
    BY <1>2, <1>3 DEF PlaceOf
  <2> QED BY <1>1, <1>2, <1>3, <1>7, <2>1 DEF Kept
<1> QED BY <1>5, <1>6, <1>8, <1>9 DEF Inv

All == Sending /\ Inv

\* The whole invariant at first.
LEMMA AllInit == Init => All
BY SendingInit, InvInit DEF All

\* Every step keeps the whole invariant.
LEMMA AllStep == All /\ [Next]_vars => All'
<1> SUFFICES ASSUME All, [Next]_vars PROVE All'
  OBVIOUS
<1>1. Sending /\ Inv
  BY DEF All
<1>2. Sending'
  BY <1>1, SendingStep
<1>3. table' \in Seq(Rows)
  BY <1>2 DEF Sending
<1>4. Inv'
  <2>1. CASE PutData
    BY <1>1, <1>3, <2>1, WritingKeeps DEF PutData, place, Sending, Writing
  <2>2. CASE EndPut
    <3>1. row = 0 /\ row' = 0
      BY <1>1, <2>2, EndPutSends
    <3> QED BY <1>1, <1>3, <2>2, <3>1, WritingKeeps DEF EndPut, Stored, place
  <2>3. CASE WriteBound
    <3>1. row = 0 /\ row' = 0
      BY <1>1, <2>3, WriteBoundSends
    <3> QED BY <1>1, <1>3, <2>3, <3>1, WritingKeeps DEF WriteBound, Stored, place
  <2>4. CASE Fetch
    BY <1>1, <2>4, FetchKeeps
  <2>5. CASE SetPos
    BY <1>1, <2>5, SetPosKeeps
  <2>6. CASE Execute
    BY <1>1, <2>6, ExecuteKeeps
  <2>7. CASE Unbind
    BY <1>1, <2>7, UnbindKeeps
  <2>8. CASE GetPiece
    BY <1>1, <2>8, NullPiece, PieceGot
  <2>9. CASE GetFails
    BY <1>1, <2>9, FailKeeps
  <2>10. CASE UNCHANGED vars
    BY <1>1, <2>10, StutterKeeps
  <2> QED BY <2>1, <2>2, <2>3, <2>4, <2>5, <2>6, <2>7, <2>8, <2>9, <2>10 DEF Next
<1> QED BY <1>2, <1>4 DEF All

\* The value as the application asks for it.
LEMMA WholeType == ASSUME TypeOK, HasValue, target # None PROVE Whole \in Seq(Unit)
<1>1. Value \in Seq(Seq(Mem)) /\ target \in Targets
  BY ValueIs DEF Rows, HasValue, TypeOK
<1> DEFINE b == Bytes(Value)
<1>2. b \in Seq(Mem)
  BY <1>1, FlattenType DEF Bytes
<1>3. Whole = WholeOf(b, target)
  BY DEF Whole, Units, WholeOf
<1> HIDE DEF b
<1> QED BY <1>1, <1>2, <1>3, WholeIs

\* What the invariant says of the pieces.
LEMMA AllMeans == All => PiecesInOrder /\ EndTold /\ ReadsMove
<1> SUFFICES ASSUME All PROVE PiecesInOrder /\ EndTold /\ ReadsMove
  OBVIOUS
<1>1. TypeOK /\ RowOK /\ Given
  BY DEF All, Inv
<1>2. target # None /\ Value # Null => HasValue
  BY <1>1 DEF RowOK, HasValue, TypeOK
<1>3. NoData # "crash" /\ "success" # NoData
  BY GetDataNames
<1>4. PiecesInOrder
  <2> SUFFICES ASSUME target # None, Value # Null, Exact, ret # "crash"
               PROVE  IsPrefix(got, Whole)
    BY DEF PiecesInOrder
  <2>1. Beginning(got, ret, rec, Whole)
    BY <1>1, <1>2 DEF Given, GivenSoFar, ExactRow
  <2>2. Whole \in Seq(Unit) /\ rec.offset \in Nat
    BY <1>1, <1>2, WholeType DEF TypeOK, Recs
  <2> DEFINE o == rec.offset whole == Whole
  <2>3. got \in Seq(Unit) /\ Len(got) <= Len(whole) /\ \A i \in 1..Len(got) : got[i] = whole[i]
    <3>1. CASE ret = NoData
      BY <2>1, <2>2, <3>1 DEF Beginning
    <3>2. CASE ret # NoData
      <4>1. o \in Nat /\ o <= Len(whole) /\ got = SubSeq(whole, 1, o) /\ whole \in Seq(Unit)
        BY <2>1, <2>2, <3>2 DEF Beginning
      <4> HIDE DEF o, whole
      <4> QED BY <4>1
    <3> QED BY <3>1, <3>2
  <2> QED BY <2>2, <2>3 DEF IsPrefix
<1>5. EndTold
  <2> SUFFICES ASSUME target # None, Value # Null, Exact
               PROVE  /\ ret = NoData => got = Whole
                      /\ ret = "success" /\ Ample(target, room) => got = Whole
    BY DEF EndTold
  <2>1. ret # "crash" => Beginning(got, ret, rec, Whole) /\ Told(got, ret, Whole, Ample(target, room))
    BY <1>1, <1>2 DEF Given, GivenSoFar, ExactRow
  <2> QED BY <1>3, <2>1 DEF Beginning, Told
<1>6. ReadsMove
  <2> SUFFICES ASSUME ret # "crash" PROVE calls <= Most2(1, Len(got))
    BY DEF ReadsMove
  <2>1. calls \in Nat /\ Len(got) \in Nat
    BY <1>1 DEF TypeOK
  <2>2. CASE calls = 0
    BY <2>1, <2>2 DEF Most2
  <2>3. CASE calls > 0
    <3>1. ExactRow
      BY <1>1, <2>3 DEF RowOK, ExactRow
    <3>2. calls <= Len(got) \/ calls = 1
      BY <1>1, <2>3, <3>1 DEF Given, GivenSoFar, Moved
    <3> QED BY <2>1, <3>2 DEF Most2
  <2> QED BY <2>1, <2>2, <2>3
<1> QED BY <1>4, <1>5, <1>6

(***************************************************************************)
(* What the calls of SQLGetData gave of a value, one after the other, is   *)
(* the beginning of the value of this row: nothing is given twice, left    *)
(* out or given out of its place, for any value, segments, room and        *)
(* target, whatever was read, repositioned or executed again before        *)
(* (OdbcConvert.cpp 2609-3039, 3214-3356, 3492-3553, 3895-4098).  Exact    *)
(* leaves out what the code does not give in pieces: a blob of a static    *)
(* cursor, a bound column read again as wide text or as a blob, a row a    *)
(* failed read broke off.                                                  *)
(***************************************************************************)
THEOREM InOrder == Spec => []PiecesInOrder
BY AllInit, AllStep, AllMeans, PTL DEF Spec

(***************************************************************************)
(* SQL_NO_DATA comes when all of the value was given, and a call that      *)
(* returns SQL_SUCCESS has given the last of it: no piece is cut short     *)
(* without the application being told (OdbcConvert.cpp 2646-2676).         *)
(***************************************************************************)
THEOREM ToldEnd == Spec => []EndTold
BY AllInit, AllStep, AllMeans, PTL DEF Spec

(***************************************************************************)
(* A loop that offers room at every call comes to the end of the value:    *)
(* every call but one on an empty value gives something, or says that      *)
(* there is no more (OdbcConvert.cpp 2646-2676).                           *)
(***************************************************************************)
THEOREM Moves == Spec => []ReadsMove
BY AllInit, AllStep, AllMeans, PTL DEF Spec
=============================================================================
