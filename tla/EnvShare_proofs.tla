--------------------------- MODULE EnvShare_proofs ---------------------------
(***************************************************************************)
(* Proofs about EnvShare.  The part that every call keeps (IInv) adds to   *)
(* the types and to HandlesOpen that a connected handle has an object of   *)
(* its own, which is alive: closing a connection then frees nobody else's. *)
(* The list of the common connection needs more: Linked, which is kept by  *)
(* every call but a join that finds the list full.                         *)
(*                                                                         *)
(* The C++ methods are operators on worlds, and so are the lemmas: what a  *)
(* method leaves of a good world (Leaves, Ends, Moved), then what each     *)
(* call leaves of the variables (the lemmas named ...Safe).                *)
(***************************************************************************)
EXTENDS EnvShare, FiniteSetTheorems, SequenceTheorems, WellFoundedInduction, TLAPS

-----------------------------------------------------------------------------
\* Lists without repetition.

LEMMA RangeOf ==
  ASSUME NEW S, NEW s \in Seq(S)
  PROVE  /\ Len(s) \in Nat /\ DOMAIN s = 1 .. Len(s)
         /\ \A i \in 1 .. Len(s) : s[i] \in S /\ s[i] \in Range(s)
         /\ \A e \in Range(s) : \E i \in 1 .. Len(s) : s[i] = e
         /\ Range(s) \subseteq S
  BY DEF Range

LEMMA AppendList ==
  ASSUME NEW S, NEW s \in Seq(S), NEW e \in S, IsInjective(s), e \notin Range(s)
  PROVE  /\ Append(s, e) \in Seq(S)
         /\ Len(Append(s, e)) = Len(s) + 1
         /\ IsInjective(Append(s, e))
         /\ Range(Append(s, e)) = Range(s) \cup {e}
<1> DEFINE a == Append(s, e)
<1>1. /\ a \in Seq(S) /\ Len(s) \in Nat /\ Len(a) = Len(s) + 1
      /\ \A i \in 1 .. Len(s) : a[i] = s[i]
      /\ a[Len(s) + 1] = e
  OBVIOUS
<1>2. DOMAIN a = 1 .. Len(s) + 1 /\ DOMAIN s = 1 .. Len(s)
  BY <1>1
<1> HIDE DEF a
<1>3. \A i \in 1 .. Len(s) : a[i] # e
  BY <1>1, RangeOf
<1>4. IsInjective(a)
  <2> SUFFICES ASSUME NEW i \in 1 .. Len(s) + 1, NEW j \in 1 .. Len(s) + 1, a[i] = a[j]
               PROVE  i = j
    BY <1>2 DEF IsInjective
  <2>1. CASE i \in 1 .. Len(s) /\ j \in 1 .. Len(s)
    BY <2>1, <1>1, <1>2 DEF IsInjective
  <2>2. CASE i = Len(s) + 1 \/ j = Len(s) + 1
    <3>1. \A k \in 1 .. Len(s) + 1 : k = Len(s) + 1 \/ k \in 1 .. Len(s)
      BY <1>1
    <3> QED BY <2>2, <3>1, <1>1, <1>3
  <2> QED BY <2>1, <2>2, <1>1
<1>5. Range(a) = Range(s) \cup {e}
  <2>1. ASSUME NEW x \in Range(a) PROVE x \in Range(s) \cup {e}
    BY <1>1, <1>2 DEF Range
  <2>2. ASSUME NEW x \in Range(s) PROVE x \in Range(a)
    <3>1. PICK i \in 1 .. Len(s) : s[i] = x
      BY RangeOf
    <3> QED BY <3>1, <1>1, <1>2 DEF Range
  <2>3. e \in Range(a)
    BY <1>1, <1>2 DEF Range
  <2> QED BY <2>1, <2>2, <2>3
<1> QED BY <1>1, <1>4, <1>5 DEF a

LEMMA RemoveList ==
  ASSUME NEW S, NEW s \in Seq(S), NEW e, IsInjective(s), e \in Range(s)
  PROVE  /\ RemoveFirst(s, e) \in Seq(S)
         /\ Len(RemoveFirst(s, e)) = Len(s) - 1
         /\ IsInjective(RemoveFirst(s, e))
         /\ Range(RemoveFirst(s, e)) = Range(s) \ {e}
<1>1. PICK k \in 1 .. Len(s) : s[k] = e
  BY RangeOf
<1>l. Len(s) \in Nat /\ DOMAIN s = 1 .. Len(s) /\ \A i \in 1 .. Len(s) : s[i] \in S
  BY RangeOf
<1>k. Len(s) \in Nat /\ k \in Nat /\ 1 <= k /\ k <= Len(s)
  BY <1>l
<1>2. \A i \in 1 .. Len(s) : s[i] = e <=> i = k
  BY <1>1, <1>l DEF IsInjective
<1> DEFINE I == {i \in 1 .. Len(s) : s[i] = e}
<1>3. I = {k}
  BY <1>2
<1>4. SelectInSeq(s, LAMBDA v : v = e) = k
  <2>1. Min(I) = k
    BY <1>3 DEF Min
  <2> QED BY <1>3, <2>1 DEF SelectInSeq
<1> DEFINE b == SubSeq(s, 1, k - 1)
           c == SubSeq(s, k + 1, Len(s))
           r == RemoveFirst(s, e)
<1>5. r = b \o c
  <2>1. \E i \in 1 .. Len(s) : s[i] = e
    BY <1>1
  <2> QED BY <2>1, <1>4 DEF RemoveFirst, RemoveAt
<1>6. /\ b \in Seq(S) /\ Len(b) = k - 1
      /\ \A i \in 1 .. k - 1 : b[i] = s[i]
  <2>1. 1 \in Int /\ k - 1 \in Int /\ \A i \in 1 .. k - 1 : s[i] \in S
    BY <1>l
  <2>2. /\ b \in Seq(S)
        /\ Len(b) = IF 1 <= k - 1 THEN k - 1 - 1 + 1 ELSE 0
        /\ \A i \in 1 .. k - 1 - 1 + 1 : b[i] = s[1 + i - 1]
    BY <2>1, SubSeqProperties
  <2> HIDE DEF b
  <2> QED BY <2>2, <1>l
<1>7. /\ c \in Seq(S) /\ Len(c) = Len(s) - k
      /\ \A i \in 1 .. Len(s) - k : c[i] = s[k + i]
  <2>1. k + 1 \in Int /\ Len(s) \in Int /\ \A i \in k + 1 .. Len(s) : s[i] \in S
    BY <1>l
  <2>2. /\ c \in Seq(S)
        /\ Len(c) = IF k + 1 <= Len(s) THEN Len(s) - (k + 1) + 1 ELSE 0
        /\ \A i \in 1 .. Len(s) - (k + 1) + 1 : c[i] = s[k + 1 + i - 1]
    BY <2>1, SubSeqProperties
  <2> HIDE DEF c
  <2>3. Len(s) - (k + 1) + 1 = Len(s) - k /\ (k + 1 <= Len(s) <=> Len(s) - k > 0)
        /\ Len(s) - k >= 0
    BY <1>l
  <2>4. \A i \in 1 .. Len(s) - k : k + 1 + i - 1 = k + i
    BY <1>l
  <2>5. Len(c) = Len(s) - k
    <3>1. CASE k + 1 <= Len(s)
      BY <3>1, <2>2, <2>3
    <3>2. CASE ~(k + 1 <= Len(s))
      <4>1. Len(s) - k = 0
        <5> DEFINE n == Len(s)
        <5>1. n \in Nat /\ ~(k + 1 <= n) /\ k <= n
          BY <3>2, <1>k
        <5> HIDE DEF n
        <5> QED BY <5>1, <1>k DEF n
      <4> QED BY <3>2, <4>1, <2>2
    <3> QED BY <3>1, <3>2
  <2>6. \A i \in 1 .. Len(s) - k : c[i] = s[k + i]
    BY <2>2, <2>3, <2>4
  <2> QED BY <2>2, <2>5, <2>6
<1> HIDE DEF b, c, r
<1>8. /\ r \in Seq(S) /\ Len(r) = Len(s) - 1
      /\ \A i \in 1 .. Len(s) - 1 : r[i] = IF i <= k - 1 THEN s[i] ELSE s[i + 1]
  <2>1. /\ r \in Seq(S) /\ Len(r) = Len(b) + Len(c)
        /\ \A i \in 1 .. Len(b) + Len(c) :
             r[i] = IF i <= Len(b) THEN b[i] ELSE c[i - Len(b)]
    BY <1>5, <1>6, <1>7, ConcatProperties
  <2>2. Len(b) + Len(c) = Len(s) - 1
    BY <1>6, <1>7, <1>l
  <2>3. ASSUME NEW i \in 1 .. Len(s) - 1
        PROVE  r[i] = IF i <= k - 1 THEN s[i] ELSE s[i + 1]
    <3>1. CASE i <= k - 1
      BY <3>1, <2>1, <2>2, <1>6, <1>l
    <3>2. CASE ~(i <= k - 1)
      <4>1. i - (k - 1) \in 1 .. Len(s) - k /\ k + (i - (k - 1)) = i + 1
        BY <3>2, <1>l
      <4>2. ~(i <= Len(b)) /\ i - Len(b) = i - (k - 1)
        BY <3>2, <1>6, <1>l
      <4>3. r[i] = c[i - Len(b)]
        BY <4>2, <2>1, <2>2
      <4>4. c[i - (k - 1)] = s[i + 1]
        BY <4>1, <1>7
      <4> QED BY <3>2, <4>2, <4>3, <4>4
    <3> QED BY <3>1, <3>2
  <2> QED BY <2>1, <2>2, <2>3
<1>9. DOMAIN r = 1 .. Len(s) - 1
  BY <1>8
<1>10. IsInjective(r)
  <2> SUFFICES ASSUME NEW i \in 1 .. Len(s) - 1, NEW j \in 1 .. Len(s) - 1, r[i] = r[j]
               PROVE  i = j
    BY <1>9 DEF IsInjective
  <2> DEFINE At(n) == IF n <= k - 1 THEN n ELSE n + 1
  <2>1. /\ At(i) \in 1 .. Len(s) /\ At(j) \in 1 .. Len(s)
        /\ r[i] = s[At(i)] /\ r[j] = s[At(j)]
    BY <1>8, <1>l
  <2>2. At(i) = At(j)
    <3> HIDE DEF At
    <3> QED BY <2>1, <1>l DEF IsInjective
  <2> QED BY <2>2, <1>l
<1>11. Range(r) = Range(s) \ {e}
  <2>1. ASSUME NEW x \in Range(r) PROVE x \in Range(s) \ {e}
    <3>1. PICK i \in 1 .. Len(s) - 1 : r[i] = x
      BY <1>9 DEF Range
    <3>2. PICK n \in 1 .. Len(s) : n # k /\ x = s[n]
      <4>1. CASE i <= k - 1
        BY <4>1, <3>1, <1>8, <1>l
      <4>2. CASE ~(i <= k - 1)
        <5>1. i + 1 \in 1 .. Len(s) /\ i + 1 # k /\ x = s[i + 1]
          BY <4>2, <3>1, <1>8, <1>l
        <5> QED BY <5>1
      <4> QED BY <4>1, <4>2
    <3> QED BY <3>2, <1>2, RangeOf
  <2>2. ASSUME NEW x \in Range(s), x # e PROVE x \in Range(r)
    <3>1. PICK n \in 1 .. Len(s) : s[n] = x
      BY RangeOf
    <3>2. n # k
      BY <2>2, <3>1, <1>1
    <3>3. CASE n <= k - 1
      <4>1. n \in 1 .. Len(s) - 1 /\ r[n] = x
        BY <3>1, <3>3, <1>8, <1>l
      <4> QED BY <4>1, <1>9 DEF Range
    <3>4. CASE ~(n <= k - 1)
      <4>1. /\ n - 1 \in 1 .. Len(s) - 1 /\ ~(n - 1 <= k - 1)
            /\ n - 1 + 1 = n
        BY <3>2, <3>4, <1>l
      <4>2. r[n - 1] = x
        BY <4>1, <3>1, <1>8
      <4> QED BY <4>1, <4>2, <1>9 DEF Range
    <3> QED BY <3>3, <3>4
  <2> QED BY <2>1, <2>2
<1> QED BY <1>8, <1>10, <1>11 DEF r

LEMMA LeastNatural ==
  ASSUME NEW T \in SUBSET Nat, T # {}
  PROVE  \E x \in T : \A y \in T : x <= y
<1>1. PICK x \in T : \A y \in T : <<y, x>> \notin OpToRel(<, Nat)
  BY WFMin, NatLessThanWellFounded, Zenon
<1>2. x \in Nat /\ \A y \in T : y \in Nat /\ ~(y < x)
  BY <1>1, Zenon DEF OpToRel
<1> QED BY <1>2

LEMMA RemoveFirstIn ==
  ASSUME NEW S, NEW s \in Seq(S), NEW e
  PROVE  RemoveFirst(s, e) \in Seq(S)
<1> DEFINE I == {i \in 1 .. Len(s) : s[i] = e}
           k == SelectInSeq(s, LAMBDA v : v = e)
<1>1. CASE \E i \in 1 .. Len(s) : s[i] = e
  <2>1. I # {} /\ I \in SUBSET Nat
    BY <1>1
  <2>2. PICK m \in I : \A y \in I : m <= y
    <3> HIDE DEF I
    <3> QED BY <2>1, LeastNatural
  <2>3. Min(I) \in I
    <3> HIDE DEF I
    <3> QED BY <2>2, Zenon DEF Min
  <2>4. k = Min(I)
    BY <2>1 DEF SelectInSeq
  <2>5. k \in 1 .. Len(s)
    BY <2>3, <2>4
  <2>6. RemoveFirst(s, e) = SubSeq(s, 1, k - 1) \o SubSeq(s, k + 1, Len(s))
    BY <1>1 DEF RemoveFirst, RemoveAt
  <2> HIDE DEF k
  <2>7. /\ SubSeq(s, 1, k - 1) \in Seq(S)
        /\ SubSeq(s, k + 1, Len(s)) \in Seq(S)
    <3>1. /\ 1 \in Int /\ k - 1 \in Int /\ k + 1 \in Int /\ Len(s) \in Int
          /\ \A i \in 1 .. k - 1 : s[i] \in S
          /\ \A i \in k + 1 .. Len(s) : s[i] \in S
      BY <2>5, RangeOf
    <3> QED BY <3>1, SubSeqProperties
  <2> QED BY <2>6, <2>7, ConcatProperties
<1>2. CASE ~\E i \in 1 .. Len(s) : s[i] = e
  BY <1>2 DEF RemoveFirst
<1> QED BY <1>1, <1>2

-----------------------------------------------------------------------------
\* What is true of a world, and what a method does to it.

World == [isc: [Isc -> IscInfo], connections: Seq(Isc), shared: Tx \cup {None},
          open: SUBSET Tx, work: SUBSET Tx, ret: {"ok", "error", "crash"}]

HandlesIn(w) ==
  /\ w.shared # None => w.shared \in w.open
  /\ \A c \in Isc : w.isc[c].handle # None =>
       /\ w.isc[c].handle \in w.open \ {w.shared}
       /\ \A e \in Isc \ {c} : w.isc[e].handle # w.isc[c].handle

Good(w) == w \in World /\ HandlesIn(w)

\* No method but those that change the list touches who is alive and who is
\* a member.
SameList(w, v) ==
  /\ v.connections = w.connections
  /\ \A c \in Isc : /\ v.isc[c].alive = w.isc[c].alive
                    /\ v.isc[c].shareConnected = w.isc[c].shareConnected

\* The common transaction goes on, with its work.
Kept(w, v) ==
  w.shared # None =>
    v.shared = w.shared /\ (w.shared \in w.work => w.shared \in v.work)

Leaves(w, v) == Good(v) /\ SameList(w, v) /\ Kept(w, v)

LeavesAll(w, W) == \A v \in W : Leaves(w, v)

LEMMA LeavesItself ==
  ASSUME NEW w, Good(w)
  PROVE  Leaves(w, w)
BY DEF Leaves, SameList, Kept

LEMMA LeavesOn ==
  ASSUME NEW w, NEW v, NEW u, Leaves(w, v), Leaves(v, u)
  PROVE  Leaves(w, u)
BY DEF Leaves, SameList, Kept

LEMMA LeavesRet ==
  ASSUME NEW w, Good(w), NEW r \in {"ok", "error", "crash"}
  PROVE  Leaves(w, [w EXCEPT !.ret = r])
<1> DEFINE v == [w EXCEPT !.ret = r]
<1>1. /\ v \in World /\ v.isc = w.isc /\ v.connections = w.connections
      /\ v.shared = w.shared /\ v.open = w.open /\ v.work = w.work
  BY DEF Good, World
<1> HIDE DEF v
<1>2. HandlesIn(v)
  BY <1>1 DEF Good, HandlesIn
<1>3. Leaves(w, v)
  BY <1>1, <1>2 DEF Leaves, Good, SameList, Kept
<1> QED BY <1>3 DEF v

LEMMA LeavesThrow ==
  ASSUME NEW w, NEW v, Leaves(w, v)
  PROVE  Leaves(w, Throw(v)) /\ Leaves(w, Crash(v))
BY LeavesRet, LeavesOn DEF Leaves, Throw, Crash

LEMMA LeavesRefused ==
  ASSUME NEW w, NEW W, LeavesAll(w, W), NEW request
  PROVE  LeavesAll(w, Refused(request, W))
BY LeavesThrow DEF Refused, LeavesAll

\* Fields of a connection other than its handle and its place in the list.
LEMMA LeavesIsc ==
  ASSUME NEW w, Good(w), NEW c \in Isc, NEW x \in IscInfo,
         x.handle = w.isc[c].handle, x.alive = w.isc[c].alive,
         x.shareConnected = w.isc[c].shareConnected
  PROVE  Leaves(w, [w EXCEPT !.isc[c] = x])
<1> DEFINE v == [w EXCEPT !.isc[c] = x]
<1>1. /\ v \in World /\ v.isc = [w.isc EXCEPT ![c] = x]
      /\ v.connections = w.connections /\ v.shared = w.shared
      /\ v.open = w.open /\ v.work = w.work
  BY DEF Good, World
<1> HIDE DEF v
<1>2. \A e \in Isc : /\ v.isc[e].handle = w.isc[e].handle
                     /\ v.isc[e].alive = w.isc[e].alive
                     /\ v.isc[e].shareConnected = w.isc[e].shareConnected
  BY <1>1 DEF Good, World
<1>3. HandlesIn(v)
  BY <1>1, <1>2 DEF Good, HandlesIn
<1>4. Leaves(w, v)
  BY <1>1, <1>2, <1>3 DEF Leaves, Good, SameList, Kept
<1> QED BY <1>4 DEF v

LEMMA IscOfGood ==
  ASSUME NEW w, Good(w), NEW c \in Isc
  PROVE  w.isc[c] \in IscInfo
BY DEF Good, World

LEMMA LeavesPending ==
  ASSUME NEW w, Good(w), NEW c \in Isc, NEW b \in BOOLEAN
  PROVE  Leaves(w, [w EXCEPT !.isc[c].pending = b])
<1> DEFINE x == [w.isc[c] EXCEPT !.pending = b]
<1>1. /\ x \in IscInfo /\ x.handle = w.isc[c].handle /\ x.alive = w.isc[c].alive
      /\ x.shareConnected = w.isc[c].shareConnected
  BY IscOfGood DEF IscInfo
<1>2. [w EXCEPT !.isc[c].pending = b] = [w EXCEPT !.isc[c] = x]
  OBVIOUS
<1> HIDE DEF x
<1> QED BY <1>1, <1>2, LeavesIsc

LEMMA LeavesNoPending ==
  ASSUME NEW w, Good(w), NEW c \in Isc
  PROVE  Leaves(w, NoPending(w, c))
BY LeavesPending DEF NoPending

-----------------------------------------------------------------------------
\* The connection's own transaction.

\* Nobody else has the transaction that ends, and it is not the common one.
LEMMA LeavesDropped ==
  ASSUME NEW w, Good(w), NEW c \in Isc, w.isc[c].handle # None
  PROVE  /\ Leaves(w, Dropped(w, c))
         /\ Dropped(w, c).work = w.work \ {w.isc[c].handle}
<1> DEFINE t == w.isc[c].handle
           x == [w.isc[c] EXCEPT !.handle = None]
           v == [w EXCEPT !.open = @ \ {t}, !.work = @ \ {t},
                          !.isc = [w.isc EXCEPT ![c] = x]]
<1>1. Dropped(w, c) = v
  BY DEF Dropped, Ended, Good, World
<1>2. x \in IscInfo /\ x.handle = None /\ x.alive = w.isc[c].alive
      /\ x.shareConnected = w.isc[c].shareConnected
  BY IscOfGood DEF IscInfo
<1>3. /\ v \in World /\ v.isc = [w.isc EXCEPT ![c] = x]
      /\ v.connections = w.connections /\ v.shared = w.shared
      /\ v.open = w.open \ {t} /\ v.work = w.work \ {t}
  <2> HIDE DEF x, t
  <2> QED BY <1>2 DEF Good, World
<1>4. \A e \in Isc : /\ v.isc[e].alive = w.isc[e].alive
                     /\ v.isc[e].shareConnected = w.isc[e].shareConnected
                     /\ v.isc[e].handle = IF e = c THEN None ELSE w.isc[e].handle
  <2> HIDE DEF v, x, t
  <2> QED BY <1>2, <1>3 DEF Good, World
<1>5. t \in w.open /\ t # w.shared /\ \A e \in Isc \ {c} : w.isc[e].handle # t
  BY DEF Good, HandlesIn
<1>6. HandlesIn(v)
  <2> HIDE DEF v, t
  <2>1. \A e \in Isc : w.isc[e].handle # None =>
          /\ w.isc[e].handle \in w.open \ {w.shared}
          /\ \A f \in Isc \ {e} : w.isc[f].handle # w.isc[e].handle
    BY DEF Good, HandlesIn
  <2>2. v.shared # None => v.shared \in v.open
    BY <1>3, <1>5 DEF Good, HandlesIn
  <2>3. ASSUME NEW e \in Isc, v.isc[e].handle # None
        PROVE  /\ v.isc[e].handle \in v.open \ {v.shared}
               /\ \A f \in Isc \ {e} : v.isc[f].handle # v.isc[e].handle
    BY <2>1, <2>3, <1>3, <1>4, <1>5
  <2> QED BY <2>2, <2>3 DEF HandlesIn
<1>7. Leaves(w, v)
  <2> HIDE DEF v, t
  <2> QED BY <1>3, <1>4, <1>5, <1>6 DEF Leaves, Good, SameList, Kept
<1> QED BY <1>1, <1>3, <1>7

LEMMA LeavesRollback ==
  ASSUME NEW w, Good(w), NEW c \in Isc
  PROVE  LeavesAll(w, Rollback(w, c))
<1>1. CASE w.isc[c].handle = None
  BY <1>1, LeavesNoPending DEF Rollback, LeavesAll
<1>2. CASE w.isc[c].handle # None
  <2> DEFINE v == Dropped(w, c)
  <2>1. Leaves(w, v)
    BY <1>2, LeavesDropped
  <2> HIDE DEF v
  <2>2. Leaves(w, NoPending(v, c))
    BY <2>1, LeavesNoPending, LeavesOn DEF Leaves
  <2>3. LeavesAll(w, Refused("rollback", {v}))
    BY <2>1, LeavesRefused DEF LeavesAll
  <2>4. Rollback(w, c) = {NoPending(v, c)} \cup Refused("rollback", {v})
    BY <1>2 DEF Rollback, v
  <2> QED BY <2>2, <2>3, <2>4 DEF LeavesAll
<1> QED BY <1>1, <1>2

LEMMA LeavesCommit ==
  ASSUME NEW w, Good(w), NEW c \in Isc
  PROVE  LeavesAll(w, Commit(w, c))
<1>1. CASE w.isc[c].handle = None
  BY <1>1, LeavesNoPending DEF Commit, LeavesAll
<1>2. CASE w.isc[c].handle # None
  <2> DEFINE v == Dropped(w, c)
  <2>1. Leaves(w, v)
    BY <1>2, LeavesDropped
  <2> HIDE DEF v
  <2>2. Leaves(w, NoPending(v, c))
    BY <2>1, LeavesNoPending, LeavesOn DEF Leaves
  <2>3. LeavesAll(w, Refused("commit", Rollback(w, c)))
    BY LeavesRollback, LeavesRefused
  <2>4. Commit(w, c) = {NoPending(v, c)} \cup Refused("commit", Rollback(w, c))
    BY <1>2 DEF Commit, v
  <2> QED BY <2>2, <2>3, <2>4 DEF LeavesAll
<1> QED BY <1>1, <1>2

LEMMA LeavesEnd ==
  ASSUME NEW w, Good(w), NEW c \in Isc, NEW op
  PROVE  LeavesAll(w, End(w, c, op))
BY LeavesRollback, LeavesCommit DEF End

-----------------------------------------------------------------------------
\* Starting a transaction and working in it.

LEMMA LeavesStart ==
  ASSUME NEW w, Good(w), NEW c \in Isc, w.isc[c].handle = None
  PROVE  LeavesAll(w, Start(w, c))
<1> DEFINE U(t) == [w EXCEPT !.open = @ \cup {t},
                             !.isc[c].handle = t,
                             !.isc[c].pending = @ \/ ~w.isc[c].auto]
           p    == w.isc[c].pending \/ ~w.isc[c].auto
<1>1. ASSUME NEW t \in Tx \ w.open
      PROVE  Leaves(w, U(t))
  <2> DEFINE x == [w.isc[c] EXCEPT !.handle = t, !.pending = p]
             v == [w EXCEPT !.open = @ \cup {t}, !.isc = [w.isc EXCEPT ![c] = x]]
  <2>1. U(t) = v
    <3>1. w \in World /\ w.isc \in [Isc -> IscInfo] /\ w.isc[c] \in IscInfo
      BY DEF Good, World
    <3>2. [w.isc EXCEPT ![c].handle = t, ![c].pending = @ \/ ~w.isc[c].auto]
            = [w.isc EXCEPT ![c] = x]
      BY <3>1, Zenon DEF IscInfo
    <3> HIDE DEF x
    <3> QED BY <3>1, <3>2 DEF World
  <2>2. x \in IscInfo /\ x.handle = t /\ x.alive = w.isc[c].alive
        /\ x.shareConnected = w.isc[c].shareConnected
    <3>1. ASSUME NEW y \in IscInfo, NEW b \in BOOLEAN
          PROVE  LET z == [y EXCEPT !.handle = t, !.pending = b]
                 IN  z \in IscInfo /\ z.handle = t /\ z.alive = y.alive
                       /\ z.shareConnected = y.shareConnected
      BY DEF IscInfo
    <3>2. p \in BOOLEAN /\ w.isc[c] \in IscInfo
      <4>1. w.isc[c] \in IscInfo
        BY IscOfGood
      <4> QED BY <4>1, Zenon DEF IscInfo
    <3> HIDE DEF p
    <3> QED BY <3>1, <3>2
  <2>3. /\ v \in World /\ v.isc = [w.isc EXCEPT ![c] = x]
        /\ v.connections = w.connections /\ v.shared = w.shared
        /\ v.open = w.open \cup {t} /\ v.work = w.work
    <3> HIDE DEF x
    <3> QED BY <2>2 DEF Good, World
  <2> HIDE DEF v, x
  <2>4. \A e \in Isc : /\ v.isc[e].alive = w.isc[e].alive
                       /\ v.isc[e].shareConnected = w.isc[e].shareConnected
                       /\ v.isc[e].handle = IF e = c THEN t ELSE w.isc[e].handle
    BY <2>2, <2>3 DEF Good, World
  <2>5. t # None /\ t # w.shared /\ \A e \in Isc : w.isc[e].handle # t
    BY ConstantsAssumption DEF Good, HandlesIn
  <2>6. HandlesIn(v)
    <3>1. \A e \in Isc : w.isc[e].handle # None =>
            /\ w.isc[e].handle \in w.open \ {w.shared}
            /\ \A f \in Isc \ {e} : w.isc[f].handle # w.isc[e].handle
      BY DEF Good, HandlesIn
    <3>2. v.shared # None => v.shared \in v.open
      BY <2>3 DEF Good, HandlesIn
    <3>3. ASSUME NEW e \in Isc, v.isc[e].handle # None
          PROVE  /\ v.isc[e].handle \in v.open \ {v.shared}
                 /\ \A f \in Isc \ {e} : v.isc[f].handle # v.isc[e].handle
      BY <3>1, <3>3, <2>3, <2>4, <2>5
    <3> QED BY <3>2, <3>3 DEF HandlesIn
  <2>7. Leaves(w, v)
    BY <2>3, <2>4, <2>6 DEF Leaves, Good, SameList, Kept
  <2> QED BY <2>1, <2>7
<1>2. LeavesAll(w, Refused("start", {w}))
  BY LeavesItself, LeavesRefused DEF LeavesAll
<1>3. Start(w, c) = {U(t) : t \in Tx \ w.open} \cup Refused("start", {w})
  BY DEF Start
<1> HIDE DEF U
<1> QED BY <1>1, <1>2, <1>3 DEF LeavesAll

\* The new common transaction is nobody's own.
LEMMA LeavesJoined ==
  ASSUME NEW w, Good(w), w.shared = None, NEW t \in Tx \ w.open
  PROVE  Leaves(w, Joined(w, t))
<1> DEFINE J == [c \in Isc |-> IF c \in Members(w) THEN [w.isc[c] EXCEPT !.att = t]
                                                 ELSE w.isc[c]]
           v == Joined(w, t)
<1>1. \A c \in Isc : /\ J[c] \in IscInfo /\ J[c].handle = w.isc[c].handle
                     /\ J[c].alive = w.isc[c].alive
                     /\ J[c].shareConnected = w.isc[c].shareConnected
  <2>1. ASSUME NEW x \in IscInfo
        PROVE  LET y == [x EXCEPT !.att = t]
               IN  y \in IscInfo /\ y.handle = x.handle /\ y.alive = x.alive
                     /\ y.shareConnected = x.shareConnected
    BY DEF IscInfo
  <2> QED BY <2>1, IscOfGood
<1>2. /\ v \in World /\ v.isc = J /\ v.connections = w.connections
      /\ v.shared = t /\ v.open = w.open \cup {t} /\ v.work = w.work
  <2>1. J \in [Isc -> IscInfo]
    BY <1>1
  <2>2. v = [w EXCEPT !.shared = t, !.open = @ \cup {t}, !.isc = J]
    BY DEF Joined
  <2> HIDE DEF J, v
  <2> QED BY <2>1, <2>2 DEF Good, World
<1> HIDE DEF v, J
<1>3. HandlesIn(v)
  <2>1. \A e \in Isc : w.isc[e].handle # None =>
          /\ w.isc[e].handle \in w.open
          /\ \A f \in Isc \ {e} : w.isc[f].handle # w.isc[e].handle
    BY DEF Good, HandlesIn
  <2> QED BY <2>1, <1>1, <1>2 DEF HandlesIn
<1>4. Leaves(w, v)
  BY <1>1, <1>2, <1>3 DEF Leaves, Good, SameList, Kept
<1> QED BY <1>4 DEF v

LEMMA LeavesEnvStart ==
  ASSUME NEW w, Good(w)
  PROVE  LeavesAll(w, EnvStartTransaction(w))
<1>1. Leaves(w, w) /\ Leaves(w, Crash(w))
  BY LeavesItself, LeavesThrow
<1>2. LeavesAll(w, Refused("start", {w}))
  BY <1>1, LeavesRefused DEF LeavesAll
<1>3. w.shared = None => \A t \in Tx \ w.open : Leaves(w, Joined(w, t))
  BY LeavesJoined
<1> QED BY <1>1, <1>2, <1>3 DEF EnvStartTransaction, LeavesAll

LEMMA LeavesStartTransaction ==
  ASSUME NEW w, Good(w), NEW c \in Isc
  PROVE  LeavesAll(w, StartTransaction(w, c))
<1> DEFINE F(v) == {[v EXCEPT !.isc[c].pending = TRUE]}
<1>1. LeavesAll(w, Then(EnvStartTransaction(w), F))
  <2>1. ASSUME NEW v \in EnvStartTransaction(w) PROVE Leaves(w, v) /\ LeavesAll(w, F(v))
    <3>1. Leaves(w, v)
      BY LeavesEnvStart DEF LeavesAll
    <3>2. Leaves(v, [v EXCEPT !.isc[c].pending = TRUE])
      BY <3>1, LeavesPending DEF Leaves
    <3>3. Leaves(w, [v EXCEPT !.isc[c].pending = TRUE])
      BY <3>1, <3>2, LeavesOn
    <3> QED BY <3>1, <3>3 DEF LeavesAll
  <2> HIDE DEF F
  <2> QED BY <2>1 DEF Then, LeavesAll
<1>2. w.isc[c].handle = None => LeavesAll(w, Start(w, c))
  BY LeavesStart
<1>3. LeavesAll(w, {w})
  BY LeavesItself DEF LeavesAll
<1> QED BY <1>1, <1>2, <1>3 DEF StartTransaction

LEMMA LeavesWork ==
  ASSUME NEW w, Good(w), NEW t \in w.open
  PROVE  Leaves(w, [w EXCEPT !.work = @ \cup {t}])
<1> DEFINE v == [w EXCEPT !.work = @ \cup {t}]
<1>1. /\ v \in World /\ v.isc = w.isc /\ v.connections = w.connections
      /\ v.shared = w.shared /\ v.open = w.open /\ v.work = w.work \cup {t}
  BY DEF Good, World
<1> HIDE DEF v
<1>2. Leaves(w, v)
  BY <1>1 DEF Leaves, Good, HandlesIn, SameList, Kept
<1> QED BY <1>2 DEF v

LEMMA LeavesExecuteIn ==
  ASSUME NEW w, Good(w), NEW c \in Isc
  PROVE  LeavesAll(w, ExecuteIn(w, c))
<1> DEFINE t == Handle(w, c)
           v == [w EXCEPT !.work = @ \cup {t}]
           A == IF v.isc[c].auto THEN Commit(v, c) ELSE {v}
           R == IF w.isc[c].auto THEN Rollback(w, c) ELSE {w}
<1>1. Leaves(w, Throw(w)) /\ Leaves(w, Crash(w)) /\ Leaves(w, w)
  BY LeavesItself, LeavesThrow
<1>2. LeavesAll(w, Refused("execute", R))
  <2>1. LeavesAll(w, R)
    BY <1>1, LeavesRollback DEF LeavesAll
  <2> HIDE DEF R
  <2> QED BY <2>1, LeavesRefused
<1>3. t \in w.open => LeavesAll(w, A)
  <2> SUFFICES ASSUME t \in w.open PROVE LeavesAll(w, A)
    OBVIOUS
  <2> HIDE DEF t
  <2>1. Leaves(w, v)
    BY LeavesWork
  <2> HIDE DEF v
  <2>2. LeavesAll(v, A)
    BY <2>1, LeavesCommit, LeavesItself DEF LeavesAll, Leaves
  <2> HIDE DEF A
  <2> QED BY <2>1, <2>2, LeavesOn DEF LeavesAll
<1>4. ExecuteIn(w, c) = IF t = None THEN {Throw(w)}
                        ELSE IF t \notin w.open THEN {Crash(w)}
                        ELSE A \cup Refused("execute", R)
  BY DEF ExecuteIn
<1> HIDE DEF t, A, R
<1> QED BY <1>1, <1>2, <1>3, <1>4 DEF LeavesAll

-----------------------------------------------------------------------------
\* The end of the common transaction.

Ends(w, v) == Good(v) /\ SameList(w, v)

EndsAll(w, W) == \A v \in W : Ends(w, v)

LEMMA LeavesEnds ==
  ASSUME NEW w, NEW W, LeavesAll(w, W)
  PROVE  EndsAll(w, W)
BY DEF LeavesAll, EndsAll, Leaves, Ends

LEMMA EndsLost ==
  ASSUME NEW w, Good(w)
  PROVE  Ends(w, EnvLost(w))
<1> DEFINE v == EnvLost(w)
<1>1. /\ v \in World /\ v.isc = w.isc /\ v.connections = w.connections
      /\ v.shared = None /\ v.open = w.open \ {w.shared}
  BY DEF EnvLost, Ended, Good, World
<1> HIDE DEF v
<1>2. HandlesIn(v)
  <2>1. \A e \in Isc : w.isc[e].handle # None =>
          /\ w.isc[e].handle \in w.open \ {w.shared}
          /\ \A f \in Isc \ {e} : w.isc[f].handle # w.isc[e].handle
    BY DEF Good, HandlesIn
  <2> QED BY <2>1, <1>1 DEF HandlesIn
<1>3. Ends(w, v)
  BY <1>1, <1>2 DEF Ends, Good, SameList
<1> QED BY <1>3 DEF v

LEMMA EndsEnded ==
  ASSUME NEW w, Good(w), w.connections # <<>>
  PROVE  Ends(w, EnvEnded(w))
<1> DEFINE h == Head(w.connections)
           v == EnvLost(w)
<1>1. h \in Isc
  BY DEF Good, World
<1>2. Ends(w, v)
  BY EndsLost
<1>3. EnvEnded(w) = [v EXCEPT !.isc[h].pending = FALSE]
  BY DEF EnvEnded, EnvLost, Ended, Good, World
<1> HIDE DEF v, h
<1>4. Leaves(v, [v EXCEPT !.isc[h].pending = FALSE])
  BY <1>1, <1>2, LeavesPending DEF Ends
<1> QED BY <1>2, <1>3, <1>4 DEF Ends, Leaves, SameList

LEMMA EndsRefused ==
  ASSUME NEW w, NEW W, EndsAll(w, W), NEW request
  PROVE  EndsAll(w, Refused(request, W))
<1>1. ASSUME NEW v, Ends(w, v) PROVE Ends(w, Throw(v))
  BY <1>1, LeavesRet DEF Ends, Throw, Leaves, SameList
<1> QED BY <1>1 DEF Refused, EndsAll

LEMMA EndsEnvRollback ==
  ASSUME NEW w, Good(w), w.connections # <<>>
  PROVE  EndsAll(w, EnvRollback(w))
<1>1. Ends(w, w) /\ Ends(w, Crash(w))
  BY LeavesItself, LeavesThrow DEF Leaves, Ends
<1>2. Ends(w, EnvEnded(w)) /\ EndsAll(w, {EnvLost(w)})
  BY EndsEnded, EndsLost DEF EndsAll
<1>3. EndsAll(w, Refused("rollback", {EnvLost(w)}))
  BY <1>2, EndsRefused
<1> QED BY <1>1, <1>2, <1>3 DEF EnvRollback, EndsAll

LEMMA EndsEnvCommit ==
  ASSUME NEW w, Good(w), w.connections # <<>>
  PROVE  EndsAll(w, EnvCommit(w))
<1>1. Ends(w, w) /\ Ends(w, Crash(w)) /\ Ends(w, EnvEnded(w))
  BY LeavesItself, LeavesThrow, EndsEnded DEF Leaves, Ends
<1>2. EndsAll(w, Refused("commit", EnvRollback(w)))
  BY EndsEnvRollback, EndsRefused
<1> QED BY <1>1, <1>2 DEF EnvCommit, EndsAll

-----------------------------------------------------------------------------
\* What the end of one connection's transaction does to the world.

EndsOwn(w, c, v) ==
  /\ Leaves(w, v)
  /\ v.isc[c].handle = None
  /\ v.open = w.open \ {w.isc[c].handle}
  /\ v.work = w.work \ {w.isc[c].handle}

LEMMA EndsOwnRet ==
  ASSUME NEW w, NEW c \in Isc, NEW v, EndsOwn(w, c, v)
  PROVE  EndsOwn(w, c, Throw(v)) /\ EndsOwn(w, c, NoPending(v, c))
<1>1. Good(v) /\ Leaves(w, v)
  BY DEF EndsOwn, Leaves
<1>2. Leaves(w, Throw(v)) /\ Leaves(w, NoPending(v, c))
  BY <1>1, LeavesThrow, LeavesNoPending, LeavesOn
<1>3. /\ Throw(v).isc = v.isc /\ Throw(v).open = v.open /\ Throw(v).work = v.work
      /\ NoPending(v, c).open = v.open /\ NoPending(v, c).work = v.work
  BY <1>1 DEF Throw, NoPending, Good, World
<1>4. NoPending(v, c).isc[c].handle = v.isc[c].handle
  BY <1>1 DEF NoPending, Good, World, IscInfo
<1> QED BY <1>2, <1>3, <1>4 DEF EndsOwn

LEMMA EndsOwnRollback ==
  ASSUME NEW w, Good(w), NEW c \in Isc
  PROVE  \A v \in Rollback(w, c) : EndsOwn(w, c, v)
<1>1. CASE w.isc[c].handle = None
  <2>1. None \notin w.open /\ None \notin w.work
    BY ConstantsAssumption DEF Good, World
  <2>2. EndsOwn(w, c, w)
    BY <1>1, <2>1, LeavesItself DEF EndsOwn
  <2> QED BY <1>1, <2>2, EndsOwnRet DEF Rollback
<1>2. CASE w.isc[c].handle # None
  <2> DEFINE v == Dropped(w, c)
  <2>1. EndsOwn(w, c, v)
    <3>1. /\ v.isc[c].handle = None /\ v.open = w.open \ {w.isc[c].handle}
      BY DEF Dropped, Ended, Good, World, IscInfo
    <3> QED BY <1>2, <3>1, LeavesDropped DEF EndsOwn
  <2>2. Rollback(w, c) = {NoPending(v, c)} \cup Refused("rollback", {v})
    BY <1>2 DEF Rollback
  <2> HIDE DEF v
  <2> QED BY <2>1, <2>2, EndsOwnRet DEF Refused
<1> QED BY <1>1, <1>2

LEMMA EndsOwnCommit ==
  ASSUME NEW w, Good(w), NEW c \in Isc
  PROVE  \A v \in Commit(w, c) : EndsOwn(w, c, v)
<1>1. CASE w.isc[c].handle = None
  <2>1. Commit(w, c) = Rollback(w, c)
    BY <1>1 DEF Commit, Rollback
  <2> QED BY <2>1, EndsOwnRollback
<1>2. CASE w.isc[c].handle # None
  <2> DEFINE u == NoPending(Dropped(w, c), c)
  <2>1. u \in Rollback(w, c)
    BY <1>2 DEF Rollback
  <2>2. Commit(w, c) = {u} \cup Refused("commit", Rollback(w, c))
    BY <1>2 DEF Commit
  <2> HIDE DEF u
  <2> QED BY <2>1, <2>2, EndsOwnRollback, EndsOwnRet DEF Refused
<1> QED BY <1>1, <1>2

LEMMA EndsOwnEnd ==
  ASSUME NEW w, Good(w), NEW c \in Isc, NEW op
  PROVE  \A v \in End(w, c, op) : EndsOwn(w, c, v)
BY EndsOwnRollback, EndsOwnCommit DEF End

-----------------------------------------------------------------------------
\* Closing a connection, and joining and leaving the list.

\* The list names a connection once, and exactly the connections that work in
\* the common transaction, all of them alive.
Linked(w) ==
  /\ Len(w.connections) <= MaxShare
  /\ IsInjective(w.connections)
  /\ \A c \in Isc : w.isc[c].shareConnected <=> c \in Range(w.connections)
  /\ \A c \in Range(w.connections) : w.isc[c].alive

LEMMA LinkedSame ==
  ASSUME NEW w, Good(w), Linked(w), NEW v, SameList(w, v)
  PROVE  Linked(v)
<1>1. Range(w.connections) \subseteq Isc
  BY RangeOf DEF Good, World
<1> QED BY <1>1 DEF Linked, SameList

\* The handles, and what is open, are left alone by joining and leaving.
Moved(w, v) ==
  /\ Good(v)
  /\ v.shared = w.shared /\ v.open = w.open /\ v.work = w.work
  /\ \A c \in Isc : v.isc[c].alive = w.isc[c].alive /\ v.isc[c].handle = w.isc[c].handle

Placed(w, c, x, q) == [w EXCEPT !.isc[c] = x, !.connections = q]

LEMMA MovedTo ==
  ASSUME NEW w, Good(w), NEW c \in Isc, NEW q \in Seq(Isc), NEW x \in IscInfo,
         x.alive = w.isc[c].alive, x.handle = w.isc[c].handle
  PROVE  /\ Moved(w, Placed(w, c, x, q))
         /\ Placed(w, c, x, q).connections = q
         /\ Placed(w, c, x, q).isc = [w.isc EXCEPT ![c] = x]
<1> DEFINE v == Placed(w, c, x, q)
<1>1. /\ v \in World /\ v.isc = [w.isc EXCEPT ![c] = x] /\ v.connections = q
      /\ v.shared = w.shared /\ v.open = w.open /\ v.work = w.work
  BY DEF Good, World, Placed
<1> HIDE DEF v
<1>2. \A e \in Isc : /\ v.isc[e].alive = w.isc[e].alive
                     /\ v.isc[e].handle = w.isc[e].handle
  BY <1>1 DEF Good, World
<1>3. HandlesIn(v)
  BY <1>1, <1>2 DEF Good, HandlesIn
<1>4. Moved(w, v)
  BY <1>1, <1>2, <1>3 DEF Moved, Good
<1> QED BY <1>1, <1>4 DEF v

\* The same, for the list and the flag that joining and leaving write.
Member(w, c, b, q) == Placed(w, c, [w.isc[c] EXCEPT !.shareConnected = b], q)

LEMMA SharedSet ==
  ASSUME NEW w, Good(w), NEW c \in Isc, NEW q \in Seq(Isc), NEW b \in BOOLEAN
  PROVE  LET v == Member(w, c, b, q)
         IN  /\ Moved(w, v)
             /\ v.connections = q
             /\ v.isc[c].shareConnected <=> b
             /\ \A e \in Isc \ {c} : v.isc[e].shareConnected = w.isc[e].shareConnected
<1> DEFINE x == [w.isc[c] EXCEPT !.shareConnected = b]
           v == Placed(w, c, x, q)
<1>1. x \in IscInfo /\ x.alive = w.isc[c].alive /\ x.handle = w.isc[c].handle
      /\ (x.shareConnected <=> b)
  BY IscOfGood DEF IscInfo
<1> HIDE DEF x
<1>3. Moved(w, v) /\ v.connections = q /\ v.isc = [w.isc EXCEPT ![c] = x]
  BY <1>1, MovedTo
<1>4. v.isc[c] = x /\ \A e \in Isc \ {c} : v.isc[e] = w.isc[e]
  BY <1>3 DEF Good, World
<1> HIDE DEF v
<1>5. (v.isc[c].shareConnected <=> b)
      /\ \A e \in Isc \ {c} : v.isc[e].shareConnected = w.isc[e].shareConnected
  BY <1>1, <1>4
<1> QED BY <1>3, <1>5 DEF v, x, Member

LEMMA AddMoves ==
  ASSUME NEW w, Good(w), NEW c \in Isc
  PROVE  /\ Moved(w, AddConnection(w, c))
         /\ Linked(w) /\ w.isc[c].alive /\ Len(w.connections) < MaxShare
              => Linked(AddConnection(w, c))
<1> DEFINE s == w.connections
           q == IF c \in Range(s) THEN s ELSE Append(s, c)
           v == Member(w, c, TRUE, q)
           u == Member(w, c, FALSE, s)
<1>s. s \in Seq(Isc) /\ Len(s) \in Nat /\ MaxShare \in Nat
  BY ConstantsAssumption DEF Good, World
<1>q. q \in Seq(Isc)
  BY <1>s
<1>1. CASE Len(s) >= MaxShare
  <2>1. AddConnection(w, c) = u
    BY <1>1 DEF AddConnection, Member, Placed, Good, World
  <2>2. Moved(w, u)
    <3> HIDE DEF s
    <3> QED BY <1>s, SharedSet
  <2> HIDE DEF u
  <2> QED BY <1>1, <1>s, <2>1, <2>2
<1>2. CASE ~(Len(s) >= MaxShare)
  <2>1. AddConnection(w, c) = v
    BY <1>2 DEF AddConnection, Member, Placed, Good, World
  <2>2. /\ Moved(w, v) /\ v.connections = q
        /\ v.isc[c].shareConnected
        /\ \A e \in Isc \ {c} : v.isc[e].shareConnected = w.isc[e].shareConnected
    <3> HIDE DEF q
    <3>1. \A b \in BOOLEAN :
            LET m == Member(w, c, b, q)
            IN  /\ Moved(w, m) /\ m.connections = q
                /\ m.isc[c].shareConnected <=> b
                /\ \A e \in Isc \ {c} : m.isc[e].shareConnected = w.isc[e].shareConnected
      BY <1>q, SharedSet
    <3>2. TRUE \in BOOLEAN
      OBVIOUS
    <3> QED BY <3>1, <3>2, Zenon
  <2>3. ASSUME Linked(w), w.isc[c].alive
        PROVE  Linked(v)
    <3>1. IsInjective(s) /\ Range(s) \subseteq Isc
      BY <2>3, <1>s, RangeOf DEF Linked
    <3>2. IsInjective(q) /\ Range(q) = Range(s) \cup {c} /\ Len(q) <= MaxShare
      <4>1. CASE c \in Range(s)
        BY <4>1, <3>1, <1>2, <1>s
      <4>2. CASE c \notin Range(s)
        <5>1. Len(s) + 1 <= MaxShare
          BY <1>2, <1>s
        <5> HIDE DEF s
        <5> QED BY <4>2, <5>1, <3>1, <1>s, AppendList
      <4> QED BY <4>1, <4>2
    <3> HIDE DEF v, q
    <3> QED BY <2>2, <2>3, <3>1, <3>2 DEF Linked, Moved
  <2> HIDE DEF v
  <2> QED BY <2>1, <2>2, <2>3
<1> QED BY <1>1, <1>2

LEMMA RemoveMoves ==
  ASSUME NEW w, Good(w), NEW c \in Isc
  PROVE  /\ Moved(w, RemoveConnection(w, c))
         /\ Linked(w) => /\ Linked(RemoveConnection(w, c))
                         /\ ~RemoveConnection(w, c).isc[c].shareConnected
<1> DEFINE s == w.connections
           q == IF c \in Range(s) THEN RemoveFirst(s, c) ELSE s
           v == Member(w, c, FALSE, q)
<1>s. s \in Seq(Isc) /\ Len(s) \in Nat /\ MaxShare \in Nat
  BY ConstantsAssumption DEF Good, World
<1>1. RemoveConnection(w, c) = v
  BY DEF RemoveConnection, Member, Placed, Good, World
<1>q. q \in Seq(Isc)
  <2> HIDE DEF s
  <2> QED BY <1>s, RemoveFirstIn
<1>2. /\ Moved(w, v) /\ v.connections = q
      /\ ~v.isc[c].shareConnected
      /\ \A e \in Isc \ {c} : v.isc[e].shareConnected = w.isc[e].shareConnected
  <2> HIDE DEF q
  <2>1. \A b \in BOOLEAN :
          LET m == Member(w, c, b, q)
          IN  /\ Moved(w, m) /\ m.connections = q
              /\ m.isc[c].shareConnected <=> b
              /\ \A e \in Isc \ {c} : m.isc[e].shareConnected = w.isc[e].shareConnected
    BY <1>q, SharedSet
  <2>2. FALSE \in BOOLEAN
    OBVIOUS
  <2> QED BY <2>1, <2>2, Zenon
<1>3. ASSUME Linked(w)
      PROVE  Linked(v) /\ ~v.isc[c].shareConnected
  <2>1. IsInjective(s) /\ Range(s) \subseteq Isc /\ Len(s) <= MaxShare
    BY <1>3, <1>s, RangeOf DEF Linked
  <2>2. IsInjective(q) /\ Range(q) = Range(s) \ {c} /\ Len(q) <= MaxShare
    <3>1. CASE c \in Range(s)
      <4>1. Len(s) - 1 <= MaxShare
        BY <2>1, <1>s
      <4> HIDE DEF s
      <4> QED BY <3>1, <4>1, <2>1, <1>s, RemoveList
    <3>2. CASE c \notin Range(s)
      BY <3>2, <2>1
    <3> QED BY <3>1, <3>2
  <2> HIDE DEF v, q
  <2> QED BY <1>2, <1>3, <2>1, <2>2 DEF Linked, Moved
<1> HIDE DEF v
<1> QED BY <1>1, <1>2, <1>3

\* A connection that is no member any more is freed, with its transaction.
LEMMA FreedGood ==
  ASSUME NEW w, Good(w), NEW c \in Isc
  PROVE  LET u == [Ended(w, w.isc[c].handle) EXCEPT !.isc[c] = Fresh]
         IN  /\ Good(u) /\ Kept(w, u)
             /\ \A e \in Isc \ {c} : u.isc[e].alive = w.isc[e].alive
             /\ Linked(w) /\ ~w.isc[c].shareConnected => Linked(u)
<1> DEFINE t == w.isc[c].handle
           u == [Ended(w, t) EXCEPT !.isc[c] = Fresh]
<1>1. /\ Fresh \in IscInfo /\ Fresh.handle = None
      /\ ~Fresh.shareConnected
  BY DEF Fresh, IscInfo
<1>2. /\ u \in World /\ u.isc = [w.isc EXCEPT ![c] = Fresh]
      /\ u.connections = w.connections /\ u.shared = w.shared
      /\ u.open = w.open \ {t} /\ u.work = w.work \ {t}
  <2> HIDE DEF t
  <2> QED BY <1>1 DEF Ended, Good, World
<1> HIDE DEF u
<1>3. /\ u.isc[c] = Fresh /\ u.isc[c].handle = None
      /\ \A e \in Isc \ {c} : u.isc[e] = w.isc[e]
  BY <1>1, <1>2 DEF Good, World
<1>4. /\ w.shared # None => w.shared # t
      /\ t # None => \A e \in Isc \ {c} : w.isc[e].handle # t
      /\ None \notin w.open
  BY ConstantsAssumption DEF Good, World, HandlesIn
<1>5. HandlesIn(u)
  <2> HIDE DEF t
  <2>1. \A e \in Isc : w.isc[e].handle # None =>
          /\ w.isc[e].handle \in w.open \ {w.shared}
          /\ \A f \in Isc \ {e} : w.isc[f].handle # w.isc[e].handle
    BY DEF Good, HandlesIn
  <2>2. u.shared # None => u.shared \in u.open
    BY <1>2, <1>4 DEF Good, HandlesIn
  <2>3. ASSUME NEW e \in Isc, u.isc[e].handle # None
        PROVE  /\ u.isc[e].handle \in u.open \ {u.shared}
               /\ \A f \in Isc \ {e} : u.isc[f].handle # u.isc[e].handle
    <3>1. e # c /\ u.isc[e] = w.isc[e] /\ w.isc[e].handle # None
      BY <2>3, <1>3
    <3>2. w.isc[e].handle # t
      BY <3>1, <1>4
    <3>3. w.isc[e].handle \in u.open \ {u.shared}
      BY <3>1, <3>2, <2>1, <1>2
    <3>4. \A f \in Isc \ {e} : u.isc[f].handle # w.isc[e].handle
      BY <3>1, <2>1, <1>3
    <3> QED BY <3>1, <3>3, <3>4
  <2> QED BY <2>2, <2>3 DEF HandlesIn
<1>6. Kept(w, u)
  <2> HIDE DEF t
  <2> QED BY <1>2, <1>4 DEF Kept
<1>7. ASSUME Linked(w), ~w.isc[c].shareConnected
      PROVE  Linked(u)
  <2>1. Range(w.connections) \subseteq Isc /\ c \notin Range(w.connections)
    BY <1>7, RangeOf DEF Good, World, Linked
  <2>2. \A e \in Isc : u.isc[e].shareConnected <=> e \in Range(w.connections)
    BY <2>1, <1>7, <1>1, <1>3 DEF Linked
  <2>3. \A e \in Range(w.connections) : u.isc[e].alive
    BY <2>1, <1>7, <1>3 DEF Linked
  <2> QED BY <2>2, <2>3, <1>7, <1>2 DEF Linked
<1> HIDE DEF t
<1>8. /\ Good(u) /\ Kept(w, u)
      /\ \A e \in Isc \ {c} : u.isc[e].alive = w.isc[e].alive
      /\ Linked(w) /\ ~w.isc[c].shareConnected => Linked(u)
  BY <1>2, <1>3, <1>5, <1>6, <1>7 DEF Good
<1> QED BY <1>8 DEF u, t

LEMMA CloseGood ==
  ASSUME NEW w, Good(w), NEW c \in Isc
  PROVE  /\ Good(Close(w, c)) /\ Kept(w, Close(w, c))
         /\ \A e \in Isc \ {c} : Close(w, c).isc[e].alive = w.isc[e].alive
         /\ Linked(w) => Linked(Close(w, c))
<1> DEFINE v == IF w.isc[c].shareConnected THEN RemoveConnection(w, c) ELSE w
           u == [Ended(v, v.isc[c].handle) EXCEPT !.isc[c] = Fresh]
<1>1. Moved(w, v) /\ (Linked(w) => Linked(v) /\ ~v.isc[c].shareConnected)
  <2>1. CASE w.isc[c].shareConnected
    BY <2>1, RemoveMoves
  <2>2. CASE ~w.isc[c].shareConnected
    BY <2>2 DEF Moved
  <2> QED BY <2>1, <2>2
<1>2. Close(w, c) = u
  BY DEF Close
<1> HIDE DEF v
<1>3. /\ Good(u) /\ Kept(v, u)
      /\ \A e \in Isc \ {c} : u.isc[e].alive = v.isc[e].alive
      /\ Linked(v) /\ ~v.isc[c].shareConnected => Linked(u)
  BY <1>1, FreedGood DEF Moved
<1> HIDE DEF u
<1> QED BY <1>1, <1>2, <1>3 DEF Moved, Kept

-----------------------------------------------------------------------------
\* The variables as a world.

\* A connected handle has an object, and no other handle has the same one.
DbcIn ==
  \A d \in Dbc : dbc[d].connection # None =>
    /\ isc[dbc[d].connection].alive
    /\ \A e \in Dbc \ {d} : dbc[e].connection # dbc[d].connection

IInv == TypeOK /\ HandlesOpen /\ DbcIn

ListOK == Linked(Now)

Stays == shared # None => shared' = shared /\ (shared \in work => shared \in work')

SameAlive == \A c \in Isc : isc'[c].alive = isc[c].alive

WorldOK == isc \in [Isc -> IscInfo] /\ connections \in Seq(Isc)
           /\ shared \in Tx \cup {None} /\ open \subseteq Tx /\ work \subseteq Tx
           /\ ret \in {"ok", "error", "crash"} /\ HandlesOpen

LEMMA NowGood ==
  ASSUME IInv
  PROVE  /\ Good(Now)
         /\ Now.isc = isc /\ Now.connections = connections /\ Now.shared = shared
         /\ Now.open = open /\ Now.work = work
BY DEF IInv, TypeOK, HandlesOpen, Now, Good, World, HandlesIn

LEMMA SetGood ==
  ASSUME NEW w, Good(w), Set(w)
  PROVE  /\ WorldOK'
         /\ Linked(w) => ListOK'
<1>1. WorldOK'
  BY DEF Set, Good, World, HandlesIn, WorldOK, HandlesOpen
<1>2. Linked(w) => ListOK'
  BY DEF Set, Linked, ListOK, Now
<1> QED BY <1>1, <1>2

LEMMA SetLeaves ==
  ASSUME IInv, NEW w, Leaves(Now, w), Set(w)
  PROVE  WorldOK' /\ Stays /\ SameAlive /\ (ListOK => ListOK')
<1>1. WorldOK' /\ (Linked(w) => ListOK')
  BY SetGood DEF Leaves
<1>2. Linked(Now) => Linked(w)
  BY NowGood, LinkedSame DEF Leaves
<1>3. Stays
  BY NowGood DEF Leaves, Kept, Stays, Set
<1>4. SameAlive
  BY NowGood DEF Leaves, SameList, SameAlive, Set
<1> QED BY <1>1, <1>2, <1>3, <1>4 DEF ListOK

-----------------------------------------------------------------------------
\* The calls, one by one.

HandlesOK == listed \subseteq Dbc /\ hasShare \in BOOLEAN /\ dbc \in [Dbc -> DbcInfo]

Lists == ListOK => ListOK'

LEMMA IInvParts ==
  ASSUME HandlesOK', WorldOK', DbcIn'
  PROVE  IInv'
BY DEF HandlesOK, WorldOK, IInv, TypeOK

\* A call that connects nobody, and kills no connection.
LEMMA DbcStays ==
  ASSUME IInv, SameAlive,
         \A d \in Dbc : dbc'[d].connection \in {dbc[d].connection, None}
  PROVE  DbcIn'
<1>1. \A d \in Dbc : dbc[d].connection \in Isc \cup {None}
  BY DEF IInv, TypeOK, DbcInfo
<1> QED BY <1>1 DEF IInv, DbcIn, SameAlive

LEMMA DoLeaves ==
  ASSUME IInv, NEW W, LeavesAll(Now, W), Do(W)
  PROVE  IInv' /\ Stays /\ Lists
<1>1. PICK w \in W : Set(w)
  BY DEF Do
<1>2. WorldOK' /\ Stays /\ SameAlive /\ Lists
  BY <1>1, SetLeaves DEF LeavesAll, Lists
<1>3. HandlesOK'
  BY DEF Do, IInv, TypeOK, HandlesOK
<1>4. DbcIn'
  BY <1>2, DbcStays DEF Do
<1> QED BY <1>2, <1>3, <1>4, IInvParts

LEMMA ConnectionIn ==
  ASSUME IInv, NEW d \in Dbc
  PROVE  /\ dbc[d] \in DbcInfo /\ Connection(d) \in Isc \cup {None}
         /\ Connection(d) # None => Connection(d) \in Isc /\ isc[Connection(d)].alive
BY DEF IInv, TypeOK, DbcInfo, DbcIn, Connection

LEMMA AllocConnectSafe ==
  ASSUME IInv, NEW d \in Dbc, AllocConnect(d)
  PROVE  IInv' /\ Stays /\ Lists
<1>1. WorldOK' /\ Stays /\ SameAlive /\ Lists
  BY NowGood, LeavesItself, SetLeaves DEF AllocConnect, Lists
<1>2. HandlesOK' /\ \A e \in Dbc : dbc'[e].connection = dbc[e].connection
  BY DEF AllocConnect, IInv, TypeOK, HandlesOK, DbcInfo
<1>3. DbcIn'
  BY <1>1, <1>2, DbcStays
<1> QED BY <1>1, <1>2, <1>3, IInvParts

LEMMA FreeConnectSafe ==
  ASSUME IInv, NEW d \in Dbc, FreeConnect(d)
  PROVE  IInv' /\ Stays /\ Lists
<1>1. WorldOK' /\ Stays /\ SameAlive /\ Lists
  BY NowGood, LeavesItself, SetLeaves DEF FreeConnect, Lists
<1>2. HandlesOK' /\ \A e \in Dbc : dbc'[e].connection \in {dbc[e].connection, None}
  BY DEF FreeConnect, ConnectionClosed, IInv, TypeOK, HandlesOK, DbcInfo, NoDbc
<1>3. DbcIn'
  BY <1>1, <1>2, DbcStays
<1> QED BY <1>1, <1>2, <1>3, IInvParts

\* A connection takes the address of no object that is alive.
LEMMA ConnectSafe ==
  ASSUME IInv, NEW d \in Dbc, Connect(d)
  PROVE  IInv' /\ Stays /\ Lists
<1>1. PICK c \in Isc :
        /\ ~isc[c].alive
        /\ dbc' = [dbc EXCEPT ![d].connection = c]
        /\ Set([Now EXCEPT !.isc[c].alive = TRUE, !.isc[c].auto = dbc[d].autoCommit])
  BY DEF Connect
<1> DEFINE x == [isc[c] EXCEPT !.alive = TRUE, !.auto = dbc[d].autoCommit]
           w == [Now EXCEPT !.isc[c] = x]
<1>2. /\ x \in IscInfo /\ x.alive /\ x.handle = isc[c].handle
      /\ x.shareConnected = isc[c].shareConnected
  <2>1. ASSUME NEW y \in IscInfo, NEW b \in BOOLEAN
        PROVE  LET z == [y EXCEPT !.alive = TRUE, !.auto = b]
               IN  z \in IscInfo /\ z.alive /\ z.handle = y.handle
                     /\ z.shareConnected = y.shareConnected
    BY DEF IscInfo
  <2>2. isc[c] \in IscInfo /\ dbc[d].autoCommit \in BOOLEAN
    BY DEF IInv, TypeOK, DbcInfo
  <2> QED BY <2>1, <2>2
<1>3. Set(w)
  BY <1>1 DEF Now, Set, IInv, TypeOK
<1> HIDE DEF x
<1>4. /\ w \in World /\ w.isc = [isc EXCEPT ![c] = x] /\ w.connections = connections
      /\ w.shared = shared /\ w.open = open /\ w.work = work
  BY <1>2 DEF Now, World, IInv, TypeOK
<1> HIDE DEF w
<1>5. \A e \in Isc : /\ IF e = c THEN w.isc[e].alive ELSE w.isc[e].alive = isc[e].alive
                     /\ w.isc[e].handle = isc[e].handle
                     /\ w.isc[e].shareConnected = isc[e].shareConnected
  BY <1>2, <1>4 DEF IInv, TypeOK
<1>6. Good(w)
  <2>1. HandlesOpen
    BY DEF IInv
  <2>2. HandlesIn(w)
    BY <2>1, <1>4, <1>5 DEF HandlesIn, HandlesOpen
  <2> QED BY <2>2, <1>4 DEF Good
<1>7. ListOK => Linked(w)
  <2>1. Range(connections) \subseteq Isc
    BY RangeOf DEF IInv, TypeOK
  <2> QED BY <2>1, <1>4, <1>5, NowGood DEF ListOK, Linked
<1>8. WorldOK' /\ Lists
  BY <1>3, <1>6, <1>7, SetGood DEF Lists
<1>9. HandlesOK'
  BY <1>1 DEF Connect, IInv, TypeOK, HandlesOK, DbcInfo
<1>10. Stays
  BY <1>3, <1>4 DEF Set, Stays
<1>11. DbcIn'
  <2>1. isc'[c].alive /\ \A e \in Isc \ {c} : isc'[e].alive = isc[e].alive
    BY <1>3, <1>5 DEF Set
  <2>2. \A e \in Dbc : /\ dbc[e].connection \in Isc \cup {None} /\ dbc[e].connection # c
                       /\ dbc'[e].connection = IF e = d THEN c ELSE dbc[e].connection
    BY <1>1, ConstantsAssumption DEF IInv, TypeOK, DbcInfo, DbcIn
  <2>3. DbcIn
    BY DEF IInv
  <2>4. ASSUME NEW e \in Dbc, dbc'[e].connection # None
        PROVE  /\ isc'[dbc'[e].connection].alive
               /\ \A f \in Dbc \ {e} : dbc'[f].connection # dbc'[e].connection
    <3>1. CASE e = d
      BY <3>1, <2>1, <2>2
    <3>2. CASE e # d
      <4>1. /\ dbc'[e].connection = dbc[e].connection
            /\ dbc[e].connection \in Isc \ {c}
        BY <3>2, <2>2, <2>4
      <4>2. isc[dbc[e].connection].alive
        BY <4>1, <2>3, <2>4 DEF DbcIn
      <4>3. \A f \in Dbc \ {e} : dbc'[f].connection # dbc[e].connection
        BY <4>1, <2>2, <2>3, <2>4 DEF DbcIn
      <4> QED BY <4>1, <4>2, <4>3, <2>1
    <3> QED BY <3>1, <3>2
  <2> QED BY <2>4 DEF DbcIn
<1> QED BY <1>8, <1>9, <1>10, <1>11, IInvParts

LEMMA ConnectRefusedSafe ==
  ASSUME IInv, NEW d \in Dbc, ConnectRefused(d)
  PROVE  IInv' /\ Stays /\ Lists
<1>1. WorldOK' /\ Stays /\ SameAlive /\ Lists
  BY NowGood, LeavesItself, LeavesThrow, SetLeaves DEF ConnectRefused, Lists
<1>2. HandlesOK' /\ \A e \in Dbc : dbc'[e].connection = dbc[e].connection
  BY DEF ConnectRefused, IInv, TypeOK, HandlesOK
<1>3. DbcIn'
  BY <1>1, <1>2, DbcStays
<1> QED BY <1>1, <1>2, <1>3, IInvParts

\* The object of a closed connection is nobody else's.
LEMMA DisconnectSafe ==
  ASSUME IInv, NEW d \in Dbc, Disconnect(d)
  PROVE  IInv' /\ Stays /\ Lists
<1> DEFINE c == Connection(d)
<1>c. c \in Isc /\ c # None
  BY ConnectionIn DEF Disconnect, Connected
<1>1. PICK w \in Commit(Now, c) :
        IF w.ret = "ok"
        THEN Set(Close(w, c)) /\ ConnectionClosed(d)
        ELSE Set([w EXCEPT !.ret = "ok"]) /\ UNCHANGED <<listed, hasShare>>
  BY DEF Disconnect
<1>2. Leaves(Now, w)
  BY <1>c, NowGood, LeavesCommit DEF LeavesAll
<1>3. HandlesOK' /\ \A e \in Dbc : dbc'[e].connection
                                      = IF e = d THEN None ELSE dbc[e].connection
  <2>1. listed' \subseteq Dbc /\ hasShare' \in BOOLEAN
    BY <1>1 DEF ConnectionClosed, IInv, TypeOK
  <2> QED BY <2>1 DEF Disconnect, IInv, TypeOK, HandlesOK, DbcInfo
<1>d. \A e \in Dbc : dbc'[e].connection \in {dbc[e].connection, None}
  BY <1>3
<1>4. CASE w.ret = "ok"
  <2> DEFINE u == Close(w, c)
  <2>1. /\ Good(u) /\ Kept(w, u) /\ (Linked(w) => Linked(u))
        /\ \A e \in Isc \ {c} : u.isc[e].alive = w.isc[e].alive
    <3> HIDE DEF c
    <3> QED BY <1>c, <1>2, CloseGood DEF Leaves
  <2>2. Set(u)
    BY <1>1, <1>4
  <2> HIDE DEF u, c
  <2>3. WorldOK' /\ Lists
    <3>1. Linked(Now) => Linked(w)
      BY <1>2, NowGood, LinkedSame DEF Leaves
    <3> QED BY <3>1, <2>1, <2>2, SetGood DEF Lists, ListOK
  <2>4. Stays
    BY <1>2, <2>1, <2>2, NowGood DEF Leaves, Kept, Stays, Set
  <2>5. \A e \in Isc \ {c} : isc'[e].alive = isc[e].alive
    BY <1>2, <2>1, <2>2, NowGood DEF Leaves, SameList, Set
  <2>6. \A e \in Dbc : /\ dbc[e].connection \in Isc \cup {None}
                       /\ e # d => dbc[e].connection # c
    BY <1>c, ConnectionIn DEF Connection, IInv, DbcIn, c
  <2>7. DbcIn'
    BY <1>3, <2>5, <2>6 DEF DbcIn, IInv
  <2> QED BY <1>3, <2>3, <2>4, <2>7, IInvParts
<1>5. CASE w.ret # "ok"
  <2> DEFINE v == [w EXCEPT !.ret = "ok"]
  <2>1. Leaves(Now, v)
    BY <1>2, LeavesRet, LeavesOn DEF Leaves
  <2>2. Set(v)
    BY <1>1, <1>5
  <2> HIDE DEF v
  <2>3. WorldOK' /\ Stays /\ SameAlive /\ Lists
    BY <2>1, <2>2, SetLeaves DEF Lists
  <2>4. DbcIn'
    BY <1>d, <2>3, DbcStays
  <2> QED BY <1>3, <2>3, <2>4, IInvParts
<1> QED BY <1>4, <1>5

LEMMA ExecuteSafe ==
  ASSUME IInv, NEW d \in Dbc, Execute(d)
  PROVE  IInv' /\ Stays /\ Lists
<1> DEFINE c == Connection(d)
           W == StartTransaction(Now, c)
           F(v) == ExecuteIn(v, c)
<1>c. c \in Isc
  BY ConnectionIn DEF Execute, Connected
<1>1. Do(Then(W, F))
  BY DEF Execute
<1>2. ASSUME NEW v \in W PROVE Leaves(Now, v) /\ LeavesAll(Now, F(v))
  <2> HIDE DEF c
  <2>1. Leaves(Now, v)
    BY <1>c, NowGood, LeavesStartTransaction DEF LeavesAll
  <2>2. LeavesAll(v, F(v))
    BY <1>c, <2>1, LeavesExecuteIn DEF Leaves
  <2> HIDE DEF F
  <2> QED BY <2>1, <2>2, LeavesOn DEF LeavesAll
<1> HIDE DEF W, F
<1>3. LeavesAll(Now, Then(W, F))
  BY <1>2 DEF Then, LeavesAll
<1> QED BY <1>1, <1>3, DoLeaves

LEMMA EndTranDbcSafe ==
  ASSUME IInv, NEW d \in Dbc, NEW op, EndTranDbc(d, op)
  PROVE  IInv' /\ Stays /\ Lists
<1>1. LeavesAll(Now, End(Now, Connection(d), op))
  BY NowGood, ConnectionIn, LeavesEnd DEF EndTranDbc, Connected
<1> QED BY <1>1, DoLeaves DEF EndTranDbc

LEMMA SetAutoCommitSafe ==
  ASSUME IInv, NEW d \in Dbc, NEW b \in BOOLEAN, SetAutoCommit(d, b)
  PROVE  IInv' /\ Stays /\ Lists
<1> DEFINE c == Connection(d)
           E == Connected(d) /\ ~isc[c].auto /\ b /\ isc[c].pending
           AutoOf(w) == IF c = None THEN w ELSE [w EXCEPT !.isc[c].auto = b]
<1>c. c \in Isc \cup {None} /\ (Connected(d) => c \in Isc)
  BY ConnectionIn DEF Connected
<1>n. None \notin Isc
  BY ConstantsAssumption
<1>1. PICK w \in IF E THEN Commit(Now, c) ELSE {Now} :
        Set(IF w.ret = "ok" THEN AutoOf(w) ELSE Crash(w))
  BY Zenon DEF SetAutoCommit
<1>2. Leaves(Now, w)
  <2>1. E => c \in Isc
    BY <1>c
  <2> HIDE DEF c, E
  <2> QED BY <1>1, <2>1, NowGood, LeavesItself, LeavesCommit DEF LeavesAll
<1>3. Leaves(Now, Crash(w))
  BY <1>2, LeavesThrow
<1>4. Leaves(Now, AutoOf(w))
  <2>1. CASE c = None
    BY <2>1, <1>2
  <2>2. CASE c # None
    <3> DEFINE x == [w.isc[c] EXCEPT !.auto = b]
    <3> HIDE DEF c
    <3>1. c \in Isc /\ Good(w)
      BY <1>2, <1>c, <2>2 DEF Leaves
    <3>2. /\ x \in IscInfo /\ x.handle = w.isc[c].handle /\ x.alive = w.isc[c].alive
          /\ x.shareConnected = w.isc[c].shareConnected
      BY <3>1, IscOfGood DEF IscInfo
    <3>3. AutoOf(w) = [w EXCEPT !.isc[c] = x]
      BY <2>2
    <3> HIDE DEF x, AutoOf
    <3>4. Leaves(w, AutoOf(w))
      BY <3>1, <3>2, <3>3, LeavesIsc
    <3> QED BY <3>4, <1>2, LeavesOn
  <2> QED BY <2>1, <2>2
<1>5. WorldOK' /\ Stays /\ SameAlive /\ Lists
  <2> HIDE DEF AutoOf
  <2> QED BY <1>1, <1>3, <1>4, SetLeaves DEF Lists
<1>6. HandlesOK' /\ \A e \in Dbc : dbc'[e].connection = dbc[e].connection
  BY DEF SetAutoCommit, IInv, TypeOK, HandlesOK, DbcInfo
<1>7. DbcIn'
  BY <1>5, <1>6, DbcStays
<1> QED BY <1>5, <1>6, <1>7, IInvParts

\* Joining and leaving write the list and the flag only.
LEMMA MovedSafe ==
  ASSUME IInv, NEW w, Moved(Now, w), Do({w})
  PROVE  /\ IInv' /\ Stays
         /\ (ListOK => Linked(w)) => Lists
<1>1. Set(w)
  BY DEF Do
<1>2. WorldOK' /\ (Linked(w) => ListOK')
  BY <1>1, SetGood DEF Moved
<1>3. Stays /\ SameAlive
  BY <1>1, NowGood DEF Moved, Set, Stays, SameAlive
<1>4. HandlesOK'
  BY DEF Do, IInv, TypeOK, HandlesOK
<1>5. DbcIn'
  BY <1>3, DbcStays DEF Do
<1> QED BY <1>2, <1>3, <1>4, <1>5, IInvParts DEF Lists

LEMMA ShareOnSafe ==
  ASSUME IInv, NEW d \in Dbc, ShareOn(d)
  PROVE  /\ IInv' /\ Stays
         /\ Len(connections) < MaxShare => Lists
<1> DEFINE c == Connection(d)
<1>1. c \in Isc /\ isc[c].alive /\ Do({AddConnection(Now, c)})
  BY ConnectionIn DEF ShareOn, Connected
<1> HIDE DEF c
<1>2. /\ Moved(Now, AddConnection(Now, c))
      /\ ListOK /\ Len(connections) < MaxShare => Linked(AddConnection(Now, c))
  BY <1>1, NowGood, AddMoves DEF ListOK
<1> QED BY <1>1, <1>2, MovedSafe

LEMMA ShareOffSafe ==
  ASSUME IInv, NEW d \in Dbc, ShareOff(d)
  PROVE  IInv' /\ Stays /\ Lists
<1> DEFINE c == Connection(d)
<1>1. c \in Isc /\ Do({RemoveConnection(Now, c)})
  BY ConnectionIn DEF ShareOff, Connected
<1> HIDE DEF c
<1>2. /\ Moved(Now, RemoveConnection(Now, c))
      /\ ListOK => Linked(RemoveConnection(Now, c))
  BY <1>1, NowGood, RemoveMoves DEF ListOK
<1> QED BY <1>1, <1>2, MovedSafe

-----------------------------------------------------------------------------
\* SQLEndTran on the environment.

\* One connection after the other: each ends its own transaction, and nothing
\* of the others'.
LEMMA EndEachGood ==
  ASSUME IInv, NEW op, NEW w \in EndEach(op)
  PROVE  /\ Good(w) /\ SameList(Now, w)
         /\ w.ret \in {"ok", "error"}
         /\ \A d \in listed : Connection(d) # None =>
              isc[Connection(d)].handle \notin w.work
<1> DEFINE C == {Connection(d) : d \in listed} \ {None}
           Together(f) ==
             [Now EXCEPT
               !.isc  = [c \in Isc |-> IF c \in C THEN f[c].isc[c] ELSE isc[c]],
               !.open = {t \in open : \A c \in C : t \in f[c].open},
               !.work = {t \in work : \A c \in C : t \in f[c].work},
               !.ret  = IF \A c \in C : f[c].ret = "ok" THEN "ok" ELSE "error"]
           Each == {f \in [C -> UNION {End(Now, c, op) : c \in C}] :
                      \A c \in C : f[c] \in End(Now, c, op)}
<1>1. EndEach(op) = {Together(f) : f \in Each}
  BY Zenon DEF EndEach
<1>2. PICK f \in Each : w = Together(f)
  BY <1>1
<1>3. C \subseteq Isc
  BY ConnectionIn DEF IInv, TypeOK
<1>4. \A c \in C : EndsOwn(Now, c, f[c])
  <2> HIDE DEF C
  <2> QED BY <1>2, <1>3, NowGood, EndsOwnEnd
<1> DEFINE I == [c \in Isc |-> IF c \in C THEN f[c].isc[c] ELSE isc[c]]
           O == {t \in open : \A c \in C : t \in f[c].open}
           K == {t \in work : \A c \in C : t \in f[c].work}
           r == IF \A c \in C : f[c].ret = "ok" THEN "ok" ELSE "error"
<1>5. w = [Now EXCEPT !.isc = I, !.open = O, !.work = K, !.ret = r]
  BY <1>2
<1> HIDE DEF C
<1>6. ASSUME NEW c \in Isc
      PROVE  /\ I[c] \in IscInfo
             /\ I[c].alive = isc[c].alive /\ I[c].shareConnected = isc[c].shareConnected
             /\ I[c].handle = IF c \in C THEN None ELSE isc[c].handle
  <2>1. CASE c \in C
    <3>1. EndsOwn(Now, c, f[c])
      BY <1>4, <2>1
    <3>2. I[c] = f[c].isc[c]
      BY <2>1
    <3> HIDE DEF I
    <3> QED BY <2>1, <3>1, <3>2, NowGood, IscOfGood DEF EndsOwn, Leaves, SameList
  <2>2. CASE c \notin C
    BY <2>2 DEF IInv, TypeOK
  <2> QED BY <2>1, <2>2
<1>7. \A t : /\ t \in O <=> t \in open /\ \A c \in C : t # isc[c].handle
             /\ t \in K <=> t \in work /\ \A c \in C : t # isc[c].handle
  <2>1. \A c \in C : /\ f[c].open = open \ {isc[c].handle}
                     /\ f[c].work = work \ {isc[c].handle}
    BY <1>4, NowGood DEF EndsOwn
  <2> QED BY <2>1
<1>8. r \in {"ok", "error"}
  OBVIOUS
<1>9. I \in [Isc -> IscInfo] /\ O \subseteq Tx /\ K \subseteq Tx
  <2>1. I \in [Isc -> IscInfo]
    BY <1>6
  <2>2. O \subseteq open /\ K \subseteq work
    OBVIOUS
  <2> QED BY <2>1, <2>2 DEF IInv, TypeOK
<1> HIDE DEF I, O, K, r
<1>10. /\ w \in World /\ w.isc = I /\ w.connections = connections
       /\ w.shared = shared /\ w.open = O /\ w.work = K /\ w.ret = r
  BY <1>5, <1>8, <1>9 DEF Now, World, IInv, TypeOK
<1>11. HandlesIn(w)
  <2>1. /\ shared # None => shared \in open
        /\ \A e \in Isc : isc[e].handle # None =>
             /\ isc[e].handle \in open \ {shared}
             /\ \A g \in Isc \ {e} : isc[g].handle # isc[e].handle
    BY DEF IInv, HandlesOpen
  <2>2. w.shared # None => w.shared \in w.open
    BY <2>1, <1>3, <1>7, <1>10
  <2>3. ASSUME NEW e \in Isc, w.isc[e].handle # None
        PROVE  /\ w.isc[e].handle \in w.open \ {w.shared}
               /\ \A g \in Isc \ {e} : w.isc[g].handle # w.isc[e].handle
    <3>1. e \notin C /\ w.isc[e].handle = isc[e].handle
      BY <2>3, <1>6, <1>10
    <3>2. isc[e].handle \in O
      BY <3>1, <2>1, <2>3, <1>3, <1>7
    <3>3. \A g \in Isc \ {e} : w.isc[g].handle # isc[e].handle
      BY <3>1, <2>1, <2>3, <1>6, <1>10
    <3> QED BY <3>1, <3>2, <3>3, <2>1, <2>3, <1>10
  <2> QED BY <2>2, <2>3 DEF HandlesIn
<1>12. SameList(Now, w)
  BY <1>6, <1>10, NowGood DEF SameList
<1>13. ASSUME NEW d \in listed, Connection(d) # None
       PROVE  isc[Connection(d)].handle \notin w.work
  <2>1. Connection(d) \in C
    BY <1>13 DEF C
  <2> QED BY <2>1, <1>7, <1>10
<1> QED BY <1>8, <1>10, <1>11, <1>12, <1>13 DEF Good

LEMMA EndTranEnvSafe ==
  ASSUME IInv, NEW op, EndTranEnv(op)
  PROVE  /\ IInv' /\ Lists
         /\ (connections = <<>> /\ ret' = "ok") =>
              \A d \in listed : Connection(d) # None =>
                isc[Connection(d)].handle \notin work'
<1> DEFINE W == IF ~hasShare THEN {Crash(Now)}
                ELSE IF connections = <<>> THEN EndEach(op)
                ELSE IF op = "commit" THEN EnvCommit(Now) ELSE EnvRollback(Now)
<1>1. PICK w \in W : Set(w)
  BY DEF EndTranEnv, Do
<1>2. Ends(Now, w)
  <2>1. Ends(Now, Crash(Now))
    BY NowGood, LeavesItself, LeavesThrow DEF Leaves, Ends
  <2>2. \A v \in EndEach(op) : Ends(Now, v)
    BY EndEachGood DEF Ends
  <2>3. connections # <<>> => EndsAll(Now, EnvCommit(Now)) /\ EndsAll(Now, EnvRollback(Now))
    BY NowGood, EndsEnvCommit, EndsEnvRollback
  <2> QED BY <1>1, <2>1, <2>2, <2>3 DEF EndsAll
<1>3. WorldOK' /\ Lists
  <2>1. Linked(Now) => Linked(w)
    BY <1>2, NowGood, LinkedSame DEF Ends
  <2> QED BY <1>1, <1>2, <2>1, SetGood DEF Ends, Lists, ListOK
<1>4. SameAlive
  BY <1>1, <1>2, NowGood DEF Ends, SameList, Set, SameAlive
<1>5. HandlesOK' /\ DbcIn'
  <2>1. UNCHANGED <<listed, hasShare, dbc>>
    BY DEF EndTranEnv, Do
  <2>2. HandlesOK'
    BY <2>1 DEF IInv, TypeOK, HandlesOK
  <2> QED BY <2>1, <2>2, <1>4, DbcStays
<1>6. ASSUME connections = <<>>, ret' = "ok", NEW d \in listed, Connection(d) # None
      PROVE  isc[Connection(d)].handle \notin work'
  <2>1. w.ret = "ok"
    BY <1>1, <1>6 DEF Set
  <2>2. Crash(Now).ret = "crash"
    BY DEF Crash, Now
  <2>3. w \in EndEach(op)
    BY <2>1, <2>2, <1>1, <1>6
  <2> QED BY <2>3, <1>1, <1>6, EndEachGood DEF Set
<1> QED BY <1>3, <1>5, <1>6, IInvParts

-----------------------------------------------------------------------------
\* The theorems.

LEMMA DbcCallSafe ==
  ASSUME IInv, NEW d \in Dbc, DbcCall(d)
  PROVE  /\ IInv' /\ Stays
         /\ (ShareOn(d) => Len(connections) < MaxShare) => Lists
BY AllocConnectSafe, FreeConnectSafe, ConnectSafe, ConnectRefusedSafe,
   DisconnectSafe, ExecuteSafe, EndTranDbcSafe, SetAutoCommitSafe, ShareOnSafe,
   ShareOffSafe DEF DbcCall

LEMMA StutterSafe ==
  ASSUME IInv, UNCHANGED vars
  PROVE  IInv' /\ Stays /\ Lists
BY DEF vars, IInv, TypeOK, HandlesOpen, DbcIn, Stays, Lists, ListOK, Linked, Now

LEMMA InitSafe ==
  ASSUME Init
  PROVE  IInv /\ ListOK
<1>1. Fresh \in IscInfo /\ NoDbc \in DbcInfo /\ <<>> \in Seq(Isc)
  BY DEF Fresh, IscInfo, NoDbc, DbcInfo
<1>2. TypeOK
  BY <1>1 DEF Init, TypeOK
<1>3. HandlesOpen /\ DbcIn
  BY DEF Init, HandlesOpen, DbcIn, Fresh, NoDbc
<1>4. ListOK
  <2>1. Range(<<>>) = {} /\ IsInjective(<<>>) /\ Len(<<>>) = 0
    BY DEF Range, IsInjective
  <2>2. /\ Now.connections = <<>>
        /\ \A c \in Isc : ~Now.isc[c].shareConnected
    BY DEF Init, Now, Fresh
  <2> QED BY <2>1, <2>2, ConstantsAssumption DEF ListOK, Linked
<1> QED BY <1>2, <1>3, <1>4 DEF IInv

LEMMA IInvNext ==
  ASSUME IInv, [Next]_vars
  PROVE  IInv'
BY DbcCallSafe, EndTranEnvSafe, StutterSafe DEF Next

\* The transaction that SQLEndTran will end, the common one or a connection's
\* own, is active at the server, and nobody else's, whatever the calls and
\* whichever requests the server refuses.
THEOREM HandlesAreOpen == Spec => []HandlesOpen
<1>1. Init => IInv
  BY InitSafe
<1>2. IInv /\ [Next]_vars => IInv'
  BY IInvNext
<1>3. IInv => HandlesOpen
  BY DEF IInv
<1> QED BY <1>1, <1>2, <1>3, PTL DEF Spec

\* The variables keep the types of the C++ members.
THEOREM TypeCorrect == Spec => []TypeOK
<1>1. Init => IInv
  BY InitSafe
<1>2. IInv /\ [Next]_vars => IInv'
  BY IInvNext
<1>3. IInv => TypeOK
  BY DEF IInv
<1> QED BY <1>1, <1>2, <1>3, PTL DEF Spec

\* Two-phase commit: only SQLEndTran on the environment ends the common
\* transaction; the end of one connection's transaction, its autocommit or its
\* disconnect keeps it, and the work done in it.
THEOREM SharedEnds == Spec => SharedEndsAsOne
<1>1. Init => IInv
  BY InitSafe
<1>2. IInv /\ [Next]_vars => IInv'
  BY IInvNext
<1> DEFINE Env == \E op \in Ops : EndTranEnv(op)
           GoesOn == (shared # None /\ ~Env)
                      => shared' = shared /\ shared \in open'
                           /\ (shared \in work => shared \in work')
<1>3. IInv /\ [Next]_vars => [GoesOn]_vars
  <2> SUFFICES ASSUME IInv, [Next]_vars, shared # None, ~Env
               PROVE  shared' = shared /\ shared \in open'
                        /\ (shared \in work => shared \in work')
    OBVIOUS
  <2>1. Stays
    <3>1. CASE \E d \in Dbc : DbcCall(d)
      BY <3>1, DbcCallSafe
    <3>2. CASE UNCHANGED vars
      BY <3>2, StutterSafe
    <3> QED BY <3>1, <3>2 DEF Next
  <2>2. HandlesOpen'
    BY <1>2 DEF IInv
  <2> QED BY <2>1, <2>2 DEF Stays, HandlesOpen
<1> QED BY <1>1, <1>2, <1>3, PTL DEF Spec, SharedEndsAsOne

\* Without a common connection, SQLEndTran on the environment that reports
\* success has ended the work of every connection of its list.
THEOREM EnvEnds == Spec => EnvEndsListed
<1>1. Init => IInv
  BY InitSafe
<1>2. IInv /\ [Next]_vars => IInv'
  BY IInvNext
<1> DEFINE Done == \A op \in Ops :
                     (EndTranEnv(op) /\ connections = <<>> /\ ret' = "ok")
                     => \A d \in listed : Connection(d) # None
                          => isc[Connection(d)].handle \notin work'
<1>3. IInv /\ [Next]_vars => [Done]_vars
  BY EndTranEnvSafe
<1> QED BY <1>1, <1>2, <1>3, PTL DEF Spec, EnvEndsListed

-----------------------------------------------------------------------------
\* The list of the common connection.

\* A connection joins only while the list has room.
RoomToJoin == \A d \in Dbc : ShareOn(d) => Len(connections) < MaxShare

LEMMA ListOKNext ==
  ASSUME IInv, ListOK, [Next]_vars, [RoomToJoin]_vars
  PROVE  ListOK'
<1>1. CASE UNCHANGED vars
  BY <1>1, StutterSafe DEF Lists
<1>2. CASE ~UNCHANGED vars
  <2>1. \A d \in Dbc : DbcCall(d) => Lists
    BY <1>2, DbcCallSafe DEF RoomToJoin
  <2>2. \A op \in Ops : EndTranEnv(op) => Lists
    BY EndTranEnvSafe
  <2> QED BY <1>2, <2>1, <2>2 DEF Next, Lists
<1> QED BY <1>1, <1>2

LEMMA ListOKShareList ==
  ASSUME IInv, ListOK
  PROVE  ShareList
BY NowGood DEF ListOK, Linked, ShareList

\* As long as nobody joins a full list, it names each connection that works in
\* the common transaction, once, and never a freed one.  (A join that finds
\* the list full clears the flag of its connection even if that is a member.)
THEOREM ShareListKept ==
  Spec /\ [][RoomToJoin]_vars => []ShareList
<1>1. Init => IInv /\ ListOK
  BY InitSafe
<1>2. IInv /\ [Next]_vars => IInv'
  BY IInvNext
<1>3. IInv /\ ListOK /\ [Next]_vars /\ [RoomToJoin]_vars => ListOK'
  BY ListOKNext
<1>4. IInv /\ ListOK => ShareList
  BY ListOKShareList
<1> QED BY <1>1, <1>2, <1>3, <1>4, PTL DEF Spec

\* That is so whenever the list has more places than there are connections.
THEOREM ShareListOfFew ==
  ASSUME IsFiniteSet(Isc), Cardinality(Isc) < MaxShare
  PROVE  Spec => []ShareList
<1>1. Init => IInv /\ ListOK
  BY InitSafe
<1>2. IInv /\ ListOK => Len(connections) < MaxShare
  <2> SUFFICES ASSUME IInv, ListOK PROVE Len(connections) < MaxShare
    OBVIOUS
  <2>1. connections \in Seq(Isc) /\ IsInjective(connections)
    BY NowGood DEF IInv, TypeOK, ListOK, Linked
  <2> DEFINE n == Len(connections)
  <2>2. n \in Nat /\ connections \in Injection(1 .. n, Isc)
    BY <2>1 DEF Injection, IsInjective
  <2>3. Cardinality(1 .. n) <= Cardinality(Isc)
    BY <2>2, FS_Injection
  <2>4. Cardinality(1 .. n) = n
    <3>1. 1 \in Int /\ n \in Int /\ n \in Nat
      BY <2>2
    <3> HIDE DEF n
    <3>2. Cardinality(1 .. n) = IF 1 > n THEN 0 ELSE n - 1 + 1
      BY <3>1, FS_Interval
    <3> QED BY <3>1, <3>2
  <2>5. Cardinality(Isc) \in Nat /\ MaxShare \in Nat
    BY FS_CardinalityType, ConstantsAssumption
  <2> HIDE DEF n
  <2>6. n < MaxShare
    BY <2>2, <2>3, <2>4, <2>5
  <2> QED BY <2>6 DEF n
<1>3. IInv /\ ListOK /\ [Next]_vars => IInv' /\ ListOK'
  BY <1>2, IInvNext, ListOKNext DEF RoomToJoin
<1>4. IInv /\ ListOK => ShareList
  BY ListOKShareList
<1> QED BY <1>1, <1>3, <1>4, PTL DEF Spec
=============================================================================
