-------------------------- MODULE DataAtExec_proofs --------------------------
(***************************************************************************)
(* Proofs about DataAtExec: a statement of one row is executed with what   *)
(* was sent for it, and its parameters are asked for in order.             *)
(*                                                                         *)
(* The inductive invariant IInv relates the record of every parameter to   *)
(* what the application sent for it: before the parameter that is asked    *)
(* for all have their values, after it none has anything, and that one is  *)
(* in the state the phase of the call says (AskedAt, PutAt).  It is kept   *)
(* by the three ways inputParam leaves (a question, an end, an error),     *)
(* which are first described for any world that may enter it.              *)
(*                                                                         *)
(* Two limits.  CancelIn \subseteq {"need"}: SQLCancel after the first     *)
(* question leaves startedTransfer set, and the invariant is then false    *)
(* (a hazard of the code).  arraySize = 1: the loop over the rows of an    *)
(* array is a fold, about which only an induction could tell.              *)
(***************************************************************************)
EXTENDS DataAtExec, SequenceTheorems, WellFoundedInduction, TLAPS

-----------------------------------------------------------------------------
\* Least and greatest members, and sequences.

LEMMA LeastNatural ==
  ASSUME NEW T \in SUBSET Nat, T # {}
  PROVE  Min(T) \in T /\ \A y \in T : Min(T) <= y
<1>1. PICK x \in T : \A y \in T : <<y, x>> \notin OpToRel(<, Nat)
  BY WFMin, NatLessThanWellFounded, Zenon
<1>2. x \in Nat /\ \A y \in T : y \in Nat /\ ~(y < x)
  BY <1>1, Zenon DEF OpToRel
<1>3. \A y \in T : x <= y
  BY <1>2
<1> QED BY <1>3, Zenon DEF Min

LEMMA MaxOfOne ==
  ASSUME NEW n \in Nat, NEW S \in SUBSET {n}
  PROVE  Max({n} \cup S) = n
<1>1. {n} \cup S = {n}
  OBVIOUS
<1> QED BY <1>1 DEF Max

LEMMA WiderSeq ==
  ASSUME NEW S, NEW T, S \subseteq T
  PROVE  Seq(S) \subseteq Seq(T)
BY SeqDef

-----------------------------------------------------------------------------
\* What is true of a world.

Given == {Null} \cup Seq(Chunks)

Value == {Null} \cup Seq(Chunks \cup Nat)

Typed(w) ==
  /\ w.need \in 0 .. Count
  /\ w.rec \in [Params -> DescRecord]
  /\ w.sqlda \in [Params -> Value]
  /\ w.dangling \in BOOLEAN
  /\ w.token \in 0 .. Count
  /\ w.given \in [Params -> Given]

\* Nothing is under way for p.
CleanAt(w, p) ==
  ~w.rec[p].startedTransfer /\ (p \notin Blobs => w.rec[p].data = <<>>)

\* Nothing was sent for p yet.
IdleAt(w, p) == w.given[p] = <<>> /\ ~w.rec[p].null

\* The value of p is what was sent for it, or that of its buffer.
ValueAt(w, p) ==
  IF w.rec[p].data_at_exec THEN w.given[p] # <<>> /\ w.sqlda[p] = w.given[p]
                           ELSE w.sqlda[p] = Bound(0)

\* The parameters before n have their values, and those after it nothing.
Reached(w, n) ==
  /\ \A p \in Params : p < n => ValueAt(w, p)
  /\ \A p \in Params \ {n} : CleanAt(w, p)
  /\ \A p \in Params : p > n => IdleAt(w, p)

\* SQLParamData asked for n, and nothing was sent.
AskedAt(w, n) ==
  /\ IdleAt(w, n)
  /\ w.rec[n].startedTransfer => n \in Blobs
  /\ w.rec[n].startedTransfer \/ n \notin Blobs => w.rec[n].data = <<>>

\* What was sent for n is in its buffer or stream.
PutAt(w, n) ==
  /\ w.rec[n].startedTransfer
  /\ w.given[n] # <<>>
  /\ IF n \in Blobs
     THEN IF w.rec[n].null THEN w.given[n] = Null
                           ELSE w.given[n] = w.rec[n].data
     ELSE w.sqlda[n] = w.given[n] /\ (w.given[n] # Null => w.rec[n].data = w.given[n])

Good(w, ph) ==
  /\ Typed(w)
  /\ ~w.dangling
  /\ ph \in {"ready", "need", "mustPut", "canPut"}
  /\ ph = "ready" => \A p \in Params : CleanAt(w, p)
  /\ ph # "ready" => w.need \in Params /\ w.rec[w.need].data_at_exec /\ Reached(w, w.need)
  /\ ph = "need" => IdleAt(w, w.need) /\ CleanAt(w, w.need)
  /\ ph \in {"mustPut", "canPut"} => w.token = w.need
  /\ ph = "mustPut" => AskedAt(w, w.need)
  /\ ph = "canPut" => PutAt(w, w.need)

-----------------------------------------------------------------------------
\* inputParam.

\* The fields that inputParam leaves alone.
SameElse(w, v) ==
  /\ v.dangling = w.dangling /\ v.token = w.token
  /\ v.given = w.given /\ v.sent = w.sent

Worlds == [need: 0 .. Count, rec: [Params -> DescRecord], sqlda: [Params -> Value],
           dangling: BOOLEAN, token: 0 .. Count, given: [Params -> Given],
           sent: {<<>>}, ret: {"success", "needData", "error"}]

\* inputParam enters at w.need: with the data put for that parameter, or at
\* the first parameter.
Entry(w) ==
  /\ w \in Worlds /\ w.ret = "success" /\ ~w.dangling
  /\ w.need \in Params
  /\ Reached(w, w.need)
  /\ \/ w.rec[w.need].data_at_exec /\ PutAt(w, w.need)
     \/ IdleAt(w, w.need) /\ CleanAt(w, w.need)

LEMMA StopIs ==
  ASSUME NEW w, w.need \in Params
  PROVE  /\ Stop(w) \in w.need .. Count + 1
         /\ Stop(w) <= Count => /\ w.rec[Stop(w)].data_at_exec
                                /\ ~w.rec[Stop(w)].startedTransfer
         /\ \A p \in w.need .. Stop(w) - 1 :
              w.rec[p].data_at_exec => w.rec[p].startedTransfer
<1> DEFINE n == w.need
           S == {p \in AtExec(w, n .. Count) : ~w.rec[p].startedTransfer}
           T == {Count + 1} \cup S
<1>1. n \in Nat /\ n >= 1 /\ n <= Count /\ Count \in Nat
  BY ConstantsAssumption DEF Params
<1>2. \A p \in S : /\ p \in n .. Count /\ w.rec[p].data_at_exec
                   /\ ~w.rec[p].startedTransfer
  BY DEF AtExec
<1>3. \A p \in n .. Count : w.rec[p].data_at_exec /\ ~w.rec[p].startedTransfer => p \in S
  BY DEF AtExec
<1>4. Stop(w) = Min(T)
  BY DEF Stop
<1> HIDE DEF S, n
<1>5. T # {} /\ T \in SUBSET Nat
  BY <1>1, <1>2
<1>6. Min(T) \in T /\ \A y \in T : Min(T) <= y
  <2> HIDE DEF T
  <2> QED BY <1>5, LeastNatural
<1> DEFINE m == Min(T)
<1>7. m \in n .. Count + 1 /\ (m <= Count => m \in S)
  <2> HIDE DEF m
  <2>1. m \in T
    BY <1>6 DEF m
  <2> QED BY <2>1, <1>1, <1>2
<1>8. ASSUME NEW p \in n .. m - 1, w.rec[p].data_at_exec
      PROVE  w.rec[p].startedTransfer
  <2>1. p \in n .. Count /\ ~(m <= p)
    BY <1>1, <1>7
  <2>2. p \notin S
    BY <2>1, <1>6
  <2> QED BY <2>1, <2>2, <1>3, <1>8
<1> HIDE DEF m
<1>9. Stop(w) = m
  BY <1>4 DEF m
<1> QED BY <1>2, <1>7, <1>8, <1>9 DEF n

\* What the loop makes of the parameters from w.need to last, of which at most
\* the first is sent at execution.
LEMMA PassedIs ==
  ASSUME NEW w, Entry(w), NEW last \in w.need - 1 .. Count,
         \A p \in w.need + 1 .. last : ~w.rec[p].data_at_exec,
         w.need <= last => (w.rec[w.need].data_at_exec => PutAt(w, w.need))
  PROVE  LET v == Passed(w, last, 0)
         IN  /\ v \in Worlds /\ v.ret = "success" /\ SameElse(w, v)
             /\ v.need = w.need
             /\ \A p \in Params : v.rec[p].data_at_exec = w.rec[p].data_at_exec
             /\ \A p \in Params : p <= last => CleanAt(v, p) /\ ValueAt(v, p)
             /\ \A p \in Params : p > last =>
                  v.rec[p] = w.rec[p] /\ v.sqlda[p] = w.sqlda[p]
<1> DEFINE n == w.need
           P == n .. last
           E == AtExec(w, P)
           R == [p \in Params |-> IF p \in E THEN Transferred(p, w.rec[p]) ELSE w.rec[p]]
           Q == [p \in Params |-> IF p \notin P THEN w.sqlda[p]
                                  ELSE IF p \in E THEN TransferredValue(p, w)
                                  ELSE Bound(0)]
           v == Passed(w, last, 0)
<1>1. n \in Nat /\ n >= 1 /\ n <= Count /\ Count \in Nat /\ last \in Int /\ n \in Params
  BY ConstantsAssumption DEF Params, Entry
<1>2. E \subseteq {n} /\ (n \in E <=> n <= last /\ w.rec[n].data_at_exec)
  <2>1. \A p \in P : p = n \/ p \in n + 1 .. last
    BY <1>1
  <2> QED BY <2>1, <1>1 DEF AtExec
<1>3. \A p \in Params : /\ p \in E <=> p = n /\ n <= last /\ w.rec[n].data_at_exec
                        /\ p \in P <=> n <= p /\ p <= last
  BY <1>1, <1>2 DEF Params
<1>4. Max({n} \cup E) = n
  <2> HIDE DEF n, E
  <2> QED BY <1>1, <1>2, MaxOfOne
<1>5. v = [w EXCEPT !.need = n, !.rec = R, !.sqlda = Q]
  BY <1>4 DEF Passed
<1>6. ASSUME NEW p \in Params
      PROVE  /\ Transferred(p, w.rec[p]) \in DescRecord
             /\ Transferred(p, w.rec[p]).data_at_exec = w.rec[p].data_at_exec
             /\ ~Transferred(p, w.rec[p]).startedTransfer
             /\ p \notin Blobs => Transferred(p, w.rec[p]).data = <<>>
             /\ TransferredValue(p, w) \in Value
             /\ Bound(0) \in Value
  <2>1. w.rec[p] \in DescRecord /\ w.sqlda[p] \in Value
    BY DEF Entry, Worlds
  <2>2. Seq(Chunks) \subseteq Value /\ Bound(0) \in Value
    BY WiderSeq DEF Value, Bound
  <2>3. w.rec[p].data \in Seq(Chunks) /\ Null \in Value
    BY <2>1 DEF DescRecord, Value
  <2>4. ASSUME NEW x \in DescRecord
        PROVE  LET t == Transferred(p, x)
               IN  /\ t \in DescRecord /\ t.data_at_exec = x.data_at_exec
                   /\ ~t.startedTransfer /\ (p \notin Blobs => t.data = <<>>)
    <3> DEFINE y == IF p \in Blobs THEN x.data ELSE <<>>
               t == [x EXCEPT !.startedTransfer = FALSE, !.data = y]
    <3>1. y \in Seq(Chunks) /\ (p \notin Blobs => y = <<>>)
      BY DEF DescRecord
    <3>2. Transferred(p, x) = t
      BY DEF Transferred
    <3> HIDE DEF y
    <3>3. t \in DescRecord /\ t.data_at_exec = x.data_at_exec /\ ~t.startedTransfer
          /\ t.data = y
      BY <3>1 DEF DescRecord
    <3> QED BY <3>1, <3>2, <3>3
  <2> QED BY <2>1, <2>2, <2>3, <2>4 DEF TransferredValue
<1>7. R \in [Params -> DescRecord] /\ Q \in [Params -> Value]
  BY <1>6 DEF Entry, Worlds
<1>r. \A p \in Params :
        /\ R[p] = IF p \in E THEN Transferred(p, w.rec[p]) ELSE w.rec[p]
        /\ Q[p] = IF p \notin P THEN w.sqlda[p]
                  ELSE IF p \in E THEN TransferredValue(p, w) ELSE Bound(0)
  OBVIOUS
<1> HIDE DEF R, Q, v, E, P, n
<1>8. /\ v \in Worlds /\ v.ret = "success" /\ SameElse(w, v) /\ v.need = n
      /\ v.rec = R /\ v.sqlda = Q
  BY <1>1, <1>5, <1>7 DEF Entry, Worlds, SameElse, n
<1>9. \A p \in Params : v.rec[p].data_at_exec = w.rec[p].data_at_exec
  BY <1>6, <1>8, <1>r
<1>10. \A p \in Params \ {n} : v.rec[p] = w.rec[p]
  BY <1>3, <1>8, <1>r
<1>11. ASSUME NEW p \in Params, p <= last
       PROVE  CleanAt(v, p) /\ ValueAt(v, p)
  <2>1. CASE p < n
    <3>1. p \notin E /\ p \notin P
      BY <2>1, <1>1, <1>3 DEF Params
    <3>2. v.rec[p] = w.rec[p] /\ v.sqlda[p] = w.sqlda[p] /\ v.given = w.given
      BY <3>1, <1>8, <1>r DEF SameElse
    <3>3. CleanAt(w, p) /\ ValueAt(w, p)
      BY <2>1, <1>1 DEF Entry, Reached, n, Params
    <3> QED BY <3>2, <3>3 DEF CleanAt, ValueAt
  <2>2. CASE p > n
    <3>1. p \notin E /\ p \in P /\ p # n
      BY <2>2, <1>1, <1>3, <1>11 DEF Params
    <3>2. ~w.rec[p].data_at_exec
      <4>1. p \in n + 1 .. last
        BY <2>2, <1>1, <1>11 DEF Params
      <4> QED BY <4>1 DEF n
    <3>3. v.rec[p] = w.rec[p] /\ v.sqlda[p] = Bound(0)
      BY <3>1, <1>8, <1>r
    <3>4. CleanAt(w, p)
      BY <3>1 DEF Entry, Reached, n
    <3> QED BY <3>2, <3>3, <3>4 DEF CleanAt, ValueAt
  <2>3. CASE p = n /\ ~w.rec[n].data_at_exec
    <3>1. p \notin E /\ p \in P
      BY <2>3, <1>1, <1>3, <1>11
    <3>2. v.rec[p] = w.rec[p] /\ v.sqlda[p] = Bound(0)
      BY <3>1, <1>8, <1>r
    <3>3. CleanAt(w, p)
      BY <2>3 DEF Entry, n
    <3> QED BY <2>3, <3>2, <3>3 DEF CleanAt, ValueAt
  <2>4. CASE p = n /\ w.rec[n].data_at_exec
    <3>1. p \in E /\ p \in P
      BY <2>4, <1>1, <1>3, <1>11
    <3>2. /\ v.rec[p] = Transferred(p, w.rec[p])
          /\ v.sqlda[p] = TransferredValue(p, w) /\ v.given = w.given
      BY <3>1, <1>8, <1>r DEF SameElse
    <3>3. PutAt(w, p)
      BY <2>4, <1>11 DEF n
    <3>4. w.given[p] # <<>> /\ TransferredValue(p, w) = w.given[p]
      BY <3>3 DEF PutAt, TransferredValue
    <3> QED BY <2>4, <3>2, <3>4, <1>6, <1>9 DEF CleanAt, ValueAt
  <2>5. p < n \/ p = n \/ p > n
    BY <1>1 DEF Params
  <2> QED BY <2>1, <2>2, <2>3, <2>4, <2>5
<1>12. ASSUME NEW p \in Params, p > last
       PROVE  v.rec[p] = w.rec[p] /\ v.sqlda[p] = w.sqlda[p]
  <2>1. p \notin P /\ p \notin E
    BY <1>12, <1>1, <1>3 DEF Params
  <2> QED BY <2>1, <1>8, <1>r
<1> QED BY <1>8, <1>9, <1>11, <1>12 DEF v, n

\* After inputParam: the next question, all values, or a refusal.
Result(w, v) ==
  /\ v \in Worlds /\ SameElse(w, v)
  /\ \A p \in Params : CleanAt(v, p) /\ v.rec[p].data_at_exec = w.rec[p].data_at_exec
  /\ v.ret = "needData" => /\ v.need \in Params /\ v.rec[v.need].data_at_exec
                           /\ Reached(v, v.need) /\ IdleAt(v, v.need)
  /\ v.ret = "success" => \A p \in Params : ValueAt(v, p)

LEMMA ConvertAllIs ==
  ASSUME NEW w, Entry(w), NEW v \in ConvertAll(w, 0)
  PROVE  Result(w, v)
<1> DEFINE n == w.need
           stop == Stop(w)
           done == Passed(w, stop - 1, 0)
           fails == (n .. stop - 1) \ AtExec(w, Params)
<1>1. n \in Nat /\ n >= 1 /\ n <= Count /\ Count \in Nat /\ n \in Params
  BY ConstantsAssumption DEF Params, Entry
<1>2. /\ stop \in n .. Count + 1
      /\ stop <= Count => w.rec[stop].data_at_exec /\ ~w.rec[stop].startedTransfer
      /\ \A p \in n .. stop - 1 : w.rec[p].data_at_exec => w.rec[p].startedTransfer
  BY <1>1, StopIs
<1> HIDE DEF n, stop
<1>3. \A p \in n + 1 .. stop - 1 : ~w.rec[p].data_at_exec
  <2>1. \A p \in n + 1 .. stop - 1 : p \in n .. stop - 1 /\ p \in Params \ {n}
    BY <1>1, <1>2 DEF Params
  <2>2. \A p \in Params \ {n} : ~w.rec[p].startedTransfer
    BY DEF Entry, Reached, CleanAt, n
  <2> QED BY <2>1, <2>2, <1>2
<1>4. n <= stop - 1 => (w.rec[n].data_at_exec => PutAt(w, n))
  <2> SUFFICES ASSUME n <= stop - 1, w.rec[n].data_at_exec PROVE PutAt(w, n)
    OBVIOUS
  <2>1. n \in n .. stop - 1
    BY <1>1, <1>2
  <2>2. w.rec[n].startedTransfer
    BY <2>1, <1>2
  <2> QED BY <2>2 DEF Entry, CleanAt, n
\* Passing any part of the way.
<1>5. ASSUME NEW last \in n - 1 .. stop - 1
      PROVE  LET u == Passed(w, last, 0)
             IN  /\ u \in Worlds /\ u.ret = "success" /\ SameElse(w, u)
                 /\ \A p \in Params : u.rec[p].data_at_exec = w.rec[p].data_at_exec
                 /\ \A p \in Params : p <= last => CleanAt(u, p) /\ ValueAt(u, p)
                 /\ \A p \in Params : p > last =>
                      u.rec[p] = w.rec[p] /\ u.sqlda[p] = w.sqlda[p]
  <2>1. last \in n - 1 .. Count /\ last \in Int
    BY <1>1, <1>2
  <2>2. \A p \in n + 1 .. last : ~w.rec[p].data_at_exec
    <3>1. \A p \in n + 1 .. last : p \in n + 1 .. stop - 1
      BY <1>1, <1>2
    <3> QED BY <3>1, <1>3
  <2>3. n <= last => (w.rec[n].data_at_exec => PutAt(w, n))
    BY <2>1, <1>1, <1>2, <1>4
  <2> QED BY <2>1, <2>2, <2>3, PassedIs DEF n
\* Passing the parameter it entered at leaves nothing under way.
<1>6. ASSUME NEW last \in n - 1 .. stop - 1, last >= n \/ CleanAt(w, n)
      PROVE  \A p \in Params : CleanAt(Passed(w, last, 0), p)
  <2> SUFFICES ASSUME NEW p \in Params PROVE CleanAt(Passed(w, last, 0), p)
    OBVIOUS
  <2>1. CASE p <= last
    BY <2>1, <1>5
  <2>2. CASE p > last
    <3>1. p = n => CleanAt(w, n)
      BY <2>2, <1>1, <1>2, <1>6 DEF Params
    <3>2. CleanAt(w, p)
      BY <3>1 DEF Entry, Reached, n
    <3> QED BY <3>2, <2>2, <1>5 DEF CleanAt
  <2> QED BY <2>1, <2>2, <1>1, <1>2 DEF Params
<1>7. stop = n => CleanAt(w, n)
  <2>1. stop = n => ~w.rec[n].startedTransfer
    BY <1>1, <1>2
  <2> QED BY <2>1 DEF Entry, PutAt, n
<1>8. stop - 1 \in n - 1 .. stop - 1 /\ (stop - 1 >= n \/ CleanAt(w, n))
  BY <1>1, <1>2, <1>7
<1>9. /\ done \in Worlds /\ done.ret = "success" /\ SameElse(w, done)
      /\ \A p \in Params : /\ CleanAt(done, p)
                           /\ done.rec[p].data_at_exec = w.rec[p].data_at_exec
                           /\ p <= stop - 1 => ValueAt(done, p)
                           /\ p > stop - 1 => done.rec[p] = w.rec[p]
  BY <1>5, <1>6, <1>8
<1> HIDE DEF done
<1>10. CASE stop <= Count /\ v = NeedData(done, stop)
  <2>1. stop \in Params /\ w.rec[stop].data_at_exec
    BY <1>10, <1>1, <1>2 DEF Params
  <2>2. /\ v \in Worlds /\ v.ret = "needData" /\ v.need = stop /\ SameElse(w, v)
        /\ v.rec = done.rec /\ v.sqlda = done.sqlda /\ v.given = w.given
    <3>1. stop \in 0 .. Count
      BY <2>1, <1>1 DEF Params
    <3>2. v = [done EXCEPT !.need = stop, !.ret = "needData"]
      BY <1>10 DEF NeedData
    <3>3. v \in Worlds /\ v.ret = "needData" /\ v.need = stop
      BY <3>1, <3>2, <1>9 DEF Worlds
    <3>4. /\ v.rec = done.rec /\ v.sqlda = done.sqlda /\ v.given = done.given
          /\ v.dangling = done.dangling /\ v.token = done.token /\ v.sent = done.sent
      BY <3>2, <1>9 DEF Worlds
    <3> QED BY <3>3, <3>4, <1>9 DEF SameElse
  <2>3. \A p \in Params : CleanAt(v, p) /\ v.rec[p].data_at_exec = w.rec[p].data_at_exec
    BY <2>2, <1>9 DEF CleanAt
  <2>4. \A p \in Params : p < stop => ValueAt(v, p)
    <3>1. \A p \in Params : p < stop => p <= stop - 1
      BY <1>1, <1>2 DEF Params
    <3> QED BY <3>1, <2>2, <1>9 DEF ValueAt, SameElse
  <2>5. \A p \in Params : p >= stop => IdleAt(v, p)
    <3> SUFFICES ASSUME NEW p \in Params, p >= stop PROVE IdleAt(v, p)
      OBVIOUS
    <3>1. p > stop - 1
      BY <1>1, <1>2 DEF Params
    <3>2. v.rec[p] = w.rec[p] /\ v.given[p] = w.given[p]
      BY <3>1, <2>2, <1>9
    <3>3. CASE p = n
      <4>1. CleanAt(w, n)
        BY <3>3, <1>1, <1>2, <1>7
      <4>2. IdleAt(w, n)
        BY <4>1 DEF Entry, CleanAt, PutAt, n
      <4> QED BY <3>2, <3>3, <4>2 DEF IdleAt
    <3>4. CASE p # n
      <4>1. p > n
        BY <3>4, <1>1, <1>2 DEF Params
      <4>2. IdleAt(w, p)
        BY <4>1 DEF Entry, Reached, n
      <4> QED BY <3>2, <4>2 DEF IdleAt
    <3> QED BY <3>3, <3>4
  <2>6. Reached(v, stop) /\ IdleAt(v, stop)
    <3>1. \A p \in Params : p > stop => p >= stop
      BY <2>1 DEF Params
    <3>2. stop >= stop
      BY <2>1 DEF Params
    <3> QED BY <3>1, <3>2, <2>1, <2>3, <2>4, <2>5 DEF Reached
  <2> QED BY <2>1, <2>2, <2>3, <2>6 DEF Result
<1>11. CASE ~(stop <= Count) /\ v = done
  <2>1. \A p \in Params : p <= stop - 1
    BY <1>11, <1>1, <1>2 DEF Params
  <2> QED BY <2>1, <1>9, <1>11 DEF Result
<1>12. CASE \E p \in fails : v = Throw(Passed(w, p - 1, 0))
  <2>1. PICK p \in fails : v = Throw(Passed(w, p - 1, 0))
    BY <1>12
  <2> DEFINE u == Passed(w, p - 1, 0)
  <2>2. p \in n .. stop - 1 /\ ~w.rec[p].data_at_exec
    <3>1. p \in n .. stop - 1 /\ p \notin AtExec(w, Params)
      OBVIOUS
    <3>2. p \in Params
      BY <3>1, <1>1, <1>2 DEF Params
    <3> QED BY <3>1, <3>2 DEF AtExec
  <2>3. p - 1 \in n - 1 .. stop - 1 /\ (p - 1 >= n \/ p = n)
    BY <2>2, <1>1, <1>2
  <2>4. p = n => CleanAt(w, n)
    BY <2>2 DEF Entry, n
  <2>5. /\ u \in Worlds /\ SameElse(w, u)
        /\ \A q \in Params : CleanAt(u, q) /\ u.rec[q].data_at_exec = w.rec[q].data_at_exec
    BY <2>3, <2>4, <1>5, <1>6
  <2> HIDE DEF u
  <2>6. /\ v \in Worlds /\ v.ret = "error" /\ SameElse(w, v) /\ v.rec = u.rec
    BY <2>1, <2>5 DEF Throw, Worlds, SameElse, u
  <2> QED BY <2>5, <2>6 DEF Result, CleanAt
<1> QED
  <2>1. ConvertAll(w, 0) = {IF stop <= Count THEN NeedData(done, stop) ELSE done}
                             \cup (IF "convert" \in Faults
                                   THEN {Throw(Passed(w, p - 1, 0)) : p \in fails}
                                   ELSE {})
    BY DEF ConvertAll, stop, done, n
  <2> HIDE DEF fails
  <2> QED BY <2>1, <1>10, <1>11, <1>12

-----------------------------------------------------------------------------
\* executeStatement.

\* What the call leaves when it does not ask.
Finished(w) ==
  /\ Typed(w) /\ ~w.dangling /\ w.ret # "needData"
  /\ \A p \in Params : CleanAt(w, p)
  /\ \A n \in DOMAIN w.sent, p \in Params :
       w.sent[n].values[p] = IF w.rec[p].data_at_exec THEN w.sent[n].given[p]
                                                      ELSE Bound(n - 1)

\* What it leaves when it does.
Asks(w) ==
  /\ w \in Worlds /\ ~w.dangling /\ w.ret = "needData" /\ w.sent = <<>>
  /\ w.need \in Params /\ w.rec[w.need].data_at_exec
  /\ Reached(w, w.need) /\ IdleAt(w, w.need) /\ CleanAt(w, w.need)

LEMMA NothingTyped == NothingGiven \in [Params -> Given]
BY DEF NothingGiven, Given

LEMMA TypedWorlds ==
  ASSUME NEW w \in Worlds
  PROVE  Typed(w)
BY DEF Worlds, Typed

LEMMA ServerExecuteIs ==
  ASSUME NEW w, Entry(w), NEW v, Result(w, v), v.ret = "success",
         NEW u \in ServerExecute(v, FALSE)
  PROVE  Finished(u)
<1>1. v \in Worlds /\ ~v.dangling /\ v.sent = <<>>
  BY DEF Entry, Result, SameElse, Worlds
<1>2. \A p \in Params : CleanAt(v, p) /\ ValueAt(v, p)
  BY DEF Result
<1>3. CASE u = Executed(v)
  <2>1. u = [v EXCEPT !.sent = <<Row(v)>>, !.given = NothingGiven]
    BY <1>1, <1>3 DEF Executed
  <2>2. /\ u.need = v.need /\ u.rec = v.rec /\ u.sqlda = v.sqlda
        /\ u.dangling = v.dangling /\ u.token = v.token /\ u.ret = "success"
        /\ u.given = NothingGiven /\ u.sent = <<Row(v)>>
    BY <2>1, <1>1 DEF Worlds
  <2>3. Typed(u)
    BY <2>2, <1>1, NothingTyped DEF Worlds, Typed
  <2>4. \A p \in Params : CleanAt(u, p)
    BY <2>2, <1>2 DEF CleanAt
  <2>5. /\ DOMAIN u.sent = {1}
        /\ u.sent[1].values = v.sqlda /\ u.sent[1].given = v.given
    BY <2>2 DEF Row
  <2>6. \A p \in Params :
          u.sent[1].values[p] = IF u.rec[p].data_at_exec THEN u.sent[1].given[p]
                                                         ELSE Bound(1 - 1)
    BY <2>2, <2>5, <1>2 DEF ValueAt
  <2> QED BY <2>2, <2>3, <2>4, <2>5, <2>6, <1>1 DEF Finished
<1>4. CASE u = Throw([v EXCEPT !.dangling = @ \/ FALSE])
  <2>1. u = [v EXCEPT !.dangling = FALSE, !.ret = "error"]
    BY <1>1, <1>4 DEF Throw, Worlds
  <2>2. /\ u.need = v.need /\ u.rec = v.rec /\ u.sqlda = v.sqlda
        /\ ~u.dangling /\ u.dangling \in BOOLEAN /\ u.token = v.token /\ u.ret = "error"
        /\ u.given = v.given /\ u.sent = <<>>
    BY <2>1, <1>1 DEF Worlds
  <2>3. Typed(u)
    BY <2>2, <1>1 DEF Worlds, Typed
  <2>4. \A p \in Params : CleanAt(u, p)
    BY <2>2, <1>2 DEF CleanAt
  <2> QED BY <2>2, <2>3, <2>4 DEF Finished
<1> QED BY <1>3, <1>4 DEF ServerExecute

LEMMA NotSuccess ==
  ASSUME NEW w, Entry(w), NEW v, Result(w, v), v.ret # "success"
  PROVE  Asks(v) \/ Finished(v)
<1>1. /\ v \in Worlds /\ ~v.dangling /\ v.sent = <<>> /\ Typed(v)
      /\ v.ret \in {"needData", "error"}
  BY TypedWorlds DEF Entry, Result, SameElse, Worlds
<1> QED BY <1>1 DEF Result, Asks, Finished

\* A call that enters the execution asks for the next parameter, or ends.
LEMMA ContinueIs ==
  ASSUME NEW w, Entry(w), arraySize = 1, NEW D, NEW u \in ExecuteAny(w, D)
  PROVE  Asks(u) \/ Finished(u)
<1>1. InputParam(w, D, 0) = ConvertAll(w, 0)
  <2>1. w.need # 0
    BY ConstantsAssumption DEF Entry, Params
  <2> QED BY <2>1 DEF InputParam
<1>2. u \in Then(InputParam(w, D, 0), LAMBDA v : ServerExecute(v, FALSE))
  BY DEF ExecuteAny, ExecuteStatement
<1>3. CASE u \in ConvertAll(w, 0) /\ u.ret # "success"
  BY <1>3, ConvertAllIs, NotSuccess
<1>4. CASE \E v \in ConvertAll(w, 0) : v.ret = "success" /\ u \in ServerExecute(v, FALSE)
  BY <1>4, ConvertAllIs, ServerExecuteIs
<1> QED BY <1>1, <1>2, <1>3, <1>4 DEF Then

-----------------------------------------------------------------------------
\* The calls.

IInv == Good(Now, phase) /\ arraySize = 1 /\ ExecutedAsGiven

LEMMA SetGood ==
  ASSUME IInv, NEW w, NEW next, Set(w, next), Good(w, next), w.sent = <<>>
  PROVE  IInv'
<1>1. Good(Now, phase)'
  BY DEF Set, Now, Good, Typed, CleanAt, Reached, ValueAt, IdleAt, AskedAt, PutAt
<1>2. ExecutedAsGiven'
  BY DEF Set, ExecutedAsGiven
<1> QED BY <1>1, <1>2 DEF IInv, Set

LEMMA SetFinished ==
  ASSUME IInv, NEW w, Set(w, "ready"), Finished(w)
  PROVE  IInv'
<1>1. Good(w, "ready")
  BY DEF Finished, Good
<1>2. Good(Now, phase)'
  BY <1>1 DEF Set, Now, Good, Typed, CleanAt
<1>3. ExecutedAsGiven'
  BY DEF Set, ExecutedAsGiven, Finished
<1> QED BY <1>2, <1>3 DEF IInv, Set

LEMMA NowTyped ==
  ASSUME IInv
  PROVE  /\ Now \in Worlds /\ Typed(Now) /\ ~Now.dangling
         /\ Now.need = parameterNeedData /\ Now.rec = rec /\ Now.sqlda = sqlda
         /\ Now.token = token /\ Now.given = given /\ Now.sent = <<>>
         /\ Now.ret = "success"
<1>1. /\ Now.need = parameterNeedData /\ Now.rec = rec /\ Now.sqlda = sqlda
      /\ Now.token = token /\ Now.given = given /\ Now.sent = <<>>
      /\ Now.ret = "success" /\ Now.dangling = dangling
  BY DEF Now
<1>2. Typed(Now) /\ ~Now.dangling
  BY DEF IInv, Good
<1>3. Now \in Worlds
  BY <1>1, <1>2 DEF Worlds, Typed, Now
<1> QED BY <1>1, <1>2, <1>3

\* SQLExecute enters with clean records, the indicators of D at execution.
LEMMA ExecuteSafe ==
  ASSUME IInv, NEW D \in SUBSET Params, Execute(D)
  PROVE  IInv'
<1> DEFINE N == [p \in Params |-> [rec[p] EXCEPT !.null = FALSE]]
           B == [p \in Params |-> [N[p] EXCEPT !.data_at_exec = p \in D]]
           v == [Now EXCEPT !.need = 0, !.token = 0, !.given = NothingGiven, !.rec = N]
           b == [v EXCEPT !.rec = B]
           e == [b EXCEPT !.need = 1]
<1>1. PICK w \in ExecuteAny(v, D) : Set(w, IF w.ret = "needData" THEN "need" ELSE "ready")
  BY DEF Execute
<1>2. ASSUME NEW p \in Params
      PROVE  /\ B[p] \in DescRecord /\ ~B[p].null
             /\ B[p].startedTransfer = rec[p].startedTransfer /\ B[p].data = rec[p].data
  <2>1. ASSUME NEW x \in DescRecord, NEW d \in BOOLEAN
        PROVE  LET y == [[x EXCEPT !.null = FALSE] EXCEPT !.data_at_exec = d]
               IN  /\ y \in DescRecord /\ ~y.null
                   /\ y.startedTransfer = x.startedTransfer /\ y.data = x.data
    BY DEF DescRecord
  <2>2. rec[p] \in DescRecord /\ (p \in D) \in BOOLEAN
    BY NowTyped DEF Typed
  <2> QED BY <2>1, <2>2
<1>3. 1 \in Params /\ 0 \in 0 .. Count /\ 1 \in 0 .. Count
  BY ConstantsAssumption DEF Params
<1>4. B \in [Params -> DescRecord]
  BY <1>2
<1>5. /\ b \in Worlds /\ b.ret = "success" /\ ~b.dangling /\ b.need = 0 /\ b.sent = <<>>
      /\ b.rec = B /\ b.given = NothingGiven
      /\ e \in Worlds /\ e.ret = "success" /\ ~e.dangling /\ e.need = 1 /\ e.sent = <<>>
      /\ e.rec = B /\ e.given = NothingGiven
  <2> HIDE DEF B, N
  <2> QED BY <1>3, <1>4, NowTyped, NothingTyped DEF Worlds
<1>b. \A p \in Params : v.rec[p] = N[p]
  BY DEF Now
<1>6. InputParam(v, D, 0) = (IF "bind" \in Faults THEN {Throw(b)} ELSE {})
                              \cup ConvertAll(e, 0)
  <2>1. v.need = 0 /\ v.rec = N
    <3> HIDE DEF N
    <3> QED BY NowTyped DEF Worlds
  <2> HIDE DEF v, N
  <2> QED BY <2>1 DEF InputParam
<1>7. ExecuteAny(v, D) = Then(InputParam(v, D, 0), LAMBDA u : ServerExecute(u, FALSE))
  BY DEF ExecuteAny, ExecuteStatement, IInv
<1> HIDE DEF b, e, v
<1>8. \A p \in Params : /\ CleanAt(b, p) /\ CleanAt(e, p) /\ IdleAt(e, p)
  <2>1. \A p \in Params : CleanAt(Now, p)
    BY DEF IInv, Good, Execute
  <2> HIDE DEF B
  <2> QED BY <2>1, <1>2, <1>5, NowTyped DEF CleanAt, IdleAt, NothingGiven
<1>9. Entry(e)
  <2>1. Reached(e, 1)
    BY <1>8, ConstantsAssumption DEF Reached, Params
  <2> QED BY <2>1, <1>3, <1>5, <1>8 DEF Entry
<1>10. Finished(Throw(b))
  <2>1. /\ Throw(b) \in Worlds /\ Throw(b).ret = "error" /\ Throw(b).rec = b.rec
        /\ ~Throw(b).dangling /\ Throw(b).sent = <<>>
    BY <1>5 DEF Throw, Worlds
  <2>2. \A p \in Params : CleanAt(Throw(b), p)
    BY <2>1, <1>8 DEF CleanAt
  <2> QED BY <2>1, <2>2, TypedWorlds DEF Finished
<1>11. Asks(w) \/ Finished(w)
  <2>1. Throw(b).ret = "error"
    BY <1>5 DEF Throw, Worlds
  <2>2. \/ w = Throw(b)
        \/ w \in ConvertAll(e, 0) /\ w.ret # "success"
        \/ \E u \in ConvertAll(e, 0) : u.ret = "success" /\ w \in ServerExecute(u, FALSE)
    BY <2>1, <1>1, <1>6, <1>7 DEF Then
  <2> QED BY <2>2, <1>9, <1>10, ConvertAllIs, NotSuccess, ServerExecuteIs
<1>12. CASE Asks(w)
  <2>1. Good(w, "need") /\ w.sent = <<>>
    BY <1>12, TypedWorlds DEF Asks, Good
  <2> QED BY <2>1, <1>1, <1>12, SetGood DEF Asks
<1>13. CASE Finished(w)
  BY <1>1, <1>13, SetFinished DEF Finished
<1> QED BY <1>11, <1>12, <1>13

\* What SQLParamData returns with SQL_NEED_DATA is what SQLPutData fills.
LEMMA AskedGood ==
  ASSUME NEW w, Asks(w), NEW v, v = [w EXCEPT !.token = w.need]
  PROVE  Good(v, "mustPut") /\ v.sent = <<>>
<1>1. /\ v \in Worlds /\ v.need = w.need /\ v.rec = w.rec /\ v.sqlda = w.sqlda
      /\ v.dangling = w.dangling /\ v.token = w.need /\ v.given = w.given
      /\ v.sent = w.sent
  BY DEF Worlds, Asks
<1>2. Reached(v, v.need) /\ IdleAt(v, v.need) /\ CleanAt(v, v.need)
  BY <1>1 DEF Asks, Reached, ValueAt, CleanAt, IdleAt
<1> QED BY <1>1, <1>2, TypedWorlds DEF Asks, Good, AskedAt, CleanAt

LEMMA ParamDataSafe ==
  ASSUME IInv, ParamData
  PROVE  IInv'
<1> DEFINE n == parameterNeedData
<1>1. PICK w \in ParamDataWorlds(Now) :
        IF w.ret = "needData"
        THEN Set([w EXCEPT !.token = w.need], "mustPut")
        ELSE Set(w, "ready")
  BY DEF ParamData
<1>n. /\ n \in Params /\ rec[n].data_at_exec /\ Reached(Now, n) /\ Now.need = n
      /\ phase = "need" => IdleAt(Now, n) /\ CleanAt(Now, n)
      /\ phase = "canPut" => PutAt(Now, n)
      /\ phase \in {"need", "canPut"}
  BY NowTyped DEF IInv, Good, ParamData
<1>2. CASE phase = "need"
  <2> DEFINE u == NeedData(Begin(Now, n), n)
             v == [u EXCEPT !.token = n]
  <2>1. ~rec[n].startedTransfer
    BY <1>2, <1>n, NowTyped DEF CleanAt
  <2>2. w = u
    BY <2>1, <1>1, <1>n, NowTyped DEF ParamDataWorlds
  <2> DEFINE x == IF n \in Blobs
                  THEN [rec[n] EXCEPT !.startedTransfer = TRUE, !.data = <<>>]
                  ELSE rec[n]
             R == [rec EXCEPT ![n] = x]
  <2>3. /\ x \in DescRecord /\ x.data_at_exec = rec[n].data_at_exec /\ x.null = rec[n].null
        /\ x.startedTransfer => n \in Blobs
        /\ x.startedTransfer \/ n \notin Blobs => x.data = <<>>
    <3>1. rec[n] \in DescRecord
      BY <1>n, NowTyped DEF Typed
    <3>2. ~rec[n].startedTransfer /\ (n \notin Blobs => rec[n].data = <<>>)
      BY <1>2, <1>n, NowTyped DEF CleanAt
    <3>3. ASSUME NEW y \in DescRecord
          PROVE  LET z == [y EXCEPT !.startedTransfer = TRUE, !.data = <<>>]
                 IN  /\ z \in DescRecord /\ z.data_at_exec = y.data_at_exec
                     /\ z.null = y.null /\ z.data = <<>>
      <4>1. ASSUME NEW e \in Seq(Chunks)
            PROVE  LET z == [y EXCEPT !.startedTransfer = TRUE, !.data = e]
                   IN  /\ z \in DescRecord /\ z.data_at_exec = y.data_at_exec
                       /\ z.null = y.null /\ z.data = e
        BY DEF DescRecord
      <4>2. <<>> \in Seq(Chunks)
        OBVIOUS
      <4> QED BY <4>1, <4>2
    <3>4. CASE n \in Blobs
      <4>1. x = [rec[n] EXCEPT !.startedTransfer = TRUE, !.data = <<>>]
        BY <3>4
      <4> HIDE DEF x
      <4> QED BY <4>1, <3>1, <3>3, <3>4
    <3>5. CASE n \notin Blobs
      BY <3>1, <3>2, <3>5
    <3> QED BY <3>4, <3>5
  <2>4. rec \in [Params -> DescRecord]
    BY NowTyped DEF Typed
  <2>5. Begin(Now, n) = [Now EXCEPT !.rec = R]
    <3>1. CASE n \in Blobs
      BY <3>1, <2>4, <1>n DEF Begin, Now
    <3>2. CASE n \notin Blobs
      BY <3>2, <2>4, <1>n DEF Begin, Now
    <3> QED BY <3>1, <3>2
  <2>6. u = [[Now EXCEPT !.rec = R] EXCEPT !.need = n, !.ret = "needData"]
    BY <2>5 DEF NeedData
  <2> HIDE DEF x
  <2>7. R \in [Params -> DescRecord] /\ R[n] = x /\ \A p \in Params \ {n} : R[p] = rec[p]
    BY <2>3, <2>4, <1>n
  <2> HIDE DEF R
  <2>8. n \in 0 .. Count
    BY <1>n DEF Params
  <2> HIDE DEF n, u
  <2>9. /\ u \in Worlds /\ u.ret = "needData" /\ u.need = n /\ u.rec = R
        /\ u.sqlda = sqlda /\ ~u.dangling /\ u.given = given /\ u.sent = <<>>
    BY <2>6, <2>7, <2>8, NowTyped DEF Worlds
  <2>10. /\ v \in Worlds /\ v.need = n /\ v.rec = R /\ v.sqlda = sqlda /\ ~v.dangling
         /\ v.token = n /\ v.given = given /\ v.sent = <<>>
    BY <2>8, <2>9 DEF Worlds
  <2> HIDE DEF v
  <2>11. Reached(v, n) /\ IdleAt(v, n)
    <3>1. ASSUME NEW p \in Params, p # n
          PROVE  /\ CleanAt(v, p) /\ (p < n => ValueAt(v, p)) /\ (p > n => IdleAt(v, p))
      BY <3>1, <2>7, <2>10, <1>n, NowTyped DEF Reached, CleanAt, ValueAt, IdleAt
    <3>2. IdleAt(v, n)
      BY <2>3, <2>7, <2>10, <1>n, <1>2, NowTyped DEF IdleAt
    <3>3. \A p \in Params : (p < n \/ p > n) => p # n
      BY <1>n DEF Params
    <3> QED BY <3>1, <3>2, <3>3 DEF Reached
  <2>12. Good(v, "mustPut")
    BY <2>3, <2>7, <2>10, <2>11, <1>n, TypedWorlds DEF Good, AskedAt
  <2>13. Set(v, "mustPut")
    BY <1>1, <2>2, <2>9 DEF v
  <2> QED BY <2>10, <2>12, <2>13, SetGood
<1>3. CASE phase = "canPut"
  <2>1. PutAt(Now, n)
    BY <1>3, <1>n
  <2>2. w \in ExecuteAny(Now, AtExec(Now, Params))
    BY <2>1, <1>1, <1>n DEF ParamDataWorlds, PutAt
  <2>3. Entry(Now)
    BY <2>1, <1>n, NowTyped DEF Entry
  <2>4. Asks(w) \/ Finished(w)
    BY <2>2, <2>3, ContinueIs DEF IInv
  <2>5. CASE Asks(w)
    BY <2>5, <1>1, AskedGood, SetGood DEF Asks
  <2>6. CASE Finished(w)
    BY <2>6, <1>1, SetFinished DEF Finished
  <2> QED BY <2>4, <2>5, <2>6
<1> QED BY <1>2, <1>3, <1>n

\* SQLPutData writes the record of the parameter asked for, its value in the
\* statement and what was given for it.
Written(x, q, g) ==
  [Now EXCEPT !.rec = [rec EXCEPT ![parameterNeedData] = x],
              !.sqlda = [sqlda EXCEPT ![parameterNeedData] = q],
              !.given = [given EXCEPT ![parameterNeedData] = g]]

LEMMA WrittenSafe ==
  ASSUME IInv, phase \in {"mustPut", "canPut"},
         NEW x \in DescRecord, NEW q \in Value, NEW g \in Given,
         x.data_at_exec, x.startedTransfer, g # <<>>,
         IF parameterNeedData \in Blobs
         THEN IF x.null THEN g = Null ELSE g = x.data
         ELSE q = g /\ (g # Null => x.data = g),
         Set(Written(x, q, g), "canPut")
  PROVE  IInv'
<1> DEFINE n == parameterNeedData
           w == Written(x, q, g)
<1>1. /\ rec \in [Params -> DescRecord] /\ sqlda \in [Params -> Value]
      /\ given \in [Params -> Given]
  BY NowTyped DEF Typed
<1>2. n \in Params /\ Reached(Now, n) /\ Now.token = n /\ Now.need = n
  BY NowTyped DEF IInv, Good
<1>3. /\ w \in Worlds /\ w.need = n /\ w.token = n /\ ~w.dangling /\ w.sent = <<>>
      /\ w.rec = [rec EXCEPT ![n] = x] /\ w.sqlda = [sqlda EXCEPT ![n] = q]
      /\ w.given = [given EXCEPT ![n] = g]
  <2>1. /\ [rec EXCEPT ![n] = x] \in [Params -> DescRecord]
        /\ [sqlda EXCEPT ![n] = q] \in [Params -> Value]
        /\ [given EXCEPT ![n] = g] \in [Params -> Given]
    BY <1>1
  <2> QED BY <2>1, <1>2, NowTyped DEF Written, Worlds
<1> HIDE DEF w
<1>4. /\ w.rec[n] = x /\ w.sqlda[n] = q /\ w.given[n] = g
      /\ \A p \in Params \ {n} : /\ w.rec[p] = rec[p] /\ w.sqlda[p] = sqlda[p]
                                 /\ w.given[p] = given[p]
  BY <1>1, <1>2, <1>3
<1> HIDE DEF n
<1>5. Reached(w, n)
  <2>1. ASSUME NEW p \in Params, p # n
        PROVE  /\ CleanAt(w, p) /\ (p < n => ValueAt(w, p)) /\ (p > n => IdleAt(w, p))
    BY <2>1, <1>2, <1>4, NowTyped DEF Reached, CleanAt, ValueAt, IdleAt
  <2>2. \A p \in Params : (p < n \/ p > n) => p # n
    BY <1>2 DEF Params
  <2> QED BY <2>1, <2>2 DEF Reached
<1>6. PutAt(w, n)
  BY <1>4 DEF PutAt, n
<1>7. Good(w, "canPut")
  BY <1>2, <1>3, <1>4, <1>5, <1>6, TypedWorlds DEF Good
<1> QED BY <1>3, <1>7, SetGood DEF w

LEMMA PutDataSafe ==
  ASSUME IInv, PutData
  PROVE  IInv'
<1> DEFINE n == parameterNeedData
           g == given[n]
<1>1. /\ phase \in {"mustPut", "canPut"}
      /\ n \in Params /\ rec[n].data_at_exec /\ token = n
      /\ phase = "mustPut" => AskedAt(Now, n)
      /\ phase = "canPut" => PutAt(Now, n)
  BY NowTyped DEF IInv, Good, PutData
<1>2. /\ rec \in [Params -> DescRecord] /\ sqlda \in [Params -> Value]
      /\ given \in [Params -> Given]
      /\ rec[n] \in DescRecord /\ g \in Given /\ sqlda[n] \in Value
  BY <1>1, NowTyped DEF Typed
<1>3. CASE /\ given[token] # Null
           /\ \E x \in Chunks : Set(PutChunk(x), "canPut")
  <2>1. PICK x \in Chunks : Set(PutChunk(x), "canPut")
    BY <1>3
  <2> DEFINE d == IF n \in Blobs /\ ~rec[n].startedTransfer THEN <<x>>
                  ELSE Append(rec[n].data, x)
             m == n \in Blobs /\ rec[n].null
             y == [rec[n] EXCEPT !.startedTransfer = TRUE, !.data = d, !.null = m]
             q == IF n \in Blobs THEN sqlda[n] ELSE d
             h == Append(g, x)
  <2>2. g \in Seq(Chunks) /\ g # Null
    BY <1>1, <1>2, <1>3 DEF Given
  <2>3. rec[n].data \in Seq(Chunks) /\ d \in Seq(Chunks) /\ h \in Seq(Chunks) /\ h # <<>>
    <3>1. rec[n].data \in Seq(Chunks)
      BY <1>2 DEF DescRecord
    <3>2. \A e \in Seq(Chunks) : Append(e, x) \in Seq(Chunks) /\ Append(e, x) # <<>>
      <4> SUFFICES ASSUME NEW e \in Seq(Chunks)
                   PROVE  Append(e, x) \in Seq(Chunks) /\ Append(e, x) # <<>>
        OBVIOUS
      <4>1. Append(e, x) \in Seq(Chunks) /\ Len(Append(e, x)) = Len(e) + 1 /\ Len(e) \in Nat
        OBVIOUS
      <4>2. Len(<<>>) = 0
        OBVIOUS
      <4> HIDE DEF d, h
      <4> QED BY <4>1, <4>2
    <3>3. <<x>> \in Seq(Chunks)
      OBVIOUS
    <3> QED BY <2>2, <3>1, <3>2, <3>3
\* The data put so far, of which the piece is the next.
  <2>4. d = h /\ ~m
    <3>1. CASE phase = "mustPut"
      <4>1. /\ g = <<>> /\ ~rec[n].null
            /\ rec[n].startedTransfer \/ n \notin Blobs => rec[n].data = <<>>
        BY <3>1, <1>1, NowTyped DEF AskedAt, IdleAt
      <4>2. Append(<<>>, x) = <<x>>
        OBVIOUS
      <4> QED BY <4>1, <4>2
    <3>2. CASE phase = "canPut"
      <4>1. /\ rec[n].startedTransfer
            /\ n \in Blobs => ~rec[n].null /\ g = rec[n].data
            /\ n \notin Blobs => g = rec[n].data
        BY <3>2, <1>1, <2>2, NowTyped DEF PutAt
      <4> QED BY <4>1
    <3> QED BY <1>1, <3>1, <3>2
  <2>5. /\ y \in DescRecord /\ y.data_at_exec /\ y.startedTransfer /\ y.data = d /\ ~y.null
    <3>1. ASSUME NEW z \in DescRecord, NEW e \in Seq(Chunks), NEW b \in BOOLEAN
          PROVE  LET t == [z EXCEPT !.startedTransfer = TRUE, !.data = e, !.null = b]
                 IN  /\ t \in DescRecord /\ t.data_at_exec = z.data_at_exec
                     /\ t.startedTransfer /\ t.data = e /\ t.null = b
      BY DEF DescRecord
    <3>2. m \in BOOLEAN
      BY <1>2, Zenon DEF DescRecord
    <3> HIDE DEF d, m, n
    <3>3. /\ y \in DescRecord /\ y.data_at_exec = rec[n].data_at_exec
          /\ y.startedTransfer /\ y.data = d /\ y.null = m
      <4>1. rec[n] \in DescRecord /\ d \in Seq(Chunks) /\ m \in BOOLEAN
        BY <1>2, <2>3, <3>2
      <4>2. \A b \in BOOLEAN :
              LET t == [rec[n] EXCEPT !.startedTransfer = TRUE, !.data = d, !.null = b]
              IN  /\ t \in DescRecord /\ t.data_at_exec = rec[n].data_at_exec
                  /\ t.startedTransfer /\ t.data = d /\ t.null = b
        BY <4>1, <3>1
      <4> QED BY <4>1, <4>2, Zenon
    <3> QED BY <1>1, <2>4, <3>3
  <2>6. q \in Value
    BY <1>2, <2>3, WiderSeq DEF Value
  <2>7. PutChunk(x) = Written(y, q, h)
    <3> HIDE DEF d, h
    <3>1. token = n /\ [given EXCEPT ![n] = Append(@, x)] = [given EXCEPT ![n] = h]
      BY <1>1, <1>2 DEF h
    <3>2. [rec EXCEPT ![n].startedTransfer = TRUE, ![n].data = d,
                      ![n].null = n \in Blobs /\ @] = [rec EXCEPT ![n] = y]
      BY <1>1, <1>2 DEF DescRecord
    <3>3. [sqlda EXCEPT ![n] = IF n \in Blobs THEN @ ELSE d] = [sqlda EXCEPT ![n] = q]
      BY <1>1, <1>2
    <3> DEFINE k == Append(Now.given[token], x)
               r == [Now.rec EXCEPT ![n].startedTransfer = TRUE, ![n].data = d,
                                    ![n].null = m]
               c == IF n \in Blobs THEN Now.sqlda[n] ELSE d
    <3>4. PutChunk(x) = [Now EXCEPT !.rec[n].startedTransfer = TRUE, !.rec[n].data = d,
                                    !.rec[n].null = m,
                                    !.sqlda[n] = c, !.given[token] = k]
      BY NowTyped DEF PutChunk, d, m
    <3> HIDE DEF k, c, m, n
    <3>5. PutChunk(x) = [Now EXCEPT !.rec = r, !.sqlda = [Now.sqlda EXCEPT ![n] = c],
                                    !.given = [Now.given EXCEPT ![token] = k]]
      <4> HIDE DEF Now
      <4> QED BY <3>4, NowTyped DEF Worlds
    <3> HIDE DEF r
    <3> QED BY <3>1, <3>2, <3>3, <3>5, NowTyped DEF Written, r, k, c, m, n
  <2>8. /\ h \in Given
        /\ IF n \in Blobs THEN IF y.null THEN h = Null ELSE h = y.data
           ELSE q = h /\ (h # Null => y.data = h)
    BY <2>3, <2>4, <2>5 DEF Given
  <2> HIDE DEF d, y, q, h, m
  <2> QED BY <1>1, <2>1, <2>3, <2>5, <2>6, <2>7, <2>8, WrittenSafe
<1>4. CASE given[token] = <<>> /\ Set(PutNull, "canPut")
  <2> DEFINE y == [rec[n] EXCEPT !.startedTransfer = TRUE, !.null = TRUE]
  <2>1. /\ y \in DescRecord /\ y.data_at_exec /\ y.startedTransfer /\ y.null
    <3>1. ASSUME NEW z \in DescRecord
          PROVE  LET t == [z EXCEPT !.startedTransfer = TRUE, !.null = TRUE]
                 IN  /\ t \in DescRecord /\ t.data_at_exec = z.data_at_exec
                     /\ t.startedTransfer /\ t.null
      BY DEF DescRecord
    <3> QED BY <1>1, <1>2, <3>1
  <2>2. PutNull = Written(y, Null, Null)
    <3>1. token = n /\ n \in Params
      BY <1>1
    <3>2. [rec EXCEPT ![n].startedTransfer = TRUE, ![n].null = TRUE] = [rec EXCEPT ![n] = y]
      BY <1>1, <1>2
    <3> DEFINE T == TRUE
               F == TRUE
               N == Null
               G == Null
    <3>3. PutNull = [Now EXCEPT !.rec[n].startedTransfer = T, !.rec[n].null = F,
                                !.sqlda[n] = N, !.given[n] = G]
      BY <3>1 DEF PutNull
    <3>4. [Now.rec EXCEPT ![n].startedTransfer = T, ![n].null = F] = [rec EXCEPT ![n] = y]
      BY <3>2 DEF Now
    <3> HIDE DEF n, N, G, T, F
    <3>5. PutNull = [Now EXCEPT !.rec = [Now.rec EXCEPT ![n].startedTransfer = T,
                                                        ![n].null = F],
                                !.sqlda = [Now.sqlda EXCEPT ![n] = N],
                                !.given = [Now.given EXCEPT ![n] = G]]
      <4> HIDE DEF Now
      <4> QED BY <3>1, <3>3, NowTyped DEF Worlds
    <3> QED BY <3>4, <3>5, NowTyped DEF Written, n, N, G
  <2>3. Null \in Value /\ Null \in Given /\ Null # <<>>
    BY ConstantsAssumption DEF Value, Given
  <2> HIDE DEF y
  <2> QED BY <1>1, <1>4, <2>1, <2>2, <2>3, WrittenSafe
<1> QED BY <1>3, <1>4 DEF PutData

\* A call that is cancelled before anything was asked leaves clean records.
LEMMA CancelSafe ==
  ASSUME IInv, CancelIn \subseteq {"need"}, Cancel
  PROVE  IInv'
<1> DEFINE w == [Now EXCEPT !.token = 0, !.given = NothingGiven]
<1>1. Set(w, "ready") /\ phase = "need"
  BY DEF Cancel
<1>2. w \in Worlds /\ w.rec = rec /\ ~w.dangling /\ w.sent = <<>>
  <2>1. 0 \in 0 .. Count
    BY ConstantsAssumption
  <2> QED BY <2>1, NowTyped, NothingTyped DEF Worlds
<1>3. \A p \in Params : CleanAt(Now, p)
  BY <1>1 DEF IInv, Good, Reached
<1> HIDE DEF w
<1>4. \A p \in Params : CleanAt(w, p)
  BY <1>2, <1>3, NowTyped DEF CleanAt
<1>5. Good(w, "ready")
  BY <1>2, <1>4, TypedWorlds DEF Good
<1> QED BY <1>1, <1>2, <1>5, SetGood

LEMMA BindParameterSafe ==
  ASSUME IInv, NEW p \in Params, BindParameter(p)
  PROVE  IInv'
<1> DEFINE x == [rec[p] EXCEPT !.data_at_exec = FALSE, !.startedTransfer = FALSE]
           w == [Now EXCEPT !.rec = [rec EXCEPT ![p] = x]]
<1>1. rec \in [Params -> DescRecord]
  BY NowTyped DEF Typed
<1>2. x \in DescRecord /\ ~x.startedTransfer /\ x.data = rec[p].data
  <2>1. ASSUME NEW y \in DescRecord
        PROVE  LET z == [y EXCEPT !.data_at_exec = FALSE, !.startedTransfer = FALSE]
               IN  z \in DescRecord /\ ~z.startedTransfer /\ z.data = y.data
    BY DEF DescRecord
  <2> QED BY <1>1, <2>1
<1>3. Set(w, "ready") /\ phase = "ready"
  BY <1>1 DEF BindParameter, Now
<1> HIDE DEF x
<1>4. w \in Worlds /\ w.rec = [rec EXCEPT ![p] = x] /\ ~w.dangling /\ w.sent = <<>>
  BY <1>1, <1>2, NowTyped DEF Worlds
<1>5. \A q \in Params : CleanAt(Now, q)
  BY <1>3 DEF IInv, Good
<1> HIDE DEF w
<1>6. \A q \in Params : CleanAt(w, q)
  BY <1>1, <1>2, <1>4, <1>5, NowTyped DEF CleanAt
<1>7. Good(w, "ready")
  BY <1>4, <1>6, TypedWorlds DEF Good
<1> QED BY <1>3, <1>4, <1>7, SetGood

-----------------------------------------------------------------------------
\* The theorems.

LEMMA InitSafe ==
  ASSUME Init, arraySize = 1
  PROVE  IInv
<1>1. Typed(Now) /\ \A p \in Params : CleanAt(Now, p)
  <2>1. 0 \in 0 .. Count /\ Null \in Value /\ <<>> \in Seq(Chunks)
    BY ConstantsAssumption DEF Value
  <2> DEFINE x == [data_at_exec |-> FALSE, startedTransfer |-> FALSE,
                   data |-> <<>>, null |-> FALSE]
  <2>2. x \in DescRecord /\ ~x.startedTransfer /\ x.data = <<>>
    BY <2>1 DEF DescRecord
  <2>3. /\ Now.need = 0 /\ Now.rec = [p \in Params |-> x]
        /\ Now.sqlda = [p \in Params |-> Null] /\ Now.dangling = FALSE
        /\ Now.token = 0 /\ Now.given = NothingGiven
    BY DEF Init, Now
  <2> HIDE DEF x
  <2> QED BY <2>1, <2>2, <2>3, NothingTyped DEF Typed, CleanAt
<1>2. ExecutedAsGiven
  BY DEF Init, ExecutedAsGiven
<1>3. ~Now.dangling /\ phase = "ready"
  BY DEF Init, Now
<1> QED BY <1>1, <1>2, <1>3 DEF IInv, Good

LEMMA IInvNext ==
  ASSUME CancelIn \subseteq {"need"}, IInv, [Next]_vars
  PROVE  IInv'
<1>1. CASE ExecuteDangling
  BY <1>1 DEF IInv, Good, ExecuteDangling, Now
<1>2. CASE UNCHANGED vars
  BY <1>2 DEF vars, IInv, Now, ExecutedAsGiven, Good, Typed, CleanAt, Reached, ValueAt,
              IdleAt, AskedAt, PutAt, Array
<1> QED BY <1>1, <1>2, ExecuteSafe, ParamDataSafe, PutDataSafe, CancelSafe,
           BindParameterSafe DEF Next

\* A statement of one row is executed with what the application sent for each
\* parameter it was asked for in this execution, and with the bound values of
\* the others, whatever failed or was cancelled before and however it was
\* bound: unless SQLCancel is called while a value is being sent.
THEOREM ValuesAsGiven ==
  ASSUME CancelIn \subseteq {"need"}
  PROVE  Spec /\ arraySize = 1 => []ExecutedAsGiven
<1>1. Init /\ arraySize = 1 => IInv
  BY InitSafe
<1>2. IInv /\ [Next]_vars => IInv'
  BY IInvNext
<1>3. IInv => ExecutedAsGiven
  BY DEF IInv
<1> QED BY <1>1, <1>2, <1>3, PTL DEF Spec

\* Under the same conditions SQLPutData fills the parameter that SQLParamData
\* last asked for, the ones before it were all sent and none after it.
THEOREM QuestionsInOrder ==
  ASSUME CancelIn \subseteq {"need"}
  PROVE  Spec /\ arraySize = 1 => []AskedInOrder
<1>1. Init /\ arraySize = 1 => IInv
  BY InitSafe
<1>2. IInv /\ [Next]_vars => IInv'
  BY IInvNext
<1>3. IInv => AskedInOrder
  <2> SUFFICES ASSUME IInv, Asking PROVE AskedInOrder
    BY DEF AskedInOrder
  <2>1. /\ token = parameterNeedData /\ token \in Params /\ rec[token].data_at_exec
        /\ Reached(Now, token)
    BY NowTyped DEF IInv, Good, Asking
  <2>2. \A p \in Params : rec[p].data_at_exec =>
          (p < token => given[p] # <<>>) /\ (p > token => given[p] = <<>>)
    BY <2>1, NowTyped DEF Reached, ValueAt, IdleAt
  <2> QED BY <2>1, <2>2 DEF AskedInOrder, AtExec
<1> QED BY <1>1, <1>2, <1>3, PTL DEF Spec
=============================================================================
