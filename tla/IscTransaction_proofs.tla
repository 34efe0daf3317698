----------------------- MODULE IscTransaction_proofs -----------------------
(***************************************************************************)
(* Proofs about IscTransaction.                                            *)
(*                                                                         *)
(* A call is a composition of operators on worlds, so the invariant is one *)
(* of worlds: Good(w, c) says what holds in the middle of the call c, and  *)
(* every operator X has a lemma GoodX: it takes good worlds to good ones.  *)
(* A lemma XStep is about the whole call X, from IInv to IInv.  The        *)
(* record c carries what the theorems ask of the call as a whole: which    *)
(* transactions nobody held when it began, which statement it works on     *)
(* (whose own cursor may break while the call is under way), and whether   *)
(* it began with manual work that must survive it.  Between the calls the  *)
(* inductive invariant is IInv: types, HandlesOpen, and that a statement   *)
(* with an open result set is an active cursor of the transaction its      *)
(* owner still holds (CursorAt).  CursorTxOpen alone is not inductive: the *)
(* code decides between commit and commit retaining by IsActiveCursor, not *)
(* by the result set, and so does the proof.                               *)
(*                                                                         *)
(* Only CursorsKeepTransaction has a hypothesis.  It supposes that the     *)
(* server refuses no retaining rollback: where it does, the code falls     *)
(* back on a rollback that ends the transaction under its cursors.         *)
(***************************************************************************)
EXTENDS IscTransaction, TLAPS

-----------------------------------------------------------------------------
\* The invariant of a world, in the middle of a call.

\* Transactions that nobody holds.
Orphans(w) == w.open \ {w.tr[o].handle : o \in Owner}

\* The application works in the connection's transaction, the one it worked
\* in when the call c began, and ends it itself.
ManualWork(w, c) ==
  /\ ~w.tr[Conn].auto
  /\ w.tr[Conn].handle = c.work
  /\ w.tr[Conn].handle \in w.work

HandlesIn(w) ==
  /\ \A o \in Owner : w.tr[o].handle # None => w.tr[o].handle \in w.open
  /\ \A o, p \in Owner : w.tr[o].handle = w.tr[p].handle /\ w.tr[o].handle # None
                            => o = p
  /\ w.work \subseteq w.open

\* The statement has no cursor to fetch from, or an active one.
CursorAt(w, p) ==
  w.st[p].rs = "open" /\ w.st[p].kind = "select" /\ w.st[p].fb # None
    => /\ IsActiveCursor(w.st[p])
       /\ w.st[p].fb = w.tr[TrOwner(w, p)].handle

\* A call is described by the transactions nobody holds when it begins
\* (orphans), the statement it works on (busy, a set of one or none), and by
\* what stays true until it ends (tags).
AsTagged(x, c) ==
  /\ "closed" \in c.tags => x.rs # "open"
  /\ "notSelect" \in c.tags => x.kind # "select"
  /\ "noFb" \in c.tags => x.fb = None
  /\ "shared" \in c.tags => ~x.local

\* A statement that can be executed has a TPB (n) for the transaction of its
\* own, if it uses one; so has one that is about to use one.  Without a TPB it
\* may still be in its own transaction, but is about to leave it.
LocalTpb(x, n) ==
  n = None => /\ ~(x.local /\ x.prepared)
              /\ ~(x.change /\ x.toLocal)
              /\ x.local => x.change

\* A retaining rollback can only fail by ending the transaction.
Preserving == "rollbackRetaining" \notin Faults

Good(w, c) ==
  /\ w \in World
  /\ HandlesIn(w)
  /\ c.busy \subseteq Stmt
  /\ Orphans(w) \subseteq c.orphans
  /\ "manual" \in c.tags => ManualWork(w, c)
  /\ \A p \in Stmt : /\ LocalTpb(w.st[p], w.tr[p].node)
                     /\ w.st[p].kind = "select" => w.st[p].cursor
  /\ \A p \in c.busy : AsTagged(w.st[p], c)
  /\ "noTr" \in c.tags => \A p \in c.busy : w.tr[p].handle = None
  /\ Preserving => \A p \in Stmt \ c.busy : CursorAt(w, p)

AllGood(W, c) == \A w \in W : Good(w, c)

\* No cursor of another statement is open in the transaction of o.
Free(w, c, o) ==
  Preserving => \A p \in Stmt \ c.busy : IsActiveCursor(w.st[p]) => TrOwner(w, p) # o

-----------------------------------------------------------------------------
\* Updates of one field.

\* The result of a call says nothing about its transactions.
LEMMA GoodRet ==
  ASSUME NEW c, NEW w, Good(w, c), NEW r \in {"ok", "error", "crash"}
  PROVE  Good([w EXCEPT !.ret = r], c)
<1> DEFINE v == [w EXCEPT !.ret = r]
<1>1. /\ v \in World /\ v.tr = w.tr /\ v.st = w.st
      /\ v.open = w.open /\ v.work = w.work
  BY DEF Good, World
<1> HIDE DEF v
<1>2. Good(v, c)
  BY <1>1 DEF Good, HandlesIn, Orphans, ManualWork, CursorAt, TrOwner
<1> QED BY <1>2 DEF v

LEMMA GoodThrow ==
  ASSUME NEW c, NEW w, Good(w, c)
  PROVE  Good(Throw(w), c)
BY GoodRet DEF Throw

\* What a call may make of its statement.
StAs(x, c, n) ==
  /\ x \in StInfo
  /\ LocalTpb(x, n)
  /\ x.kind = "select" => x.cursor
  /\ AsTagged(x, c)

LEMMA GoodStmt ==
  ASSUME NEW c, NEW w, Good(w, c), NEW s \in Stmt, s \in c.busy,
         NEW x, StAs(x, c, w.tr[s].node)
  PROVE  Good([w EXCEPT !.st[s] = x], c)
<1> DEFINE v == [w EXCEPT !.st[s] = x]
<1>1. /\ v \in World /\ v.tr = w.tr /\ v.st = [w.st EXCEPT ![s] = x]
      /\ v.open = w.open /\ v.work = w.work
  BY DEF Good, World, StAs
<1>2. v.st[s] = x /\ \A p \in Stmt \ {s} : v.st[p] = w.st[p]
  BY <1>1 DEF Good, World
<1> HIDE DEF v
<1>3. /\ v \in World /\ HandlesIn(v) /\ Orphans(v) \subseteq c.orphans
      /\ "manual" \in c.tags => ManualWork(v, c)
      /\ "noTr" \in c.tags => \A p \in c.busy : v.tr[p].handle = None
  BY <1>1 DEF Good, HandlesIn, Orphans, ManualWork
<1>4. \A p \in Stmt : /\ LocalTpb(v.st[p], v.tr[p].node)
                      /\ v.st[p].kind = "select" => v.st[p].cursor
  BY <1>1, <1>2 DEF Good, StAs
<1>5. \A p \in c.busy : AsTagged(v.st[p], c)
  <2> SUFFICES ASSUME NEW p \in c.busy PROVE AsTagged(v.st[p], c)
    OBVIOUS
  <2>1. CASE p = s
    BY <1>2, <2>1 DEF StAs
  <2>2. CASE p # s
    BY <1>2, <2>2 DEF Good
  <2> QED BY <2>1, <2>2
<1>6. Preserving => \A p \in Stmt \ c.busy : CursorAt(v, p)
  BY <1>1, <1>2 DEF Good, CursorAt, TrOwner
<1>7. Good(v, c)
  BY <1>3, <1>4, <1>5, <1>6 DEF Good
<1> QED BY <1>7 DEF v

\* The fields of a statement and of a transaction in a good world.
LEMMA StmtOfGood ==
  ASSUME NEW c, NEW w, Good(w, c), NEW s \in Stmt
  PROVE  /\ w.st[s] \in StInfo
         /\ s \in c.busy => StAs(w.st[s], c, w.tr[s].node)
BY DEF Good, World, StAs

\* A transaction's mode, TPB and pending flag may change freely, but for the
\* mode of one in manual work.
LEMMA GoodMode ==
  ASSUME NEW c, NEW w, Good(w, c), NEW o \in Owner, NEW x \in TrInfo,
         x.handle = w.tr[o].handle,
         o \in Stmt => LocalTpb(w.st[o], x.node),
         "manual" \in c.tags /\ o = Conn => ~x.auto
  PROVE  Good([w EXCEPT !.tr[o] = x], c)
<1> DEFINE v == [w EXCEPT !.tr[o] = x]
<1>1. /\ v \in World /\ v.st = w.st /\ v.tr = [w.tr EXCEPT ![o] = x]
      /\ v.open = w.open /\ v.work = w.work
  BY DEF Good, World
<1>2. /\ \A p \in Owner : v.tr[p].handle = w.tr[p].handle
      /\ v.tr[o] = x /\ \A p \in Owner \ {o} : v.tr[p] = w.tr[p]
  BY <1>1 DEF Good, World
<1> HIDE DEF v
<1>3. v \in World /\ HandlesIn(v) /\ Orphans(v) \subseteq c.orphans
  BY <1>1, <1>2 DEF Good, HandlesIn, Orphans
<1>4. "manual" \in c.tags => ManualWork(v, c)
  BY <1>1, <1>2 DEF Good, ManualWork, Owner
<1>5. "noTr" \in c.tags => \A p \in c.busy : v.tr[p].handle = None
  BY <1>1, <1>2 DEF Good, Owner
<1>6. Preserving => \A p \in Stmt \ c.busy : CursorAt(v, p)
  BY <1>1, <1>2 DEF Good, CursorAt, TrOwner, Owner
<1>7. \A p \in Stmt : LocalTpb(v.st[p], v.tr[p].node)
  BY <1>1, <1>2 DEF Good, Owner
<1>8. Good(v, c)
  BY <1>1, <1>3, <1>4, <1>5, <1>6, <1>7 DEF Good
<1> QED BY <1>8 DEF v

LEMMA TrOfGood ==
  ASSUME NEW c, NEW w, Good(w, c), NEW o \in Owner
  PROVE  /\ w.tr[o] \in TrInfo
         /\ o \in Stmt => LocalTpb(w.st[o], w.tr[o].node)
BY DEF Good, World

\* Setting a flag of a transaction leaves its handle alone.
LEMMA TrFlags ==
  ASSUME NEW x \in TrInfo, NEW b \in BOOLEAN
  PROVE  /\ [x EXCEPT !.pending = b] \in TrInfo
         /\ [x EXCEPT !.pending = b].handle = x.handle
         /\ [x EXCEPT !.pending = b].auto = x.auto
         /\ [x EXCEPT !.pending = b].node = x.node
         /\ [x EXCEPT !.auto = b] \in TrInfo
         /\ [x EXCEPT !.auto = b].handle = x.handle
         /\ [x EXCEPT !.auto = b].node = x.node
BY DEF TrInfo

\* Setting a flag of a statement leaves it one.
LEMMA StFlags ==
  ASSUME NEW x \in StInfo, NEW b \in BOOLEAN
  PROVE  /\ [x EXCEPT !.local = b] \in StInfo
         /\ [x EXCEPT !.change = b] \in StInfo
         /\ [x EXCEPT !.toLocal = b] \in StInfo
         /\ [x EXCEPT !.prepared = b] \in StInfo
         /\ [x EXCEPT !.cursor = b] \in StInfo
         /\ [x EXCEPT !.leaked = b] \in StInfo
         /\ [x EXCEPT !.dropped = b] \in StInfo
         /\ x.local \in BOOLEAN /\ x.toLocal \in BOOLEAN /\ x.leaked \in BOOLEAN
BY DEF StInfo

\* Two records of a statement whose result set, cursor, kind and server
\* cursor are the same.
SameUse(x, y) ==
  /\ y \in StInfo
  /\ y.rs = x.rs /\ y.kind = x.kind /\ y.fb = x.fb
  /\ y.cursor = x.cursor /\ y.type = x.type
  /\ y.change = x.change /\ y.toLocal = x.toLocal
  /\ (y.local => x.local) /\ (y.prepared => x.prepared)

\* A statement used in the same way is allowed where the first was.
LEMMA SameUseAs ==
  ASSUME NEW c, NEW n, NEW x, StAs(x, c, n), NEW y, SameUse(x, y)
  PROVE  StAs(y, c, n)
BY DEF SameUse, StAs, AsTagged, LocalTpb

\* The transaction a statement uses, or is about to use, is the same.
SameTr(x, y) ==
  /\ y.local = x.local /\ y.prepared = x.prepared
  /\ y.change = x.change /\ y.toLocal = x.toLocal

\* Flags that say nothing about the cursor or the result set.
LEMMA FlagsUse ==
  ASSUME NEW x \in StInfo, NEW b \in BOOLEAN
  PROVE  /\ (b => x.local) => SameUse(x, [x EXCEPT !.local = b])
         /\ (b => x.prepared) => SameUse(x, [x EXCEPT !.prepared = b])
         /\ SameUse(x, [x EXCEPT !.leaked = b])
         /\ SameUse(x, [x EXCEPT !.dropped = b])
<1>1. /\ [x EXCEPT !.local = b] \in StInfo
      /\ [x EXCEPT !.prepared = b] \in StInfo
      /\ [x EXCEPT !.leaked = b] \in StInfo
      /\ [x EXCEPT !.dropped = b] \in StInfo
  BY StFlags
<1> QED BY <1>1 DEF SameUse, StInfo

LEMMA GoodNoPending ==
  ASSUME NEW c, NEW w, Good(w, c), NEW o \in Owner
  PROVE  Good(NoPending(w, o), c)
<1> DEFINE x == [w.tr[o] EXCEPT !.pending = FALSE]
<1>1. /\ x \in TrInfo /\ x.handle = w.tr[o].handle
      /\ x.auto = w.tr[o].auto /\ x.node = w.tr[o].node
  BY TrOfGood, TrFlags
<1>2. "manual" \in c.tags /\ o = Conn => ~x.auto
  BY <1>1 DEF Good, ManualWork
<1> HIDE DEF x
<1>3. Good([w EXCEPT !.tr[o] = x], c)
  BY <1>1, <1>2, GoodMode, TrOfGood
<1> QED BY <1>3 DEF NoPending, x

LEMMA GoodNoType ==
  ASSUME NEW c, NEW w, Good(w, c), NEW s \in Stmt, s \in c.busy
  PROVE  Good(NoType(w, s), c)
<1>1. StAs([w.st[s] EXCEPT !.type = "none"], c, w.tr[s].node)
  <2>1. [w.st[s] EXCEPT !.type = "none"] \in StInfo
    BY StmtOfGood DEF StInfo, TypeStmt
  <2> QED BY <2>1, StmtOfGood DEF StAs, StInfo, AsTagged, LocalTpb
<1>2. QED
  BY <1>1, GoodStmt DEF NoType

LEMMA GoodNoHandle ==
  ASSUME NEW c, NEW w, Good(w, c), NEW s \in Stmt, s \in c.busy
  PROVE  Good(NoHandle(w, s), c)
<1>1. StAs([w.st[s] EXCEPT !.prepared = FALSE], c, w.tr[s].node)
  BY StmtOfGood, FlagsUse, SameUseAs
<1>2. QED
  BY <1>1, GoodStmt DEF NoHandle

\* NULL is no kind of SQL.
LEMMA NoneNotKind == None # "select"
BY ConstantsAssumption DEF AllKinds

LEMMA GoodNotPrepared ==
  ASSUME NEW c, NEW w, Good(w, c), NEW s \in Stmt, s \in c.busy
  PROVE  Good(NotPrepared(w, s), c) /\ NotPrepared(w, s).st[s].kind = None
<1> DEFINE x == [w.st[s] EXCEPT !.kind = None]
<1>1. x \in StInfo /\ x.kind = None /\ x.rs = w.st[s].rs /\ x.fb = w.st[s].fb
        /\ SameTr(w.st[s], x)
  BY StmtOfGood DEF StInfo, SameTr
<1> HIDE DEF x
<1>2. StAs(x, c, w.tr[s].node)
  BY <1>1, StmtOfGood, NoneNotKind DEF StAs, AsTagged, LocalTpb, SameTr
<1>3. NotPrepared(w, s) = [w EXCEPT !.st[s] = x]
  BY DEF NotPrepared, x
<1>4. Good(NotPrepared(w, s), c)
  BY <1>2, <1>3, GoodStmt
<1>5. NotPrepared(w, s).st[s] = x
  BY <1>3 DEF Good, World
<1> QED BY <1>1, <1>4, <1>5

LEMMA GoodOpened ==
  ASSUME NEW c, NEW w, Good(w, c), NEW s \in Stmt, s \in c.busy, "closed" \notin c.tags
  PROVE  Good(Opened(w, s), c)
<1>1. StAs([w.st[s] EXCEPT !.rs = "open"], c, w.tr[s].node)
  <2>1. [w.st[s] EXCEPT !.rs = "open"] \in StInfo
    BY StmtOfGood DEF StInfo
  <2> QED BY <2>1, StmtOfGood DEF StAs, StInfo, AsTagged, LocalTpb
<1>2. QED
  BY <1>1, GoodStmt DEF Opened

LEMMA GoodSwitched ==
  ASSUME NEW c, NEW w, Good(w, c), NEW s \in Stmt, s \in c.busy, "shared" \notin c.tags
  PROVE  /\ Good(Switched(w, s), c) /\ Switched(w, s).tr = w.tr
         /\ ~Switched(w, s).st[s].change
         /\ Switched(w, s).st[s].prepared = w.st[s].prepared
<1> DEFINE x == [w.st[s] EXCEPT !.local = w.st[s].toLocal, !.change = FALSE]
           v == [w EXCEPT !.st[s] = x]
<1>1. /\ x \in StInfo /\ x.local = w.st[s].toLocal /\ x.toLocal = w.st[s].toLocal
      /\ ~x.change /\ x.prepared = w.st[s].prepared /\ x.rs = w.st[s].rs
      /\ x.kind = w.st[s].kind /\ x.fb = w.st[s].fb /\ x.cursor = w.st[s].cursor
  <2>1. ASSUME NEW y \in StInfo
        PROVE  LET z == [y EXCEPT !.local = y.toLocal, !.change = FALSE]
               IN  /\ z \in StInfo /\ z.local = y.toLocal /\ z.toLocal = y.toLocal
                   /\ ~z.change /\ z.prepared = y.prepared /\ z.rs = y.rs
                   /\ z.kind = y.kind /\ z.fb = y.fb /\ z.cursor = y.cursor
    BY DEF StInfo
  <2> QED BY <2>1, StmtOfGood
<1>2. Switched(w, s) = IF w.st[s].change THEN v ELSE w
  BY DEF Good, World, Switched
<1> HIDE DEF x
<1>3. ASSUME w.st[s].change PROVE Good(v, c)
  <2>1. StAs(x, c, w.tr[s].node)
    BY <1>1, <1>3, StmtOfGood DEF StAs, AsTagged, LocalTpb
  <2> QED BY <2>1, GoodStmt
<1>4. v.tr = w.tr /\ v.st[s] = x
  BY DEF Good, World
<1> HIDE DEF v
<1> QED BY <1>1, <1>2, <1>3, <1>4

\* The statement is the one of the call, or has no cursor.
LEMMA GoodLeaveLocal ==
  ASSUME NEW c, NEW w, Good(w, c), NEW s \in Stmt,
         s \in c.busy \/ ~IsActiveCursor(w.st[s])
  PROVE  /\ Good(LeaveLocal(w, s), c) /\ LeaveLocal(w, s).tr = w.tr
         /\ SameUse(w.st[s], LeaveLocal(w, s).st[s])
         /\ \A p \in Stmt \ {s} : LeaveLocal(w, s).st[p] = w.st[p]
<1> DEFINE b == w.st[s].local /\ (w.tr[s].handle = None \/ w.tr[s].node # None)
           x == [w.st[s] EXCEPT !.local = b]
           v == [w EXCEPT !.st[s] = x]
<1>1. b \in BOOLEAN /\ (b => w.st[s].local)
  OBVIOUS
<1>2. SameUse(w.st[s], x)
  <2> HIDE DEF b
  <2> QED BY <1>1, StmtOfGood, FlagsUse
<1>3. LeaveLocal(w, s) = v
  BY DEF LeaveLocal
<1> HIDE DEF x
<1>4. /\ v \in World /\ v.tr = w.tr /\ v.st = [w.st EXCEPT ![s] = x]
      /\ v.open = w.open /\ v.work = w.work
  BY <1>2 DEF Good, World, SameUse
<1>5. v.st[s] = x /\ \A p \in Stmt \ {s} : v.st[p] = w.st[p]
  BY <1>4 DEF Good, World
<1> HIDE DEF v
<1>6. Good(v, c)
  <2>1. CASE s \in c.busy
    <3>1. StAs(x, c, w.tr[s].node)
      BY <1>2, <2>1, StmtOfGood, SameUseAs
    <3> QED BY <2>1, <3>1, GoodStmt DEF v
  <2>2. CASE s \notin c.busy /\ ~IsActiveCursor(w.st[s])
    <3>1. /\ v \in World /\ HandlesIn(v) /\ Orphans(v) \subseteq c.orphans
          /\ "manual" \in c.tags => ManualWork(v, c)
          /\ "noTr" \in c.tags => \A p \in c.busy : v.tr[p].handle = None
          /\ c.busy \subseteq Stmt
      BY <1>4 DEF Good, HandlesIn, Orphans, ManualWork
    <3>2. \A p \in Stmt : /\ LocalTpb(v.st[p], v.tr[p].node)
                          /\ v.st[p].kind = "select" => v.st[p].cursor
      <4> SUFFICES ASSUME NEW p \in Stmt
                   PROVE  /\ LocalTpb(v.st[p], v.tr[p].node)
                          /\ v.st[p].kind = "select" => v.st[p].cursor
        OBVIOUS
      <4>1. CASE p = s
        BY <1>2, <1>4, <1>5, <4>1 DEF Good, SameUse, LocalTpb
      <4>2. CASE p # s
        BY <1>4, <1>5, <4>2 DEF Good
      <4> QED BY <4>1, <4>2
    <3>3. \A p \in c.busy : AsTagged(v.st[p], c)
      BY <1>5, <2>2 DEF Good
    <3>4. ASSUME Preserving, NEW p \in Stmt \ c.busy PROVE CursorAt(v, p)
      <4>1. CASE p = s
        BY <1>2, <1>5, <2>2, <3>4, <4>1 DEF Good, CursorAt, SameUse, IsActiveCursor
      <4>2. CASE p # s
        BY <1>4, <1>5, <3>4, <4>2 DEF Good, CursorAt, TrOwner
      <4> QED BY <4>1, <4>2
    <3> QED BY <3>1, <3>2, <3>3, <3>4 DEF Good
  <2> QED BY <2>1, <2>2
<1> QED BY <1>2, <1>3, <1>4, <1>5, <1>6

-----------------------------------------------------------------------------
\* Ending a transaction.

\* A statement without a cursor may end its own transaction.
LEMMA FreeStmt ==
  ASSUME NEW c, NEW w, NEW s \in Stmt, s \in c.busy \/ ~IsActiveCursor(w.st[s])
  PROVE  Free(w, c, s)
BY ConstantsAssumption DEF Free, TrOwner

\* Without active cursors the connection's transaction may end.
LEMMA FreeConn ==
  ASSUME NEW c, NEW w, ActiveCursors(w) = {}
  PROVE  Free(w, c, Conn)
BY DEF Free, ActiveCursors

\* The handle and the transaction go together: nobody else holds it.
LEMMA GoodDropped ==
  ASSUME NEW c, NEW w, Good(w, c), NEW o \in Owner, w.tr[o].handle # None,
         Free(w, c, o), "manual" \in c.tags => o # Conn
  PROVE  Good(Dropped(w, o), c)
<1> DEFINE t   == w.tr[o].handle
           tr1 == [w.tr EXCEPT ![o].handle = None]
           v   == [w EXCEPT !.open = @ \ {t}, !.work = @ \ {t}, !.tr = tr1]
<1>1. Dropped(w, o) = v
  BY DEF Dropped, Ended, Good, World
<1>2. /\ tr1 \in [Owner -> TrInfo]
      /\ tr1[o].handle = None /\ tr1[o].node = w.tr[o].node
      /\ \A p \in Owner \ {o} : tr1[p] = w.tr[p]
  BY DEF Good, World, TrInfo
<1> HIDE DEF tr1, t
<1>3. /\ v \in World /\ v.tr = tr1 /\ v.st = w.st
      /\ v.open = w.open \ {t} /\ v.work = w.work \ {t}
  BY <1>2 DEF Good, World
<1> HIDE DEF v
<1>4. \A p \in Owner : tr1[p].handle # None
                         => p # o /\ tr1[p].handle = w.tr[p].handle
  BY <1>2
<1>5. HandlesIn(v)
  BY <1>3, <1>4 DEF Good, HandlesIn, t
<1>6. Orphans(v) \subseteq c.orphans
  <2> SUFFICES ASSUME NEW e \in Orphans(v), e \in Orphans(w) => e \in c.orphans
               PROVE  e \in c.orphans
    BY DEF Good
  <2>1. e \in w.open /\ e # t /\ \A p \in Owner : tr1[p].handle # e
    BY <1>3 DEF Orphans
  <2>2. \A p \in Owner : w.tr[p].handle # e
    BY <1>2, <2>1 DEF t
  <2> QED BY <2>1, <2>2 DEF Orphans
<1>7. "manual" \in c.tags => ManualWork(v, c)
  <2> SUFFICES ASSUME "manual" \in c.tags PROVE ManualWork(v, c)
    OBVIOUS
  <2>1. o # Conn /\ ManualWork(w, c) /\ Conn \in Owner /\ tr1[Conn] = w.tr[Conn]
    BY <1>2 DEF Good, Owner
  <2>2. w.tr[Conn].handle # t
    BY <2>1 DEF Good, HandlesIn, t
  <2> QED BY <1>3, <2>1, <2>2 DEF ManualWork
<1>8. ASSUME "noTr" \in c.tags, NEW p \in c.busy PROVE v.tr[p].handle = None
  <2>1. p \in Owner /\ w.tr[p].handle = None
    BY <1>8 DEF Good, Owner
  <2>2. CASE p = o
    BY <1>2, <1>3, <2>2
  <2>3. CASE p # o
    BY <1>2, <1>3, <2>1, <2>3
  <2> QED BY <2>2, <2>3
<1>9. ASSUME Preserving, NEW p \in Stmt \ c.busy PROVE CursorAt(v, p)
  <2>1. CursorAt(w, p) /\ (IsActiveCursor(w.st[p]) => TrOwner(w, p) # o)
    BY <1>9 DEF Good, Free
  <2>2. TrOwner(w, p) \in Owner /\ TrOwner(v, p) = TrOwner(w, p)
    BY <1>3 DEF TrOwner, Owner
  <2> QED BY <1>2, <1>3, <2>1, <2>2 DEF CursorAt
<1>10. \A p \in Stmt : LocalTpb(v.st[p], v.tr[p].node)
  BY <1>2, <1>3 DEF Good, Owner
<1>11. Good(v, c)
  BY <1>3, <1>5, <1>6, <1>7, <1>8, <1>9, <1>10 DEF Good
<1> QED BY <1>1, <1>11

LEMMA GoodRollback ==
  ASSUME NEW c, NEW w, Good(w, c), NEW o \in Owner,
         Free(w, c, o), "manual" \in c.tags => o # Conn
  PROVE  AllGood(Rollback(w, o), c)
BY GoodDropped, GoodNoPending, GoodThrow DEF Rollback, Refused, AllGood

LEMMA GoodCommitHandle ==
  ASSUME NEW c, NEW w, Good(w, c), NEW o \in Owner,
         Free(w, c, o), "manual" \in c.tags => o # Conn
  PROVE  AllGood(CommitHandle(w, o), c)
BY GoodDropped, GoodNoPending, GoodThrow, GoodRollback
   DEF CommitHandle, Refused, AllGood

LEMMA GoodCommit ==
  ASSUME NEW c, NEW w, Good(w, c), Free(w, c, Conn), "manual" \notin c.tags
  PROVE  AllGood(Commit(w), c)
BY GoodCommitHandle DEF Commit, Owner

LEMMA GoodCommitLocal ==
  ASSUME NEW c, NEW w, Good(w, c), NEW s \in Stmt,
         s \in c.busy \/ ~IsActiveCursor(w.st[s])
  PROVE  AllGood(CommitLocal(w, s), c)
<1> DEFINE v == LeaveLocal(w, s)
<1>1. Good(v, c) /\ (s \in c.busy \/ ~IsActiveCursor(v.st[s]))
  BY GoodLeaveLocal DEF SameUse, IsActiveCursor, IsActiveSelect
<1> HIDE DEF v
<1>2. Free(v, c, s) /\ s \in Owner /\ s # Conn
  BY <1>1, FreeStmt, ConstantsAssumption DEF Owner
<1> QED BY <1>1, <1>2, GoodCommitHandle DEF CommitLocal, v

LEMMA GoodRetained ==
  ASSUME NEW c, NEW w, Good(w, c), "manual" \notin c.tags
  PROVE  Good(Retained(w), c)
<1> DEFINE v == [w EXCEPT !.work = @ \ {w.tr[Conn].handle}]
<1>1. /\ v \in World /\ v.tr = w.tr /\ v.st = w.st
      /\ v.open = w.open /\ v.work \subseteq w.work
  BY DEF Good, World
<1> HIDE DEF v
<1>2. Good(v, c)
  BY <1>1 DEF Good, HandlesIn, Orphans, CursorAt, TrOwner
<1>3. QED
  BY <1>2, GoodNoPending DEF Retained, Owner, v

\* A refusal ends the transaction, whatever its cursors.
LEMMA GoodRollbackRetaining ==
  ASSUME NEW c, NEW w, Good(w, c), "manual" \notin c.tags
  PROVE  AllGood(RollbackRetaining(w), c)
<1>1. "rollbackRetaining" \in Faults => AllGood(Rollback(w, Conn), c)
  BY GoodRollback DEF Free, Preserving, Owner
<1> QED BY <1>1, GoodNoPending, GoodRetained, GoodThrow
        DEF RollbackRetaining, Refused, AllGood, Owner

LEMMA GoodCommitRetaining ==
  ASSUME NEW c, NEW w, Good(w, c), "manual" \notin c.tags
  PROVE  AllGood(CommitRetaining(w), c)
BY GoodNoPending, GoodRetained, GoodRollbackRetaining, GoodThrow
   DEF CommitRetaining, Refused, AllGood, Owner

\* Of the statements without a cursor the handles are gone together with the
\* transactions.
LEMMA GoodLocalsEnded ==
  ASSUME NEW c, NEW w, Good(w, c), NEW L \in SUBSET ActiveLocals(w),
         NEW leave \in BOOLEAN
  PROVE  /\ Good(LocalsEnded(w, L, leave), c)
         /\ \A p \in Stmt : IsActiveCursor(LocalsEnded(w, L, leave).st[p])
                              = IsActiveCursor(w.st[p])
<1> DEFINE gone == {w.tr[s].handle : s \in L}
           tr1 == [o \in Owner |->
                     IF o \in L
                     THEN [w.tr[o] EXCEPT !.handle = None, !.pending = FALSE]
                     ELSE w.tr[o]]
           st1 == [s \in Stmt |-> IF s \in L /\ leave
                                  THEN LeaveLocal(w, s).st[s]
                                  ELSE w.st[s]]
           v   == [w EXCEPT !.open = @ \ gone, !.work = @ \ gone,
                            !.tr = tr1, !.st = st1]
<1>0. L \subseteq Stmt /\ \A s \in L : ~IsActiveCursor(w.st[s])
  BY DEF ActiveLocals, ActiveCursors
<1>1. LocalsEnded(w, L, leave) = v
  BY DEF LocalsEnded
<1>2. tr1 \in [Owner -> TrInfo]
  <2>1. ASSUME NEW x \in TrInfo
        PROVE  [x EXCEPT !.handle = None, !.pending = FALSE] \in TrInfo
    BY DEF TrInfo
  <2> QED BY <2>1, TrOfGood
<1>3. \A s \in Stmt : SameUse(w.st[s], st1[s]) /\ (s \notin L => st1[s] = w.st[s])
  <2> SUFFICES ASSUME NEW s \in Stmt
               PROVE  SameUse(w.st[s], st1[s]) /\ (s \notin L => st1[s] = w.st[s])
    OBVIOUS
  <2>1. SameUse(w.st[s], w.st[s])
    BY StmtOfGood DEF SameUse
  <2>2. s \in L => SameUse(w.st[s], LeaveLocal(w, s).st[s])
    BY <1>0, GoodLeaveLocal
  <2> QED BY <2>1, <2>2
<1>4. st1 \in [Stmt -> StInfo]
  BY <1>3 DEF SameUse
<1>5. w.open \ gone \in SUBSET Tx /\ w.work \ gone \in SUBSET Tx
  BY DEF Good, World
<1>6. /\ \A o \in L : tr1[o].handle = None /\ tr1[o].node = w.tr[o].node
      /\ \A o \in Owner \ L : tr1[o] = w.tr[o]
  <2>1. \A o \in Owner : w.tr[o] \in TrInfo
    BY DEF Good, World
  <2>2. \A x \in TrInfo : /\ [x EXCEPT !.handle = None, !.pending = FALSE].handle = None
                          /\ [x EXCEPT !.handle = None, !.pending = FALSE].node = x.node
    BY DEF TrInfo
  <2>3. L \subseteq Owner
    BY <1>0 DEF Owner
  <2> QED BY <2>1, <2>2, <2>3
<1>7. \A o \in Owner \ L : w.tr[o].handle # None => w.tr[o].handle \notin gone
  BY <1>0 DEF Good, HandlesIn, Owner
<1>8. \A s \in L : w.tr[s].handle \in gone
  OBVIOUS
<1> HIDE DEF tr1, st1, gone
<1>9. /\ v \in World /\ v.tr = tr1 /\ v.st = st1 /\ v.open = w.open \ gone
      /\ v.work = w.work \ gone
  BY <1>2, <1>4, <1>5 DEF Good, World
<1> HIDE DEF v
<1>10. HandlesIn(v)
  <2>1. \A o \in Owner : tr1[o].handle # None => tr1[o].handle \in w.open \ gone
    BY <1>6, <1>7 DEF Good, HandlesIn
  <2>2. \A o, p \in Owner : tr1[o].handle = tr1[p].handle
                              /\ tr1[o].handle # None => o = p
    BY <1>6 DEF Good, HandlesIn
  <2>3. w.work \ gone \subseteq w.open \ gone
    BY DEF Good, HandlesIn
  <2> QED BY <1>9, <2>1, <2>2, <2>3 DEF HandlesIn
<1>11. Orphans(v) \subseteq c.orphans
  <2> SUFFICES ASSUME NEW e \in Orphans(v), e \in Orphans(w) => e \in c.orphans
               PROVE  e \in c.orphans
    BY DEF Good
  <2>1. e \in w.open /\ e \notin gone /\ \A o \in Owner : tr1[o].handle # e
    BY <1>9 DEF Orphans
  <2>2. \A o \in Owner : w.tr[o].handle # e
    BY <1>6, <1>8, <2>1
  <2> QED BY <2>1, <2>2 DEF Orphans
<1>12. "manual" \in c.tags => ManualWork(v, c)
  <2> SUFFICES ASSUME "manual" \in c.tags PROVE ManualWork(v, c)
    OBVIOUS
  <2>1. ManualWork(w, c) /\ Conn \in Owner \ L /\ w.tr[Conn].handle # None
    BY <1>0, ConstantsAssumption DEF Good, Owner, ManualWork, World
  <2> QED BY <1>6, <1>7, <1>9, <2>1 DEF ManualWork
<1>13. "noTr" \in c.tags => \A p \in c.busy : v.tr[p].handle = None
  <2> SUFFICES ASSUME "noTr" \in c.tags, NEW p \in c.busy PROVE tr1[p].handle = None
    BY <1>9
  <2> QED BY <1>6 DEF Good, Owner
<1>14. \A p \in Stmt : /\ LocalTpb(v.st[p], v.tr[p].node)
                       /\ v.st[p].kind = "select" => v.st[p].cursor
  <2> SUFFICES ASSUME NEW p \in Stmt
               PROVE  LocalTpb(st1[p], tr1[p].node) /\ (st1[p].kind = "select" => st1[p].cursor)
    BY <1>9
  <2>1. tr1[p].node = w.tr[p].node /\ SameUse(w.st[p], st1[p])
    BY <1>3, <1>6 DEF Owner
  <2> QED BY <2>1 DEF Good, SameUse, LocalTpb
<1>15. \A p \in c.busy : AsTagged(v.st[p], c)
  <2> SUFFICES ASSUME NEW p \in c.busy PROVE AsTagged(st1[p], c)
    BY <1>9
  <2>1. p \in Stmt /\ AsTagged(w.st[p], c) /\ SameUse(w.st[p], st1[p])
    BY <1>3 DEF Good
  <2> QED BY <2>1 DEF SameUse, AsTagged
<1>16. ASSUME Preserving, NEW p \in Stmt \ c.busy PROVE CursorAt(v, p)
  <2>1. CursorAt(w, p)
    BY <1>16 DEF Good
  <2>2. CASE p \in L
    BY <1>0, <1>3, <1>9, <2>1, <2>2 DEF CursorAt, SameUse
  <2>3. CASE p \notin L
    <3>1. TrOwner(w, p) \in Owner \ L
      BY <1>0, <2>3, ConstantsAssumption DEF TrOwner, Owner
    <3>2. TrOwner(v, p) = TrOwner(w, p) /\ v.st[p] = w.st[p]
      BY <1>3, <1>9, <2>3 DEF TrOwner
    <3> QED BY <1>6, <1>9, <2>1, <3>1, <3>2 DEF CursorAt
  <2> QED BY <2>2, <2>3
<1>17. Good(v, c)
  BY <1>9, <1>10, <1>11, <1>12, <1>13, <1>14, <1>15, <1>16 DEF Good
<1>18. \A p \in Stmt : IsActiveCursor(v.st[p]) = IsActiveCursor(w.st[p])
  BY <1>3, <1>9 DEF SameUse, IsActiveCursor, IsActiveSelect
<1> QED BY <1>1, <1>17, <1>18

\* The loop throws, or ends with the cursors it began with.
LEMMA GoodCommitLocals ==
  ASSUME NEW c, NEW w, Good(w, c)
  PROVE  /\ AllGood(CommitLocals(w), c)
         /\ \A v \in CommitLocals(w) : v.ret = "ok" => ActiveCursors(v) = ActiveCursors(w)
<1> DEFINE L    == ActiveLocals(w)
           E(D) == LocalsEnded(w, D, TRUE)
           F(D) == UNION {CommitLocal(E(D), s) : s \in L}
<1>1. L \in SUBSET Stmt /\ \A s \in L : ~IsActiveCursor(w.st[s])
  BY DEF ActiveLocals, ActiveCursors
<1>2. \A D \in SUBSET L : /\ Good(E(D), c)
                          /\ \A s \in Stmt : IsActiveCursor(E(D).st[s])
                                               = IsActiveCursor(w.st[s])
  BY GoodLocalsEnded
<1>3. \A D \in SUBSET L : AllGood(F(D), c)
  <2> SUFFICES ASSUME NEW D \in SUBSET L, NEW s \in L
               PROVE  AllGood(CommitLocal(E(D), s), c)
    BY DEF AllGood
  <2> HIDE DEF L, E
  <2> QED BY <1>1, <1>2, GoodCommitLocal
<1>4. CommitLocals(w) = {E(L)} \cup UNION {Failed(F(D)) : D \in SUBSET L}
  BY DEF CommitLocals
<1>5. ActiveCursors(E(L)) = ActiveCursors(w)
  <2> HIDE DEF L, E
  <2> QED BY <1>2 DEF ActiveCursors
<1>6. /\ AllGood({E(L)} \cup UNION {Failed(F(D)) : D \in SUBSET L}, c)
      /\ \A v \in {E(L)} \cup UNION {Failed(F(D)) : D \in SUBSET L} :
           v.ret = "ok" => ActiveCursors(v) = ActiveCursors(w)
  <2> HIDE DEF L, E, F
  <2> QED BY <1>2, <1>3, <1>5 DEF AllGood, Failed
<1> QED BY <1>4, <1>6

LEMMA GoodRollbackLocals ==
  ASSUME NEW c, NEW w, Good(w, c)
  PROVE  /\ AllGood(RollbackLocals(w), c)
         /\ \A v \in RollbackLocals(w) : v.ret = "ok" => ActiveCursors(v) = ActiveCursors(w)
<1> DEFINE L    == ActiveLocals(w)
           E(D) == LocalsEnded(w, D, FALSE)
           F(D) == UNION {Rollback(E(D), s) : s \in L}
<1>1. L \in SUBSET Stmt /\ \A s \in L : ~IsActiveCursor(w.st[s])
  BY DEF ActiveLocals, ActiveCursors
<1>2. \A D \in SUBSET L : /\ Good(E(D), c)
                          /\ \A s \in Stmt : IsActiveCursor(E(D).st[s])
                                               = IsActiveCursor(w.st[s])
  BY GoodLocalsEnded
<1>3. \A D \in SUBSET L : AllGood(F(D), c)
  <2> SUFFICES ASSUME NEW D \in SUBSET L, NEW s \in L
               PROVE  AllGood(Rollback(E(D), s), c)
    BY DEF AllGood
  <2> HIDE DEF L, E
  <2>1. Good(E(D), c) /\ Free(E(D), c, s) /\ s \in Owner /\ s # Conn
    BY <1>1, <1>2, FreeStmt, ConstantsAssumption DEF Owner
  <2> QED BY <2>1, GoodRollback
<1>4. RollbackLocals(w) = {E(L)} \cup UNION {Failed(F(D)) : D \in SUBSET L}
  BY DEF RollbackLocals
<1>5. ActiveCursors(E(L)) = ActiveCursors(w)
  <2> HIDE DEF L, E
  <2> QED BY <1>2 DEF ActiveCursors
<1>6. /\ AllGood({E(L)} \cup UNION {Failed(F(D)) : D \in SUBSET L}, c)
      /\ \A v \in {E(L)} \cup UNION {Failed(F(D)) : D \in SUBSET L} :
           v.ret = "ok" => ActiveCursors(v) = ActiveCursors(w)
  <2> HIDE DEF L, E, F
  <2> QED BY <1>2, <1>3, <1>5 DEF AllGood, Failed
<1> QED BY <1>4, <1>6

LEMMA GoodCommitAuto ==
  ASSUME NEW c, NEW w, Good(w, c), "manual" \notin c.tags
  PROVE  AllGood(CommitAuto(w), c)
<1>1. ASSUME ActiveCursors(w) # {}
      PROVE  AllGood(Then(CommitLocals(w), CommitRetaining), c)
  BY GoodCommitLocals, GoodCommitRetaining DEF Then, Failed, AllGood
<1>2. ASSUME ActiveCursors(w) = {}
      PROVE  AllGood(Then(CommitLocals(w), Commit), c)
  <2>1. \A v \in CommitLocals(w) : Good(v, c) /\ (v.ret = "ok" => AllGood(Commit(v), c))
    BY <1>2, GoodCommitLocals, FreeConn, GoodCommit DEF AllGood
  <2> QED BY <2>1 DEF Then, Failed, AllGood
<1> QED BY <1>1, <1>2 DEF CommitAuto

LEMMA GoodRollbackAuto ==
  ASSUME NEW c, NEW w, Good(w, c), "manual" \notin c.tags
  PROVE  AllGood(RollbackAuto(w), c)
<1>1. ASSUME ActiveCursors(w) # {}
      PROVE  AllGood(Then(RollbackLocals(w), RollbackRetaining), c)
  BY GoodRollbackLocals, GoodRollbackRetaining DEF Then, Failed, AllGood
<1>2. ASSUME ActiveCursors(w) = {}
      PROVE  AllGood(Then(RollbackLocals(w), LAMBDA v : Rollback(v, Conn)), c)
  <2>1. \A v \in RollbackLocals(w) :
          Good(v, c) /\ (v.ret = "ok" => AllGood(Rollback(v, Conn), c))
    BY <1>2, GoodRollbackLocals, FreeConn, GoodRollback DEF AllGood, Owner
  <2> QED BY <2>1 DEF Then, Failed, AllGood
<1> QED BY <1>1, <1>2 DEF RollbackAuto

-----------------------------------------------------------------------------
\* Starting a transaction.

LEMMA GoodNodeMode ==
  ASSUME NEW c, NEW w, Good(w, c), NEW o \in Owner, w.tr[o].handle = None
  PROVE  /\ Good(NodeMode(w, o), c)
         /\ NodeMode(w, o).st = w.st /\ NodeMode(w, o).tr[o].handle = None
<1> DEFINE b == w.tr[o].node = "auto"
           x == [w.tr[o] EXCEPT !.auto = b]
<1>0. b \in BOOLEAN
  OBVIOUS
<1>1. x \in TrInfo /\ x.handle = w.tr[o].handle /\ x.node = w.tr[o].node
  <2> HIDE DEF b
  <2> QED BY <1>0, TrOfGood, TrFlags
<1>2. "manual" \in c.tags => o # Conn
  BY ConstantsAssumption DEF Good, HandlesIn, World, ManualWork
<1>3. NodeMode(w, o) = IF w.tr[o].node = None THEN w ELSE [w EXCEPT !.tr[o] = x]
  BY DEF NodeMode
<1> HIDE DEF x
<1>4. /\ Good([w EXCEPT !.tr[o] = x], c)
      /\ [w EXCEPT !.tr[o] = x].st = w.st /\ [w EXCEPT !.tr[o] = x].tr[o] = x
  <2>1. Good([w EXCEPT !.tr[o] = x], c)
    BY <1>1, <1>2, GoodMode, TrOfGood
  <2> QED BY <2>1 DEF Good, World
<1> QED BY <1>1, <1>3, <1>4

LEMMA GoodStart ==
  ASSUME NEW c, NEW w, Good(w, c), NEW o \in Owner, w.tr[o].handle = None,
         "noTr" \notin c.tags
  PROVE  \A v \in Start(w, o) :
           Good(v, c) /\ v.st = w.st /\ (v.ret = "ok" => v.tr[o].handle # None)
<1> DEFINE v    == NodeMode(w, o)
           U(t) == [v EXCEPT !.open = @ \cup {t},
                             !.tr[o].handle = t,
                             !.tr[o].pending = @ \/ ~v.tr[o].auto]
<1>1. Good(v, c) /\ v.tr[o] \in TrInfo /\ v.st = w.st /\ v.tr[o].handle = None
  BY GoodNodeMode, TrOfGood
<1>2. \A u \in Refused("start", {v}) : Good(u, c) /\ u.st = w.st /\ u.ret # "ok"
  <2>1. Good(Throw(v), c)
    BY <1>1, GoodThrow
  <2>2. Throw(v).st = w.st /\ Throw(v).ret # "ok"
    BY <1>1 DEF Throw, Good, World
  <2>3. QED
    BY <2>1, <2>2 DEF Refused
<1>3. ASSUME NEW t \in Tx \ v.open
      PROVE  Good(U(t), c) /\ U(t).st = w.st /\ U(t).tr[o].handle # None
  <2> HIDE DEF v
  <2> DEFINE x   == [v.tr[o] EXCEPT !.handle = t,
                                    !.pending = @ \/ ~v.tr[o].auto]
             tr1 == [v.tr EXCEPT ![o] = x]
             u   == [v EXCEPT !.open = @ \cup {t}, !.tr = tr1]
  <2>1. U(t) = u
    <3>1. v \in World
      BY <1>1 DEF Good
    <3>2. v.tr \in [Owner -> TrInfo] /\ v.tr[o] \in TrInfo
      BY <3>1 DEF World
    <3>3. [v.tr EXCEPT ![o].handle = t, ![o].pending = @ \/ ~v.tr[o].auto] = tr1
      BY <3>2, Zenon
    <3> QED BY <3>1, <3>3 DEF World
  <2>2. x \in TrInfo /\ x.handle = t /\ x.node = v.tr[o].node
    BY <1>1, Zenon DEF TrInfo
  <2> HIDE DEF x
  <2>3. tr1 \in [Owner -> TrInfo] /\ tr1[o].handle = t /\ tr1[o].node = v.tr[o].node
          /\ \A p \in Owner : p # o => tr1[p] = v.tr[p]
    BY <1>1, <2>2 DEF Good, World
  <2> HIDE DEF tr1
  <2>4. /\ u \in World /\ u.tr = tr1 /\ u.st = v.st
        /\ u.open = v.open \cup {t} /\ u.work = v.work
    BY <1>1, <2>3 DEF Good, World
  <2> HIDE DEF u
  <2>5. t # None
    BY ConstantsAssumption
  <2>6. HandlesIn(u)
    BY <1>1, <2>3, <2>4 DEF Good, HandlesIn
  <2>7. Orphans(u) \subseteq c.orphans
    <3> SUFFICES ASSUME NEW e \in Orphans(u), e \in Orphans(v) => e \in c.orphans
                 PROVE  e \in c.orphans
      BY <1>1 DEF Good
    <3>1. e \in v.open \cup {t} /\ \A p \in Owner : tr1[p].handle # e
      BY <2>4 DEF Orphans
    <3>2. e \in v.open /\ e # None
      BY <1>1, <2>3, <3>1, ConstantsAssumption DEF Good, World
    <3>3. \A p \in Owner : v.tr[p].handle # e
      BY <1>1, <2>3, <3>1, <3>2
    <3> QED BY <3>2, <3>3 DEF Orphans
  <2>8. "manual" \in c.tags => ManualWork(u, c)
    <3> SUFFICES ASSUME "manual" \in c.tags PROVE ManualWork(u, c)
      OBVIOUS
    <3>1. ManualWork(v, c) /\ v.tr[Conn].handle # None
      BY <1>1, ConstantsAssumption DEF Good, World, ManualWork
    <3> QED BY <1>1, <2>3, <2>4, <3>1 DEF ManualWork, Owner
  <2>9. ASSUME Preserving, NEW p \in Stmt \ c.busy PROVE CursorAt(u, p)
    <3>1. CursorAt(v, p) /\ TrOwner(u, p) = TrOwner(v, p) /\ TrOwner(v, p) \in Owner
      BY <1>1, <2>4, <2>9 DEF Good, TrOwner, Owner
    <3> QED BY <1>1, <2>3, <2>4, <3>1 DEF CursorAt
  <2>10. \A p \in Stmt : LocalTpb(u.st[p], u.tr[p].node)
    BY <1>1, <2>3, <2>4 DEF Good, Owner
  <2>11. Good(u, c)
    BY <1>1, <2>4, <2>6, <2>7, <2>8, <2>9, <2>10 DEF Good
  <2> HIDE DEF U
  <2> QED BY <1>1, <2>1, <2>3, <2>4, <2>5, <2>11
<1>4. Start(w, o) = {U(t) : t \in Tx \ v.open} \cup Refused("start", {v})
  BY DEF Start
<1>5. \A x \in {U(t) : t \in Tx \ v.open} \cup Refused("start", {v}) :
        Good(x, c) /\ x.st = w.st /\ (x.ret = "ok" => x.tr[o].handle # None)
  <2> HIDE DEF U, v
  <2> QED BY <1>2, <1>3
<1> QED BY <1>4, <1>5

LEMMA GoodTrOwner ==
  ASSUME NEW w, NEW s \in Stmt
  PROVE  TrOwner(w, s) \in Owner
BY DEF TrOwner, Owner

\* The statement has a transaction, and is to change it later only if it keeps
\* its handle for this time.
Started(v, s) ==
  v.ret = "ok" => /\ v.tr[TrOwner(v, s)].handle # None
                  /\ v.st[s].change => v.st[s].prepared

\* A transaction is started, the one asked for if the statement is new.
LEMMA GoodStartTransaction ==
  ASSUME NEW c, NEW w, Good(w, c), NEW s \in Stmt, s \in c.busy,
         c.tags \cap {"noTr", "shared"} = {}
  PROVE  \A v \in StartTransaction(w, s) : Good(v, c) /\ Started(v, s)
<1> DEFINE v == IF w.st[s].prepared THEN w ELSE Switched(w, s)
           u == IF v.tr[TrOwner(v, s)].handle = None THEN Switched(v, s) ELSE v
<1>1. Good(v, c) /\ (v.st[s].change => v.st[s].prepared)
  BY GoodSwitched
<1>2. Good(u, c) /\ (u.st[s].change => u.st[s].prepared)
  <2> HIDE DEF v
  <2> QED BY <1>1, GoodSwitched
<1> HIDE DEF u, v
<1>3. ASSUME u.tr[TrOwner(u, s)].handle = None, NEW x \in Start(u, TrOwner(u, s))
      PROVE  Good(x, c) /\ Started(x, s)
  <2>1. Good(x, c) /\ x.st = u.st /\ (x.ret = "ok" => x.tr[TrOwner(u, s)].handle # None)
    BY <1>2, <1>3, GoodTrOwner, GoodStart
  <2>2. TrOwner(x, s) = TrOwner(u, s)
    BY <2>1 DEF TrOwner
  <2> QED BY <1>2, <2>1, <2>2 DEF Started
<1>4. StartTransaction(w, s)
        = IF u.tr[TrOwner(u, s)].handle # None THEN {u}
          ELSE Start(u, TrOwner(u, s))
  BY DEF StartTransaction, u, v
<1> QED BY <1>2, <1>3, <1>4 DEF Started

-----------------------------------------------------------------------------
\* What becomes true during a call.

Tagged(c, t) ==
  [orphans |-> c.orphans, work |-> c.work, busy |-> c.busy, tags |-> c.tags \cup {t}]

LEMMA GoodTagged ==
  ASSUME NEW c, NEW w, Good(w, c), NEW t \in {"closed", "notSelect", "noFb", "shared"},
         \A p \in c.busy : CASE t = "closed"    -> w.st[p].rs # "open"
                             [] t = "notSelect" -> w.st[p].kind # "select"
                             [] t = "noFb"      -> w.st[p].fb = None
                             [] t = "shared"    -> ~w.st[p].local
  PROVE  Good(w, Tagged(c, t))
<1> DEFINE d == Tagged(c, t)
<1>1. /\ d.orphans = c.orphans /\ d.work = c.work
      /\ d.busy = c.busy /\ d.tags = c.tags \cup {t}
  BY DEF Tagged
<1> HIDE DEF d
<1>2. \A p \in c.busy : AsTagged(w.st[p], d)
  BY <1>1 DEF Good, AsTagged
<1>3. Good(w, d)
  BY <1>1, <1>2 DEF Good, ManualWork
<1> QED BY <1>3 DEF d

LEMMA GoodUntagged ==
  ASSUME NEW c, NEW w, NEW t, Good(w, Tagged(c, t))
  PROVE  Good(w, c)
<1> DEFINE d == Tagged(c, t)
<1>1. /\ d.orphans = c.orphans /\ d.work = c.work
      /\ d.busy = c.busy /\ d.tags = c.tags \cup {t}
  BY DEF Tagged
<1>2. Good(w, d)
  OBVIOUS
<1> HIDE DEF d
<1>3. \A p \in c.busy : AsTagged(w.st[p], c)
  BY <1>1, <1>2 DEF Good, AsTagged
<1> QED BY <1>1, <1>2, <1>3 DEF Good, ManualWork

-----------------------------------------------------------------------------
\* Result sets.

\* In autocommit mode there is no manual work to lose.
LEMMA AutoNotManual ==
  ASSUME NEW c, NEW w, Good(w, c), w.tr[Conn].auto
  PROVE  "manual" \notin c.tags
BY DEF Good, ManualWork

LEMMA GoodAutoCommitEnd ==
  ASSUME NEW c, NEW w, Good(w, c), NEW s \in Stmt, s \in c.busy
  PROVE  AllGood(AutoCommitEnd(w, s), c)
BY GoodCommitLocal, GoodCommitAuto, AutoNotManual DEF AutoCommitEnd, AllGood

LEMMA GoodCloseFbResultSet ==
  ASSUME NEW c, NEW w, Good(w, c), NEW s \in Stmt, c.busy = {s}
  PROVE  AllGood(CloseFbResultSet(w, s), Tagged(c, "noFb"))
<1> DEFINE x == [w.st[s] EXCEPT !.fb = None]
           v == [w EXCEPT !.st[s] = x]
<1>1. x \in StInfo /\ x.rs = w.st[s].rs /\ x.kind = w.st[s].kind /\ x.fb = None
        /\ x.cursor = w.st[s].cursor /\ SameTr(w.st[s], x)
  BY StmtOfGood DEF StInfo, SameTr
<1> HIDE DEF x
<1>2. StAs(x, c, w.tr[s].node)
  BY <1>1, StmtOfGood DEF StAs, AsTagged, LocalTpb, SameTr
<1>3. Good(v, c) /\ v.st[s] = x
  <2>1. Good(v, c)
    BY <1>2, GoodStmt
  <2> QED BY <2>1 DEF Good, World
<1>4. Good(v, Tagged(c, "noFb"))
  <2> HIDE DEF v
  <2> QED BY <1>1, <1>3, GoodTagged
<1>5. CloseFbResultSet(w, s)
        = {v} \cup (IF w.st[s].fb = None THEN {} ELSE Refused("closeCursor", {v}))
  BY DEF CloseFbResultSet, x
<1> HIDE DEF v
<1> QED BY <1>4, <1>5, GoodThrow DEF Refused, AllGood

\* The server's cursor of an active one is closed before anything can fail.
LEMMA GoodDeleteResultSet ==
  ASSUME NEW c, NEW w, Good(w, c), NEW s \in Stmt, c.busy = {s}
  PROVE  /\ AllGood(DeleteResultSet(w, s), c)
         /\ IsActiveCursor(w.st[s]) => AllGood(DeleteResultSet(w, s), Tagged(c, "noFb"))
<1> DEFINE d == Tagged(c, "noFb")
           F(v) == AutoCommitEnd(v, s)
<1>1. d.busy = {s}
  BY DEF Tagged
<1>2. Good(NoType(w, s), c)
  BY GoodNoType
<1>3. AllGood(CloseFbResultSet(NoType(w, s), s), d)
  BY <1>2, GoodCloseFbResultSet
<1>4. \A v : (Good(v, d) => AllGood(F(v), d)) /\ (Good(v, c) => AllGood(F(v), c))
  <2> HIDE DEF d
  <2> QED BY <1>1, GoodAutoCommitEnd
<1>5. AllGood(Then({NoType(w, s)}, F), c)
  <2> HIDE DEF F
  <2> QED BY <1>2, <1>4 DEF Then, Failed, AllGood
<1>6. AllGood(Then(CloseFbResultSet(NoType(w, s), s), F), d)
  <2> HIDE DEF F, d
  <2> QED BY <1>3, <1>4 DEF Then, Failed, AllGood
<1>7. AllGood(Then(CloseFbResultSet(NoType(w, s), s), F), c)
  <2> HIDE DEF F
  <2> QED BY <1>6, GoodUntagged DEF AllGood
<1>8. DeleteResultSet(w, s) = IF IsActiveCursor(w.st[s])
                              THEN Then(CloseFbResultSet(NoType(w, s), s), F)
                              ELSE Then({NoType(w, s)}, F)
  BY DEF DeleteResultSet
<1> HIDE DEF F
<1> QED BY <1>5, <1>6, <1>7, <1>8

LEMMA GoodDetach ==
  ASSUME NEW c, NEW w, Good(w, c), NEW s \in Stmt, c.busy = {s}
  PROVE  Good([w EXCEPT !.ret = "ok", !.st[s] = Detached(@, w.ret # "ok")],
              Tagged(c, "closed"))
<1> DEFINE x == Detached(w.st[s], w.ret # "ok")
           v == [w EXCEPT !.ret = "ok", !.st[s] = Detached(@, w.ret # "ok")]
<1>1. StAs(x, c, w.tr[s].node) /\ x.rs # "open"
  <2> DEFINE b == w.st[s].leaked \/ w.ret # "ok"
             y == [w.st[s] EXCEPT !.leaked = b]
  <2>1. b \in BOOLEAN
    OBVIOUS
  <2>2. SameUse(w.st[s], y)
    <3> HIDE DEF b
    <3> QED BY <2>1, StmtOfGood, FlagsUse
  <2>3. StAs(y, c, w.tr[s].node)
    <3> HIDE DEF y
    <3> QED BY <2>2, StmtOfGood, SameUseAs
  <2>4. x = [y EXCEPT !.rs = "none"]
    BY StmtOfGood DEF Detached, StInfo
  <2> HIDE DEF y, x
  <2> QED BY <2>3, <2>4 DEF StAs, StInfo, AsTagged, LocalTpb
<1> HIDE DEF x
<1>2. Good([[w EXCEPT !.ret = "ok"] EXCEPT !.st[s] = x], c)
  <2> DEFINE m == [w EXCEPT !.ret = "ok"]
  <2>1. Good(m, c) /\ m.tr = w.tr
    BY GoodRet DEF Good, World
  <2> HIDE DEF m
  <2>2. Good([m EXCEPT !.st[s] = x], c)
    BY <1>1, <2>1, GoodStmt
  <2> QED BY <2>2 DEF m
<1>3. v = [[w EXCEPT !.ret = "ok"] EXCEPT !.st[s] = x] /\ v.st[s] = x
  BY DEF Good, World, x
<1> HIDE DEF v
<1>4. Good(v, Tagged(c, "closed"))
  BY <1>1, <1>2, <1>3, GoodTagged
<1> QED BY <1>4 DEF v

\* The result set of the statement is gone, and no exception is left.
LEMMA GoodReleaseResultSet ==
  ASSUME NEW c, NEW w, Good(w, c), NEW s \in Stmt, c.busy = {s}
  PROVE  AllGood(ReleaseResultSet(w, s), Tagged(c, "closed"))
<1> DEFINE D(v) == [v EXCEPT !.ret = "ok", !.st[s] = Detached(@, v.ret # "ok")]
<1>1. \A v : Good(v, c) => Good(D(v), Tagged(c, "closed"))
  BY GoodDetach
<1>2. ReleaseResultSet(w, s) = IF w.st[s].rs = "open"
                               THEN {D(v) : v \in DeleteResultSet(w, s)}
                               ELSE {D(w)}
  BY DEF ReleaseResultSet
<1> HIDE DEF D
<1> QED BY <1>1, <1>2, GoodDeleteResultSet DEF AllGood

LEMMA GoodIscClose ==
  ASSUME NEW c, NEW w, Good(w, c), NEW s \in Stmt, s \in c.busy
  PROVE  AllGood(IscClose(w, s), c)
BY GoodAutoCommitEnd DEF IscClose, AllGood

LEMMA GoodDrop ==
  ASSUME NEW c, NEW w, Good(w, c), NEW s \in Stmt, s \in c.busy
  PROVE  AllGood(Drop(w, s), c)
BY GoodIscClose, GoodNoHandle DEF Drop, Then, Failed, AllGood

\* What a tag changes of a call.
LEMMA TaggedBusy ==
  ASSUME NEW c, NEW t
  PROVE  /\ Tagged(c, t).busy = c.busy
         /\ Tagged(c, t).orphans = c.orphans /\ Tagged(c, t).work = c.work
         /\ Tagged(c, t).tags = c.tags \cup {t}
BY DEF Tagged

LEMMA GoodReleaseStatement ==
  ASSUME NEW c, NEW w, Good(w, c), NEW s \in Stmt, c.busy = {s}
  PROVE  AllGood(ReleaseStatement(w, s), Tagged(c, "closed"))
<1> DEFINE d == Tagged(c, "closed")
<1>1. AllGood(ReleaseResultSet(w, s), d) /\ s \in d.busy
  BY GoodReleaseResultSet, TaggedBusy
<1> HIDE DEF d
<1>2. AllGood(ReleaseStatement(w, s), d)
  BY <1>1, GoodDrop DEF ReleaseStatement, Then, Failed, AllGood
<1> QED BY <1>2 DEF d

LEMMA GoodClearSelect ==
  ASSUME NEW c, NEW w, Good(w, c), NEW s \in Stmt, c.busy = {s}
  PROVE  AllGood(ClearSelect(w, s), c)
<1> DEFINE Rest(v) == Then(AutoCommitEnd(NoType(v, s), s),
                           LAMBDA u : {NoHandle(u, s)})
<1>1. ASSUME NEW v, Good(v, c) PROVE AllGood(Rest(v), c)
  BY <1>1, GoodNoType, GoodAutoCommitEnd, GoodNoHandle
     DEF Then, Failed, AllGood
<1>2. ClearSelect(w, s) = IF ~IsActiveSelect(w.st[s]) THEN {w}
                          ELSE Then(CloseFbResultSet(w, s), Rest)
  BY DEF ClearSelect
<1> HIDE DEF Rest
<1>3. AllGood(CloseFbResultSet(w, s), c)
  BY GoodCloseFbResultSet, GoodUntagged DEF AllGood
<1>4. QED
  BY <1>1, <1>2, <1>3 DEF Then, Failed, AllGood

-----------------------------------------------------------------------------
\* Preparing and executing.

LEMMA GoodPrepareStatement ==
  ASSUME NEW c, NEW w, Good(w, Tagged(c, "notSelect")), NEW s \in Stmt, NEW k \in Kinds,
         c.busy = {s}, c.tags \cap {"noTr", "shared", "notSelect"} = {}
  PROVE  AllGood(PrepareStatement(w, s, k), c)
<1> DEFINE H(v) == [v EXCEPT !.st[s].prepared = TRUE]
           T(v) == [H(v) EXCEPT !.st[s].cursor = k = "select",
                                !.st[s].type = "prepare"]
           K(v) == [T(v) EXCEPT !.st[s].type = TypeOf(k), !.st[s].kind = k]
           Rest(v) == Refused("prepare", {v, H(v)}) \cup Refused("getInfo", {T(v)})
                        \cup {K(v)}
           d == Tagged(c, "notSelect")
<1>0. s \in c.busy /\ d.busy = {s} /\ d.tags = c.tags \cup {"notSelect"}
  BY TaggedBusy
<1> HIDE DEF d
<1>1. ASSUME NEW v, Good(v, d), Started(v, s), v.ret = "ok"
      PROVE  Good(H(v), c) /\ Good(T(v), c) /\ Good(K(v), c) /\ Good(v, c)
  <2> DEFINE h == [v.st[s] EXCEPT !.prepared = TRUE]
             sel == k = "select"
             q == [h EXCEPT !.cursor = sel, !.type = "prepare"]
             z == [q EXCEPT !.type = TypeOf(k), !.kind = k]
  <2>1. /\ Good(v, c) /\ StAs(v.st[s], c, v.tr[s].node)
        /\ v.st[s] \in StInfo /\ v.st[s].kind # "select"
    <3>1. Good(v, c)
      BY <1>1, GoodUntagged DEF d
    <3>2. v.st[s].kind # "select"
      BY <1>0, <1>1 DEF Good, AsTagged
    <3> QED BY <1>0, <3>1, <3>2, StmtOfGood
  <2>2. StAs(h, c, v.tr[s].node) /\ h \in StInfo /\ h.kind = v.st[s].kind
    <3>1. /\ h \in StInfo /\ h.kind = v.st[s].kind /\ h.rs = v.st[s].rs
          /\ h.fb = v.st[s].fb /\ h.cursor = v.st[s].cursor
          /\ h.local = v.st[s].local /\ h.change = v.st[s].change
          /\ h.toLocal = v.st[s].toLocal
      BY <2>1 DEF StInfo
    <3> HIDE DEF h
    <3> QED BY <1>1, <2>1, <3>1 DEF StAs, AsTagged, LocalTpb, Started
  <2> HIDE DEF h
  <2>3. /\ q \in StInfo /\ q.kind = h.kind /\ q.rs = h.rs /\ q.fb = h.fb
        /\ SameTr(h, q) /\ q.cursor = (k = "select")
    BY <2>2, Zenon DEF StInfo, TypeStmt, SameTr
  <2> HIDE DEF q
  <2>4. StAs(q, c, v.tr[s].node)
    BY <2>1, <2>2, <2>3 DEF StAs, AsTagged, LocalTpb, SameTr
  <2>5. /\ z \in StInfo /\ z.kind = k /\ z.rs = q.rs /\ z.fb = q.fb
        /\ SameTr(q, z) /\ z.cursor = q.cursor
    <3>1. TypeOf(k) \in TypeStmt
      BY DEF TypeOf, TypeStmt
    <3>2. ASSUME NEW x \in StInfo, NEW t \in TypeStmt
          PROVE  /\ [x EXCEPT !.type = t, !.kind = k] \in StInfo
                 /\ [x EXCEPT !.type = t, !.kind = k].kind = k
                 /\ [x EXCEPT !.type = t, !.kind = k].rs = x.rs
                 /\ [x EXCEPT !.type = t, !.kind = k].fb = x.fb
                 /\ SameTr(x, [x EXCEPT !.type = t, !.kind = k])
                 /\ [x EXCEPT !.type = t, !.kind = k].cursor = x.cursor
      BY DEF StInfo, SameTr
    <3> QED BY <2>3, <3>1, <3>2
  <2> HIDE DEF z
  <2>6. StAs(z, c, v.tr[s].node)
    BY <1>0, <2>3, <2>4, <2>5 DEF StAs, AsTagged, LocalTpb, SameTr
  <2>7. H(v) = [v EXCEPT !.st[s] = h]
    BY <2>1 DEF Good, World, h
  <2>8. T(v) = [v EXCEPT !.st[s] = q]
    <3> DEFINE m == [v EXCEPT !.st[s] = h]
    <3>1. m \in World /\ m.st[s] = h /\ [m EXCEPT !.st[s] = q] = [v EXCEPT !.st[s] = q]
      BY <2>1, <2>2 DEF Good, World
    <3>2. T(v) = [m EXCEPT !.st[s].cursor = sel, !.st[s].type = "prepare"]
      BY <2>7
    <3> HIDE DEF m, T, sel
    <3>3. T(v) = [m EXCEPT !.st[s] = q]
      BY <3>1, <3>2 DEF World, q
    <3> QED BY <3>1, <3>3
  <2>9. K(v) = [v EXCEPT !.st[s] = z]
    <3> DEFINE m == [v EXCEPT !.st[s] = q]
    <3>1. m \in World /\ m.st[s] = q /\ [m EXCEPT !.st[s] = z] = [v EXCEPT !.st[s] = z]
      BY <2>1, <2>3 DEF Good, World
    <3>2. T(v) = m
      BY <2>8
    <3> HIDE DEF m, T
    <3>3. K(v) = [m EXCEPT !.st[s].type = TypeOf(k), !.st[s].kind = k]
      BY <3>2
    <3> HIDE DEF K
    <3>4. K(v) = [m EXCEPT !.st[s] = z]
      BY <3>1, <3>3 DEF World, z
    <3> QED BY <3>1, <3>4
  <2> HIDE DEF H, T, K
  <2> QED BY <1>0, <2>1, <2>2, <2>4, <2>6, <2>7, <2>8, <2>9, GoodStmt
<1>2. ASSUME NEW v, Good(v, d), Started(v, s), v.ret = "ok" PROVE AllGood(Rest(v), c)
  <2> HIDE DEF H, T, K
  <2> QED BY <1>1, <1>2, GoodThrow DEF Refused, AllGood
<1>3. PrepareStatement(w, s, k) = Then(StartTransaction(w, s), Rest)
  BY DEF PrepareStatement
<1>4. \A v \in StartTransaction(w, s) : Good(v, d) /\ Started(v, s)
  <2>1. Good(w, d) /\ s \in d.busy /\ d.tags \cap {"noTr", "shared"} = {}
    BY <1>0 DEF d
  <2> QED BY <2>1, GoodStartTransaction
<1> HIDE DEF Rest
<1> QED BY <1>2, <1>3, <1>4, GoodUntagged DEF Then, Failed, AllGood, d

\* The only place where work is added: the transaction was started.
LEMMA GoodExecuted ==
  ASSUME NEW c, NEW w, Good(w, c), NEW s \in Stmt, s \in c.busy, "noFb" \notin c.tags,
         w.tr[TrOwner(w, s)].handle # None
  PROVE  /\ Good(Executed(w, s), c)
         /\ Executed(w, s).tr = w.tr
         /\ Executed(w, s).st[s].prepared = w.st[s].prepared
         /\ TrOwner(Executed(w, s), s) = TrOwner(w, s)
         /\ Executed(w, s).st[s].cursor
              => Executed(w, s).st[s].fb = w.tr[TrOwner(w, s)].handle
<1> DEFINE t == w.tr[TrOwner(w, s)].handle
           x == [w.st[s] EXCEPT !.fb = t]
           u == [w EXCEPT !.st[s] = x]
           v == [w EXCEPT !.work = @ \cup {t}]
<1>1. t \in Tx /\ t \in w.open
  BY GoodTrOwner DEF Good, World, HandlesIn, TrInfo
<1> HIDE DEF t
<1>2. /\ x \in StInfo /\ x.fb = t /\ x.rs = w.st[s].rs /\ x.kind = w.st[s].kind
      /\ x.cursor = w.st[s].cursor
      /\ SameTr(w.st[s], x)
  BY <1>1, StmtOfGood DEF StInfo, SameTr
<1>3. StAs(x, c, w.tr[s].node)
  BY <1>2, StmtOfGood DEF StAs, AsTagged, LocalTpb, SameTr
<1>4. Good(u, c) /\ u.tr = w.tr /\ u.st[s] = x
  <2>1. Good(u, c)
    BY <1>3, GoodStmt
  <2> HIDE DEF x
  <2> QED BY <2>1 DEF Good, World
<1>5. Good(v, c) /\ v.tr = w.tr /\ v.st = w.st
  <2>1. /\ v \in World /\ v.tr = w.tr /\ v.st = w.st /\ v.open = w.open
        /\ v.work = w.work \cup {t}
    BY <1>1 DEF Good, World
  <2> HIDE DEF v
  <2> QED BY <1>1, <2>1 DEF Good, HandlesIn, Orphans, ManualWork, CursorAt, TrOwner
<1>6. Executed(w, s) = IF w.st[s].cursor THEN u ELSE v
  BY DEF Executed, t
<1> HIDE DEF u, v, x
<1> QED BY <1>2, <1>4, <1>5, <1>6 DEF TrOwner, SameTr, t

LEMMA GoodCrash ==
  ASSUME NEW c, NEW w, Good(w, c)
  PROVE  AllGood(Crash(w), c) /\ \A v \in Crash(w) : v.ret = "crash"
<1>1. Good([w EXCEPT !.ret = "crash"], c)
  BY GoodRet
<1>2. [w EXCEPT !.ret = "crash"].ret = "crash"
  BY DEF Good, World
<1> QED BY <1>1, <1>2 DEF Crash, AllGood

LEMMA GoodExecuteRefused ==
  ASSUME NEW c, NEW w, Good(w, c)
  PROVE  AllGood(ExecuteRefused(w), c)
BY GoodRollbackAuto, AutoNotManual DEF ExecuteRefused, AllGood

-----------------------------------------------------------------------------
\* What a statement that was executed leaves.

EndedWork(v) == v.ret = "ok" => v.tr[Conn].handle \notin v.work

\* The connection without a transaction has no work left.
LEMMA NoWorkInNone ==
  ASSUME NEW c, NEW w, Good(w, c), w.tr[Conn].handle = None
  PROVE  EndedWork(w)
BY ConstantsAssumption DEF Good, World, EndedWork

\* Clearing the pending flag touches neither handle nor work.
LEMMA NoPendingHandle ==
  ASSUME NEW c, NEW w, Good(w, c)
  PROVE  /\ NoPending(w, Conn).tr[Conn].handle = w.tr[Conn].handle
         /\ NoPending(w, Conn).work = w.work
BY DEF NoPending, Good, World, TrInfo, Owner

\* A refused request has not succeeded.
LEMMA ThrowEnded ==
  ASSUME NEW c, NEW w, Good(w, c)
  PROVE  Throw(w).ret = "error" /\ EndedWork(Throw(w))
BY DEF Throw, Good, World, EndedWork

\* A commit that succeeds leaves no uncommitted work.
LEMMA CommitEnds ==
  ASSUME NEW c, NEW w, Good(w, c), Free(w, c, Conn), "manual" \notin c.tags
  PROVE  \A v \in Commit(w) : EndedWork(v)
<1>1. Conn \in Owner /\ AllGood(Commit(w), c)
  BY GoodCommit DEF Owner
<1>2. CASE w.tr[Conn].handle = None
  <2>1. Commit(w) = {NoPending(w, Conn)} /\ NoPending(w, Conn).tr[Conn].handle = None
    BY <1>2, NoPendingHandle DEF Commit, CommitHandle
  <2> QED BY <1>1, <2>1, NoWorkInNone DEF AllGood
<1>3. CASE w.tr[Conn].handle # None
  <2> DEFINE d == Dropped(w, Conn)
  <2>1. Good(d, c)
    BY <1>1, <1>3, GoodDropped
  <2>2. d.tr[Conn].handle = None
    BY <1>1 DEF Dropped, Ended, Good, World, TrInfo
  <2> HIDE DEF d
  <2>3. Good(NoPending(d, Conn), c) /\ NoPending(d, Conn).tr[Conn].handle = None
    BY <1>1, <2>1, <2>2, NoPendingHandle, GoodNoPending
  <2>4. Commit(w) = {NoPending(d, Conn)} \cup Refused("commit", Rollback(w, Conn))
    BY <1>3 DEF Commit, CommitHandle, d
  <2>5. AllGood(Rollback(w, Conn), c)
    BY <1>1, GoodRollback
  <2>6. \A v \in Refused("commit", Rollback(w, Conn)) : EndedWork(v)
    BY <2>5, ThrowEnded DEF AllGood, Refused
  <2> QED BY <2>3, <2>4, <2>6, NoWorkInNone
<1> QED BY <1>2, <1>3

\* A retaining commit that succeeds leaves no uncommitted work.
LEMMA CommitRetainingEnds ==
  ASSUME NEW c, NEW w, Good(w, c), "manual" \notin c.tags
  PROVE  \A v \in CommitRetaining(w) : EndedWork(v)
<1>1. CASE w.tr[Conn].handle = None
  <2>1. /\ CommitRetaining(w) = {NoPending(w, Conn)} /\ Good(NoPending(w, Conn), c)
        /\ NoPending(w, Conn).tr[Conn].handle = None
    BY <1>1, NoPendingHandle, GoodNoPending DEF CommitRetaining, Owner
  <2> QED BY <2>1, NoWorkInNone
<1>2. CASE w.tr[Conn].handle # None
  <2> DEFINE u == [w EXCEPT !.work = @ \ {w.tr[Conn].handle}]
  <2>1. Retained(w) = NoPending(u, Conn)
    BY DEF Retained
  <2>2. u \in World /\ u.tr = w.tr /\ u.work = w.work \ {w.tr[Conn].handle}
    BY DEF Good, World
  <2> HIDE DEF u
  <2>3. NoPending(u, Conn).tr[Conn].handle = w.tr[Conn].handle
          /\ NoPending(u, Conn).work = w.work \ {w.tr[Conn].handle}
    BY <2>2 DEF NoPending, World, TrInfo, Owner
  <2>4. EndedWork(Retained(w))
    BY <2>1, <2>3 DEF EndedWork
  <2>5. AllGood(RollbackRetaining(w), c)
    BY GoodRollbackRetaining
  <2>6. \A v \in Refused("commitRetaining", RollbackRetaining(w)) : EndedWork(v)
    BY <2>5, ThrowEnded DEF AllGood, Refused
  <2> QED BY <1>2, <2>4, <2>6 DEF CommitRetaining
<1> QED BY <1>1, <1>2

\* So does a commit of the connection and its local transactions.
LEMMA CommitAutoEnds ==
  ASSUME NEW c, NEW w, Good(w, c), "manual" \notin c.tags
  PROVE  \A v \in CommitAuto(w) : EndedWork(v)
<1>1. ASSUME ActiveCursors(w) # {}
      PROVE  \A v \in Then(CommitLocals(w), CommitRetaining) : EndedWork(v)
  BY GoodCommitLocals, CommitRetainingEnds DEF Then, Failed, AllGood, EndedWork
<1>2. ASSUME ActiveCursors(w) = {}
      PROVE  \A v \in Then(CommitLocals(w), Commit) : EndedWork(v)
  <2>1. \A v \in CommitLocals(w) :
          v.ret = "ok" => \A u \in Commit(v) : EndedWork(u)
    BY <1>2, GoodCommitLocals, FreeConn, CommitEnds DEF AllGood
  <2> QED BY <2>1 DEF Then, Failed, EndedWork
<1> QED BY <1>1, <1>2 DEF CommitAuto

\* A local transaction with a TPB that is committed leaves the statement
\* without a transaction, and still using its own.
LEMMA CommitLocalEnds ==
  ASSUME NEW c, NEW w, Good(w, c), NEW s \in Stmt, s \in c.busy,
         w.st[s].local, w.tr[s].node # None
  PROVE  \A v \in CommitLocal(w, s) :
           v.ret = "ok" => v.st[s].local /\ v.tr[s].handle = None
<1> DEFINE l == LeaveLocal(w, s)
           d == Dropped(l, s)
<1>1. s \in Owner /\ s # Conn
  BY ConstantsAssumption DEF Owner
<1>2. Good(l, c) /\ l.tr = w.tr /\ l.st[s].local
  <2>1. [w EXCEPT !.st[s].local = TRUE].st[s].local
    BY DEF Good, World, StInfo
  <2>2. l.st[s].local
    BY <2>1 DEF LeaveLocal, Good, World, StInfo
  <2> QED BY <2>2, GoodLeaveLocal
<1> HIDE DEF l
<1>3. ASSUME NEW v, Good(v, c)
      PROVE  /\ NoPending(v, s).st = v.st
             /\ NoPending(v, s).tr[s].handle = v.tr[s].handle
  BY <1>1, <1>3 DEF NoPending, Good, World, TrInfo
<1>4. CASE l.tr[s].handle = None
  BY <1>2, <1>3, <1>4 DEF CommitLocal, CommitHandle, l
<1>5. CASE l.tr[s].handle # None
  <2>1. Good(d, c)
    BY <1>1, <1>2, <1>5, FreeStmt, GoodDropped
  <2>2. d.st = l.st /\ d.tr[s].handle = None
    BY <1>1, <1>2 DEF Dropped, Ended, Good, World, TrInfo
  <2> HIDE DEF d
  <2>3. CommitLocal(w, s) = {NoPending(d, s)} \cup Refused("commit", Rollback(l, s))
    BY <1>5 DEF CommitLocal, CommitHandle, l, d
  <2>4. AllGood(Rollback(l, s), c)
    BY <1>1, <1>2, FreeStmt, GoodRollback
  <2>5. \A v \in Refused("commit", Rollback(l, s)) : v.ret # "ok"
    BY <2>4, ThrowEnded DEF AllGood, Refused
  <2> QED BY <1>2, <1>3, <2>1, <2>2, <2>3, <2>5
<1> QED BY <1>4, <1>5

\* In autocommit mode nothing is left to commit.
Committed(v, s) ==
  v.ret = "ok" /\ v.tr[TrOwner(v, s)].auto => v.tr[TrOwner(v, s)].handle \notin v.work

\* So does the end of a statement in autocommit mode.  A statement that uses
\* the connection's transaction still does, and one that uses its own too.
LEMMA AutoCommitEndCommits ==
  ASSUME NEW c, NEW w, Good(w, c), NEW s \in Stmt, c.busy = {s}, w.st[s].prepared
  PROVE  \A v \in AutoCommitEnd(w, s) : Committed(v, s)
<1>1. CASE ~w.st[s].local
  <2> DEFINE d == Tagged(c, "shared")
  <2>1. w.tr[Conn].auto => \A v \in CommitAuto(w) : EndedWork(v)
    BY AutoNotManual, CommitAutoEnds
  <2>2. ASSUME w.tr[Conn].auto
        PROVE  \A v \in CommitAuto(w) : ~v.st[s].local
    <3>1. d.busy = {s} /\ "shared" \in d.tags /\ d.tags = c.tags \cup {"shared"}
      BY TaggedBusy
    <3>2. Good(w, d)
      BY <1>1, GoodTagged
    <3> HIDE DEF d
    <3>3. AllGood(CommitAuto(w), d)
      BY <2>2, <3>2, AutoNotManual, GoodCommitAuto
    <3> QED BY <3>1, <3>3 DEF AllGood, Good, AsTagged
  <2> QED BY <1>1, <2>1, <2>2 DEF AutoCommitEnd, EndedWork, Committed, TrOwner
<1>2. CASE w.st[s].local
  <2>1. w.tr[s].node # None
    BY <1>2 DEF Good, LocalTpb
  <2>2. \A v \in CommitLocal(w, s) :
          Good(v, c) /\ (v.ret = "ok" => v.st[s].local /\ v.tr[s].handle = None)
    BY <1>2, <2>1, CommitLocalEnds, GoodCommitLocal DEF AllGood
  <2>3. \A v \in CommitLocal(w, s) : Committed(v, s)
    BY <2>2, ConstantsAssumption DEF Committed, TrOwner, Good, World
  <2>4. ~w.tr[s].auto => Committed(w, s)
    BY <1>2 DEF Committed, TrOwner
  <2> QED BY <1>2, <2>3, <2>4 DEF AutoCommitEnd
<1> QED BY <1>1, <1>2

\* The cursor is open in the transaction of the statement.
CursorOpened(v, s) ==
  v.ret = "ok" => /\ IsActiveSelect(v.st[s])
                  /\ v.st[s].cursor => v.st[s].fb = v.tr[TrOwner(v, s)].handle

Served(v, s, k) ==
  /\ k = "select" => CursorOpened(v, s)
  /\ k \in {"dml", "ddl"} => Committed(v, s)

\* An execution that threw has promised nothing.
LEMMA FailedServed ==
  ASSUME NEW v, v.ret # "ok", NEW s, NEW k
  PROVE  Served(v, s, k)
BY DEF Served, CursorOpened, Committed

LEMMA GoodAfterExecute ==
  ASSUME NEW c, NEW w, Good(w, c), NEW s \in Stmt, NEW k \in {"select", "dml", "ddl"},
         c.busy = {s}, w.st[s].prepared,
         w.st[s].cursor => w.st[s].fb = w.tr[TrOwner(w, s)].handle
  PROVE  \A v \in AfterExecute(w, s, k) : Good(v, c) /\ Served(v, s, k)
<1> DEFINE v == IF IsActiveSelect(w.st[s]) THEN NoType(w, s) ELSE w
           N(u) == NoHandle(u, s)
<1>1. Good(v, c)
  BY GoodNoType
<1>2. /\ v.tr = w.tr /\ TrOwner(v, s) = TrOwner(w, s)
      /\ v.st[s].cursor = w.st[s].cursor /\ v.st[s].fb = w.st[s].fb
      /\ v.st[s].prepared
  BY DEF NoType, Good, World, StInfo, TrOwner
<1> HIDE DEF v
<1>3. \A u \in AutoCommitEnd(v, s) : Good(u, c) /\ Committed(u, s)
  BY <1>1, <1>2, GoodAutoCommitEnd, AutoCommitEndCommits DEF AllGood
<1>4. \A u \in Then(AutoCommitEnd(v, s), LAMBDA u : {N(u)}) : Good(u, c) /\ Committed(u, s)
  <2>1. ASSUME NEW u, Good(u, c), Committed(u, s)
        PROVE  Good(N(u), c) /\ Committed(N(u), s)
    <3>1. /\ N(u).tr = u.tr /\ N(u).work = u.work /\ N(u).ret = u.ret
          /\ TrOwner(N(u), s) = TrOwner(u, s)
      BY <2>1 DEF NoHandle, Good, World, StInfo, TrOwner
    <3>2. Good(N(u), c)
      BY <2>1, GoodNoHandle
    <3> HIDE DEF N
    <3> QED BY <2>1, <3>1, <3>2 DEF Committed
  <2> HIDE DEF N
  <2> QED BY <1>3, <2>1 DEF Then, Failed
<1>5. LET u == [v EXCEPT !.st[s].type = "select"]
      IN  Good(u, c) /\ CursorOpened(u, s)
  <2> DEFINE x == [v.st[s] EXCEPT !.type = "select"]
             u == [v EXCEPT !.st[s] = x]
  <2>1. /\ x \in StInfo /\ x.type = "select" /\ x.rs = v.st[s].rs /\ x.fb = v.st[s].fb
        /\ x.kind = v.st[s].kind /\ x.cursor = v.st[s].cursor
        /\ SameTr(v.st[s], x)
    BY <1>1, StmtOfGood DEF StInfo, TypeStmt, SameTr
  <2> HIDE DEF x
  <2>2. StAs(x, c, v.tr[s].node)
    BY <1>1, <2>1, StmtOfGood DEF StAs, AsTagged, LocalTpb, SameTr
  <2>3. Good(u, c)
    BY <1>1, <2>2, GoodStmt
  <2>4. u.st[s] = x /\ u.tr = v.tr
    BY <1>1 DEF Good, World
  <2>5. [v EXCEPT !.st[s].type = "select"] = u
    BY DEF x
  <2> HIDE DEF u
  <2>6. CursorOpened(u, s)
    BY <1>2, <2>1, <2>4 DEF CursorOpened, TrOwner, IsActiveSelect, SameTr
  <2> QED BY <2>3, <2>5, <2>6
<1>6. QED
  BY <1>3, <1>4, <1>5 DEF AfterExecute, Served, v

LEMMA GoodServerExecute ==
  ASSUME NEW c, NEW w, Good(w, c), NEW s \in Stmt, NEW k \in {"select", "dml", "ddl"},
         c.busy = {s}, "noFb" \notin c.tags, w.tr[TrOwner(w, s)].handle # None
  PROVE  \A v \in ServerExecute(w, s, k) : Good(v, c) /\ Served(v, s, k)
<1>1. \A v \in Crash(w) : Good(v, c) /\ Served(v, s, k)
  BY GoodCrash, FailedServed DEF AllGood
<1>2. /\ Good(Executed(w, s), c)
      /\ w.st[s].prepared
           => \A v \in AfterExecute(Executed(w, s), s, k) : Good(v, c) /\ Served(v, s, k)
  BY GoodExecuted, GoodAfterExecute
<1>3. ASSUME NEW v, Good(v, c)
      PROVE  Good(Throw(v), c) /\ Served(Throw(v), s, k)
  BY <1>3, GoodThrow, ThrowEnded, FailedServed
<1>4. \A v \in Refused("getInfo", {Executed(w, s)}) : Good(v, c) /\ Served(v, s, k)
  BY <1>2, <1>3 DEF Refused
<1>5. AllGood(Then(ExecuteRefused(w), LAMBDA u : ClearSelect(u, s)), c)
  BY GoodExecuteRefused, GoodClearSelect DEF Then, Failed, AllGood
<1>6. \A v \in {Throw(u) : u \in Then(ExecuteRefused(w), LAMBDA u : ClearSelect(u, s))} :
        Good(v, c) /\ Served(v, s, k)
  BY <1>3, <1>5 DEF AllGood
<1>7. QED
  BY <1>1, <1>2, <1>4, <1>6 DEF ServerExecute

LEMMA GoodIscExecute ==
  ASSUME NEW c, NEW w, Good(w, c), NEW s \in Stmt, NEW k \in {"select", "dml", "ddl"},
         c.busy = {s}, c.tags \cap {"noFb", "noTr", "shared"} = {}
  PROVE  \A v \in IscExecute(w, s, k) : Good(v, c) /\ Served(v, s, k)
<1> DEFINE W == IF IsActiveSelect(w.st[s]) /\ w.tr[Conn].auto
                THEN ClearSelect(w, s) ELSE {w}
           V == Then(W, LAMBDA v : StartTransaction(v, s))
           F(v) == ServerExecute(v, s, k)
<1>1. AllGood(W, c)
  BY GoodClearSelect DEF AllGood
<1> HIDE DEF W
<1>2. \A v \in V : Good(v, c) /\ Started(v, s)
  BY <1>1, GoodStartTransaction DEF Then, Failed, AllGood, Started
<1>3. IscExecute(w, s, k) = Then(V, F)
  BY DEF IscExecute, W
<1>4. \A v \in V : v.ret = "ok" => \A u \in F(v) : Good(u, c) /\ Served(u, s, k)
  <2> SUFFICES ASSUME NEW v \in V, v.ret = "ok"
               PROVE  \A u \in ServerExecute(v, s, k) : Good(u, c) /\ Served(u, s, k)
    OBVIOUS
  <2> HIDE DEF V
  <2> QED BY <1>2, GoodServerExecute DEF Started
<1> HIDE DEF V, F
<1>5. QED
  BY <1>2, <1>3, <1>4, FailedServed DEF Then, Failed

\* What can be fetched afterwards is what was opened.
LEMMA GoodExecuteStatement ==
  ASSUME NEW c, NEW w, Good(w, Tagged(c, "closed")), NEW s \in Stmt,
         NEW k \in {"select", "dml", "ddl"}, c.busy = {s},
         c.tags \cap {"noFb", "noTr", "shared", "closed"} = {}
  PROVE  \A v \in ExecuteStatement(w, s, k) :
           Good(v, c) /\ CursorAt(v, s) /\ (k \in {"dml", "ddl"} => Committed(v, s))
<1> DEFINE d == Tagged(c, "closed")
<1>0. d.busy = {s} /\ d.tags = c.tags \cup {"closed"}
  BY TaggedBusy
<1>1. \A v \in IscExecute(w, s, k) : Good(v, d) /\ Served(v, s, k)
  <2> HIDE DEF d
  <2>1. Good(w, d) /\ d.tags \cap {"noFb", "noTr", "shared"} = {}
    BY <1>0 DEF d
  <2> QED BY <1>0, <2>1, GoodIscExecute
<1>2. \A v : Good(v, d) => Good(v, c)
  BY GoodUntagged
<1> HIDE DEF d
<1>3. \A v : Good(v, d) => CursorAt(v, s)
  BY <1>0 DEF Good, AsTagged, CursorAt
<1>4. ASSUME NEW v, Good(v, d)
      PROVE  Good(Throw(v), c) /\ CursorAt(Throw(v), s)
  BY <1>2, <1>3, <1>4, GoodThrow
<1>5. ASSUME NEW v, Good(v, d), v.ret = "ok", CursorOpened(v, s)
      PROVE  Good(Opened(v, s), c) /\ CursorAt(Opened(v, s), s)
  <2> DEFINE x == [v.st[s] EXCEPT !.rs = "open"]
             u == [v EXCEPT !.st[s] = x]
  <2>1. /\ x \in StInfo /\ x.type = v.st[s].type /\ x.fb = v.st[s].fb
        /\ x.cursor = v.st[s].cursor /\ x.kind = v.st[s].kind /\ x.local = v.st[s].local
    BY <1>5, StmtOfGood DEF StInfo
  <2> HIDE DEF x
  <2>2. u.st[s] = x /\ u.tr = v.tr /\ Opened(v, s) = u
    BY <1>5 DEF Good, World, Opened, x
  <2> HIDE DEF u
  <2>3. Good(Opened(v, s), c)
    BY <1>2, <1>5, GoodOpened
  <2>4. v.st[s].kind = "select" => v.st[s].cursor
    BY <1>5 DEF Good
  <2>5. CursorAt(u, s)
    BY <1>5, <2>1, <2>2, <2>4 DEF CursorOpened, CursorAt, TrOwner, IsActiveCursor, IsActiveSelect
  <2> QED BY <2>2, <2>3, <2>5
<1>6. CASE k = "select"
  <2> DEFINE F(v) == Refused("setCursorName", {v}) \cup {Opened(v, s)}
  <2>1. \A v \in IscExecute(w, s, k) : Good(v, d) /\ CursorOpened(v, s)
    BY <1>1, <1>6 DEF Served
  <2>2. \A v \in IscExecute(w, s, k) :
          v.ret = "ok" => \A u \in F(v) : Good(u, c) /\ CursorAt(u, s)
    BY <1>4, <1>5, <2>1 DEF Refused
  <2>3. ExecuteStatement(w, s, k) = Then(IscExecute(w, s, k), F)
    BY <1>6 DEF ExecuteStatement
  <2> HIDE DEF F
  <2> QED BY <1>2, <1>3, <1>6, <2>1, <2>2, <2>3 DEF Then, Failed
<1>7. CASE k # "select"
  BY <1>1, <1>2, <1>3, <1>7 DEF ExecuteStatement, Served
<1> QED BY <1>6, <1>7

LEMMA GoodExecuteProcedure ==
  ASSUME NEW c, NEW w, Good(w, c), NEW s \in Stmt, NEW k,
         s \in c.busy, c.tags \cap {"noFb", "noTr", "shared", "closed"} = {}
  PROVE  AllGood(ExecuteProcedure(w, s, k), c)
<1> DEFINE Done(v) == IF k = "procRows" THEN Opened(v, s) ELSE v
           Rest(v) == IF ~v.st[s].prepared
                      THEN Crash(v)
                      ELSE {Throw(u) : u \in ExecuteRefused(v)}
                             \cup Refused("getInfo", {Executed(v, s)})
                             \cup {Done(Executed(v, s))}
<1>1. ASSUME NEW v, Good(v, c), v.tr[TrOwner(v, s)].handle # None
      PROVE  AllGood(Rest(v), c)
  <2>1. Good(Executed(v, s), c) /\ Good(Done(Executed(v, s)), c)
    BY <1>1, GoodExecuted, GoodOpened
  <2>2. AllGood({Throw(u) : u \in ExecuteRefused(v)}, c)
    BY <1>1, GoodExecuteRefused, GoodThrow DEF AllGood
  <2>3. AllGood(Refused("getInfo", {Executed(v, s)}), c)
    BY <2>1, GoodThrow DEF Refused, AllGood
  <2>4. AllGood(Crash(v), c)
    BY <1>1, GoodCrash
  <2> HIDE DEF Done
  <2> QED BY <2>1, <2>2, <2>3, <2>4 DEF AllGood
<1>2. ExecuteProcedure(w, s, k) = Then(StartTransaction(w, s), Rest)
  BY DEF ExecuteProcedure
<1> HIDE DEF Rest
<1> QED BY <1>1, <1>2, GoodStartTransaction DEF Then, Failed, AllGood, Started

-----------------------------------------------------------------------------
\* The calls.  An action is Do of a set of worlds made from Now.

IInv ==
  /\ TypeOK
  /\ HandlesOpen
  /\ \A p \in Stmt : /\ LocalTpb(st[p], tr[p].node)
                     /\ st[p].kind = "select" => st[p].cursor
  /\ Preserving => \A p \in Stmt : CursorAt(Now, p)

\* A call that begins now and works on the statements of B.
CallOf(c, B) ==
  /\ c.busy = B
  /\ Orphans(Now) \subseteq c.orphans
  /\ c.tags \subseteq {"manual", "noTr"}
  /\ "manual" \in c.tags => ManualWork(Now, c)
  /\ "noTr" \in c.tags => \A p \in B : tr[p].handle = None

\* What it promises when it returns.
Returned(c) ==
  /\ IInv'
  /\ open' \ Handles' \subseteq c.orphans
  /\ "manual" \in c.tags => ~tr'[Conn].auto /\ tr'[Conn].handle = c.work
                              /\ tr'[Conn].handle \in work'

\* Between two calls the world is good for the call that begins.
LEMMA NowIsGood ==
  ASSUME IInv, NEW c, NEW B \in SUBSET Stmt, CallOf(c, B)
  PROVE  Good(Now, c)
<1>1. /\ Now \in World /\ Now.tr = tr /\ Now.st = st
      /\ Now.open = open /\ Now.work = work
  BY DEF IInv, TypeOK, World, Now
<1>2. HandlesIn(Now)
  BY <1>1 DEF IInv, HandlesOpen, HandlesIn
<1>3. \A p \in c.busy : AsTagged(Now.st[p], c)
  BY DEF CallOf, AsTagged
<1> QED BY <1>1, <1>2, <1>3 DEF Good, CallOf, IInv

\* A call whose worlds are all good, with its own cursor whole again,
\* returns what it promised.
LEMMA DoGood ==
  ASSUME IInv, NEW c, NEW W, Do(W),
         \A w \in W : Good(w, c) /\ (Preserving => \A p \in c.busy : CursorAt(w, p))
  PROVE  Returned(c)
<1>1. PICK w \in W : /\ tr' = w.tr /\ st' = w.st /\ open' = w.open
                     /\ work' = w.work /\ ret' = w.ret
  BY DEF Do
<1>2. /\ Good(w, c) /\ w \in World /\ HandlesIn(w)
      /\ Preserving => \A p \in c.busy : CursorAt(w, p)
  BY <1>1 DEF Good
<1>3. connected' \in BOOLEAN
  BY DEF IInv, TypeOK, Do
<1>4. TypeOK'
  BY <1>1, <1>2, <1>3 DEF TypeOK, World
<1>5. HandlesOpen'
  BY <1>1, <1>2 DEF HandlesOpen, HandlesIn
<1>6. \A p \in Stmt : LocalTpb(st'[p], tr'[p].node) /\ (st'[p].kind = "select" => st'[p].cursor)
  BY <1>1, <1>2 DEF Good
<1>7. Preserving => \A p \in Stmt : CursorAt(Now, p)'
  <2>1. Now'.tr = w.tr /\ Now'.st = w.st
    BY <1>1 DEF Now
  <2>2. Preserving => \A p \in Stmt : CursorAt(w, p)
    BY <1>2 DEF Good
  <2> QED BY <2>1, <2>2 DEF CursorAt, TrOwner
<1>8. open' \ Handles' \subseteq c.orphans
  BY <1>1, <1>2 DEF Good, Orphans, Handles
<1>9. "manual" \in c.tags => ~tr'[Conn].auto /\ tr'[Conn].handle = c.work
                               /\ tr'[Conn].handle \in work'
  BY <1>1, <1>2 DEF Good, ManualWork
<1>10. QED
  BY <1>4, <1>5, <1>6, <1>7, <1>8, <1>9 DEF IInv, Returned

\* A call that leaves its statement without a result set.
LEMMA DoClosed ==
  ASSUME IInv, NEW c, NEW s \in Stmt, c.busy = {s}, NEW W, Do(W),
         AllGood(W, Tagged(c, "closed"))
  PROVE  Returned(c)
<1> DEFINE d == Tagged(c, "closed")
<1>1. d.busy = {s} /\ "closed" \in d.tags
  BY TaggedBusy
<1>2. ASSUME NEW w \in W PROVE Good(w, c) /\ CursorAt(w, s)
  <2>1. Good(w, d)
    BY DEF AllGood
  <2>2. Good(w, c)
    BY <2>1, GoodUntagged
  <2> HIDE DEF d
  <2> QED BY <1>1, <2>1, <2>2 DEF Good, AsTagged, CursorAt
<1> QED BY <1>2, DoGood

LEMMA GoodEscape ==
  ASSUME NEW c, NEW W, AllGood(W, c)
  PROVE  AllGood(Escape(W), c)
<1>1. ASSUME NEW w, Good(w, c)
      PROVE  Good([w EXCEPT !.ret = IF @ = "error" THEN "crash" ELSE @], c)
  <2>1. w.ret \in {"ok", "error", "crash"}
    BY <1>1 DEF Good, World
  <2>2. QED
    BY <1>1, <2>1, GoodRet
<1>2. QED
  BY <1>1 DEF Escape, AllGood

\* The part that Prepare, COMMIT, ROLLBACK and SET TRANSACTION share.
Released(s) == Escape(ReleaseStatement(NotPrepared(Now, s), s))

\* Tags are given in any order.
LEMMA TagSwap ==
  ASSUME NEW c, NEW t, NEW u
  PROVE  Tagged(Tagged(c, t), u) = Tagged(Tagged(c, u), t)
<1>1. (c.tags \cup {t}) \cup {u} = (c.tags \cup {u}) \cup {t}
  OBVIOUS
<1> QED BY <1>1 DEF Tagged

LEMMA GoodReleased ==
  ASSUME IInv, NEW s \in Stmt, NEW c, CallOf(c, {s})
  PROVE  AllGood(Released(s), Tagged(Tagged(c, "closed"), "notSelect"))
<1> DEFINE d == Tagged(c, "notSelect")
           w == NotPrepared(Now, s)
<1>1. c.busy = {s} /\ d.busy = {s}
  BY TaggedBusy DEF CallOf
<1>2. Good(w, c) /\ w.st[s].kind # "select"
  BY <1>1, NowIsGood, GoodNotPrepared, NoneNotKind
<1>3. Good(w, d)
  <2> HIDE DEF w
  <2> QED BY <1>1, <1>2, GoodTagged
<1> HIDE DEF d, w
<1>4. AllGood(Escape(ReleaseStatement(w, s)), Tagged(d, "closed"))
  BY <1>1, <1>3, GoodReleaseStatement, GoodEscape
<1> QED BY <1>4, TagSwap DEF Released, d, w

\* A statement that was released without an exception has no handle.
LEMMA ReleasedUnprepared ==
  ASSUME IInv, NEW s \in Stmt, NEW c, CallOf(c, {s})
  PROVE  \A v \in Released(s) : v.ret = "ok" => ~v.st[s].prepared
<1> DEFINE w == NotPrepared(Now, s)
           R == ReleaseResultSet(w, s)
           F(v) == Drop(v, s)
           d == Tagged(c, "closed")
<1>1. c.busy = {s} /\ d.busy = {s}
  BY TaggedBusy DEF CallOf
<1>2. AllGood(R, d)
  BY <1>1, NowIsGood, GoodNotPrepared, GoodReleaseResultSet
<1> HIDE DEF d, R
<1>3. ASSUME NEW u, Good(u, d) PROVE ~NoHandle(u, s).st[s].prepared
  BY <1>3 DEF NoHandle, Good, World, StInfo
<1>4. ASSUME NEW u, Good(u, d), NEW v \in F(u), v.ret = "ok"
      PROVE  ~v.st[s].prepared
  BY <1>1, <1>3, <1>4, GoodIscClose DEF Drop, Then, Failed, AllGood
<1>5. \A v \in Then(R, F) : v.ret = "ok" => ~v.st[s].prepared
  <2> HIDE DEF F
  <2> QED BY <1>2, <1>4 DEF Then, Failed, AllGood
<1>6. AllGood(Then(R, F), d)
  <2>1. \A u : Good(u, d) => AllGood(F(u), d)
    BY <1>1, GoodDrop
  <2> HIDE DEF F
  <2> QED BY <1>2, <2>1 DEF Then, Failed, AllGood
<1>7. ASSUME NEW v, Good(v, d), v.ret = "ok" => ~v.st[s].prepared,
             NEW e, e = [v EXCEPT !.ret = IF @ = "error" THEN "crash" ELSE @],
             e.ret = "ok"
      PROVE  ~e.st[s].prepared
  BY <1>7 DEF Good, World
<1>8. Released(s) = Escape(Then(R, F))
  BY DEF Released, ReleaseStatement, R
<1> HIDE DEF F
<1> QED BY <1>5, <1>6, <1>7, <1>8 DEF Escape, AllGood

\* What follows: F makes of every world in which the statement is released
\* worlds in which its result set is still closed.
LEMMA DoReleased ==
  ASSUME IInv, NEW s \in Stmt, NEW c, CallOf(c, {s}), NEW W, Do(W),
         \A w \in W : \/ w \in Released(s)
                      \/ Good(w, Tagged(c, "closed"))
  PROVE  Returned(c)
<1>1. \A w \in Released(s) : Good(w, Tagged(c, "closed"))
  BY GoodReleased, GoodUntagged DEF AllGood
<1>2. c.busy = {s}
  BY DEF CallOf
<1> QED BY <1>1, <1>2, DoClosed DEF AllGood

\* The calls of a statement, one lemma each.
LEMMA PrepareStep ==
  ASSUME IInv, NEW s \in Stmt, NEW k \in Kinds, Prepare(s, k),
         NEW c, CallOf(c, {s}), "noTr" \notin c.tags
  PROVE  Returned(c)
<1> DEFINE d == Tagged(c, "closed")
           F(v) == PrepareStatement(v, s, k)
           W == Then(Released(s), F)
<1>1. d.busy = {s} /\ d.tags \cap {"noTr", "shared", "notSelect"} = {}
  BY TaggedBusy DEF CallOf
<1>2. Do(W)
  BY DEF Prepare, Reprepare, Released
<1>3. \A v \in Released(s) : Good(v, Tagged(d, "notSelect"))
  BY GoodReleased DEF AllGood
<1> HIDE DEF d
<1>4. \A v \in Released(s) : \A u \in F(v) : Good(u, d)
  <2> SUFFICES ASSUME NEW v \in Released(s) PROVE AllGood(PrepareStatement(v, s, k), d)
    BY DEF AllGood
  <2> QED BY <1>1, <1>3, GoodPrepareStatement
<1> HIDE DEF F
<1>5. \A w \in W : w \in Released(s) \/ Good(w, d)
  BY <1>4 DEF Then, Failed
<1> HIDE DEF W
<1> QED BY <1>2, <1>5, DoReleased DEF d

LEMMA ExecuteStep ==
  ASSUME IInv, NEW s \in Stmt, Execute(s), NEW c, CallOf(c, {s}), "noTr" \notin c.tags
  PROVE  /\ Returned(c)
         /\ LET o == TrOwner([tr |-> tr', st |-> st'], s)
            IN  ret' = "ok" /\ st[s].kind \in {"dml", "ddl"} /\ tr'[o].auto
                  => tr'[o].handle \notin work'
<1> DEFINE k == st[s].kind
           F(v) == IF k \in {"proc", "procRows"}
                   THEN ExecuteProcedure(v, s, k)
                   ELSE ExecuteStatement(v, s, k)
           R == ReleaseResultSet(Now, s)
           W == Then(R, F)
           p == Tagged(c, "notSelect")
           Fine(v) == /\ Good(v, c) /\ CursorAt(v, s)
                      /\ k \in {"dml", "ddl"} => Committed(v, s)
<1>1. k \in AllKinds
  <2>1. k \in Kinds \cup {None} /\ k # None
    BY DEF Execute, IInv, TypeOK, StInfo
  <2>2. QED
    BY <2>1, ConstantsAssumption
<1>2. /\ c.busy = {s} /\ p.busy = {s} /\ p.tags = c.tags \cup {"notSelect"}
      /\ c.tags \cap {"noFb", "noTr", "shared", "closed"} = {}
      /\ p.tags \cap {"noFb", "noTr", "shared", "closed"} = {}
  BY TaggedBusy DEF CallOf
<1>3. Good(Now, c) /\ Now.st[s].kind = k
  BY NowIsGood DEF Now
<1>4. Do(W)
  BY DEF Execute
<1>5. AllGood(R, Tagged(c, "closed"))
  BY <1>2, <1>3, GoodReleaseResultSet
<1> HIDE DEF k
<1>6. ASSUME k \in {"proc", "procRows"}
      PROVE  \A v \in W : Fine(v)
  <2>1. Good(Now, p)
    BY <1>2, <1>3, <1>6, GoodTagged
  <2> HIDE DEF p
  <2>2. AllGood(R, p)
    BY <1>2, <2>1, GoodReleaseResultSet, GoodUntagged DEF AllGood
  <2>3. \A v : Good(v, p) => AllGood(ExecuteProcedure(v, s, k), p)
    BY <1>2, GoodExecuteProcedure
  <2>4. AllGood(W, p)
    BY <1>6, <2>2, <2>3 DEF Then, Failed, AllGood
  <2>5. \A v : Good(v, p) => Good(v, c)
    BY GoodUntagged DEF p
  <2>6. \A v \in W : Good(v, p)
    BY <2>4 DEF AllGood
  <2> HIDE DEF W
  <2>7. \A v \in W : Fine(v)
    BY <1>2, <1>6, <2>5, <2>6 DEF Good, AsTagged, CursorAt
  <2> QED BY <2>7
<1>7. ASSUME k \notin {"proc", "procRows"}
      PROVE  \A v \in W : Fine(v)
  <2>1. k \in {"select", "dml", "ddl"}
    BY <1>1, <1>7 DEF AllKinds
  <2>2. \A v \in R : \A u \in ExecuteStatement(v, s, k) : Fine(u)
    <3> SUFFICES ASSUME NEW v \in R PROVE \A u \in ExecuteStatement(v, s, k) : Fine(u)
      OBVIOUS
    <3>1. Good(v, Tagged(c, "closed"))
      BY <1>5 DEF AllGood
    <3> QED BY <1>2, <2>1, <3>1, GoodExecuteStatement
  <2>3. \A v \in Failed(R) : Fine(v)
    <3> SUFFICES ASSUME NEW v \in R, v.ret # "ok" PROVE Fine(v)
      BY DEF Failed
    <3> DEFINE d == Tagged(c, "closed")
    <3>1. Good(v, d) /\ d.busy = {s} /\ "closed" \in d.tags
      BY <1>2, <1>5, TaggedBusy DEF AllGood
    <3>2. Good(v, c)
      BY <3>1, GoodUntagged
    <3> HIDE DEF d
    <3>3. CursorAt(v, s)
      BY <3>1 DEF Good, AsTagged, CursorAt
    <3> QED BY <3>2, <3>3 DEF Committed
  <2> HIDE DEF Fine
  <2>4. \A v \in W : Fine(v)
    BY <1>7, <2>2, <2>3 DEF Then
  <2> QED BY <2>4
<1>8. \A v \in W : Fine(v)
  BY <1>6, <1>7
<1> HIDE DEF W
<1>9. Returned(c)
  BY <1>2, <1>4, <1>8, DoGood
<1>10. ASSUME NEW o, o = TrOwner([tr |-> tr', st |-> st'], s),
              ret' = "ok", k \in {"dml", "ddl"}, tr'[o].auto
       PROVE  tr'[o].handle \notin work'
  <2>1. PICK w \in W : /\ tr' = w.tr /\ st' = w.st /\ open' = w.open
                       /\ work' = w.work /\ ret' = w.ret
    BY <1>4 DEF Do
  <2>2. o = TrOwner(w, s)
    BY <1>10, <2>1 DEF TrOwner
  <2> QED BY <1>8, <1>10, <2>1, <2>2 DEF Committed
<1> QED BY <1>9, <1>10 DEF k

LEMMA FetchEofStep ==
  ASSUME IInv, NEW s \in Stmt, FetchEof(s), NEW c, CallOf(c, {s})
  PROVE  Returned(c)
<1> DEFINE E(v) == [v EXCEPT !.st[s].rs = "eof"]
           G(v) == {E(v)}
           D == DeleteResultSet(Now, s)
           W == IF st[s].fb = None THEN {Throw(Now)} ELSE Then(D, G)
           f == Tagged(c, "noFb")
<1>1. c.busy = {s} /\ f.busy = {s} /\ f.tags = c.tags \cup {"noFb"}
  BY TaggedBusy DEF CallOf
<1>2. Do(W)
  BY DEF FetchEof
<1>3. Good(Now, c) /\ Now.st = st /\ Now.tr = tr
  BY NowIsGood DEF Now
<1>4. ASSUME st[s].fb = None
      PROVE  Good(Throw(Now), c) /\ CursorAt(Throw(Now), s)
  <2>1. Throw(Now).st = st
    BY <1>3 DEF Throw, Good, World
  <2> QED BY <1>3, <1>4, <2>1, GoodThrow DEF CursorAt
<1>5. ASSUME st[s].fb # None, NEW v \in D
      PROVE  Good(v, c) /\ (Preserving => CursorAt(v, s))
  <2>1. Good(v, c)
    BY <1>1, <1>3, GoodDeleteResultSet DEF AllGood
  <2>2. ASSUME Preserving PROVE CursorAt(v, s)
    <3>1. CursorAt(Now, s) /\ st[s].rs = "open" /\ st[s].kind = "select"
      BY <2>2 DEF IInv, FetchEof
    <3>2. IsActiveCursor(Now.st[s])
      BY <1>3, <1>5, <3>1 DEF CursorAt
    <3>3. Good(v, f)
      BY <1>1, <1>3, <3>2, GoodDeleteResultSet DEF AllGood
    <3> HIDE DEF f
    <3> QED BY <1>1, <3>3 DEF Good, AsTagged, CursorAt
  <2> QED BY <2>1, <2>2
<1>6. ASSUME NEW v, Good(v, c)
      PROVE  Good(E(v), c) /\ CursorAt(E(v), s)
  <2> DEFINE x == [v.st[s] EXCEPT !.rs = "eof"]
             u == [v EXCEPT !.st[s] = x]
  <2>1. /\ x \in StInfo /\ x.rs = "eof" /\ x.fb = v.st[s].fb /\ x.kind = v.st[s].kind
        /\ x.cursor = v.st[s].cursor
        /\ SameTr(v.st[s], x)
    BY <1>6, StmtOfGood DEF StInfo, SameTr
  <2> HIDE DEF x
  <2>2. StAs(x, c, v.tr[s].node)
    BY <1>1, <1>6, <2>1, StmtOfGood DEF StAs, AsTagged, LocalTpb, SameTr
  <2>3. Good(u, c)
    BY <1>1, <1>6, <2>2, GoodStmt
  <2>4. u.st[s] = x /\ E(v) = u
    BY <1>6 DEF Good, World, x
  <2> HIDE DEF u
  <2> QED BY <2>1, <2>3, <2>4 DEF CursorAt
<1>7. \A w \in W : Good(w, c) /\ (Preserving => CursorAt(w, s))
  <2> HIDE DEF E, D
  <2> QED BY <1>4, <1>5, <1>6 DEF Then, Failed
<1> HIDE DEF W
<1> QED BY <1>1, <1>2, <1>7, DoGood

LEMMA CloseStep ==
  ASSUME IInv, NEW s \in Stmt, CloseCursor(s) \/ FreeStmtClose(s), NEW c, CallOf(c, {s})
  PROVE  Returned(c)
<1> DEFINE R == ReleaseResultSet(Now, s)
           F(v) == IscClose(v, s)
           d == Tagged(c, "closed")
<1>1. c.busy = {s} /\ d.busy = {s}
  BY TaggedBusy DEF CallOf
<1>2. AllGood(R, d)
  BY <1>1, NowIsGood, GoodReleaseResultSet
<1>3. \A v : Good(v, d) => AllGood(F(v), d)
  <2> HIDE DEF d
  <2> QED BY <1>1, GoodIscClose
<1>4. AllGood(Then(R, F), d)
  <2> HIDE DEF R, F, d
  <2> QED BY <1>2, <1>3 DEF Then, Failed, AllGood
<1>5. Do(R) \/ Do(Then(R, F))
  BY DEF CloseCursor, FreeStmtClose
<1> HIDE DEF F, R
<1> QED BY <1>1, <1>2, <1>4, <1>5, DoClosed

LEMMA EndSqlStep ==
  ASSUME IInv, NEW s \in Stmt, NEW op \in {"commit", "rollback"}, EndSql(s, op),
         NEW c, CallOf(c, {s}), "manual" \notin c.tags
  PROVE  Returned(c)
<1> DEFINE F(v) == IF v.st[s].local
                   THEN IF op = "commit" THEN CommitLocal(v, s) ELSE Rollback(v, s)
                   ELSE End(v, op)
           d == Tagged(c, "closed")
           W == Then(Released(s), F)
<1>1. d.busy = {s} /\ "manual" \notin d.tags /\ s \in Owner /\ s # Conn
  BY TaggedBusy, ConstantsAssumption DEF CallOf, Owner
<1>2. Do(W)
  BY DEF EndSql, Reprepare, Released
<1>3. \A v \in Released(s) : Good(v, d)
  BY GoodReleased, GoodUntagged DEF AllGood
<1> HIDE DEF d
<1>4. \A v : Good(v, d) => AllGood(F(v), d)
  BY <1>1, GoodCommitLocal, FreeStmt, GoodRollback, GoodCommitAuto, GoodRollbackAuto DEF End
<1> HIDE DEF F
<1>5. \A w \in W : w \in Released(s) \/ Good(w, d)
  BY <1>3, <1>4 DEF Then, Failed, AllGood
<1> HIDE DEF W
<1> QED BY <1>2, <1>5, DoReleased DEF d

\* What SET TRANSACTION leaves in the statement and in the two TPBs.
ChangeTo(w, s, b, l) == [w EXCEPT !.st[s].change = b, !.st[s].toLocal = l]

WithNode(w, o, n) == [w EXCEPT !.tr[o].node = n]

LEMMA GoodChange ==
  ASSUME NEW c, NEW w, Good(w, c), NEW s \in Stmt, s \in c.busy,
         NEW b \in BOOLEAN, NEW l \in BOOLEAN,
         w.tr[s].node # None \/ (b /\ ~l)
  PROVE  /\ Good(ChangeTo(w, s, b, l), c)
         /\ ChangeTo(w, s, b, l).st[s].change = b
         /\ ChangeTo(w, s, b, l).st[s].toLocal = l
         /\ ChangeTo(w, s, b, l).st[s].prepared = w.st[s].prepared
<1> DEFINE x == [w.st[s] EXCEPT !.change = b, !.toLocal = l]
           v == [w EXCEPT !.st[s] = x]
<1>1. /\ x \in StInfo /\ x.rs = w.st[s].rs /\ x.fb = w.st[s].fb
      /\ x.kind = w.st[s].kind /\ x.cursor = w.st[s].cursor
      /\ x.local = w.st[s].local /\ x.prepared = w.st[s].prepared
      /\ x.change = b /\ x.toLocal = l
  <2>1. ASSUME NEW y \in StInfo
        PROVE  LET z == [y EXCEPT !.change = b, !.toLocal = l]
               IN  /\ z \in StInfo /\ z.rs = y.rs /\ z.fb = y.fb
                   /\ z.kind = y.kind /\ z.cursor = y.cursor
                   /\ z.local = y.local /\ z.prepared = y.prepared
                   /\ z.change = b /\ z.toLocal = l
    BY DEF StInfo
  <2> QED BY <2>1, StmtOfGood
<1>2. v = ChangeTo(w, s, b, l)
  BY DEF Good, World, ChangeTo
<1> HIDE DEF x
<1>3. StAs(x, c, w.tr[s].node)
  BY <1>1, StmtOfGood DEF StAs, AsTagged, LocalTpb
<1>4. Good(v, c) /\ v.st[s] = x
  <2>1. Good(v, c)
    BY <1>3, GoodStmt
  <2> QED BY <2>1 DEF Good, World
<1> HIDE DEF v
<1> QED BY <1>1, <1>2, <1>4

LEMMA GoodNode ==
  ASSUME NEW c, NEW w, Good(w, c), NEW o \in Owner, NEW n \in {None, "auto", "manual"},
         o \in Stmt => LocalTpb(w.st[o], n)
  PROVE  Good(WithNode(w, o, n), c) /\ WithNode(w, o, n).tr[o].node = n
<1> DEFINE x == [w.tr[o] EXCEPT !.node = n]
           v == [w EXCEPT !.tr[o] = x]
<1>1. x \in TrInfo /\ x.handle = w.tr[o].handle /\ x.auto = w.tr[o].auto /\ x.node = n
  BY TrOfGood DEF TrInfo
<1> HIDE DEF x
<1>2. "manual" \in c.tags /\ o = Conn => ~x.auto
  BY <1>1 DEF Good, ManualWork
<1>3. Good(v, c)
  BY <1>1, <1>2, GoodMode
<1>4. v.tr[o] = x
  BY DEF Good, World
<1>5. WithNode(w, o, n) = v
  BY DEF WithNode, x
<1> HIDE DEF v
<1> QED BY <1>1, <1>3, <1>4, <1>5

LEMMA GoodAuto ==
  ASSUME NEW c, NEW w, Good(w, c), NEW o \in Owner, NEW b \in BOOLEAN,
         "manual" \in c.tags /\ o = Conn => ~b
  PROVE  Good([w EXCEPT !.tr[o].auto = b], c)
<1> DEFINE x == [w.tr[o] EXCEPT !.auto = b]
<1>1. x \in TrInfo /\ x.handle = w.tr[o].handle /\ x.auto = b /\ x.node = w.tr[o].node
  <2>1. \A y \in TrInfo : LET z == [y EXCEPT !.auto = b]
                          IN  /\ z \in TrInfo /\ z.handle = y.handle
                              /\ z.auto = b /\ z.node = y.node
    BY DEF TrInfo
  <2> QED BY <2>1, TrOfGood
<1> HIDE DEF x
<1>2. Good([w EXCEPT !.tr[o] = x], c)
  BY <1>1, GoodMode, TrOfGood
<1> QED BY <1>2 DEF x

NodesOf(n) == n \in {None, "auto", "manual"}

\* The TPBs and modes that a transaction can be given.
LEMMA NodeValues ==
  /\ \A n \in Nodes \cup {None} : NodesOf(n)
  /\ \A c, w : \A o \in Owner :
       Good(w, c) => NodesOf(w.tr[o].node) /\ w.tr[o].auto \in BOOLEAN
  /\ Conn \in Owner /\ Stmt \subseteq Owner /\ Conn \notin Stmt
<1>1. \A n \in Nodes \cup {None} : NodesOf(n)
  BY ConstantsAssumption DEF NodesOf
<1>2. ASSUME NEW c, NEW w, NEW o \in Owner, Good(w, c)
      PROVE  NodesOf(w.tr[o].node) /\ w.tr[o].auto \in BOOLEAN
  BY <1>2 DEF NodesOf, Good, World, TrInfo
<1>3. QED
  BY <1>1, <1>2, ConstantsAssumption DEF Owner

\* With a TPB of its own a statement may change to either transaction.
LEMMA GoodSet ==
  ASSUME NEW c, NEW w, Good(w, c), NEW s \in Stmt, s \in c.busy,
         NEW n \in Nodes, NEW b \in BOOLEAN
  PROVE  Good([w EXCEPT !.st[s].change = b, !.st[s].toLocal = b,
                        !.tr[s].node = n], c)
<1> DEFINE v == WithNode(w, s, n)
<1>1. s \in Owner /\ n \in {None, "auto", "manual"} /\ n # None
  BY NodeValues, ConstantsAssumption DEF NodesOf
<1>2. Good(v, c) /\ v.tr[s].node # None
  BY <1>1, GoodNode DEF LocalTpb
<1>3. [w EXCEPT !.st[s].change = b, !.st[s].toLocal = b, !.tr[s].node = n]
        = ChangeTo(v, s, b, b)
  BY DEF Good, World, ChangeTo, WithNode
<1> HIDE DEF v
<1>4. QED
  BY <1>2, <1>3, GoodChange

\* A statement without a handle may lose its TPB.
LEMMA GoodUse ==
  ASSUME NEW c, NEW w, Good(w, c), NEW s \in Stmt, s \in c.busy, ~w.st[s].prepared,
         NEW n \in Nodes \cup {None}
  PROVE  Good([w EXCEPT !.st[s].change = TRUE,
                        !.st[s].toLocal = FALSE,
                        !.tr[s].node = None,
                        !.tr[s].auto = w.tr[Conn].auto,
                        !.tr[Conn].node = IF n = None THEN @ ELSE n], c)
<1> DEFINE v == ChangeTo(w, s, TRUE, FALSE)
           u == WithNode(v, s, None)
           x == [u EXCEPT !.tr[s].auto = w.tr[Conn].auto]
           m == IF n = None THEN x.tr[Conn].node ELSE n
<1>1. Good(v, c) /\ v.st[s].change /\ ~v.st[s].toLocal /\ ~v.st[s].prepared
  <2>1. ASSUME NEW b \in BOOLEAN, NEW l \in BOOLEAN, b, ~l
        PROVE  /\ Good(ChangeTo(w, s, b, l), c)
               /\ ChangeTo(w, s, b, l).st[s].change
               /\ ~ChangeTo(w, s, b, l).st[s].toLocal
               /\ ~ChangeTo(w, s, b, l).st[s].prepared
    <3> DEFINE y == ChangeTo(w, s, b, l)
    <3>0. w.tr[s].node # None \/ (b /\ ~l)
      BY <2>1
    <3>1. /\ Good(y, c) /\ y.st[s].change = b /\ y.st[s].toLocal = l
          /\ y.st[s].prepared = w.st[s].prepared
      BY <3>0, GoodChange
    <3> HIDE DEF y
    <3> QED BY <2>1, <3>1 DEF y
  <2> QED BY <2>1
<1>2. Good(u, c)
  <2> HIDE DEF v
  <2> QED BY <1>1, GoodNode, NodeValues DEF LocalTpb
<1>3. Good(x, c)
  <2> HIDE DEF u
  <2>1. w.tr[Conn].auto \in BOOLEAN
    BY NodeValues
  <2> QED BY <1>2, <2>1, GoodAuto, NodeValues
<1>4. m \in {None, "auto", "manual"}
  <2> HIDE DEF x
  <2> QED BY <1>3, NodeValues DEF NodesOf
<1>5. Good(WithNode(x, Conn, m), c)
  <2> HIDE DEF x, m
  <2> QED BY <1>3, <1>4, GoodNode, NodeValues
<1>6. x = [w EXCEPT !.st[s].change = TRUE, !.st[s].toLocal = FALSE,
                    !.tr[s].node = None, !.tr[s].auto = w.tr[Conn].auto]
  BY DEF Good, World, ChangeTo, WithNode
<1>7. x.tr[Conn].node = w.tr[Conn].node
  BY ConstantsAssumption DEF Good, World, Owner, ChangeTo, WithNode
<1> HIDE DEF x
<1> QED BY <1>5, <1>6, <1>7 DEF WithNode

LEMMA SetStep ==
  ASSUME IInv, NEW s \in Stmt, NEW n \in Nodes, SetLocal(s, n) \/ DeclareLocal(s, n),
         NEW c, CallOf(c, {s})
  PROVE  Returned(c)
<1> DEFINE P(v, b) == [v EXCEPT !.st[s].change = b, !.st[s].toLocal = b,
                                !.tr[s].node = n]
           W(b) == Then(Released(s), LAMBDA v : {P(v, b)})
           d == Tagged(c, "closed")
<1>1. \E b \in BOOLEAN : Do(W(b))
  BY DEF SetLocal, DeclareLocal, Reprepare, Released
<1>2. s \in d.busy
  BY TaggedBusy DEF CallOf
<1>3. \A v \in Released(s) : Good(v, d)
  BY GoodReleased, GoodUntagged DEF AllGood
<1> HIDE DEF d
<1>4. \A v : \A b \in BOOLEAN : Good(v, d) => Good(P(v, b), d)
  <2> SUFFICES ASSUME NEW v, NEW b \in BOOLEAN, Good(v, d) PROVE Good(P(v, b), d)
    BY Zenon
  <2> QED BY <1>2, GoodSet, Zenon
<1> HIDE DEF P
<1>5. \A b \in BOOLEAN : \A w \in W(b) : w \in Released(s) \/ Good(w, d)
  BY <1>3, <1>4 DEF Then, Failed
<1> HIDE DEF W
<1> QED BY <1>1, <1>5, DoReleased DEF d

LEMMA UseStep ==
  ASSUME IInv, NEW s \in Stmt, NEW n \in Nodes \cup {None}, UseConn(s, n),
         NEW c, CallOf(c, {s})
  PROVE  Returned(c)
<1> DEFINE P(v) == [v EXCEPT !.st[s].change = TRUE,
                             !.st[s].toLocal = FALSE,
                             !.tr[s].node = None,
                             !.tr[s].auto = v.tr[Conn].auto,
                             !.tr[Conn].node = IF n = None THEN @ ELSE n]
           W == Then(Released(s), LAMBDA v : {P(v)})
           d == Tagged(c, "closed")
<1>1. Do(W)
  BY DEF UseConn, Reprepare, Released
<1>2. s \in d.busy
  BY TaggedBusy DEF CallOf
<1>3. \A v \in Released(s) : Good(v, d)
  BY GoodReleased, GoodUntagged DEF AllGood
<1> HIDE DEF d
<1>4. \A v : Good(v, d) /\ ~v.st[s].prepared => Good(P(v), d)
  <2> SUFFICES ASSUME NEW v, Good(v, d), ~v.st[s].prepared PROVE Good(P(v), d)
    BY Zenon
  <2> QED BY <1>2, GoodUse, Zenon
<1> HIDE DEF P
<1>5. \A w \in W : w \in Released(s) \/ Good(w, d)
  BY <1>3, <1>4, ReleasedUnprepared DEF Then, Failed
<1> HIDE DEF W
<1> QED BY <1>1, <1>5, DoReleased DEF d

\* Only a transaction of the statement's own is lost with it.
LEMMA GoodForgotten ==
  ASSUME NEW c, NEW w, Good(w, c), NEW s \in Stmt, c.busy = {s}, "closed" \in c.tags,
         "noTr" \in c.tags \/ Tx \subseteq c.orphans
  PROVE  Good(Forgotten(w, s), c)
<1>1. Good([w EXCEPT !.st[s].dropped = TRUE, !.ret = "ok"], c)
  <2>1. StAs([w.st[s] EXCEPT !.dropped = TRUE], c, w.tr[s].node)
    BY StmtOfGood, FlagsUse, SameUseAs
  <2>2. Good([w EXCEPT !.st[s].dropped = TRUE], c)
    BY <2>1, GoodStmt
  <2>3. [w EXCEPT !.st[s].dropped = TRUE, !.ret = "ok"]
          = [[w EXCEPT !.st[s].dropped = TRUE] EXCEPT !.ret = "ok"]
    BY DEF Good, World
  <2>4. QED
    BY <2>2, <2>3, GoodRet
<1>2. Good([w EXCEPT !.st[s] = FreshStmt, !.tr[s] = FreshTr, !.ret = "ok"], c)
  <2> DEFINE tr1 == [w.tr EXCEPT ![s] = FreshTr]
             st1 == [w.st EXCEPT ![s] = FreshStmt]
             v   == [w EXCEPT !.st = st1, !.tr = tr1, !.ret = "ok"]
  <2>1. FreshTr \in TrInfo /\ FreshTr.handle = None
    BY DEF FreshTr, TrInfo
  <2>2. /\ FreshStmt \in StInfo /\ FreshStmt.kind = None /\ FreshStmt.fb = None
        /\ FreshStmt.rs = "none" /\ ~FreshStmt.local /\ ~FreshStmt.toLocal
    BY DEF FreshStmt, StInfo, TypeStmt
  <2>3. /\ st1 \in [Stmt -> StInfo] /\ st1[s] = FreshStmt
        /\ \A p \in Stmt \ {s} : st1[p] = w.st[p]
    BY <2>2 DEF Good, World
  <2>4. /\ tr1 \in [Owner -> TrInfo] /\ tr1[s] = FreshTr
        /\ \A o \in Owner \ {s} : tr1[o] = w.tr[o]
    BY <2>1 DEF Good, World, Owner
  <2> HIDE DEF tr1, st1
  <2>5. /\ v \in World /\ v.tr = tr1 /\ v.st = st1
        /\ v.open = w.open /\ v.work = w.work
    BY <2>3, <2>4 DEF Good, World
  <2>6. [w EXCEPT !.st[s] = FreshStmt, !.tr[s] = FreshTr, !.ret = "ok"] = v
    BY DEF Good, World, tr1, st1
  <2> HIDE DEF v
  <2>7. HandlesIn(v)
    <3>1. \A o \in Owner : tr1[o].handle # None => o # s /\ tr1[o].handle = w.tr[o].handle
      BY <2>1, <2>4
    <3> QED BY <2>5, <3>1 DEF Good, HandlesIn
  <2>8. Orphans(v) \subseteq c.orphans
    <3>1. CASE Tx \subseteq c.orphans
      BY <2>5, <3>1 DEF Orphans, World
    <3>2. CASE "noTr" \in c.tags
      <4>1. w.tr[s].handle = None
        BY <3>2 DEF Good
      <4>2. \A o \in Owner : tr1[o].handle = w.tr[o].handle
        BY <2>1, <2>4, <4>1
      <4> QED BY <2>5, <4>2 DEF Good, Orphans
    <3> QED BY <3>1, <3>2
  <2>9. "manual" \in c.tags => ManualWork(v, c)
    BY <2>4, <2>5, ConstantsAssumption DEF Good, ManualWork, Owner
  <2>10. \A p \in Stmt : /\ LocalTpb(v.st[p], v.tr[p].node)
                         /\ v.st[p].kind = "select" => v.st[p].cursor
    BY <2>2, <2>3, <2>4, <2>5, NoneNotKind DEF Good, LocalTpb, Owner
  <2>11. \A p \in c.busy : AsTagged(v.st[p], c)
    BY <2>2, <2>3, <2>5, NoneNotKind DEF AsTagged
  <2>12. "noTr" \in c.tags => \A p \in c.busy : v.tr[p].handle = None
    BY <2>1, <2>4, <2>5
  <2>13. ASSUME Preserving, NEW p \in Stmt \ c.busy PROVE CursorAt(v, p)
    <3>1. CursorAt(w, p) /\ v.st[p] = w.st[p] /\ v.tr[p] = w.tr[p]
      BY <2>3, <2>4, <2>5, <2>13 DEF Good, Owner
    <3>2. v.tr[Conn] = w.tr[Conn]
      BY <2>4, <2>5, ConstantsAssumption DEF Owner
    <3> QED BY <3>1, <3>2 DEF CursorAt, TrOwner
  <2>14. Good(v, c)
    BY <2>5, <2>7, <2>8, <2>9, <2>10, <2>11, <2>12, <2>13 DEF Good
  <2> QED BY <2>6, <2>14
<1>3. QED
  BY <1>1, <1>2 DEF Forgotten

LEMMA DropStep ==
  ASSUME IInv, NEW s \in Stmt, DropStmt(s), NEW c, CallOf(c, {s}),
         "noTr" \in c.tags \/ Tx \subseteq c.orphans
  PROVE  Returned(c)
<1> DEFINE d == Tagged(c, "closed")
           R == ReleaseStatement(NotPrepared(Now, s), s)
           W == {Forgotten(v, s) : v \in R}
<1>1. /\ c.busy = {s} /\ d.busy = {s} /\ "closed" \in d.tags
      /\ "noTr" \in d.tags \/ Tx \subseteq d.orphans
  BY TaggedBusy DEF CallOf
<1>2. AllGood(R, d)
  BY <1>1, NowIsGood, GoodNotPrepared, GoodReleaseStatement
<1>3. Do(W)
  BY DEF DropStmt
<1> HIDE DEF d, R
<1>4. AllGood(W, d)
  BY <1>1, <1>2, GoodForgotten DEF AllGood
<1> HIDE DEF W
<1> QED BY <1>1, <1>3, <1>4, DoClosed DEF d

\* The calls of a statement other than SQLFreeStmt(SQL_DROP).
Used(s) ==
  \/ \E k \in Kinds : Prepare(s, k)
  \/ Execute(s)
  \/ FetchEof(s)
  \/ CloseCursor(s)
  \/ FreeStmtClose(s)
  \/ \E op \in {"commit", "rollback"} : EndSql(s, op)
  \/ \E n \in Nodes : SetLocal(s, n) \/ DeclareLocal(s, n)
  \/ \E n \in Nodes \cup {None} : UseConn(s, n)

LEMMA UsedStep ==
  ASSUME IInv, NEW s \in Stmt, Used(s), NEW c, CallOf(c, {s}), "noTr" \notin c.tags,
         "manual" \in c.tags => ~EndCall
  PROVE  Returned(c)
<1>1. ASSUME NEW op \in {"commit", "rollback"}, EndSql(s, op) PROVE Returned(c)
  BY <1>1, EndSqlStep DEF EndCall
<1> QED BY <1>1, PrepareStep, ExecuteStep, FetchEofStep, CloseStep, SetStep, UseStep DEF Used

LEMMA ConnStep ==
  ASSUME IInv, ConnCall, NEW c, CallOf(c, {}), "manual" \in c.tags => ~EndCall
  PROVE  Returned(c)
<1>1. Good(Now, c) /\ c.busy = {}
  BY NowIsGood DEF CallOf
<1>2. ASSUME NEW W, AllGood(W, c), Do(W) PROVE Returned(c)
  BY <1>1, <1>2, DoGood DEF AllGood
<1>3. CASE \E op \in {"commit", "rollback"} : EndTran(op)
  <2>1. PICK op \in {"commit", "rollback"} : EndTran(op)
    BY <1>3
  <2>2. "manual" \notin c.tags
    BY <2>1 DEF EndCall
  <2>3. AllGood(End(Now, op), c)
    BY <1>1, <2>2, GoodCommitAuto, GoodRollbackAuto DEF End
  <2> QED BY <1>2, <2>1, <2>3 DEF EndTran
<1>4. CASE \E b \in BOOLEAN : SetAutoCommit(b)
  <2>1. PICK b \in BOOLEAN : SetAutoCommit(b)
    BY <1>4
  <2> DEFINE W == IF ~tr[Conn].auto /\ b /\ tr[Conn].pending
                  THEN Escape(CommitAuto(Now)) ELSE {Now}
             V == Then(W, LAMBDA v : {[v EXCEPT !.tr[Conn].auto = b]})
  <2>2. "manual" \in c.tags => ~b
    BY <2>1 DEF EndCall
  <2>3. AllGood(W, c)
    BY <1>1, <2>2, GoodCommitAuto, GoodEscape DEF AllGood
  <2>4. \A v : Good(v, c) => Good([v EXCEPT !.tr[Conn].auto = b], c)
    BY <2>2, GoodAuto, NodeValues
  <2> HIDE DEF W
  <2>5. AllGood(V, c)
    BY <2>3, <2>4 DEF Then, Failed, AllGood
  <2>6. Do(V)
    BY <2>1 DEF SetAutoCommit, W
  <2> HIDE DEF V
  <2> QED BY <1>2, <2>5, <2>6
<1>5. CASE Disconnect
  <2>1. "manual" \notin c.tags
    BY <1>5 DEF EndCall
  <2>2. PICK w \in Commit(Now) : ret' = w.ret
    BY <1>5 DEF Disconnect
  <2>3. ret' \in {"ok", "error", "crash"}
    <3> DEFINE d == [orphans |-> Tx, work |-> None, busy |-> Stmt, tags |-> {}]
    <3>1. d.busy = Stmt /\ d.orphans = Tx /\ d.tags = {}
      OBVIOUS
    <3> HIDE DEF d
    <3>2. Orphans(Now) \subseteq Tx
      BY DEF IInv, TypeOK, Orphans, Now
    <3>3. CallOf(d, Stmt) /\ Free(Now, d, Conn)
      BY <3>1, <3>2 DEF CallOf, Free
    <3>4. AllGood(Commit(Now), d)
      BY <3>1, <3>3, NowIsGood, GoodCommit
    <3> QED BY <2>2, <3>4 DEF AllGood, Good, World
  <2>4. /\ tr' = [o \in Owner |-> FreshTr] /\ st' = [p \in Stmt |-> FreshStmt]
        /\ open' = {} /\ work' = {} /\ connected' = FALSE
    BY <1>5 DEF Disconnect
  <2>5. FreshTr \in TrInfo /\ FreshTr.handle = None
    BY DEF FreshTr, TrInfo
  <2>6. /\ FreshStmt \in StInfo /\ FreshStmt.kind = None /\ FreshStmt.rs = "none"
        /\ ~FreshStmt.local /\ ~FreshStmt.toLocal
    BY DEF FreshStmt, StInfo, TypeStmt
  <2>7. TypeOK' /\ HandlesOpen'
    BY <2>3, <2>4, <2>5, <2>6 DEF TypeOK, HandlesOpen
  <2>8. \A p \in Stmt : LocalTpb(st'[p], tr'[p].node) /\ (st'[p].kind = "select" => st'[p].cursor)
    BY <2>4, <2>6, NoneNotKind DEF LocalTpb
  <2>9. \A p \in Stmt : CursorAt(Now, p)'
    BY <2>4, <2>6 DEF CursorAt, Now
  <2> QED BY <2>1, <2>4, <2>7, <2>8, <2>9 DEF Returned, IInv
<1> QED BY <1>3, <1>4, <1>5 DEF ConnCall

-----------------------------------------------------------------------------
\* The invariant and what follows from it.

\* The invariant holds when the connection is made.
LEMMA InitGood ==
  ASSUME Init
  PROVE  IInv
<1>1. FreshTr \in TrInfo /\ FreshTr.handle = None
  BY DEF FreshTr, TrInfo
<1>2. /\ FreshStmt \in StInfo /\ FreshStmt.kind = None /\ FreshStmt.rs = "none"
      /\ ~FreshStmt.local /\ ~FreshStmt.toLocal
  BY DEF FreshStmt, StInfo, TypeStmt
<1>3. TypeOK /\ HandlesOpen
  BY <1>1, <1>2 DEF Init, TypeOK, HandlesOpen
<1>4. \A p \in Stmt : LocalTpb(st[p], tr[p].node) /\ (st[p].kind = "select" => st[p].cursor)
  BY <1>2, NoneNotKind DEF Init, LocalTpb
<1>5. \A p \in Stmt : CursorAt(Now, p)
  BY <1>2 DEF Init, CursorAt, Now
<1> QED BY <1>3, <1>4, <1>5 DEF IInv

\* A statement is used or dropped.
LEMMA Calls ==
  ASSUME NEW s \in Stmt, StmtCall(s)
  PROVE  Used(s) \/ DropStmt(s)
BY DEF StmtCall, Used

\* The invariant when nothing happens.
LEMMA Stutter ==
  ASSUME IInv, UNCHANGED vars
  PROVE  IInv'
BY DEF IInv, vars, TypeOK, HandlesOpen, LocalTpb, CursorAt, Now, TrOwner,
       IsActiveCursor, IsActiveSelect

\* A call about which nothing more is asked.
LEMMA PlainCall ==
  ASSUME IInv, NEW B \in SUBSET Stmt
  PROVE  \E c : CallOf(c, B) /\ Tx \subseteq c.orphans /\ c.tags = {}
<1> DEFINE c == [orphans |-> Tx, work |-> None, busy |-> B, tags |-> {}]
<1>1. c.orphans = Tx /\ c.busy = B /\ c.tags = {}
  OBVIOUS
<1> HIDE DEF c
<1>2. Orphans(Now) \subseteq Tx
  BY DEF IInv, TypeOK, Orphans, Now
<1> QED BY <1>1, <1>2 DEF CallOf

\* The invariant is kept by every call.
LEMMA NextGood ==
  ASSUME IInv, [Next]_vars
  PROVE  IInv'
<1>1. CASE ConnCall
  <2>1. PICK c : CallOf(c, {}) /\ c.tags = {}
    BY PlainCall
  <2> QED BY <1>1, <2>1, ConnStep DEF Returned
<1>2. ASSUME NEW s \in Stmt, StmtCall(s) PROVE IInv'
  <2>1. PICK c : CallOf(c, {s}) /\ Tx \subseteq c.orphans /\ c.tags = {}
    BY PlainCall
  <2>2. Used(s) \/ DropStmt(s)
    BY <1>2, Calls
  <2> QED BY <2>1, <2>2, UsedStep, DropStep DEF Returned
<1>3. CASE UNCHANGED vars
  BY <1>3, Stutter
<1> QED BY <1>1, <1>2, <1>3 DEF Next

\* The inductive invariant holds in every reachable state.
THEOREM Invariance == Spec => []IInv
<1>1. Init => IInv
  BY InitGood
<1>2. IInv /\ [Next]_vars => IInv'
  BY NextGood
<1> QED BY <1>1, <1>2, PTL DEF Spec

\* Every object keeps the fields and values of its C++ class, whichever
\* requests the server refuses.
THEOREM TypeCorrect == Spec => []TypeOK
<1>1. IInv => TypeOK
  BY DEF IInv
<1> QED BY <1>1, Invariance, PTL

\* No commit or rollback, refused or not, leaves a handle behind that the
\* server does not know or that two objects share.
THEOREM HandlesAlwaysOpen == Spec => []HandlesOpen
<1>1. IInv => HandlesOpen
  BY DEF IInv
<1> QED BY <1>1, Invariance, PTL

\* No call, on this or another statement, ends the transaction under a cursor
\* that can be fetched from, unless the server refuses a retaining rollback:
\* the code then rolls the transaction back whatever its cursors.
THEOREM CursorsKeepTransaction ==
  ASSUME "rollbackRetaining" \notin Faults
  PROVE  Spec => []CursorTxOpen
<1>1. ASSUME IInv PROVE CursorTxOpen
  <2> SUFFICES ASSUME NEW s \in Stmt, Fetchable(s) PROVE st[s].fb \in open
    BY DEF CursorTxOpen
  <2>1. CursorAt(Now, s)
    BY <1>1 DEF IInv, Preserving
  <2>2. st[s].fb = tr[TrOwner(Now, s)].handle /\ st[s].fb # None
    BY <2>1 DEF CursorAt, Fetchable, Now
  <2>3. TrOwner(Now, s) \in Owner
    BY DEF TrOwner, Owner
  <2> QED BY <1>1, <2>2, <2>3 DEF IInv, HandlesOpen
<1>2. IInv => CursorTxOpen
  BY <1>1
<1> QED BY <1>2, Invariance, PTL

OrphansKept ==
  (open' \ Handles') \subseteq (open \ Handles)
    \/ \E s \in Stmt : tr[s].handle # None /\ DropStmt(s)

\* One step of NothingOrphaned.
LEMMA OrphansStep ==
  ASSUME IInv, [Next]_vars
  PROVE  [OrphansKept]_vars
<1>1. Orphans(Now) = open \ Handles
  BY DEF Orphans, Now, Handles
<1>2. ASSUME NEW B, NEW t \in SUBSET {"noTr"},
             t # {} => \A p \in B : tr[p].handle = None
      PROVE  \E c : CallOf(c, B) /\ c.tags = t /\ c.orphans = open \ Handles
  <2> DEFINE c == [orphans |-> open \ Handles, work |-> None, busy |-> B, tags |-> t]
  <2>1. c.orphans = open \ Handles /\ c.busy = B /\ c.tags = t
    OBVIOUS
  <2> HIDE DEF c
  <2> QED BY <1>1, <1>2, <2>1 DEF CallOf
<1>3. CASE ConnCall
  <2>1. PICK c : CallOf(c, {}) /\ c.tags = {} /\ c.orphans = open \ Handles
    BY <1>2
  <2> QED BY <1>3, <2>1, ConnStep DEF Returned, OrphansKept
<1>4. ASSUME NEW s \in Stmt, StmtCall(s) PROVE OrphansKept
  <2>1. CASE Used(s)
    <3>1. PICK c : CallOf(c, {s}) /\ c.tags = {} /\ c.orphans = open \ Handles
      BY <1>2
    <3> QED BY <2>1, <3>1, UsedStep DEF Returned, OrphansKept
  <2>2. CASE DropStmt(s) /\ tr[s].handle = None
    <3>1. PICK c : CallOf(c, {s}) /\ c.tags = {"noTr"} /\ c.orphans = open \ Handles
      BY <1>2, <2>2
    <3> QED BY <2>2, <3>1, DropStep DEF Returned, OrphansKept
  <2>3. CASE DropStmt(s) /\ tr[s].handle # None
    BY <2>3 DEF OrphansKept
  <2> QED BY <1>4, <2>1, <2>2, <2>3, Calls
<1> QED BY <1>3, <1>4 DEF Next

\* No call loses track of a transaction that is active at the server, but for
\* dropping a statement that has a transaction of its own.
THEOREM NothingLost == Spec => NothingOrphaned
<1>1. IInv /\ [Next]_vars => [OrphansKept]_vars
  BY OrphansStep
<1>2. Spec => [][OrphansKept]_vars
  BY <1>1, Invariance, PTL DEF Spec
<1> QED BY <1>2 DEF NothingOrphaned, OrphansKept

WorkStays ==
  (~tr[Conn].auto /\ tr[Conn].handle \in work)
     => (tr[Conn].handle \in work' \/ EndCall)

\* One step of ManualWorkKept.
LEMMA WorkStep ==
  ASSUME IInv, [Next]_vars
  PROVE  [WorkStays]_vars
<1> SUFFICES ASSUME Next, ~tr[Conn].auto, tr[Conn].handle \in work, ~EndCall
             PROVE  tr[Conn].handle \in work'
  BY DEF WorkStays
<1>1. ASSUME NEW B
      PROVE  \E c : /\ CallOf(c, B) /\ c.tags = {"manual"}
                    /\ Tx \subseteq c.orphans /\ c.work = tr[Conn].handle
  <2> DEFINE c == [orphans |-> Tx, work |-> tr[Conn].handle, busy |-> B,
                   tags |-> {"manual"}]
  <2>1. /\ c.orphans = Tx /\ c.busy = B /\ c.tags = {"manual"}
        /\ c.work = tr[Conn].handle
    OBVIOUS
  <2> HIDE DEF c
  <2>2. Orphans(Now) \subseteq Tx
    BY DEF IInv, TypeOK, Orphans, Now
  <2>3. ManualWork(Now, c)
    BY <2>1 DEF ManualWork, Now
  <2> QED BY <2>1, <2>2, <2>3 DEF CallOf
<1>2. CASE ConnCall
  <2>1. PICK c : /\ CallOf(c, {}) /\ c.tags = {"manual"}
                 /\ Tx \subseteq c.orphans /\ c.work = tr[Conn].handle
    BY <1>1
  <2> QED BY <1>2, <2>1, ConnStep DEF Returned
<1>3. ASSUME NEW s \in Stmt, StmtCall(s) PROVE tr[Conn].handle \in work'
  <2>1. PICK c : /\ CallOf(c, {s}) /\ c.tags = {"manual"}
                 /\ Tx \subseteq c.orphans /\ c.work = tr[Conn].handle
    BY <1>1
  <2>2. Used(s) \/ DropStmt(s)
    BY <1>3, Calls
  <2> QED BY <2>1, <2>2, UsedStep, DropStep DEF Returned
<1> QED BY <1>2, <1>3 DEF Next

\* In manual-commit mode the work of the connection's transaction ends only
\* when the application ends it, whatever else fails meanwhile.
THEOREM WorkKept == Spec => ManualWorkKept
<1>1. IInv /\ [Next]_vars => [WorkStays]_vars
  BY WorkStep
<1>2. Spec => [][WorkStays]_vars
  BY <1>1, Invariance, PTL DEF Spec
<1> QED BY <1>2 DEF ManualWorkKept, WorkStays

CommittedThen ==
  \A s \in Stmt :
       (Execute(s) /\ ret' = "ok" /\ st[s].kind \in {"dml", "ddl"}
          /\ tr'[TrOwner([tr |-> tr', st |-> st'], s)].auto)
       => tr'[TrOwner([tr |-> tr', st |-> st'], s)].handle \notin work'

\* One step of AutoCommitEnds.
LEMMA CommittedStep ==
  ASSUME IInv, [Next]_vars
  PROVE  [CommittedThen]_vars
<1> SUFFICES ASSUME NEW s \in Stmt, Execute(s), ret' = "ok",
                    st[s].kind \in {"dml", "ddl"},
                    tr'[TrOwner([tr |-> tr', st |-> st'], s)].auto
             PROVE  tr'[TrOwner([tr |-> tr', st |-> st'], s)].handle \notin work'
  BY DEF CommittedThen
<1>1. PICK c : CallOf(c, {s}) /\ c.tags = {}
  BY PlainCall
<1> QED BY <1>1, ExecuteStep

\* A statement that changed data or metadata and succeeded in autocommit mode
\* is committed when SQLExecute returns, in the connection's transaction or in
\* one of the statement's own.
THEOREM AutoCommitEndsWork == Spec => AutoCommitEnds
<1>1. IInv /\ [Next]_vars => [CommittedThen]_vars
  BY CommittedStep
<1>2. Spec => [][CommittedThen]_vars
  BY <1>1, Invariance, PTL DEF Spec
<1> QED BY <1>2 DEF AutoCommitEnds, CommittedThen
====
