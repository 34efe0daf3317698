---------------------------- MODULE Descriptors ----------------------------
(* The descriptors of a connection and the lists its statements move data    *)
(* with (OdbcDesc.cpp, DescRecord.cpp, the binding calls of                  *)
(* OdbcStatement.cpp).  A statement does not move data through the           *)
(* descriptors it is attached to.  It keeps a list of pairs of records, one  *)
(* of the driver and one of the application, and every record remembers      *)
(* whether it has been put in a list.  An explicit descriptor may serve      *)
(* several statements, which then share that one mark.                       *)
EXTENDS Naturals, FiniteSets, Sequences

CONSTANTS Stmts,        \* statement handles, each allocated once
          Explicit,     \* descriptors of SQLAllocHandle(SQL_HANDLE_DESC)
          SqlTypes,     \* the SQL types of columns and parameters
          Shapes,       \* what a text may prepare to: the SQL types of its
                        \* result columns and of its parameters
          CatalogShape, \* the columns of a catalog call's result
          CTypes,       \* the C types an application binds
          MaxCol,       \* bound: records of a descriptor
          MaxDirect,    \* bound: calls on a descriptor or a handle in a behaviour
          Touched,      \* the sides of the statements an application binds
          NoShape, NoStmt

Sides == {"row", "param"}
Cols == 1 .. MaxCol
AppDescs == (Stmts \X Sides) \cup Explicit

AllShapes == Shapes \cup {CatalogShape}

ASSUME DescriptorsAssumption ==
  /\ MaxCol \in Nat /\ MaxDirect \in Nat
  /\ NoShape \notin AllShapes /\ CatalogShape \notin Shapes
  /\ AllShapes \subseteq [row : Seq(SqlTypes), param : Seq(SqlTypes)]
  /\ \A shape \in AllShapes, x \in Sides : Len(shape[x]) <= MaxCol
  /\ "unknown" \notin SqlTypes
  /\ Touched \subseteq Stmts \X Sides
  /\ NoStmt \notin Stmts

VARIABLES app,    \* the application's descriptors
          st,     \* the statements, with their implementation descriptors
          moved,  \* what the last call moved between driver and application
          direct  \* calls counted against MaxDirect

vars == <<app, st, moved, direct>>
Now == [app |-> app, st |-> st]

Nothing == [stmt |-> NoStmt, side |-> "row", items |-> {}]
NoConv == <<>>

(* The C type SQL_C_DEFAULT stands for. *)
DefaultType(sql) == IF sql = "INTEGER" THEN "long" ELSE "char"

FreshRecord == [defined |-> FALSE, prepared |-> FALSE, type |-> "default",
                conv |-> NoConv]
FreshImp == [sql |-> "unknown", conv |-> NoConv]
FreshApp == [live |-> TRUE, count |-> 0, rec |-> [c \in Cols |-> FreshRecord]]
FreshImpDesc(defined) ==
  [defined |-> defined, count |-> 0, rec |-> [c \in Cols |-> FreshImp]]

AllocStatement(s) ==
  [live |-> TRUE, prep |-> NoShape, open |-> NoShape, numberColumns |-> 0,
   fetching |-> FALSE, cur |-> [row |-> <<s, "row">>, param |-> <<s, "param">>],
   ird |-> FreshImpDesc(FALSE), ipd |-> FreshImpDesc(TRUE),
   bind |-> [row |-> {}, param |-> {}],
   clean |-> [row |-> TRUE, param |-> TRUE]]

Larger(a, b) == IF a > b THEN a ELSE b

(* getStatementMetaDataIRD: the open result's columns, else the prepared     *)
(* statement's; a released statement has none.                               *)
Columns(w, s) ==
  IF w.st[s].open # NoShape THEN w.st[s].open.row
  ELSE IF w.st[s].prep # NoShape THEN w.st[s].prep.row ELSE <<>>
Parameters(w, s) == IF w.st[s].prep # NoShape THEN w.st[s].prep.param ELSE <<>>
MetaData(w, s, side) ==
  IF side = "row" THEN Columns(w, s) ELSE Parameters(w, s)

-----------------------------------------------------------------------------
(* clean[s][side] remembers, for the properties, that since the statement    *)
(* was prepared nothing outside its own calls has touched the descriptor it  *)
(* is attached to or the records in its list.                                *)

UsesDesc(w, d) ==
  {z \in Stmts \X Sides : \/ w.st[z[1]].cur[z[2]] = d
                          \/ \E e \in w.st[z[1]].bind[z[2]] : e.app = d}

Spoil(w, Z) ==
  LET Keeps(t, x) == w.st[t].clean[x] /\ <<t, x>> \notin Z
  IN [w EXCEPT !.st = [t \in Stmts |->
        [w.st[t] EXCEPT !.clean = [row |-> Keeps(t, "row"),
                                   param |-> Keeps(t, "param")]]]]

SpoilOthers(w, s, side, d) == Spoil(w, UsesDesc(w, d) \ {<<s, side>>})

-----------------------------------------------------------------------------
(* Operations of OdbcDesc.                                                   *)

SetStmt(w, s, r) == [w EXCEPT !.st[s] = r]
SetRecord(w, d, c, r) == [w EXCEPT !.app[d].rec[c] = r]

(* Deleting the records of d leaves every list that names them with dangling *)
(* pointers.                                                                 *)
RemoveRecords(w, d) ==
  LET Lost(B) == {[e EXCEPT !.dead = e.dead \/ e.app = d] : e \in B}
  IN [app |-> [w.app EXCEPT ![d] = [FreshApp EXCEPT !.live = w.app[d].live]],
      st |-> [t \in Stmts |-> [w.st[t] EXCEPT
                !.bind = [row |-> Lost(w.st[t].bind.row),
                          param |-> Lost(w.st[t].bind.param)]]]]

(* getDescRecord: the record exists, the descriptor counts up to it, and     *)
(* records a lower count had hidden are seen again.                          *)
GetDescRecord(w, d, c) ==
  LET shown == {k \in Cols : /\ w.app[d].count < k /\ k <= c
                             /\ w.app[d].rec[k].defined}
      v == IF shown = {} THEN w ELSE Spoil(w, UsesDesc(w, d))
  IN [v EXCEPT !.app[d].count = Larger(@, c)]

Unprepared(rec) == [c \in Cols |-> [rec[c] EXCEPT !.prepared = FALSE]]
ClearPrepared(w, d) ==
  LET r == w.app[d]
  IN [w EXCEPT !.app[d] = [r EXCEPT !.rec = Unprepared(r.rec)]]

ClearDefined(imp) ==
  [imp EXCEPT !.defined = FALSE,
              !.rec = [c \in Cols |-> [imp.rec[c] EXCEPT !.sql = "unknown"]]]

SqlType(meta, c) == IF c \in DOMAIN meta THEN meta[c] ELSE "beyond"

(* defFromMetaDataIn and defFromMetaDataOut, for all records or for those    *)
(* not defined yet.                                                          *)
Define(imp, meta, all) ==
  [imp EXCEPT !.rec = [c \in Cols |->
     IF c \in DOMAIN meta /\ (all \/ imp.rec[c].sql = "unknown")
     THEN [imp.rec[c] EXCEPT !.sql = meta[c]] ELSE imp.rec[c]]]

UpdateDefinedOut(w, s) ==
  LET r == w.st[s]
      ird == Define(r.ird, Columns(w, s), FALSE)
  IN SetStmt(w, s, [r EXCEPT !.ird = [ird EXCEPT !.defined = TRUE]])
BugUpdateDefinedIn(w, s) == w
UpdateDefinedIn(w, s) ==
  LET r == w.st[s]
  IN SetStmt(w, s, [r EXCEPT !.ipd = Define(r.ipd, Parameters(w, s), TRUE)])

(* setDefaultImplDesc: the row descriptor starts again from the new columns, *)
(* the parameter descriptor only changes its count.                          *)
SetDefaultIrd(w, s) ==
  LET r == w.st[s]
      n == Len(Columns(w, s))
      lost == {[e EXCEPT !.dead = TRUE] : e \in r.bind.row}
  IN SetStmt(w, s, [r EXCEPT
       !.ird = [FreshImpDesc(n > 0) EXCEPT !.count = n],
       !.bind = [row |-> lost, param |-> r.bind.param]])
SetDefaultIpd(w, s) ==
  LET r == w.st[s]
  IN SetStmt(w, s, [r EXCEPT
       !.ipd = [r.ipd EXCEPT !.count = Len(Parameters(w, s))]])

-----------------------------------------------------------------------------
(* Putting pairs of records in a list.                                       *)

AddBind(B, C, d) ==
  {e \in B : e.col \notin C} \cup {[col |-> c, app |-> d, dead |-> FALSE] : c \in C}

Known(imp, meta, c) == IF imp.sql = "unknown" THEN SqlType(meta, c) ELSE imp.sql
Chosen(rec, sql) == IF rec.type = "default" THEN DefaultType(sql) ELSE rec.type

(* bindOutputColumn, for each of the columns C the driver counts: the        *)
(* conversion is chosen now, from the two types of now.  A default type is   *)
(* replaced in the application's record for good.                            *)
BindOutputColumns(w, s, C) ==
  LET r == w.st[s]
      d == r.cur.row
      rec == w.app[d].rec
      Sql(c) == Known(r.ird.rec[c], Columns(w, s), c)
      Type(c) == Chosen(rec[c], Sql(c))
      v == SetStmt(w, s, [r EXCEPT
             !.ird = [@ EXCEPT !.rec = [c \in Cols |->
                IF c \in C THEN [sql |-> Sql(c), conv |-> <<Sql(c), Type(c)>>]
                ELSE r.ird.rec[c]]],
             !.bind = [row |-> AddBind(r.bind.row, C, d),
                       param |-> r.bind.param]])
      u == [v EXCEPT !.app[d] = [@ EXCEPT !.rec = [c \in Cols |->
             IF c \in C THEN [rec[c] EXCEPT !.type = Type(c), !.prepared = TRUE]
             ELSE rec[c]]]]
  IN IF C = {} THEN w ELSE SpoilOthers(u, s, "row", d)

(* bindInputOutputParam, for each of the parameters P, which go to the       *)
(* server.                                                                   *)
BindInputParams(w, s, P) ==
  LET r == w.st[s]
      d == r.cur.param
      rec == w.app[d].rec
      Sql(p) == Known(r.ipd.rec[p], Parameters(w, s), p)
      Type(p) == Chosen(rec[p], Sql(p))
      v == SetStmt(w, s, [r EXCEPT
             !.ipd = [@ EXCEPT !.rec = [p \in Cols |->
                IF p \in P THEN [r.ipd.rec[p] EXCEPT !.sql = Sql(p)]
                ELSE r.ipd.rec[p]]],
             !.bind = [row |-> r.bind.row,
                       param |-> AddBind(r.bind.param, P, d)]])
      u == [v EXCEPT !.app[d] = [@ EXCEPT !.rec = [p \in Cols |->
             IF p \in P THEN [rec[p] EXCEPT !.type = Type(p), !.prepared = TRUE,
                                            !.conv = <<Sql(p), Type(p)>>]
             ELSE rec[p]]]]
  IN IF P = {} THEN w ELSE SpoilOthers(u, s, "param", d)

Waits(w, d, c) == w.app[d].rec[c].defined /\ ~w.app[d].rec[c].prepared

(* rebindColumn: records up to both counts that wait to be put in the list.  *)
(* Each turn of the loop looks at and changes the records of one column.     *)
RebindColumn(w, s) ==
  LET d == w.st[s].cur.row
  IN BindOutputColumns(w, s,
       {c \in Cols : /\ c <= w.st[s].ird.count /\ c <= w.app[d].count
                     /\ Waits(w, d, c)})

RebindParam(w, s) ==
  LET d == w.st[s].cur.param
  IN BindInputParams(w, s,
       {p \in Cols \cap DOMAIN Parameters(w, s) :
          p <= w.app[d].count /\ Waits(w, d, p)})

-----------------------------------------------------------------------------
(* Results.                                                                  *)

ReleaseResultSet(w, s) ==
  IF w.st[s].open = NoShape THEN w
  ELSE LET r == w.st[s]
       IN SetStmt(w, s, [r EXCEPT !.open = NoShape,
                                  !.ird = ClearDefined(r.ird),
                                  !.ipd = ClearDefined(r.ipd)])

ReleaseStatement(w, s) ==
  LET v == ReleaseResultSet(w, s)
  IN SetStmt(v, s, [v.st[s] EXCEPT !.prep = NoShape, !.numberColumns = 0])

RemoveAll(w, s, side) ==
  SetStmt(w, s, [w.st[s] EXCEPT !.bind = [@ EXCEPT ![side] = {}]])
SetFetching(w, s, on) == SetStmt(w, s, [w.st[s] EXCEPT !.fetching = on])

(* What sqlPrepare and a catalog call do alike once the columns are known.   *)
NewColumns(w, s) ==
  LET v == SetDefaultIrd(RemoveAll(w, s, "row"), s)
  IN RebindColumn(ClearPrepared(v, v.st[s].cur.row), s)

(* setResultSet: a catalog call has released the statement before, so its    *)
(* result is the only source of columns.                                     *)
SetResultSet(w, s, shape) ==
  LET v == SetStmt(w, s, [w.st[s] EXCEPT !.open = shape])
      u == IF v.st[s].prep = NoShape THEN NewColumns(v, s)
           ELSE UpdateDefinedOut(v, s)
  IN SetStmt(u, s, [u.st[s] EXCEPT !.numberColumns = Len(shape.row),
                                   !.fetching = FALSE])

-----------------------------------------------------------------------------
(* Calls.                                                                    *)

Becomes(w) == app' = w.app /\ st' = w.st /\ moved' = Nothing

(* The application's part: it does not use a handle it has freed, and does   *)
(* not free what a statement is attached to.  A statement whose list names a *)
(* deleted record is not used until it is prepared again: what the driver    *)
(* does then is undefined.                                                   *)
Usable(s) == st[s].live /\ \A x \in Sides : app[st[s].cur[x]].live
NoDead(s, side) == \A e \in st[s].bind[side] : ~e.dead

(* A descriptor a dropped statement left behind keeps its memory. *)
Allocate(s) ==
  /\ ~st[s].live /\ \A x \in Sides : ~app[<<s, x>>].live
  /\ Becomes(SetStmt([Now EXCEPT !.app[<<s, "row">>] = FreshApp,
                                 !.app[<<s, "param">>] = FreshApp],
                     s, AllocStatement(s)))

(* SQLAllocHandle(SQL_HANDLE_DESC). *)
AllocDesc(d) ==
  /\ ~app[d].live
  /\ Becomes([Now EXCEPT !.app[d] = FreshApp])

Delete(w, d) ==
  LET v == RemoveRecords(w, d)
  IN [v EXCEPT !.app[d] = [FreshApp EXCEPT !.live = FALSE]]

(* SQLFreeHandle(SQL_HANDLE_DESC). *)
FreeDesc(d) ==
  /\ app[d].live
  /\ \A s \in Stmts, x \in Sides : st[s].live => st[s].cur[x] # d
  /\ Becomes(Delete(Spoil(Now, UsesDesc(Now, d)), d))

(* SQLSetStmtAttr(SQL_ATTR_APP_ROW_DESC, SQL_ATTR_APP_PARAM_DESC): NULL, or  *)
(* a descriptor of a statement, brings the statement's own one back and is   *)
(* refused all the same.                                                     *)
SetAppDesc(s, side, d) ==
  /\ Usable(s) /\ app[d].live
  /\ d # st[s].cur[side]
  /\ LET late == \/ st[s].bind[side] # {}
                 \/ st[s].fetching
                 \/ \E c \in Cols : app[d].rec[c].prepared
         v == Spoil(Now, IF late THEN {<<s, side>>} ELSE {})
     IN Becomes(SetStmt(v, s, [v.st[s] EXCEPT
                                 !.cur = [@ EXCEPT ![side] = d]]))

Asked(rec, type) ==
  [rec EXCEPT !.type = type, !.defined = TRUE, !.prepared = FALSE]

BindCol(s, c, type) ==
  /\ Usable(s) /\ <<s, "row">> \in Touched
  /\ LET d == st[s].cur.row
         w == GetDescRecord(SpoilOthers(Now, s, "row", d), d, c)
         v == SetRecord(w, d, c, Asked(w.app[d].rec[c], type))
     IN Becomes(IF st[s].ird.defined /\ c <= st[s].ird.count
                THEN BindOutputColumns(v, s, {c}) ELSE v)

BindParameter(s, p, type) ==
  /\ Usable(s) /\ <<s, "param">> \in Touched
  /\ LET d == st[s].cur.param
         w == GetDescRecord(SpoilOthers(Now, s, "param", d), d, p)
         v == SetRecord(w, d, p, Asked(w.app[d].rec[p], type))
         imp == [st[s].ipd.rec[p] EXCEPT !.sql = "unknown"]
     IN Becomes(SetStmt(v, s, [v.st[s] EXCEPT
          !.ipd.defined = FALSE, !.ipd.count = Larger(@, p),
          !.ipd.rec[p] = imp]))

(* SQLSetDescField on an application's descriptor.  A buffer makes the       *)
(* record wait to be bound, a type does not; a count only hides records.     *)
Reachable(d) == app[d].live /\ (d \in Explicit \/ d \in Touched)

SetDataPtr(w, d, c) ==
  SetRecord(w, d, c, [w.app[d].rec[c] EXCEPT !.defined = TRUE,
                                             !.prepared = FALSE])

SetDescFieldDataPtr(d, c) ==
  /\ Reachable(d)
  /\ LET late == {z \in UsesDesc(Now, d) :
                    z[2] = "row" /\ st[z[1]].fetching}
     IN Becomes(SetDataPtr(GetDescRecord(Spoil(Now, late), d, c), d, c))

SetDescFieldType(d, c, type) ==
  /\ Reachable(d)
  /\ LET late == {z \in UsesDesc(Now, d) :
                    \/ app[d].rec[c].prepared
                    \/ z[2] = "row" /\ st[z[1]].fetching}
         v == GetDescRecord(Spoil(Now, late), d, c)
     IN Becomes(SetRecord(v, d, c, [v.app[d].rec[c] EXCEPT !.type = type]))

SetDescFieldCount(d, n) ==
  /\ Reachable(d)
  /\ LET v == Spoil(Now, UsesDesc(Now, d))
     IN Becomes([v EXCEPT !.app[d] = [@ EXCEPT !.count = n]])

(* A field of the row implementation descriptor is refused, after the record *)
(* was made and counted.                                                     *)
SetDescFieldIrd(s, n) ==
  /\ Usable(s) /\ n > st[s].ird.count
  /\ LET v == Spoil(Now, {<<s, "row">>})
     IN Becomes(SetStmt(v, s, [v.st[s] EXCEPT
                                 !.ird = [@ EXCEPT !.count = n]]))

(* SQLCopyDesc between application's descriptors. *)
CopyDesc(from, to) ==
  /\ Reachable(from) /\ Reachable(to)
  /\ LET v == RemoveRecords(Spoil(Now, UsesDesc(Now, to)), to)
         source == v.app[from]
         Copied(c) == [FreshRecord EXCEPT !.type = source.rec[c].type,
                                          !.defined = TRUE]
     IN Becomes([v EXCEPT !.app[to] =
          [live |-> TRUE, count |-> source.count,
           rec |-> [c \in Cols |-> IF c <= source.count THEN Copied(c)
                                   ELSE FreshRecord]]])

Prepare(s, shape) ==
  /\ Usable(s)
  /\ LET released == ReleaseStatement(Now, s)
         p == RemoveAll(SetStmt(released, s, [released.st[s] EXCEPT
                !.prep = shape,
                !.clean = [row |-> TRUE, param |-> TRUE]]), s, "param")
         rows == NewColumns(p, s)
         pars == ClearPrepared(UpdateDefinedIn(SetDefaultIpd(rows, s), s),
                               st[s].cur.param)
         done == RebindParam(pars, s)
     IN \/ Becomes(released)        \* the server refuses the text
        \/ Becomes(SetStmt(done, s, [done.st[s] EXCEPT
                                       !.numberColumns = Len(shape.row)]))

(* SQLTables and the other catalog calls. *)
CatalogCall(s) ==
  /\ Usable(s)
  /\ LET v == ReleaseStatement(Now, s)
     IN \/ Becomes(v)
        \/ Becomes(SetResultSet(
             SetStmt(v, s, [v.st[s] EXCEPT !.clean = [@ EXCEPT !.row = TRUE]]),
             s, CatalogShape))

(* What the list moves: for a column the driver's record names the           *)
(* conversion, for a parameter the application's record does.                *)
Items(w, s, side) ==
  {[col |-> e.col, app |-> e.app, dead |-> e.dead,
    conv |-> IF side = "row" THEN w.st[s].ird.rec[e.col].conv
             ELSE w.app[e.app].rec[e.col].conv] : e \in w.st[s].bind[side]}

(* SQLExecute: inputParam binds what waits, checks that no parameter is      *)
(* missing and sends them all.                                               *)
InputParam(w, s) ==
  IF Parameters(w, s) = <<>> THEN w
  ELSE RebindParam(SetStmt(w, s, [w.st[s] EXCEPT
                     !.ipd = [@ EXCEPT !.defined = TRUE]]), s)

Execute(s) ==
  /\ Usable(s) /\ NoDead(s, "param") /\ st[s].prep # NoShape
  /\ LET v == SetFetching(ReleaseResultSet(Now, s), s, FALSE)
         w == InputParam(v, s)
         sent == Cardinality(w.st[s].bind.param) >= Len(Parameters(w, s))
         done == IF Columns(w, s) = <<>> THEN w
                 ELSE SetResultSet(w, s, w.st[s].prep)
     IN IF ~sent THEN Becomes(w)
        ELSE /\ \E u \in {w, done} : app' = u.app /\ st' = u.st
             /\ moved' = [stmt |-> s, side |-> "param",
                          items |-> Items(w, s, "param")]

(* SQLFetch: the first fetch of a result binds what waits (sqlFetch, line   *)
(* 879).  SQLFetchScroll and SQLExtendedFetch, which do not look at the     *)
(* records again, are not in this model.                                   *)
BugFirstFetch(w, s) == SetFetching(w, s, TRUE)
FirstFetch(w, s) == RebindColumn(SetFetching(w, s, TRUE), s)

Fetch(s) ==
  /\ Usable(s) /\ NoDead(s, "row") /\ st[s].open # NoShape
  /\ LET w == IF st[s].fetching THEN Now ELSE FirstFetch(Now, s)
     IN /\ app' = w.app /\ st' = w.st
        /\ moved' = [stmt |-> s, side |-> "row", items |-> Items(w, s, "row")]

UnprepareIpd(w, s) ==
  LET r == w.st[s]
  IN SetStmt(w, s, [r EXCEPT !.ipd = [r.ipd EXCEPT !.defined = FALSE]])

(* SQLFreeStmt(SQL_CLOSE); SQLCloseCursor leaves the parameters alone. *)
Close(s) ==
  /\ Usable(s)
  /\ LET v == ReleaseResultSet(Now, s)
         unprepared == UnprepareIpd(v, s)
     IN \/ Becomes(v)
        \/ Becomes(ClearPrepared(unprepared, st[s].cur.param))

(* SQLFreeStmt(SQL_UNBIND). *)
ReleaseBindings(w, s) ==
  LET d == w.st[s].cur.row
      v == RemoveRecords(SpoilOthers(w, s, "row", d), d)
  IN SetFetching(RemoveAll(v, s, "row"), s, FALSE)

(* SQLFreeStmt(SQL_RESET_PARAMS). *)
ReleaseParameters(w, s) ==
  LET d == w.st[s].cur.param
      v == RemoveRecords(SpoilOthers(w, s, "param", d), d)
  IN UnprepareIpd(RemoveAll(v, s, "param"), s)

Unbind(s) == Usable(s) /\ Becomes(ReleaseBindings(Now, s))
ResetParams(s) == Usable(s) /\ Becomes(ReleaseParameters(Now, s))

(* Dropping a statement deletes the descriptors it is attached to: its own,  *)
(* or an explicit one, while its own ones stay in the connection's list.     *)
Drop(s) ==
  /\ Usable(s)
  /\ st[s].cur.row # st[s].cur.param
  /\ \A t \in Stmts \ {s}, x \in Sides :
       st[t].live => st[t].cur[x] \notin {st[s].cur[y] : y \in Sides}
  /\ LET v == ReleaseStatement(
                ReleaseParameters(ReleaseBindings(Now, s), s), s)
         r == [AllocStatement(s) EXCEPT !.live = FALSE]
     IN Becomes(SetStmt(Delete(Delete(v, st[s].cur.row), st[s].cur.param),
                        s, r))

-----------------------------------------------------------------------------

(* The application has allocated its handles. *)
Init ==
  /\ app = [d \in AppDescs |-> FreshApp]
  /\ st = [s \in Stmts |-> AllocStatement(s)]
  /\ moved = Nothing
  /\ direct = 0

StatementCall(s) ==
  \/ \E c \in Cols, t \in CTypes : BindCol(s, c, t) \/ BindParameter(s, c, t)
  \/ \E shape \in Shapes : Prepare(s, shape)
  \/ CatalogCall(s)
  \/ Execute(s)
  \/ Fetch(s)
  \/ Close(s)
  \/ Unbind(s)
  \/ ResetParams(s)

DirectCall ==
  \/ \E s \in Stmts : Allocate(s) \/ Drop(s)
  \/ \E s \in Stmts, n \in Cols : SetDescFieldIrd(s, n)
  \/ \E s \in Stmts, x \in Sides :
       \E d \in Explicit \cup {<<s, x>>} : SetAppDesc(s, x, d)
  \/ \E d \in Explicit : AllocDesc(d) \/ FreeDesc(d)
  \/ \E d \in AppDescs, c \in Cols :
       \/ SetDescFieldDataPtr(d, c)
       \/ \E t \in CTypes : SetDescFieldType(d, c, t)
  \/ \E d \in AppDescs, n \in 0 .. MaxCol : SetDescFieldCount(d, n)
  \/ \E from, to \in AppDescs : CopyDesc(from, to)

Next ==
  \/ (\E s \in Stmts : StatementCall(s)) /\ UNCHANGED direct
  \/ direct < MaxDirect /\ DirectCall /\ direct' = direct + 1

Spec == Init /\ [][Next]_vars

-----------------------------------------------------------------------------
(* What the descriptor a statement is attached to asks for. *)
Due(s, side) ==
  LET d == st[s].cur[side]
      meta == MetaData(Now, s, side)
  IN {[col |-> c, app |-> d, dead |-> FALSE,
       conv |-> <<meta[c], app[d].rec[c].type>>] :
        c \in {c \in DOMAIN meta : c <= app[d].count /\ app[d].rec[c].defined}}

(* A fetch writes, and an execution sends, every column and parameter bound  *)
(* in the attached descriptor, none else, each converted between the SQL     *)
(* type of the present statement and the C type bound last.  It holds across *)
(* preparing, executing, closing, unbinding and binding in any order         *)
(* (OdbcStatement.cpp: rebindColumn, rebindParam, sqlBindCol), as long as no *)
(* call on the descriptor itself or of another statement came in between.    *)
TransfersAsBound ==
  (moved.stmt # NoStmt /\ st[moved.stmt].clean[moved.side])
    => moved.items = Due(moved.stmt, moved.side)

(* SQLNumResultCols counts the columns SQLDescribeCol and SQLColAttribute    *)
(* describe, and a record of a descriptor the application may read has the   *)
(* type of its column: no count and no type of an earlier statement or       *)
(* catalog result is left (OdbcStatement.cpp: sqlNumResultCols,              *)
(* sqlDescribeCol; OdbcDesc.cpp: sqlGetDescField).                           *)
ColumnsAgree ==
  \A s \in Stmts : (st[s].prep # NoShape \/ st[s].open # NoShape) =>
    /\ st[s].numberColumns = Len(Columns(Now, s))
    /\ st[s].ird.defined => \A c \in DOMAIN Columns(Now, s) :
         st[s].ird.rec[c].sql \in {"unknown", Columns(Now, s)[c]}
    /\ \A c \in DOMAIN Parameters(Now, s) :
         st[s].ipd.rec[c].sql \in {"unknown", Parameters(Now, s)[c]}
=============================================================================
