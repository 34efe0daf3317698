------------------------------- MODULE BulkAdd -------------------------------
(***************************************************************************)
(* SQLBulkOperations with SQL_ADD (OdbcStatement.cpp 1322-1462): the rows  *)
(* of the rowset are inserted by a statement of their own, kept for the    *)
(* next call, in a transaction of its own if the connection commits by     *)
(* itself.  The transactions are those of IscTransaction, the diagnostics  *)
(* of the two statements those of Diagnostics.                             *)
(***************************************************************************)
EXTENDS Diagnostics

T == INSTANCE IscTransaction WITH
       Stmt <- {"select", "bulk"}, Conn <- "conn", Tx <- {"t1", "t2", "t3"}, None <- "none",
       Kinds <- {"select", "dml"}, Nodes <- {"manual"}, Faults <- {"start", "execute", "commit"},
       tr <- << >>, st <- << >>, open <- {}, work <- {}, ret <- "ok", connected <- TRUE

\* w: the transactions, with the row that is inserted next and whether one was
\* committed before the call ended; o and b: the handles of the application's
\* statement and of the one that inserts, which `exists' once it was needed.
Closed ==
  [w |-> [tr |-> [x \in {"select", "bulk", "conn"} |-> T!FreshTr], st |-> [s \in {"select", "bulk"} |-> T!FreshStmt],
          open |-> {}, work |-> {}, ret |-> "ok"],
   o |-> Fresh, b |-> Fresh, exists |-> FALSE]

Now(s) == [s.w EXCEPT !.ret = "ok"]
Worlds(s, W) == {[s EXCEPT !.w = w] : w \in W}
\* The application's select, prepared and executed; its rows are read at once.
Select(s, rows) ==
  {[t EXCEPT !.o.rows = rows] :
     t \in Worlds(s, {w \in T!Then(T!PrepareStatement(s.w, "select", "select"), LAMBDA v : T!ExecuteStatement(v, "select", "select")) :
                        w.ret = "ok"})}
SetAutoCommit(s, b) ==
  LET W == IF ~s.w.tr["conn"].auto /\ b /\ s.w.tr["conn"].pending THEN T!CommitAuto(Now(s)) ELSE {Now(s)}
  IN  Worlds(s, {[w EXCEPT !.tr["conn"].auto = b] : w \in {v \in W : v.ret = "ok"}})
EndTran(s, op) == Worlds(s, {w \in T!End(Now(s), op) : w.ret = "ok"})
\* Binding a column, or closing the cursor, deletes the statement that inserts.
Delete(s) ==
  {[t EXCEPT !.b = Fresh, !.exists = FALSE] :
     t \in Worlds(s, {T!Forgotten(w, "bulk") : w \in T!ReleaseStatement(Now(s), "bulk")})}

-----------------------------------------------------------------------------
SwitchTransaction(w, local) ==
  [w EXCEPT !.st["bulk"].change = TRUE, !.st["bulk"].toLocal = local /\ w.tr["bulk"].node # "none"]
DeclaredLocal(w) == [w EXCEPT !.st["bulk"].change = FALSE, !.st["bulk"].toLocal = FALSE, !.tr["bulk"].node = "manual"]
BugReady(s, auto) ==
  IF s.exists THEN {s.w}
  ELSE T!PrepareStatement(IF auto THEN SwitchTransaction(DeclaredLocal(s.w), TRUE) ELSE DeclaredLocal(s.w), "bulk", "dml")
\* The statement that inserts, in the mode the connection is in.
Ready(s, auto) ==
  IF s.exists THEN {SwitchTransaction(s.w, auto)}
  ELSE T!PrepareStatement(IF auto THEN SwitchTransaction(DeclaredLocal(s.w), TRUE) ELSE DeclaredLocal(s.w), "bulk", "dml")

\* One row after the other until one is not converted (bad, at that row) or is refused;
\* sent: how many were; early: one was committed before the call ended.
RECURSIVE Rows(_, _, _)
Rows(r, n, bad) ==
  CASE n = 0 -> {[r EXCEPT !.how = "done"]}
    [] bad = 1 -> {[r EXCEPT !.how = "unconverted"]}
    [] OTHER ->
         UNION {IF w.ret # "ok" THEN {[r EXCEPT !.w = w, !.how = IF w.ret = "crash" THEN "crash" ELSE "thrown"]}
                ELSE Rows([r EXCEPT !.w = w, !.sent = @ + 1, !.early = @ \/ w.tr[T!TrOwner(w, "bulk")].handle \notin w.work],
                          n - 1, bad - 1) :
                w \in T!IscExecute(r.w, "bulk", "dml")}
Refuse(s, w, state) ==
  LET t == [s EXCEPT !.w = [w EXCEPT !.ret = "error"], !.b = IF s.b.info THEN ClearErrors(@) ELSE @]
  IN  [t EXCEPT !.o = PostError(IF s.b.info THEN Moved(s.o, s.b) ELSE s.o, Error(-913, 335544336, state, 40))]

\* After the rows.
Ended(s, r, auto) ==
  LET t == [s EXCEPT !.w = r.w, !.exists = TRUE]
      Tell(v) == IF v.b.info THEN [v EXCEPT !.o = Moved(v.o, v.b), !.b = ClearErrors(@)] ELSE v
  IN  CASE r.how = "unconverted" ->
             {[u EXCEPT !.w.ret = "error", !.b = PostError(@, Error(0, 0, "22018", 20))] :
                u \in Worlds(t, T!Rollback(r.w, "bulk"))}
        [] r.how = "crash" -> {t}
        [] r.how = "thrown" ->
             {Refuse(t, w, "HY000") : w \in T!Rollback([r.w EXCEPT !.ret = "ok"], "bulk")}
        [] auto ->
             {IF w.ret = "ok" THEN Tell([t EXCEPT !.w = w]) ELSE Refuse(t, w, "HY000") : w \in T!CommitLocal(r.w, "bulk")}
        [] OTHER -> {Tell(t)}
\* n rows; in front of row `bad' (0: none) a value is refused by its conversion;
\* in the first, `warned' others are truncated.  The result says how many rows
\* were inserted and whether one was committed early.
Add(s, n, bad, warned) ==
  LET auto == s.w.tr["conn"].auto
      u == [s EXCEPT !.w = Now(s), !.o = ClearStatement(@),
                     !.b = IF s.exists THEN ClearStatement(@) ELSE Fresh]
      Posted == [u.b EXCEPT !.errors = @ \o [k \in 1 .. warned |-> Error(0, 0, "01004", 30 + k)],
                            !.info = @ \/ warned > 0]
  IN  UNION {IF w.ret # "ok" THEN {[s |-> [u EXCEPT !.w = w, !.exists = TRUE, !.b = PostError(@, Error(0, 0, "HY000", 10))],
                                    sent |-> 0, early |-> FALSE, how |-> "unready"]}
             ELSE UNION {{[s |-> v, sent |-> r.sent, early |-> r.early,
                              how |-> IF r.how = "done" /\ v.w.ret = "error" THEN "thrown" ELSE r.how] :
                            v \in Ended([u EXCEPT !.b = Posted], r, auto)} :
                         r \in Rows([w |-> w, sent |-> 0, early |-> FALSE, how |-> ""], n, bad)} :
             w \in Ready(u, auto)}
=============================================================================
