--------------------------- MODULE IscTransaction ---------------------------
(***************************************************************************)
(* The transactions of one connection: IscConnection and its IscStatements *)
(* (IscDbc/IscConnection.cpp, IscDbc/IscStatement.cpp), driven by the      *)
(* OdbcStatement and OdbcConnection calls that reach them.  An ODBC call   *)
(* holds the connection lock from its first line to its last (GUARD_HSTMT, *)
(* Main.h), so one call is one step; what can go wrong inside the call is  *)
(* the server, and every request sent to it may be refused (Faults).       *)
(*                                                                         *)
(* An operator over the whole state is a function from a world to the set  *)
(* of worlds in which the C++ method can leave it: the method returns or   *)
(* throws (ret = "error").                                                 *)
(***************************************************************************)
CONSTANTS Stmt,     \* the IscStatements (one per statement handle)
          Conn,     \* the owner of the transaction of the connection
          Tx,       \* names of server transactions, reused when free
          None,     \* NULL
          Kinds,    \* the SQL the application prepares
          Nodes,    \* TPBs the application sets: "auto" or "manual" commit
          Faults    \* the requests that the server may refuse

ServerCalls == {"start", "prepare", "execute", "getInfo", "setCursorName",
                "closeCursor", "commit", "rollback", "commitRetaining",
                "rollbackRetaining"}

\* "proc" returns no result set, "procRows" returns its outputs as one.
AllKinds == {"select", "dml", "ddl", "proc", "procRows"}

ASSUME ConstantsAssumption ==
  /\ Conn \notin Stmt
  /\ None \notin Tx \cup AllKinds \cup {"auto", "manual"}
  /\ Kinds \subseteq AllKinds
  /\ Nodes \subseteq {"auto", "manual"}
  /\ Faults \subseteq ServerCalls

Owner == Stmt \cup {Conn}

VARIABLES tr,     \* InfoTransaction of the connection and of each statement
          st,     \* IscStatement and the OdbcStatement in front of it
          open,   \* the transactions active at the server
          work,   \* those of them with uncommitted changes
          ret,    \* result of the last call
          connected

vars == <<tr, st, open, work, ret, connected>>

-----------------------------------------------------------------------------
\* State of the objects.

TrInfo == [handle: Tx \cup {None}, pending: BOOLEAN, auto: BOOLEAN,
           node: {None, "auto", "manual"}]

\* typeStmt; "modify" stands for insert, update and delete.
TypeStmt == {"none", "prepare", "select", "ddl", "modify", "procedure"}

\* fb is the transaction in which fbResultSet was opened; rs is the
\* OdbcStatement's resultSet: "eof" once close() has detached it.  kind is
\* the SQL the driver manager lets the application execute.  A statement
\* that a failed close() left with one reference too many (leaked) stays in
\* the connection's list when its handle is dropped.
StInfo == [local: BOOLEAN, change: BOOLEAN, toLocal: BOOLEAN,
           prepared: BOOLEAN, cursor: BOOLEAN, type: TypeStmt,
           fb: Tx \cup {None}, rs: {"none", "open", "eof"},
           kind: Kinds \cup {None}, leaked: BOOLEAN, dropped: BOOLEAN]

FreshTr == [handle |-> None, pending |-> FALSE, auto |-> TRUE, node |-> None]

FreshStmt == [local |-> FALSE, change |-> FALSE, toLocal |-> FALSE,
              prepared |-> FALSE, cursor |-> FALSE, type |-> "none",
              fb |-> None, rs |-> "none", kind |-> None,
              leaked |-> FALSE, dropped |-> FALSE]

World == [tr: [Owner -> TrInfo], st: [Stmt -> StInfo],
          open: SUBSET Tx, work: SUBSET Tx, ret: {"ok", "error", "crash"}]

Now == [tr |-> tr, st |-> st, open |-> open, work |-> work, ret |-> "ok"]

Throw(w) == [w EXCEPT !.ret = "error"]

Failed(W) == {w \in W : w.ret # "ok"}

\* Run F after the worlds of W that did not throw.
Then(W, F(_)) == Failed(W)
                   \cup UNION {F(w) : w \in {v \in W : v.ret = "ok"}}

\* The failing outcomes of a server request.
Refused(request, W) == IF request \in Faults THEN {Throw(w) : w \in W} ELSE {}

IsActiveSelect(s) == s.type = "select"
IsActiveCursor(s) == IsActiveSelect(s) /\ s.cursor

-----------------------------------------------------------------------------
\* Ending a transaction.  (A Bug... operator is the next definition with a
\* slip in it; a run must tell the two apart.)

\* The server forgets transaction t.
Ended(w, t) == [w EXCEPT !.open = @ \ {t}, !.work = @ \ {t}]

NoPending(w, o) == [w EXCEPT !.tr[o].pending = FALSE]

BugDropped(w, o) == Ended(w, w.tr[o].handle)

\* The ITransaction of o is gone, committed or not.
Dropped(w, o) == [Ended(w, w.tr[o].handle) EXCEPT !.tr[o].handle = None]

\* rollback of the connection (o = Conn) and rollbackLocal of a statement:
\* when the server refuses, the interface is released and pending stays.
Rollback(w, o) ==
  IF w.tr[o].handle = None
  THEN {NoPending(w, o)}
  ELSE {NoPending(Dropped(w, o), o)} \cup Refused("rollback", {Dropped(w, o)})

CommitHandle(w, o) ==
  IF w.tr[o].handle = None
  THEN {NoPending(w, o)}
  ELSE {NoPending(Dropped(w, o), o)}
         \cup Refused("commit", Rollback(w, o))

Commit(w) == CommitHandle(w, Conn)

\* A local transaction without a TPB of its own is used once.
LeaveLocal(w, s) ==
  [w EXCEPT !.st[s].local =
     @ /\ (w.tr[s].handle = None \/ w.tr[s].node # None)]

CommitLocal(w, s) == CommitHandle(LeaveLocal(w, s), s)

\* The changes are made permanent or undone; the transaction goes on.
Retained(w) ==
  NoPending([w EXCEPT !.work = @ \ {w.tr[Conn].handle}], Conn)

RollbackRetaining(w) ==
  IF w.tr[Conn].handle = None
  THEN {NoPending(w, Conn)}
  ELSE {Retained(w)} \cup Refused("rollbackRetaining", Rollback(w, Conn))

CommitRetaining(w) ==
  IF w.tr[Conn].handle = None
  THEN {NoPending(w, Conn)}
  ELSE {Retained(w)} \cup Refused("commitRetaining", RollbackRetaining(w))

ActiveCursors(w) == {s \in Stmt : IsActiveCursor(w.st[s])}

ActiveLocals(w) == {s \in Stmt \ ActiveCursors(w) : w.st[s].local}

\* All the local transactions of L ended without an exception.
LocalsEnded(w, L, leave) ==
  LET gone == {w.tr[s].handle : s \in L}
  IN  [w EXCEPT !.open = @ \ gone, !.work = @ \ gone,
                !.tr = [o \in Owner |->
                          IF o \in L
                          THEN [w.tr[o] EXCEPT !.handle = None,
                                               !.pending = FALSE]
                          ELSE w.tr[o]],
                !.st = [s \in Stmt |->
                          IF s \in L /\ leave
                          THEN LeaveLocal(w, s).st[s]
                          ELSE w.st[s]]]

\* The loop over the statements: each local transaction ends, or one throws
\* and those after it in the list (any of the others) keep theirs.
CommitLocals(w) ==
  LET L == ActiveLocals(w)
  IN  {LocalsEnded(w, L, TRUE)}
        \cup UNION {Failed(UNION {CommitLocal(LocalsEnded(w, D, TRUE), s) :
                                    s \in L}) : D \in SUBSET L}

RollbackLocals(w) ==
  LET L == ActiveLocals(w)
  IN  {LocalsEnded(w, L, FALSE)}
        \cup UNION {Failed(UNION {Rollback(LocalsEnded(w, D, FALSE), s) :
                                    s \in L}) : D \in SUBSET L}

BugCommitAuto(w) == Then(CommitLocals(w), Commit)

\* The work is kept in a retained transaction while any cursor is active.
CommitAuto(w) ==
  IF ActiveCursors(w) # {}
  THEN Then(CommitLocals(w), CommitRetaining)
  ELSE Then(CommitLocals(w), Commit)

RollbackAuto(w) ==
  IF ActiveCursors(w) # {}
  THEN Then(RollbackLocals(w), RollbackRetaining)
  ELSE Then(RollbackLocals(w), LAMBDA v : Rollback(v, Conn))
-----------------------------------------------------------------------------
\* Starting a transaction.

\* The TPB decides the commit mode even if the server then refuses.
NodeMode(w, o) ==
  IF w.tr[o].node = None THEN w
  ELSE [w EXCEPT !.tr[o].auto = w.tr[o].node = "auto"]

Start(w, o) ==
  LET v == NodeMode(w, o)
  IN  {[v EXCEPT !.open = @ \cup {t},
                 !.tr[o].handle = t,
                 !.tr[o].pending = @ \/ ~v.tr[o].auto] : t \in Tx \ v.open}
        \cup Refused("start", {v})

\* The transactionStatusChange that a SET TRANSACTION asked for.
Switched(w, s) ==
  IF w.st[s].change
  THEN [w EXCEPT !.st[s].local = w.st[s].toLocal, !.st[s].change = FALSE]
  ELSE w

TrOwner(w, s) == IF w.st[s].local THEN s ELSE Conn

BugStartTransaction(w, s) ==
  LET v == Switched(w, s)
  IN  IF ~w.st[s].change /\ v.tr[TrOwner(v, s)].handle # None
      THEN {v}
      ELSE Start(v, TrOwner(v, s))

\* The switch waits for the current transaction to end, unless there is no
\* statement handle.
StartTransaction(w, s) ==
  LET v == IF w.st[s].prepared THEN w ELSE Switched(w, s)
      u == IF v.tr[TrOwner(v, s)].handle = None THEN Switched(v, s) ELSE v
  IN  IF u.tr[TrOwner(u, s)].handle # None
      THEN {u}
      ELSE Start(u, TrOwner(u, s))

-----------------------------------------------------------------------------
\* Result sets.

AutoCommitEnd(w, s) ==
  IF w.st[s].local
  THEN IF w.tr[s].auto THEN CommitLocal(w, s) ELSE {w}
  ELSE IF w.tr[Conn].auto THEN CommitAuto(w) ELSE {w}

CloseFbResultSet(w, s) ==
  LET v == [w EXCEPT !.st[s].fb = None]
  IN  {v} \cup (IF w.st[s].fb = None THEN {} ELSE Refused("closeCursor", {v}))

NoType(w, s) == [w EXCEPT !.st[s].type = "none"]

NoHandle(w, s) == [w EXCEPT !.st[s].prepared = FALSE]

DeleteResultSet(w, s) ==
  Then(IF IsActiveCursor(w.st[s])
       THEN CloseFbResultSet(NoType(w, s), s)
       ELSE {NoType(w, s)},
       LAMBDA v : AutoCommitEnd(v, s))

Detached(x, failed) == [x EXCEPT !.rs = "none", !.leaked = @ \/ failed]

\* ~IscResultSet swallows the exception of its close(), which has then not
\* given back the reference to the statement.
ReleaseResultSet(w, s) ==
  LET Detach(v) == [v EXCEPT !.ret = "ok",
                             !.st[s] = Detached(@, v.ret # "ok")]
  IN  IF w.st[s].rs = "open"
      THEN {Detach(v) : v \in DeleteResultSet(w, s)}
      ELSE {Detach(w)}

IscClose(w, s) ==
  IF IsActiveSelect(w.st[s]) THEN AutoCommitEnd(w, s) ELSE {w}

Drop(w, s) == Then(IscClose(w, s), LAMBDA v : {NoHandle(v, s)})

ReleaseStatement(w, s) ==
  Then(ReleaseResultSet(w, s), LAMBDA v : Drop(v, s))

ClearSelect(w, s) ==
  IF ~IsActiveSelect(w.st[s])
  THEN {w}
  ELSE Then(CloseFbResultSet(w, s),
            LAMBDA v : Then(AutoCommitEnd(NoType(v, s), s),
                            LAMBDA u : {NoHandle(u, s)}))
-----------------------------------------------------------------------------
\* Preparing and executing.

BugTypeOf(k) == IF k = "select" THEN "prepare" ELSE k

TypeOf(k) == CASE k = "select" -> "prepare"
               [] k = "dml"    -> "modify"
               [] k = "ddl"    -> "ddl"
               [] OTHER        -> "procedure"

PrepareStatement(w, s, k) ==
  LET Handle(v) == [v EXCEPT !.st[s].prepared = TRUE]
      Typed(v)  == [Handle(v) EXCEPT !.st[s].cursor = k = "select",
                                     !.st[s].type = "prepare"]
  IN  Then(StartTransaction(w, s),
           LAMBDA v : Refused("prepare", {v, Handle(v)})
                        \cup Refused("getInfo", {Typed(v)})
                        \cup {[Typed(v) EXCEPT !.st[s].type = TypeOf(k),
                                               !.st[s].kind = k]})

\* What the server does with an executed statement.
Executed(w, s) ==
  LET t == w.tr[TrOwner(w, s)].handle
  IN  IF w.st[s].cursor
      THEN [w EXCEPT !.st[s].fb = t]
      ELSE [w EXCEPT !.work = @ \cup {t}]

Crash(w) == {[w EXCEPT !.ret = "crash"]}

BugExecuteRefused(w) == IF "execute" \in Faults THEN RollbackAuto(w) ELSE {}

\* The catch block: the mode that counts is the connection's, also for a
\* statement with a local transaction.
ExecuteRefused(w) ==
  IF "execute" \notin Faults
  THEN {}
  ELSE IF w.tr[Conn].auto THEN RollbackAuto(w) ELSE {w}

BugAfterExecute(w, s, k) ==
  CASE k = "ddl"    -> {NoHandle(w, s)}
    [] k = "dml"    -> {w}
    [] k = "select" -> {[w EXCEPT !.st[s].type = "select"]}

AfterExecute(w, s, k) ==
  LET v == IF IsActiveSelect(w.st[s]) THEN NoType(w, s) ELSE w
  IN  CASE k = "ddl"    -> Then(AutoCommitEnd(v, s),
                                LAMBDA u : {NoHandle(u, s)})
        [] k = "dml"    -> AutoCommitEnd(v, s)
        [] k = "select" -> {[v EXCEPT !.st[s].type = "select"]}

\* statementHandle is NULL once a DDL statement or ClearSelect freed it.
ServerExecute(w, s, k) ==
  IF ~w.st[s].prepared
  THEN Crash(w)
  ELSE LET v == Executed(w, s)
       IN  {Throw(u) : u \in Then(ExecuteRefused(w),
                                  LAMBDA u : ClearSelect(u, s))}
             \cup Refused("getInfo", {v})
             \cup AfterExecute(v, s, k)

IscExecute(w, s, k) ==
  LET W == IF IsActiveSelect(w.st[s]) /\ w.tr[Conn].auto
           THEN ClearSelect(w, s)
           ELSE {w}
  IN  Then(Then(W, LAMBDA v : StartTransaction(v, s)),
           LAMBDA v : ServerExecute(v, s, k))

Opened(w, s) == [w EXCEPT !.st[s].rs = "open"]

ExecuteStatement(w, s, k) ==
  IF k = "select"
  THEN Then(IscExecute(w, s, k),
            LAMBDA v : Refused("setCursorName", {v}) \cup {Opened(v, s)})
  ELSE IscExecute(w, s, k)

ExecuteProcedure(w, s, k) ==
  LET Done(v) == IF k = "procRows" THEN Opened(v, s) ELSE v
  IN  Then(StartTransaction(w, s),
           LAMBDA v :
             IF ~v.st[s].prepared
             THEN Crash(v)
             ELSE {Throw(u) : u \in ExecuteRefused(v)}
                    \cup Refused("getInfo", {Executed(v, s)})
                    \cup {Done(Executed(v, s))})

-----------------------------------------------------------------------------
\* The ODBC calls.

\* An exception that no catch block stands in front of leaves the driver.
Escape(W) == {[w EXCEPT !.ret = IF @ = "error" THEN "crash" ELSE @] : w \in W}

Usable == connected /\ ret # "crash"

Live(s) == Usable /\ ~st[s].dropped

Do(W) ==
  /\ \E w \in W : /\ tr' = w.tr
                  /\ st' = w.st
                  /\ open' = w.open
                  /\ work' = w.work
                  /\ ret' = w.ret
  /\ UNCHANGED connected

NotPrepared(w, s) == [w EXCEPT !.st[s].kind = None]

\* sqlPrepare releases the statement before its try block; F is the rest.
Reprepare(s, F(_)) ==
  Then(Escape(ReleaseStatement(NotPrepared(Now, s), s)), F)

Prepare(s, k) ==
  /\ Live(s)
  /\ Do(Reprepare(s, LAMBDA v : PrepareStatement(v, s, k)))

Execute(s) ==
  LET k == st[s].kind
  IN  /\ Live(s)
      /\ k # None
      /\ Do(Then(ReleaseResultSet(Now, s),
                 LAMBDA v : IF k \in {"proc", "procRows"}
                            THEN ExecuteProcedure(v, s, k)
                            ELSE ExecuteStatement(v, s, k)))

\* SQLFetch when the cursor has no more rows.
FetchEof(s) ==
  /\ Live(s)
  /\ st[s].rs = "open"
  /\ st[s].kind = "select"
  /\ Do(IF st[s].fb = None
        THEN {Throw(Now)}
        ELSE Then(DeleteResultSet(Now, s),
                  LAMBDA v : {[v EXCEPT !.st[s].rs = "eof"]}))

CloseCursor(s) == Live(s) /\ Do(ReleaseResultSet(Now, s))

FreeStmtClose(s) ==
  /\ Live(s)
  /\ Do(Then(ReleaseResultSet(Now, s), LAMBDA v : IscClose(v, s)))

\* The transaction of the statement, if it has one, is forgotten, not ended.
Forgotten(w, s) ==
  IF w.st[s].leaked
  THEN [w EXCEPT !.st[s].dropped = TRUE, !.ret = "ok"]
  ELSE [w EXCEPT !.st[s] = FreshStmt, !.tr[s] = FreshTr, !.ret = "ok"]

DropStmt(s) ==
  /\ Live(s)
  /\ Do({Forgotten(v, s) : v \in ReleaseStatement(NotPrepared(Now, s), s)})

End(w, op) == IF op = "commit" THEN CommitAuto(w) ELSE RollbackAuto(w)

EndTran(op) == Usable /\ Do(End(Now, op))

\* COMMIT and ROLLBACK sent as statements.
EndSql(s, op) ==
  LET EndOwn(v) == IF op = "commit" THEN CommitLocal(v, s) ELSE Rollback(v, s)
  IN  /\ Live(s)
      /\ Do(Reprepare(s, LAMBDA v : IF v.st[s].local
                                    THEN EndOwn(v)
                                    ELSE End(v, op)))

\* sqlSetConnectAttr has no try block.
SetAutoCommit(b) ==
  /\ Usable
  /\ Do(Then(IF ~tr[Conn].auto /\ b /\ tr[Conn].pending
             THEN Escape(CommitAuto(Now))
             ELSE {Now},
             LAMBDA v : {[v EXCEPT !.tr[Conn].auto = b]}))

\* SET LOCAL TRANSACTION with parameters of its own.  (Without any, lines 229-232
\* copy the connection's: that case is not a node and is left out.)
SetLocal(s, n) ==
  /\ Live(s)
  /\ Do(Reprepare(s, LAMBDA v : {[v EXCEPT !.st[s].change = TRUE,
                                           !.st[s].toLocal = TRUE,
                                           !.tr[s].node = n]}))

\* DECLARE LOCAL TRANSACTION
DeclareLocal(s, n) ==
  /\ Live(s)
  /\ Do(Reprepare(s, LAMBDA v : {[v EXCEPT !.st[s].change = FALSE,
                                           !.st[s].toLocal = FALSE,
                                           !.tr[s].node = n]}))

\* SET TRANSACTION, or DECLARE TRANSACTION NAME (n = None).
UseConn(s, n) ==
  /\ Live(s)
  /\ Do(Reprepare(s, LAMBDA v :
           {[v EXCEPT !.st[s].change = TRUE,
                      !.st[s].toLocal = FALSE,
                      !.tr[s].node = None,
                      !.tr[s].auto = v.tr[Conn].auto,
                      !.tr[Conn].node = IF n = None THEN @ ELSE n]}))

Disconnect ==
  /\ Usable
  /\ ~tr[Conn].pending
  /\ \E w \in Commit(Now) : ret' = w.ret
  /\ connected' = FALSE
  /\ tr' = [o \in Owner |-> FreshTr]
  /\ st' = [s \in Stmt |-> FreshStmt]
  /\ open' = {}
  /\ work' = {}

Init ==
  /\ tr = [o \in Owner |-> FreshTr]
  /\ st = [s \in Stmt |-> FreshStmt]
  /\ open = {}
  /\ work = {}
  /\ ret = "ok"
  /\ connected = TRUE

StmtCall(s) ==
  \/ \E k \in Kinds : Prepare(s, k)
  \/ Execute(s)
  \/ FetchEof(s)
  \/ CloseCursor(s)
  \/ FreeStmtClose(s)
  \/ DropStmt(s)
  \/ \E op \in {"commit", "rollback"} : EndSql(s, op)
  \/ \E n \in Nodes : SetLocal(s, n) \/ DeclareLocal(s, n)
  \/ \E n \in Nodes \cup {None} : UseConn(s, n)

ConnCall ==
  \/ \E op \in {"commit", "rollback"} : EndTran(op)
  \/ \E b \in BOOLEAN : SetAutoCommit(b)
  \/ Disconnect

Next == ConnCall \/ \E s \in Stmt : StmtCall(s)

Spec == Init /\ [][Next]_vars

-----------------------------------------------------------------------------
\* Properties.

\* Every object has the fields and the values its C++ class can hold.
TypeOK ==
  /\ tr \in [Owner -> TrInfo]
  /\ st \in [Stmt -> StInfo]
  /\ open \subseteq Tx
  /\ work \subseteq Tx
  /\ ret \in {"ok", "error", "crash"}
  /\ connected \in BOOLEAN

\* A cursor the application can fetch from.
Fetchable(s) ==
  st[s].rs = "open" /\ st[s].kind = "select" /\ st[s].fb # None

\* SQLGetInfo reports SQL_CB_PRESERVE for commit and rollback
\* (supportsOpenCursorsAcrossCommit and ...Rollback return true): no call,
\* on this or another statement, ends the transaction of an open cursor.
CursorTxOpen == \A s \in Stmt : Fetchable(s) => st[s].fb \in open

\* A transaction interface that an object holds is one the server knows, and
\* no two objects hold the same one: no commit or rollback, failed or not,
\* leaves a handle behind that would be used again.
HandlesOpen ==
  /\ \A o \in Owner : tr[o].handle # None => tr[o].handle \in open
  /\ \A o, p \in Owner : tr[o].handle = tr[p].handle /\ tr[o].handle # None
                            => o = p
  /\ work \subseteq open

Handles == {tr[o].handle : o \in Owner}

\* No call loses track of a transaction that is active at the server: only
\* dropping a statement with a transaction of its own does.
NothingOrphaned ==
  [][(open' \ Handles') \subseteq (open \ Handles)
       \/ \E s \in Stmt : tr[s].handle # None /\ DropStmt(s)]_vars

EndCall ==
  \/ \E op \in {"commit", "rollback"} :
       EndTran(op) \/ \E s \in Stmt : EndSql(s, op)
  \/ SetAutoCommit(TRUE)
  \/ Disconnect

\* In manual-commit mode the work done in the connection's transaction ends
\* when the application says so, whatever is prepared, executed (and
\* fails), fetched, closed or dropped meanwhile.
ManualWorkKept ==
  [][(~tr[Conn].auto /\ tr[Conn].handle \in work)
       => (tr[Conn].handle \in work' \/ EndCall)]_vars

\* In autocommit mode a statement that changed data or metadata and succeeded
\* is committed when SQLExecute returns, by a retaining commit if need be.
AutoCommitEnds ==
  [][\A s \in Stmt :
       (Execute(s) /\ ret' = "ok" /\ st[s].kind \in {"dml", "ddl"}
          /\ tr'[TrOwner([tr |-> tr', st |-> st'], s)].auto)
       => tr'[TrOwner([tr |-> tr', st |-> st'], s)].handle \notin work']_vars

\* "Test that autocommit ON commits every statement automatically"
\* (tests/test_connect_options.cpp): so does a stored procedure that was
\* executed without an error.
ProcedureCommitted ==
  [][\A s \in Stmt :
       (Execute(s) /\ ret' = "ok" /\ st[s].kind = "proc"
          /\ ~st'[s].local /\ tr'[Conn].auto)
       => tr'[Conn].handle \notin work']_vars
=============================================================================
