------------------------------- MODULE DataAtExec -------------------------------
(***************************************************************************)
(* Parameters whose values are sent while the statement executes           *)
(* (SQL_DATA_AT_EXEC): OdbcStatement::sqlExecute, sqlParamData, sqlPutData  *)
(* and the inputParam they share.  inputParam stops at a parameter it has   *)
(* no data for, and each SQLParamData enters the execution again at         *)
(* parameterNeedData.  With an array of parameters it enters at row 0.      *)
(*                                                                         *)
(* As in IscTransaction, an operator maps a world to the set of worlds in  *)
(* which the C++ method can leave it.                                      *)
(***************************************************************************)
EXTENDS Integers, Sequences, SequencesExt, FiniteSetsExt

CONSTANTS Count,     \* number of parameters of the statement
          Blobs,     \* the parameters of a blob type
          Chunks,    \* pieces of data the application sends
          MaxPieces, \* bound on the pieces of one value
          ArraySizes,\* SQL_ATTR_PARAMSET_SIZE
          Null,      \* SQL_NULL_DATA
          Faults,    \* what may fail
          CancelIn   \* the phases in which the application calls SQLCancel

ASSUME ConstantsAssumption ==
  /\ Count \in Nat \ {0}
  /\ Blobs \subseteq 1 .. Count
  /\ MaxPieces \in Nat
  /\ Null # <<>>
  /\ ArraySizes \subseteq Nat \ {0}
  /\ Faults \subseteq {"bind", "convert", "execute"}
  /\ CancelIn \subseteq {"need", "mustPut", "canPut"}

Params == 1 .. Count

VARIABLES parameterNeedData,
          rec,        \* the DescRecords of the application
          sqlda,      \* the values the statement is executed with
          arraySize,  \* headArraySize
          dangling,   \* headBindOffsetPtr points to a variable that is gone
          phase,      \* what the driver manager lets the application call
          token,      \* the parameter SQLParamData asked for, 0 for none
          given,      \* what the application sent for this row
          sent        \* the rows the last call executed

vars == <<parameterNeedData, rec, sqlda, arraySize, dangling, phase, token,
          given, sent>>

\* data is what was put so far: localDataPtr up to dataOffset, or the stream
\* of a blob.  null says that the indicator is SQL_NULL_DATA.
DescRecord == [data_at_exec: BOOLEAN, startedTransfer: BOOLEAN,
               data: Seq(Chunks), null: BOOLEAN]

Phase == {"ready", "need", "mustPut", "canPut", "undefined"}

Now == [need |-> parameterNeedData, rec |-> rec, sqlda |-> sqlda,
        dangling |-> dangling, token |-> token, given |-> given,
        sent |-> <<>>, ret |-> "success"]

NothingGiven == [p \in Params |-> <<>>]

Throw(w) == [w EXCEPT !.ret = "error"]

Then(W, F(_)) == {w \in W : w.ret # "success"}
                   \cup UNION {F(w) : w \in {v \in W : v.ret = "success"}}

\* The value of a bound buffer in row r of the array.
Bound(r) == <<r>>

-----------------------------------------------------------------------------
\* inputParam.

BugTransferred(p, x) == [x EXCEPT !.startedTransfer = FALSE]

\* A parameter whose data has been put is done with.
Transferred(p, x) ==
  [x EXCEPT !.startedTransfer = FALSE,
            !.data = IF p \in Blobs THEN @ ELSE <<>>]

TransferredValue(p, w) ==
  IF p \notin Blobs THEN w.sqlda[p]
  ELSE IF w.rec[p].null THEN Null ELSE w.rec[p].data

AtExec(w, range) == {p \in range : w.rec[p].data_at_exec}

\* The loop from parameterNeedData to last, which finds nothing missing.
Passed(w, last, r) ==
  LET P == w.need .. last
  IN  [w EXCEPT
        !.need = Max({w.need} \cup AtExec(w, P)),
        !.rec = [p \in Params |-> IF p \in AtExec(w, P)
                                  THEN Transferred(p, w.rec[p])
                                  ELSE w.rec[p]],
        !.sqlda = [p \in Params |->
                     IF p \notin P THEN w.sqlda[p]
                     ELSE IF p \in AtExec(w, P) THEN TransferredValue(p, w)
                     ELSE Bound(r)]]

NeedData(w, p) == [w EXCEPT !.need = p, !.ret = "needData"]

BugStop(w) ==
  Min({Count + 1}
        \cup {p \in AtExec(w, w.need + 1 .. Count) : ~w.rec[p].startedTransfer})

\* The first parameter without data, or the one after the last.
Stop(w) ==
  Min({Count + 1}
        \cup {p \in AtExec(w, w.need .. Count) : ~w.rec[p].startedTransfer})

ConvertAll(w, r) ==
  LET stop == Stop(w)
      done == Passed(w, stop - 1, r)
      fails == (w.need .. stop - 1) \ AtExec(w, Params)
  IN  {IF stop <= Count THEN NeedData(done, stop) ELSE done}
        \cup (IF "convert" \in Faults
              THEN {Throw(Passed(w, p - 1, r)) : p \in fails}
              ELSE {})

\* SQL_DATA_AT_EXEC is looked for at the first entry only (rebindParam).
InputParam(w, D, r) ==
  IF w.need # 0
  THEN ConvertAll(w, r)
  ELSE LET v == [w EXCEPT
                   !.rec = [p \in Params |->
                              [w.rec[p] EXCEPT !.data_at_exec = p \in D]]]
       IN  (IF "bind" \in Faults THEN {Throw(v)} ELSE {})
             \cup ConvertAll([v EXCEPT !.need = 1], r)

-----------------------------------------------------------------------------
\* executeStatement and executeStatementParamArray.

Row(w) == [values |-> w.sqlda, given |-> w.given]

Executed(w) ==
  [w EXCEPT !.sent = Append(@, Row(w)), !.given = NothingGiven]

\* An exception skips the lines that restore headBindOffsetPtr.
ServerExecute(w, array) ==
  {Executed(w)} \cup (IF "execute" \in Faults
                      THEN {Throw([w EXCEPT !.dangling = @ \/ array])}
                      ELSE {})

ExecuteStatement(w, D) ==
  Then(InputParam(w, D, 0), LAMBDA v : ServerExecute(v, FALSE))

ExecuteStatementParamArray(w, D) ==
  LET FromOne(v) == {[v EXCEPT !.need = 1]}
      ExecuteRow(W, r) ==
        Then(W, LAMBDA u : Then(Then(InputParam(u, D, r),
                                     LAMBDA v : ServerExecute(v, TRUE)),
                                FromOne))
  IN  FoldLeft(ExecuteRow, {w}, [n \in 1 .. arraySize |-> n - 1])

ExecuteAny(w, D) ==
  IF arraySize > 1 THEN ExecuteStatementParamArray(w, D)
                   ELSE ExecuteStatement(w, D)

-----------------------------------------------------------------------------
\* The ODBC calls.

Set(w, next) ==
  /\ parameterNeedData' = w.need
  /\ rec' = w.rec
  /\ sqlda' = w.sqlda
  /\ dangling' = w.dangling
  /\ token' = w.token
  /\ given' = w.given
  /\ sent' = w.sent
  /\ phase' = next
  /\ UNCHANGED arraySize

\* SQLExecute.  The application writes the indicators before: those of D are
\* SQL_DATA_AT_EXEC.
Execute(D) ==
  LET v == [Now EXCEPT
              !.need = 0,
              !.token = 0,
              !.given = NothingGiven,
              !.rec = [p \in Params |-> [rec[p] EXCEPT !.null = FALSE]]]
  IN  /\ phase = "ready"
      /\ ~dangling
      /\ \E w \in ExecuteAny(v, D) :
           Set(w, IF w.ret = "needData" THEN "need" ELSE "ready")

\* The offset of every address is read through the dangling pointer.
ExecuteDangling ==
  /\ phase = "ready"
  /\ dangling
  /\ Set(Now, "undefined")

\* SQLParamData.
Begin(w, p) ==
  IF p \in Blobs
  THEN [w EXCEPT !.rec[p].startedTransfer = TRUE, !.rec[p].data = <<>>]
  ELSE w

BugParamDataWorlds(w) == {NeedData(Begin(w, w.need), w.need)}

ParamDataWorlds(w) ==
  IF w.rec[w.need].data_at_exec /\ ~w.rec[w.need].startedTransfer
  THEN {NeedData(Begin(w, w.need), w.need)}
  ELSE ExecuteAny(w, AtExec(w, Params))

ParamData ==
  /\ phase \in {"need", "canPut"}
  /\ parameterNeedData > 0
  /\ \E w \in ParamDataWorlds(Now) :
       IF w.ret = "needData"
       THEN Set([w EXCEPT !.token = w.need], "mustPut")
       ELSE Set(w, "ready")

\* SQLPutData, of a piece.
PutChunk(x) ==
  LET p == parameterNeedData
      data == IF p \in Blobs /\ ~rec[p].startedTransfer THEN <<x>>
              ELSE Append(rec[p].data, x)
  IN  [Now EXCEPT
         !.rec[p].startedTransfer = TRUE,
         !.rec[p].data = data,
         !.rec[p].null = p \in Blobs /\ @,
         !.sqlda[p] = IF p \in Blobs THEN @ ELSE data,
         !.given[token] = Append(@, x)]

\* ... and of SQL_NULL_DATA, which is not treated as blob data.
PutNull ==
  LET p == parameterNeedData
  IN  [Now EXCEPT !.rec[p].startedTransfer = TRUE,
                  !.rec[p].null = TRUE,
                  !.sqlda[p] = Null,
                  !.given[token] = Null]

\* The application sends a value in pieces, or NULL.
PutData ==
  /\ phase \in {"mustPut", "canPut"}
  /\ parameterNeedData > 0
  /\ \/ /\ given[token] # Null
        /\ Len(given[token]) < MaxPieces
        /\ \E x \in Chunks : Set(PutChunk(x), "canPut")
     \/ /\ given[token] = <<>>
        /\ Set(PutNull, "canPut")

\* SQLCancel sets a flag that only the fetches read.
Cancel ==
  /\ phase \in CancelIn
  /\ Set([Now EXCEPT !.token = 0, !.given = NothingGiven], "ready")

\* SQLBindParameter, again for a parameter.
BindParameter(p) ==
  /\ phase = "ready"
  /\ Set([Now EXCEPT !.rec[p].data_at_exec = FALSE,
                     !.rec[p].startedTransfer = FALSE], "ready")

Init ==
  /\ parameterNeedData = 0
  /\ rec = [p \in Params |-> [data_at_exec |-> FALSE, startedTransfer |-> FALSE,
                              data |-> <<>>, null |-> FALSE]]
  /\ sqlda = [p \in Params |-> Null]
  /\ arraySize \in ArraySizes
  /\ dangling = FALSE
  /\ phase = "ready"
  /\ token = 0
  /\ given = NothingGiven
  /\ sent = <<>>

Next ==
  \/ \E D \in SUBSET Params : Execute(D)
  \/ ExecuteDangling
  \/ ParamData
  \/ PutData
  \/ Cancel
  \/ \E p \in Params : BindParameter(p)

Spec == Init /\ [][Next]_vars

\* An application that answers when it is asked, as the loop over SQLParamData
\* in the tests does.
FairSpec == Spec /\ WF_vars(ParamData) /\ WF_vars(PutData)

-----------------------------------------------------------------------------
\* Properties.

\* Every field has a value of its C++ type.
TypeOK ==
  /\ parameterNeedData \in 0 .. Count
  /\ rec \in [Params -> DescRecord]
  /\ sqlda \in [Params -> {Null} \cup Seq(Chunks \cup Nat)]
  /\ dangling \in BOOLEAN
  /\ phase \in Phase
  /\ token \in 0 .. Count

Asking == phase \in {"mustPut", "canPut"}

\* SQLPutData fills the parameter that SQLParamData last told the application
\* about, and parameters are asked for in order, none left out.
AskedInOrder ==
  Asking => /\ token = parameterNeedData
            /\ rec[token].data_at_exec
            /\ \A p \in AtExec([rec |-> rec], Params) :
                 /\ p < token => given[p] # <<>>
                 /\ p > token => given[p] = <<>>

Array == arraySize > 1 /\ AtExec([rec |-> rec], Params) # {}

\* A statement is executed with exactly what the application sent for it: the
\* pieces of each parameter in order, all of them asked for in this execution
\* and none left over from an earlier one, and the bound values of its row.
ExecutedAsGiven ==
  ~Array => \A n \in DOMAIN sent, p \in Params :
              sent[n].values[p] = IF rec[p].data_at_exec THEN sent[n].given[p]
                                                         ELSE Bound(n - 1)

\* An application that answers each question sees the execution end.  (An
\* array of parameters starts again at row 0 after each answer.)
LoopEnds == (phase # "ready" /\ arraySize = 1) ~> (phase = "ready")
=============================================================================
