# Verification of the Firebird ODBC driver

TLA+ models of the parts of this driver whose correctness depends on the order
of calls or on cases too many to test: transactions and autocommit, the
two-phase "common connection", the thread guards, scrolling in static cursors
and the block buffer below them, parameters supplied at execution, descriptors
and binding, blobs and SQLGetData, user events, bulk inserts and diagnostics;
and of its pure algorithms, checked against definitions of what they are for:
conversions of numbers and dates, the types of columns, the escapes of SQL, the
parameters of transactions, connection strings, announced capabilities. TLC
checks each model on small instances; TLAPS proves the main invariants of four
of them for every size.

## Inventory

The driver is two layers. The ODBC layer (`OdbcEnv`, `OdbcConnection`,
`OdbcStatement`, `OdbcDesc`, all `OdbcObject`s; `OdbcConvert`) implements
handles, attributes, diagnostics, cursors and conversion. The IscDbc layer
(`IscConnection`, `IscStatement`, `IscResultSet`, `Sqlda`, `IscBlob`,
`EnvShare`, ...) speaks to the Firebird client library through its object
interface (`ITransaction`, `IStatement`, ...).

| Component | State it keeps | Operations | What makes it correct |
|---|---|---|---|
| Transactions (`IscConnection`, `IscStatement`) | `InfoTransaction` of the connection and of each statement: handle, pending, autoCommit, TPB | prepare, execute, fetch to the end, close, drop, SQLEndTran, COMMIT/ROLLBACK, SET/DECLARE TRANSACTION, SQLSetConnectAttr | handles name active transactions; autocommit commits, manual work waits; a cursor's transaction lives as long as the cursor |
| Common connection (`EnvShare`, `OdbcEnv`, `OdbcConnection`) | list of members, the two-phase handle, a copy of it per attachment | join, leave, execute, SQLEndTran on environment or connection, connect, disconnect | the list names live connections; the common transaction ends for all at once |
| Thread guards (`Main.h`, `SafeEnvThread`, `OdbcConnection.h`) | a mutex of the library, of each environment, of each attachment; `connected`, `safeThread` | every entry point | calls on one connection or on the list of connections do not overlap, but those the guards are built to admit; no lock lost |
| Static cursor (`OdbcStatement`, `IscResultSet`) | row number, place, eof, last rowset size | every fetch orientation, SQLSetPos, attributes | rowsets adjoin; no row outside the buffer; a fetch loop ends |
| Row buffer (`CDataStaticCursor`) | table of blocks, iterator, bounds of the current block | add, seek, step | reads what was written, across block boundaries |
| Data at execution (`OdbcStatement`) | `parameterNeedData`, `startedTransfer` of each parameter | SQLExecute, SQLParamData, SQLPutData, SQLCancel | each parameter is asked for once and executed with its value |
| Descriptors (`OdbcDesc`, `DescRecord`, `OdbcStatement`) | records of the four descriptors, a list of bound pairs per side, a mark in each record | bind, prepare, execute, catalog calls, close, unbind, SQLSetDescField, SQLCopyDesc | what is moved is what is bound, in the present types |
| Blobs, SQLGetData (`IscBlob`, `Stream`, `OdbcConvert`) | segments and the place of reading, `dataOffset`, converted copies | write by pieces, read by pieces, next row, re-execute | pieces make up the value; SQL_NO_DATA at its end |
| Conversions (`OdbcConvert`) | none | one of many functions chosen by a table | the value is kept where the target can hold it |
| Column types (`IscSqlType`, `Sqlda`, `TypesResultSet`) | none | SQLColumns, SQLDescribeCol, SQLColAttribute, SQLGetTypeInfo | five answers about one column agree |
| Escapes (`IscConnection::getNativeSql`, `SupportFunctions`) | flags of the connection | every statement's text | the server gets the statement that was meant |
| Transaction parameters (`ListParamTransaction`, `IscConnection`) | texts per connection, statement and name | SET and DECLARE TRANSACTION | the next transaction starts with what was said last |
| Connecting (`OdbcConnection`) | the attributes of the handle | SQLConnect, SQLDriverConnect, SQLBrowseConnect, SQLSetConnectAttr | every option comes from where it was said; the returned string says it again |
| Announced capabilities (`InfoItems.h`, `OdbcConnection`) | none | SQLGetInfo, SQLGetFunctions | what is announced is done |
| Diagnostics (`OdbcObject`, `OdbcError`) | a list of records per handle | posting, moving, SQLGetDiagRec, SQLGetDiagField, SQLError | every posted record is told, once, in order |
| Bulk insert (`OdbcStatement::sqlBulkOperations`) | a statement of its own, kept for the next call | SQL_ADD | rows are committed as one; a refusal takes nothing else along |
| User events (`IscUserEvents`, `ParametersEvents`) | the block queued at the server, counts | init, requeue, callback | no post lost or counted twice |
| Handles | lists of children | SQLAllocHandle, SQLFreeHandle | no freed handle reached |
| Arrays, `IscPreparedStatement`/`IscCallableStatement`, services, setup, DTC | | | see Not modelled |

Components interact by plain calls: an ODBC entry point locks (`GUARD_HSTMT`,
`GUARD_HDBC`, `GUARD_ENV` in `Main.h`), clears the errors of its handle, calls
the ODBC object, which calls IscDbc objects, which call the server. They share
state through pointers: a statement reads and changes its connection's
`transactionInfo`, a connection walks its statements when it ends a
transaction, `EnvShare` writes into every member's attachment, a statement
keeps pointers into descriptors it shares with others. One callback comes from
the server: the answer to a block of user events.

What is hard here: one statement's autocommit acts on every other statement's
transaction; every server request may be refused half way through a method;
addresses of freed objects are reused; flags (`transactionPending`, `eof`,
`lastRowsetSize`, `parameterNeedData`, `isPrepared`) are set in one call and
read several calls later, after others moved the state they describe; the lock
of a connection lives and dies with the connection; texts are rewritten in
place while they are parsed.

The list of hazards, each with its line, is in `PROJECT.json`.

## Plan

Written, in this order (a component's MC module only extends it and gives model
values, symmetry or number ranges):

1. `IscTransaction` - one connection and its statements;
   `IscTransaction_proofs`.
2. `EnvShare` - several connections, the common transaction across them. It
   takes over `IscTransaction`'s connection, reduced to what another connection
   can tell: a statement is its execution. `EnvShare_proofs`.
3. `RowBuffer` - abstract: a growing sequence of rows with a read position.
   `StaticBuffer` - the block table, which implements it.
4. `StaticCursor` - the fetch orientations on top of that buffer, which it
   takes as a row count (by `ReadsRows` a row number is all that matters);
   `StaticCursor_proofs`, also about `StaticBuffer`.
5. `DataAtExec` - parameters supplied at execution; `DataAtExec_proofs`.
6. `EntryPoints`, `Guards` - the exported functions and the locks they take;
   `Guards_proofs`.
7. `Descriptors` - binding and moving data; `Descriptors_proofs`.
8. `Streams`, `GetData` - blobs and reading in pieces; `GetData_proofs`.
9. `ConvertTable`, `Numbers`, `Dates`, `ColumnTypes`, `Attributes`, `Values` -
   conversions, types of columns, attributes; `Values_proofs`.
10. `NativeSql`, `SqlText`, `TransactionText`, `Texts` - texts for the server.
11. `Announced`, `ConnectString`, `Settings` - connecting and announcing.
12. `Diagnostics`, `BulkAdd`, `UserEvents`, `Reports` - what is told to the
    application. `BulkAdd` composes the transactions with the diagnostics of
    two statements.

Left, most important first:

- `Descriptors` with arrays of rows and output parameters.
- The lists in which a connection keeps its statements and descriptors when it
  is freed (`OdbcConnection::~OdbcConnection`).
- Arrays of the server (`IscArray.cpp`), the only untouched component with an
  algorithm of its own.

## Modules and the code

Common to all models but `Guards`: **one ODBC call is one step.** The driver is
built with `DRIVER_LOCKED_LEVEL_CONNECT`, the default (`OdbcJdbc.h` 140), where
every statement's and connection's entry point but `SQLCancel` takes the
connection's lock (`GUARD_HSTMT`, `Main.h` 42-74), so calls on one connection
do not overlap, but for the pairs that `Guards!NoOtherRace` names (SQLEndTran
on the environment, SQLFreeConnect, calls that began before SQLConnect, and
`SAFETHREAD=N`). Calls on different connections may; they share state only in the common connection, whose methods take no
lock: `EnvShare` is a model of an application that does not call into two of
its members at once. A call is a chain of C++ methods each of which may throw;
so a method is an operator from a state ("world") to the set of states it may
leave, `Then` composes two of them and stops at an exception (`ret = "error"`),
and an action sets the variables to one member of the result. `Refused(request,
W)` adds the outcome where the server refuses `request`, if `Faults` names it.
`ret = "crash"` marks a NULL dereference, an exception nobody catches or a use
of freed memory: nothing follows it. The ODBC state checks that the driver
leaves to the driver manager (executing an unprepared statement, SQLPutData out
of turn) are guards. Definitions named `Bug...` are slips the properties have
to notice; nothing uses them in the specifications.

### IscTransaction

`tr[Conn]` is `IscConnection::transactionInfo`, `tr[s]` a statement's
`transactionLocal` with its `InfoTransaction`; `st[s]` holds what
`IscStatement` and `IscOdbcStatement` keep. `open` and `work` are the server's
side: active transactions, and those with uncommitted changes. Transaction
handles (`Tx`) are reused as soon as nothing names them, as addresses are. A
result set whose close was refused leaves its reference to the transaction
behind (`leaked`). Operators keep the names of the methods: `CommitAuto`,
`StartTransaction`, `DeleteResultSet`, `ReleaseStatement`, ... Commit and
rollback differ in what they call and in how they fail; both take the work out
of `work`. Statements are of five kinds: a select, DML, DDL, a procedure
without and with rows. Nodes are the named TPBs of `SET TRANSACTION ...` that
carry an autocommit mode.

Left out: scrollable cursors (`StaticCursor`) and bulk execution (`BulkAdd`),
array parameters' re-preparation, cursor names, catalog calls, and the common
connection (`shareConnected` is FALSE; `EnvShare` has it).

### EnvShare

`dbc[d]` is an `OdbcConnection` (allocated, its `IscConnection`, its autocommit
attribute), `listed` the environment's list that `SQLEndTran` walks, `hasShare`
whether `OdbcEnv::envShare` is set, `connections` and `shared` are `EnvShare`'s
members and handle, `isc[c]` an `IscConnection` object with the copy of the
handle. `IscConnection` objects are addresses and are reused after `delete`;
`isc[c].alive` is what makes a stale entry visible.

### EntryPoints and Guards

`EntryPoints` lists every exported function with its class: the guard it
declares (none, the library's, the environment's, the connection's) and its
role, that is what the method behind it does to connections and to the
environment's list. In `Guards` a call is three steps of its thread: `Enter`
evaluates the constructor's condition (`SafeConnectThread` locks only if
`connected` and `safeThread`), `Acquire` waits for the mutex, `Body` has the
effect, `Leave` is the destructor, which reads `connected` again. The mutex of
a connection is a member of its attachment, so `Disconnect` deletes it with its
owner inside, and locking through a closed connection is a NULL dereference
(`pc = "crash"`). `held` is what the call's guard object locked.

Calls of different threads overlap as the locks let them, SQLConnect under
running calls of the same handle included: a call that began before it has
locked nothing, and its destructor must release nothing although `connected` is
TRUE by then. `early` remembers
for the properties that a call began without the lock it would have taken on an
open connection. The only thing left to the application is `Allowed`: with
`Careful` it disconnects or frees a connection when the calls on it have
returned and makes none meanwhile. `Careful = FALSE`
takes that away: then a thread locks through a connection closed in between.
What the guards do not keep apart by the way they are built is `BuiltIn`, in the
terms of the code: SQLCancel takes none; SQLEndTran on the environment takes the
environment's and works on connections; SQLFreeConnect takes the connection's
and works on the environment's list; calls that began early or with
`SAFETHREAD=N` take none. `Level` is `DRIVER_LOCKED_LEVEL`.

### StaticCursor

`pos` and `place` are the result set's position (`activePosRowInSet`,
`statysPositionRow`), `eof` and `lastRowsetSize` fields of `OdbcStatement`,
`count` the number of rows that were loaded (`sqlDiagCursorRowCount`),
`enFetch` the fetch function used first; `size`, `maxRows`, `fetchRetData` and
`bookmark` are the attributes an application may change between fetches.
`result` is what the application sees of the last call: rows from `start`, how
many, and the return code. One action per ODBC function, one operator per
orientation. `loop` says that the application only calls SQLFetch from now on,
for the liveness property. `due` is history, told from the answers: the row that
a reader who goes forward has not been given yet. It is `Unknown`
after SQLSetPos, after a rowset that the row limit cut or that was not
retrieved, and where another call than NEXT and PRIOR left the rows: there the
code skips rows (see Observations).

### StaticBuffer and RowBuffer

`cursor` is `CDataStaticCursor`: the blocks, the block the iterator is in with
its bounds, the current row; `buffer` is the row buffer of `Sqlda` that rows
are copied from and to. The slots of a new block hold `Garbage`: memory the
code does not initialise. `RowBuffer` keeps the rows as a sequence and reads by
number; `StaticBuffer!Stored` is the refinement mapping. Left out: copies of
blob columns, and a server error while rows are loaded.

### DataAtExec

`rec[p]` is the parameter's descriptor record (`data_at_exec`,
`startedTransfer`, the data put so far and whether it is NULL),
`parameterNeedData` the field of the same name, `sqlda` the values the
statement executes with, `token` the parameter SQLParamData asked for, `given`
what the application sent, `sent` the rows the last call executed, `phase` the
driver manager's state S2/S8/S9/S10. `dangling` is `headBindOffsetPtr` left
pointing at a dead local variable. The application sets its indicators before
each SQLExecute (SQLPutData overwrites them) and sends NULL in one piece, as
ODBC asks. Left out: truncation, wide characters, output parameters of
procedures.

### Descriptors

A statement does not move data through the descriptors it is attached to but
through two lists of pairs of records (`bind[side]`); each record of an
application's descriptor remembers whether it is in a list (`prepared`, the
code's `isPrepared`), and an explicit descriptor shared by statements has one
such mark for all. `app[d]` is an implicit or explicit descriptor, `st[s]` a
statement with its two implementation descriptors (`ird`, `ipd`), its lists,
the prepared and the open shape. `moved` is what the last fetch or execution
moved: pairs of a column, its SQL type and the C type it is converted to.
`clean[side]` is history: since the last prepare nothing but the statement's
own calls touched its descriptor. `TransfersAsBound` is promised under it; what
happens otherwise is under Observations. `MaxDirect` bounds the calls that go
round the statement. Left out: arrays of rows, offsets, output parameters.

### Streams and GetData

`Streams` is the data structure below every blob: a list of segments the last
of which may have room, with a remembered place of reading. A byte is any
value, a hex digit half of one. `GetData` follows one column: its record
(`offset` is `dataOffset`, shared by all kinds of reads), its blob, the
converted copy wide text is read from; the four ways a blob comes to be written
(bound, at execution, as text, as hex digits); SQLGetData, bound columns, the
next row, SQLSetPos, SQL_UNBIND, re-execution, and a server that fails while a
blob is read. `got` is what the application has put together in the present
row. The columns an instance has are combinations of a source, a kind of cursor
and a target bound.

### Values and what extends it

The pure algorithms and three small protocols are run by one machine: `item` is
a case, its `kind` says which algorithm, and a step either computes the result
or makes the next call of the case. Kinds do not interact. The modules form a
chain: `Values` (numbers, dates, columns, cursors' attributes and descriptors'
fields), `Texts`, `Settings`, `Reports`; each adds kinds, `Reports!ReportSpec`
has all of them.

- `ConvertTable` is `getAdressFunction`: from two record types to a family of
  conversion; `Numbers` the families: a cast in the target's width, through a
  double, through a 64-bit integer, out of and into a SQL_NUMERIC_STRUCT, to
  text and back by the three parsers of CHAR, VARCHAR and multi-byte VARCHAR.
  TINYINT and SMALLINT keep their width, wider types and doubles are exact. `Dates` the calendar arithmetic and the texts of dates and times,
  all three copies of the algorithm.
- `ColumnTypes` has the answers about a column's type from the system tables
  and from the message's metadata.
- `Attributes` has cursor type, concurrency, scrollability and sensitivity,
  which move each other, and the fields of records and headers.
- `NativeSql` rewrites a text as a sequence of tokens, in the code's order
  (escapes from the last to the first). `SqlText` is the reference definition:
  trees with two readings, the text an application writes and the one the
  server is meant to get.
- `TransactionText` parses the clauses of SET and DECLARE TRANSACTION and keeps
  them per connection, statement and name; names are found by halving in the
  sorted list of `Mlist.h`.
- `Announced` is SQLGetInfo's table and the methods behind its entries, and
  SQLGetFunctions. `ConnectString` the three ways to connect, with data sources
  and files.
- `Diagnostics` has the records of a handle, `BulkAdd` SQL_ADD with the
  transactions of `IscTransaction` around it, `UserEvents` the event block, its
  counts byte by byte, and the three attributes.

`Reports` counts the calls of a case against `CallBound`, `BulkBound` and
`EventBound`, `Settings` against `BrowseBound` and `SessionBound`, `Values`
against `SetBound`.

## Runs

| Run | Instance | What it shows |
|---|---|---|
| `IscTransaction_shared` | 2 statements of all five kinds, 2 transactions, refused execute, commit, commitRetaining and closeCursor; 95,797 states | `CursorTxOpen`: a cursor that can still be fetched from has an active transaction, whatever the other statement ends. `ManualWorkKept`: in manual mode only the calls that say so end work. `AutoCommitEnds`: a successful execution in autocommit mode leaves none behind. `HandlesOpen`: handles agree with the server. |
| `IscTransaction_locals` | 2 statements (select, DML) that change between the connection's and their own transactions, one node; 468,793 states | `NothingOrphaned`: only dropping a statement loses an active transaction. `TypeOK`. |
| `IscTransaction_procedure` | 1 statement, a procedure | violated, see Findings |
| `EnvShare_two` | 2 connections, 2 objects, 2 transactions, refused connect, start, execute, commit, rollback; 117,477 states | `ShareList`: the list names live members, once, and every connection that works in the common transaction is in it. `SharedEndsAsOne`: the two-phase transaction is ended for all its members or none. `EnvEndsListed`: SQLEndTran on the environment ends the work of each listed connection. `HandlesOpen`. |
| `Guards_connect` | 3 threads, 1 connection, every class of function, `DRIVER_LOCKED_LEVEL_CONNECT`, `Careful`; 45,585 states | `NoOtherRace`: of all exported functions, called at any time, only the pairs of `BuiltIn` are inside at once on the same connection or on the list. `LocksBalanced`: a mutex is held exactly by the call whose destructor will release it, although SQLConnect sets `connected` under the guards of calls that began before it. `CallsReturn`: no call waits for ever. Deadlock is checked. |
| `StaticCursor_scroll` | 0-5 rows, rowsets of 1-3, limit 0 or 2, all orientations with offsets to beyond both ends, no bookmark or one; 165,072 states | `EveryRowOnce`: a reader that goes forward is given every row once and in order, then SQL_NO_DATA, whatever the rowset size does. `PriorFromEnd`: when the rows have run out, PRIOR returns the last rowset (what it does with a single row, and after a NEXT that `eof` stopped, is in the property). `RowsInBuffer`: no row outside the buffer is read. `FetchLoopEnds`: from wherever the cursor stands a loop of SQLFetch comes to SQL_NO_DATA although the rowset size changes in it. |
| `StaticBuffer_rows` | 6 rows of 2 values, blocks of 2; 1,880 states | `ReadsRows`: the block table implements `RowBuffer`. `IteratorInBlock`: the invariant behind it. |
| `DataAtExec_answer` | 3 parameters, 1 of them a blob, up to 2 pieces of 2 chunks, arrays of 1-2 rows, failing bind, conversion and execution, cancel before data; 182,735 states | `AskedInOrder`: each parameter is asked for once, in order. `ExecutedAsGiven`: the values of an execution are those the application gave for it. `LoopEnds`: the questions end. |
| `Descriptors_bind` | 1 statement, its descriptors and an explicit one, a query, an update and a catalog result, 2 direct calls; 310,033 states | `TransfersAsBound`: a fetch or execution moves exactly what is bound, once, in the present types. `ColumnsAgree`: counts and types of the implementation descriptors are the present statement's. |
| `GetData_pieces` | every source, cursor and target, 2 rows (long, short, empty, NULL), pieces of 1, 3, 6, buffers of 0-12; 36,535 states | `PiecesInOrder`: pieces make up the value of this row. `EndTold`: SQL_NO_DATA and SQL_SUCCESS mean that all was given. `ReadsMove`: every call with room brings something. `WrittenAsSent`: the server's blob is what was sent, in whatever pieces. |
| `GetData_static` | an unbound blob in a static cursor | violated, see Findings |
| `Values_convert` | the cases of `MCValues` and of the modules it extends; 427,545 states | `NumberKept`, `TextReadsBack`, `DatesKept`: conversions and back. `TypesAgree`: five answers about one column. `AttributesKept`: settings in any order. `TextAsMeant`: `NativeSql` of a tree's text is the text meant. `TransactionAsSaid`, `InfoTrue`, `AsConnected`: parameters, announcements, connection options. `ErrorsTold`: records told in order, once. `RowsAsOne`: SQL_ADD commits all rows or none. `EventsCounted`: no post lost or counted twice. |

### Bounds

- *Statements, connections: 2.* Every interaction is between one actor and "the
  others": `commitAuto` loops over the other statements without regard to their
  order, `EnvShare` singles out the first member only. The proofs about both
  modules are for any number.
- *Transactions: 2.* The connection's and one local (or one per connection, or
  the common one and one more). A start that finds no free handle is disabled,
  so with two locals open the third start is not explored by TLC; it is by the
  proof.
- *`MaxShare` 3, more than the number of connections*, so that a member's slot
  is never missing; the full list is under Observations.
- *3 threads*: one that holds a lock, one that waits for it, one that connects
  or disconnects. The proof is for any number, any connections, any level.
- *Rows 0-5, rowsets 1-3*: empty, shorter than a rowset, a multiple of it and
  not; every case of `sqlFetchScroll*` compares numbers that differ by at most
  two rowsets. `Offsets` (in the MC module) reach past both ends. The proofs
  are for all sizes.
- *Blocks of 2, 6 rows*: three blocks, so a seek forward and backward, over one
  or two boundaries, and the slot after a full block all occur. Proved for all.
- *3 parameters, 2 pieces*: a parameter before, at and after the one asked for;
  a first and a following piece.
- *One statement, one column and two descriptors, 2 direct calls*: the lists
  and marks of different columns do not touch each other; a statement that
  shares the explicit descriptor is what makes `clean` false, and then nothing
  is promised. Two direct calls are an attachment and one change made through
  it. The proofs are for any statements, columns, descriptors and calls.
- *Blob of two segments, pieces and buffers of odd and even lengths*: a piece
  that ends at, before and after a segment; a buffer below, at and above one
  character, one segment, the whole value.
- *`MCNumbers`, `MCStamps`, `MCStarts`*: around zero, the limits of a byte,
  rounding, first and last moments of a day; 800 days from the first of January
  of years that are leap years, century years and neither. `MCDeclared`: every
  type, texts in character sets of one to four bytes, numbers by storage width.
- *Texts*: escapes up to three deep, next to literals and quoted names that
  contain an escape's own punctuation; four clauses of a transaction in seven
  orders, with up to three groups of tables; strings of up to three options. A
  parser that rewrites in place fails at the border of two constructs, which
  all occur.
- *`CallBound`, `BulkBound` 4*: an insert, a change of mode, an insert, an end.
  *`EventBound` 9*: two blocks with posts before, between and after them. Posts
  of 1, 100 and 255 carry a count over a byte.

`CHECK_DEADLOCK FALSE` where a model may stop: after disconnecting or a crash
(`IscTransaction`, `EnvShare`), after an undefined execution (`DataAtExec`),
with an empty result set (`StaticBuffer`), when no direct call is left and the
handle is freed (`Descriptors`), after the last row or a crash (`GetData`),
when a case is done (`Values`).

### Fairness

The driver has no scheduler of its own: every step is a call the application
makes, and fairness only says that the application goes on with the loop in
question. `StaticCursor!FairSpec` has `WF_vars(Forward)`: a `while
(SQLFetch(...))` loop. `DataAtExec!FairSpec` has `WF_vars(ParamData)` and
`WF_vars(PutData)`: an application that answers `SQL_NEED_DATA` as the loops in
`tests/test_data_at_execution.cpp` do. `Guards!FairSpec` has weak fairness of a
call's body and destructor (a thread that runs goes on, and the server answers)
and strong fairness of `Acquire`: the mutex, which comes and goes, is not kept
from one waiter for ever. No fairness makes a thread call. Nothing else is
assumed fair.

## Findings

Each is a run whose property states what a test says and which TLC violates;
the trace replays as a sequence of ODBC calls.

- **Procedure not committed** (`ProcedureCommitted`,
  `IscDbc/IscStatement.cpp:734`). `executeProcedure` returns without the
  autocommit at the end of `execute`; a procedure without a result set stays
  uncommitted in autocommit mode, although `tests/test_connect_options.cpp:143`
  tests that "autocommit ON commits every statement automatically".
- **Blob of the row before** (`StaticPieces`, `IscDbc/Stream.cpp:99`).
  `Stream::attach` gives a blob the segments of the next row and keeps the
  place where the row before was read last, which `getSegment` prefers: in a
  static cursor SQLGetData continues in the old row's bytes.
  `tests/test_blob.cpp:66` ("Read back via GetData in chunks") expects the
  row's own.

### Observations

Behaviour the code has and no run states the opposite of: no document of the
repository says what should happen, or a property would restate one line, or
the models leave the case out (then the properties say so). Paths without a
directory are in `src/` or `src/IscDbc/`.

*Transactions.*

- Autocommit switched on does not commit when the transaction was started by a
  prepare before it was switched off: `transactionPending` is only set when a
  transaction starts in manual mode (`IscConnection.cpp:2066`).
- An autocommit or rollback by one statement also ends the local transactions
  of other statements that have no active cursor (`IscConnection.cpp:2198`).
- A refused rollback leaves `transactionPending` set with its transaction; the
  runs therefore refuse rollbacks in `EnvShare` only, and `HandlesOpen` under a
  refused rollback in `IscTransaction` rests on the proof.
- The end of the common transaction clears the pending flag of its first member
  only, whoever had it, so that another's SQLDisconnect is refused with 25000
  (`EnvShare.cpp:149`); the other members keep its address and use it for their
  next request (`IscConnection.cpp:280`). It is also started for a connection
  in autocommit mode (282).
- With the member list full, joining again clears `shareConnected` of a member
  that stays in the list (`EnvShare.cpp:63`).
- A failed connect sets `env->envShare` to NULL for the whole environment
  (`OdbcConnection.cpp:1651`); a later SQLEndTran on it crashes.
- A refused commit in SQLDisconnect leaves the `IscConnection` allocated and
  the handle marked as disconnected (`OdbcConnection.cpp:1135`). SQLDisconnect
  with a member's common transaction open leaves its end to the server's
  detach.
- Transaction texts: after LOCK TIMEOUT *n* and NAME *x* USING *y* the blank is
  not skipped and all that follows is ignored; READ COMMITTED NO WAIT NO
  RECORD_VERSION is refused; names with and without USING mixed lose entries,
  since the comparison looks at USING only if the key has one
  (`ListParamTransaction.h:110`); DECLARE TRANSACTION NAME drops the
  statement's own parameters; REPEATABLE READ gives consistency and
  SERIALIZABLE concurrency, the reverse of SQL_ATTR_TXN_ISOLATION.

*Threads.*

- A guard reads `connected` and then goes through the attachment to lock;
  SQLDisconnect, under the environment's lock (`Main.cpp:281`), may delete the
  attachment in between: one thread's disconnect makes another's call go through
  a NULL pointer (`OdbcConnection.h:173`), and a call that has the lock has its
  mutex deleted while it is inside. With `Careful = FALSE` TLC finds both traces:
  `LocksBalanced` fails.
- SQLEndTran on an environment takes the environment's lock only and ends the
  transactions of connections that other threads work on under theirs
  (`Main.cpp:1058`); `README.md:94` calls SAFETHREAD=Y "thread-safe connection
  handling".
- Calls that began before SQLConnect returned run without a lock beside those
  that began after it. SQLFreeConnect changes the environment's list under the
  lock of its connection, or none (`Main.cpp:347`).

*Cursors and execution.*

- Only PRIOR resets `lastRowsetSize`: after ABSOLUTE 0, RELATIVE or BOOKMARK
  before the start, NEXT skips a rowset (`OdbcStatement.cpp:1024`). RELATIVE and
  BOOKMARK beyond the end keep it too. After SQLSetPos, which moves the row
  (1306), and after a rowset shorter than asked for because of SQL_ATTR_MAX_ROWS
  or SQL_RD_OFF, NEXT goes on from the row it stands on plus the full size, so
  rows are skipped or read again. `EveryRowOnce` ends at these.
- A result of one row: from after the end PRIOR returns SQL_NO_DATA, since the
  test `rowNumber > 0` takes the only row for the place before the first (1041).
- When the last row came alone in a larger rowset, the next NEXT returns
  SQL_NO_DATA without leaving it (`eof`, 1021), and PRIOR then returns the rows
  before it. `eof` stays when PRIOR goes before the start: a single row that came
  so is not returned by NEXT again.
- RELATIVE that reaches before the start by no more than a rowset posts 01S06
  and sets the row to 0, which the next assignment overwrites: no rowset is
  returned (949). ABSOLUTE -1 returns the last rowset and not the last row
  (985). SQLSetPos counts its row from the start of the result set (1306).
- `sqlCancel` keeps `startedTransfer`: the next SQLExecute takes the cancelled,
  partial data without asking (2903; `tests/test_data_at_execution.cpp:255`
  expects "Statement should be reusable after cancel").
- With an array of parameters SQLParamData restarts the execution at row 0, so
  its last row is never reached (2999); hence `ExecutedAsGiven` and `LoopEnds`
  leave out arrays with data at execution. An exception in `executeStatement`
  leaves `headBindOffsetPtr` pointing to a dead local variable (3016).

*Bulk insert, diagnostics, events.*

- Rows refused by a conversion and a failed prepare of the INSERT return
  SQL_ERROR with no record on the application's statement
  (`OdbcStatement.cpp:1414`, 1427); after the latter the next SQL_ADD executes
  an unprepared statement. Of several errors that are moved only the first
  survives, since `postError` clears the link the loop follows
  (`OdbcObject.cpp:229`). Moving the errors also sets the row count of the
  static cursor to 0 (1335, 1438).
- After an insert in manual mode the bulk statement stays in the connection's
  transaction, and in autocommit mode each row is then committed on its own
  (1421).
- SQLSetPos, SQLPutData and SQLCancel do not clear errors, so an old
  SUCCESS_WITH_INFO is returned again. SQL_DIAG_ROW_COUNT is never set, and a
  cut text's length is that of the cut (`tests/test_errors.cpp:222` and
  following are skipped tests that say otherwise). SQLGetDiagField of a number
  with a buffer length of 0 gives SQL_NO_DATA.
- `vaxInteger` extends the sign of a byte: an event count whose low byte is 128
  or more is reported 256 too small (`IscUserEvents.cpp:134`). `eventCounts`
  advances by `sizeof(unsigned long)`, so where that is 8 the second event on
  is read from the wrong place, past the block at the end (163).
- A second SQL_FB_INIT_EVENTS is refused but resets the counts and returns
  SUCCESS_WITH_INFO. After SQLDisconnect the events' pointers dangle:
  SQL_FB_REQUEUE_EVENTS uses them and SQLFreeHandle releases them a second time
  (`OdbcConnection.cpp:342`, 1143).

*Descriptors.*

- Switching the ARD in mid-cursor keeps the old list, and an attached
  descriptor with prepared records is never bound again
  (`OdbcStatement.cpp:3583`, 607); a reset to NULL returns HY017 and takes
  effect (3585); the mark is shared between statements; a TYPE set after
  binding keeps the old conversion; a DATA_PTR set on a new column is not seen
  before the next result; COUNT only hides records
  (`tests/test_descriptor.cpp:351`).
- SQLSetDescField on an IRD grows its count before it is refused
  (`OdbcDesc.cpp:869`); a SQLBindCol refused with 07009 leaves the record set
  (694); SQLSetDescRec never marks its record defined (1238); SQL_C_DEFAULT is
  replaced for good (`OdbcStatement.cpp:2791`).
- The statement's destructor deletes the explicit descriptor attached to it and
  leaves the implicit one to the connection (231). SQLCopyDesc leaves entries
  of lists dangling, empties a descriptor copied to itself (`OdbcDesc.cpp:194`)
  and reads past the records if SQL_DESC_COUNT was raised (213). A copied
  record has neither its source's name nor its type's name, though an IPD can
  be read both (`DescRecord.cpp:142`); `AttributesKept` leaves these out
  (`Adjusted`). That the second is missing was found by the attempt to prove it.
- SQLGetDescRec and SQLGetDescField on the IRD of an unbound column other than
  the last give defaults (97, 161; `tests/test_descrec.cpp:4`).
- SQL_ATTR_ROWS_FETCHED_PTR and ROW_STATUS_PTR set before a prepare are lost
  (`OdbcDesc.cpp:86`). SENSITIVITY leaves `scrollable` unset, so that a static
  cursor is read forward only. Several attributes can be set and not read.

*Columns and conversions.*

- SQLProcedureColumns and SQLSpecialColumns never read the character set; in
  character sets 5-8 SQLColumns counts bytes where SQLDescribeCol counts
  characters; NUMERIC(4,*s*) has a display size of 6 while its SMALLINT may
  hold five digits, BIGINT 19 of 20; SQLGetTypeInfo, which rewrites a static
  table at each call (`TypesResultSet.cpp:137`), gives other sizes and radices
  for DOUBLE and TINYINT; SQL_DESC_OCTET_LENGTH of SQLColAttribute is the
  precision; an SQLLEN is written as four bytes on 64-bit systems other than
  Windows.
- A bound blob of a forward cursor then read with SQLGetData gives nothing
  (`IscBlob.cpp:417`); a blob that failed to be fetched repeats its prefix
  (147); SQL_UNBIND in the middle of wide text loses the place
  (`OdbcStatement.cpp:1628`); hex digits need buffers of even length
  (`OdbcConvert.cpp:2851`); `convStringToBlob` decodes in the application's
  memory (`IscBlob.cpp:279`).
- TINYINT is read as unsigned (`OdbcConvert.cpp:1698`), a scaled SMALLINT as
  SQL_C_SBIGINT is not scaled (262), a number longer than its buffer loses its
  first digits (1358), the least integer is negated (1332), the fraction of a
  time with points is cut (4314), a cut text posts no 01004 (1996).
- The wide text of a number is limited by the buffer's length in bytes, counted
  as characters (1387, 1439), and each then takes a wide character: a text longer
  than half of the buffer is written beyond its end. A text, narrow or wide, that
  fills the buffer has its terminator behind it (1364, 1445).
- The number in a VARCHAR is parsed to a length that is read from the text's own
  first two characters (3879-3880), so that what lies behind a short text counts;
  that in one of a multi-byte character set also by every second character only
  (3161-3163): "125" is read as 15. SQL_DESC_SCALE of the application's buffer
  divides a number read from text (3130-3136). `TextReadsBack` says where it
  stops.

*Texts.*

- A bracket inside the bracket of a union's first part is not counted
  (`IscConnection.cpp:1377`); a statement that begins with `{` is read one byte
  before its buffer (1790); `{interval` and `{guid` are looked for at the brace
  and never found; a blank in `{ d'...'}` loses the quote; CONVERT with a comma
  in its value and calls with a comma in a quoted name stay as they were; the
  TINYINT replacement of CREATE and ALTER never takes effect (1500); keywords
  before schemas are found inside words (1131); the table of characters is
  indexed with a signed char.
- In calls a trailing missing parameter, one after a quoted literal and a blank
  before a comma are not handled; LENGTH and DBNAME are announced but have no
  native form (`InfoItems.h:257`). DAYOFWEEK and CONCAT are not put in
  brackets.
- The table of functions is one object of all connections, used without a lock
  (`SupportFunctions.cpp:146`); SQLNativeSql of SET TRANSACTION changes the
  connection.

*Connecting and announcing.*

- `EnableWireCompression=Y` in the string does not switch it on and hides the
  data source's (`OdbcConnection.cpp:675`); SAFETHREAD, SENSITIVE and
  AUTOQUOTED of a file are read from the data source; a file that names a data
  source is not read again from the returned string; the saved empty password
  is the encoded key, and a plain one of more than 40 characters is taken for
  encoded; of contrary texts the last counts, of contrary switches the one away
  from the default.
- SQL_ATTR_ACCESS_MODE is stored only; the isolation level is not checked;
  LOGIN_TIMEOUT cannot be read; a second connect on the handle keeps the old
  options.
- Names have 31 characters by SQL_MAX_IDENTIFIER_LEN (`InfoItems.h:219`) and 63
  by others; a forward-only cursor announces ABSOLUTE and RELATIVE, which
  SQLFetchScroll refuses (HY106, `OdbcStatement.cpp:1233`); four exported
  functions are not announced; SQLGetFunctions does not check its argument
  (`OdbcConnection.cpp:1105`).

## Proofs

From the constants' named assumptions alone, but for the hypotheses named
below; `Guards` with `Careful`. All are proofs of safety by an inductive
invariant that TLC checked first, stronger than the properties because those
say nothing of the middle of a call, or of what the next call relies on.

- **`IscTransaction_proofs`**, for every `Stmt`, `Tx`, `Kinds`, `Nodes` and
  `Faults`. `HandlesAlwaysOpen` - `Spec => []HandlesOpen`: every handle a
  connection or a statement holds is an active transaction, no two hold the
  same one, and work belongs to active transactions. `CursorsKeepTransaction` -
  `[]CursorTxOpen`: no call ends the transaction under a cursor that can still
  be fetched from. `NothingLost` - `NothingOrphaned`: no call but dropping a
  statement leaves an active transaction nobody holds. `WorkKept` -
  `ManualWorkKept`: only the application's own ends end manual work.
  `AutoCommitEndsWork` - `AutoCommitEnds`: a successful execution in autocommit
  mode leaves none. `TypeCorrect`. A call is a composition of operators on
  worlds, so the invariant is one of worlds: `Good(w, c)` holds in the middle
  of the call `c`, and every operator has a lemma that it takes good worlds to
  good ones, returning or throwing. `c` is a record of what the theorems ask of
  the call as a whole: which transactions nobody held when it began, whether it
  has manual work to keep, which statement it works on (whose own cursor may be
  broken in the middle). Between calls (`IInv`) a statement with an open result
  set is an active cursor of the transaction its owner holds: the code decides
  between committing and commit retaining by `IsActiveCursor`, not by the
  result set, so `CursorTxOpen` alone is not inductive. And a statement with a
  handle that uses a transaction of its own has a TPB for it (`LocalTpb`), so
  that the commit that ends its work does not also hand it back to the
  connection's transaction, where a procedure may have left work: this makes
  `AutoCommitEnds` true of local transactions too, which no run has (TLC agrees
  with both on instances with local TPBs of either mode). Only
  `CursorsKeepTransaction` has a hypothesis, that the server refuses no
  retaining rollback: where it does, the code falls back on a rollback that
  ends the transaction, whatever its cursors
  (`IscConnection::rollbackRetaining`, `src/IscDbc/IscConnection.cpp:2250`; with
  `rollbackRetaining` in `Faults` TLC finds the trace: prepare, execute, and an
  end of the transaction whose rollback is refused).
- **`EnvShare_proofs`**, for any handles, objects, transactions and refusals.
  `HandlesAreOpen` - `[]HandlesOpen`; `SharedEnds` - `SharedEndsAsOne`;
  `EnvEnds` - `EnvEndsListed`; `TypeCorrect`. The invariant adds that every
  connected handle has a live object of its own, so that closing a connection
  frees nobody else's. `ShareListKept` - `[]ShareList` as long as no connection
  joins a full list (`RoomToJoin`), and `ShareListOfFew`, without a condition
  where `MaxShare` exceeds the number of connections: this needs `Linked`, that
  the list and the connections' pointers agree both ways, and a counting
  argument over the list. The hypothesis is what the code needs: a join that
  finds the list full clears the caller's flag though it may be a member.
  `EndEach`, SQLEndTran's walk over the list, is written as the set of its
  outcomes.
- **`DataAtExec_proofs`**, for any parameters, blobs, pieces and failures.
  `ValuesAsGiven` - `[]ExecutedAsGiven`: a statement is executed with what was
  sent for each parameter in this execution and the bound values of the others.
  `QuestionsInOrder` - `AskedInOrder`. The invariant relates each parameter's
  record to what the application sent for it: before the one asked for all have
  their values, after it none has, and that one is where the phase of the call
  says. Two hypotheses: `CancelIn` has at most `"need"`, since SQLCancel in
  the middle of a value leaves `startedTransfer` set (`OdbcStatement.cpp:2999`,
  a hazard of the code: the properties fail there), and one row of parameters:
  the loop over an array is a fold.
- **`Descriptors_proofs`**, for any statements, explicit descriptors, types,
  texts, number of columns and of direct calls. `MovedAsBound` -
  `[]TransfersAsBound`, `DescribedAsPrepared` - `[]ColumnsAgree`,
  `TypeCorrect`. What a fetch moves depends on what every call before did to
  the list, the marks and the conversions. The invariant says of a side only
  its statement has touched that nothing is in the list that the attached
  descriptor does not ask for, and that what it asks for is in the list with
  the present types or waits for the look the next transfer begins with
  (`SideOk`); and of every statement that its implementation descriptors speak
  of the present columns or say `unknown` (`Agree`). Every operation has a
  lemma of what it changes and a `Quiet` fact that the sides it does not name
  keep what they had or are given up by the ghost; `QuietTwice` chains these
  along a call and `QuietSound` carries them to the other statements, so that
  what is left for each call is its own statement. The attempt found the ghost
  too weak: `SetDescFieldType` on a descriptor two statements share spoiled
  none of them while the record was not in a list, though one that is fetching
  looks at no record again. The model's `late` has it now; the runs had one
  statement.
- **`StaticCursor_proofs`**. `RowsStayInBuffer` - `Spec =>
  []RowsInBuffer`, `RowsOnce` - `Spec => EveryRowOnce` and `PriorComesBack` -
  `Spec => PriorFromEnd`, for results, rowsets, limits, offsets and bookmarks of
  any size. The invariant adds to `RowsInBuffer` the types the arithmetic
  needs and `Positions`: after the end the last row is the current one, and
  rows that SQLSetPos may use exist only while the cursor is on a row. Without
  the first, PRIOR from the end would not be the last rowset. For `RowsOnce` and
  `PriorComesBack` `HInv` relates what the answers promised to what the code
  kept from earlier calls: if a row is due, `pos + lastRowsetSize` is that row
  where NEXT reads it, and where it does not because of `eof`, no row is left
  (`Ahead`); and NEXT says SQL_NO_DATA on the last row only (`EndAtLast`). All orientations
  end in `FetchRowset`, so there is one lemma about it (`RowsetInv`), and per
  orientation one that says where it may start.
- The same module, about **`StaticBuffer`**. `BufferPlaced` - `BufferSpec =>
  []IteratorInBlock`, for every block size and row count. Not inductive alone:
  the strengthening says that the iterator and the bounds are those of the
  block pointed to (`Placed`), that the blocks have room for all rows
  (`Capacity`), and that while rows are loaded the iterator stands on the slot
  to be written (`Writing`). `BufferImplementsRows` - `BufferSpec => ReadsRows`:
  the initial state maps to `RowBuffer`'s, and each step to one of its steps,
  because under the same invariant the slot the iterator is at is `RowAt` of the
  current row. The arithmetic of `\div` and `%` at a block's boundary is in
  lemmas of its own.
- **`Guards_proofs`**. `CallsApart` - `Careful` implies `Spec => []NoOtherRace`
  and `GuardsBalanced` - `Careful` implies `Spec => []LocksBalanced`, for any
  threads and connections and for all three levels. The hypothesis is needed:
  without it a thread locks through a closed connection (Observations). It says nothing of SQLConnect,
  which may be called under running calls of the same handle. The inductive
  invariant: a lock that a call holds fits its class and the level, and one it
  waits for or took is of a connection still open; `owner` and `held` agree both
  ways, so that a destructor that finds `connected` changed releases nothing it
  did not take; and of two calls under way on a handle neither closes it.
  That the exported functions are of eleven classes is proved
  table by table.

- **`GetData_proofs`**, for any columns, tables, data, rooms and lengths of
  pieces. `SentKept` - `[]WrittenAsSent`: whichever of the four ways a blob is
  written, the server has what was sent. `InOrder` - `[]PiecesInOrder`,
  `ToldEnd` - `[]EndTold`, `Moves` - `[]ReadsMove`: the pieces of a value are
  its beginning, the application is told when it has all of it, and a loop with
  room at every call gets there. A blob is a list of segments, so everything
  rests on folds over lists of any length. The library's induction theorems
  take an operator as parameter; `Induction` here takes a set and follows from
  `Nat` being well founded, and `FoldExists` gives the values of a fold as a
  function. With these: `PutSegmentAdds` (what is put is appended, whether the
  open segment has room, has some or is full), `GetSegmentExact` (what is read
  is what lies between the two places, if the place that was kept is not beyond
  the first), `FlattenFromHex` (segments read as digits one by one are the
  digits of the whole, if each segment has whole bytes - `Packed`, which is why
  `writeStreamHexToBlob` is right). `AdvanceIs` says of the record what a call
  leaves, `ConvertIs` of every conversion that it gives the piece from the
  offset on. The invariant of writing is `Sending`: the stream and what is still
  to come make up what is sent. That of reading is `Inv`: types and which row
  the record speaks of (`RowOK`), what the application has so far (`Given`), and
  `Kept`, which the properties do not mention and on which the next call relies:
  the blob that is held is this row's, the copy wide text is read from is this
  value's, and the place kept in the stream is not beyond the offset.
- **`Values_proofs`**, about `Values`: conversions and settings without other
  actors. The constants are what the program can be given (`ValueConstants`): any
  integers, scales 0 to 3, points in time between the server's first and last,
  calendar dates, fields the driver knows. The theorems are about `Values!Spec`;
  `ReportSpec` adds kinds of cases of which the properties do not speak.
  `NumbersKept` - `[]NumberKept`. The invariant says that a case is what
  `Convert` makes of the number, the types and scales it was started with. The
  conversions are proved by families (whole to whole, by scale, floating,
  numeric structures, read forward and backward); all rest on `Quotient`, C's
  division towards zero, being less than a unit from the exact value
  (`QuotientIs`) and on `Cast` leaving alone what fits (`CastFits`). The
  property's conditions are the conversions that do keep a number; those that
  do not are under Observations.
  `DatesAreKept` - `[]DatesKept`. Both directions of the day number count in
  years that begin in March. `DecodeEncode` and `EncodeDecode`: each undoes the
  other, for every integer taken as a day number and every date of the calendar.
  `AfterEncode` and `YearDayAfter`: the day after a date has the next number and
  the next day of the year, so a walk of any length (`DayInv`) never departs
  from the calendar. A point in time keeps its parts through the structures;
  its text has one of two lengths, so that every form the text comes in (bare,
  `{ts '...'}`, DATE, an element of an array) is cut at known places and read
  back (`StampInv`).
  `AttributesAreKept` - `[]AttributesKept`, for any set of fields and after any
  number of settings, prepares and executions (`SetBound`). `CursorKept` is what the four
  attributes of a cursor say of each other whatever order they were set in. For
  the fields the invariant is the statement's types; the property compares what
  can be read before and after one call, so for each call there is a lemma of
  what it answers and what it leaves of a descriptor: `SetFieldIs`, `SetRecIs`,
  `SetAttributeIs`, `CopyIs`.

The proofs found that TLC and the prover read a `CASE` with overlapping guards
differently: TLC takes the first that holds, the language any of them. Where a
proof is about one, guards that can hold together are `IF` chains in the code's
order. For the same reason a function is changed at one place by `EXCEPT` or a
constructor in a module with proofs, not by `@@`.

Only model-checked:

- liveness (`FetchLoopEnds`, `LoopEnds`, `CallsReturn`): fairness and ENABLED
  are beyond the prover;
- `TextReadsBack`: the text of a number is made and read by loops over its
  figures, and the proof would be one about the decimal digits of any number;
- `TypesAgree`: a comparison of five tables over the declared columns, which a
  run over these columns covers entry by entry;
- `TextAsMeant`, `TransactionAsSaid`, `InfoTrue`, `AsConnected`, `ErrorsTold`,
  `RowsAsOne`, `EventsCounted`: their modules use recursive operators, and the
  prover has no arithmetic in a module that does.

## Not modelled

- *Arrays* (`IscArray.cpp`): the text form of array values and their copies in
  the row buffer.
- *`IscPreparedStatement`, `IscCallableStatement`, `Parameters`*: parameters
  stored for the catalog's queries, around the `IscStatement` that
  `IscTransaction` models.
- *Services*: requests for backup, restore and users; input and output only.
- *Setup and dialogs, DTC enlistment*: Windows user interface and COM objects
  called by an external coordinator.
- *Environments, and the lists a connection keeps of its statements and
  descriptors.* Connections with their environment's list are in `EnvShare`,
  statements and descriptors in `Descriptors`.
- *Words*: names, messages, formats, the queries on the system tables,
  characters of multi-byte sets. Tokens stand for them.

`PROJECT.json` says for each component what is left out. Each algorithm and
protocol above is modelled by itself; the composed ones are `BulkAdd`
(transactions and diagnostics), `EnvShare` (connections) and `StaticBuffer`
below `StaticCursor`.
