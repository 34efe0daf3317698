------------------------------- MODULE Reports -------------------------------
(***************************************************************************)
(* What an application is told of calls that fail or warn, one call after  *)
(* the other on one statement, rows inserted in bulk among them.           *)
(***************************************************************************)
EXTENDS Settings

B == INSTANCE BulkAdd
U == INSTANCE UserEvents

\* Codes by their names, with the states they mean ("": none of their own).
OfServer ==
  [isc_deadlock |-> <<335544336, "40001">>, isc_no_dup |-> <<335544349, "23000">>, isc_unavailable |-> <<335544375, "08001">>,
   isc_connect_reject |-> <<335544421, "08004">>, isc_foreign_key |-> <<335544466, "23000">>, isc_login |-> <<335544472, "28000">>,
   isc_check_constraint |-> <<335544558, "23000">>, isc_dsql_field_err |-> <<335544578, "42S22">>,
   isc_dsql_relation_err |-> <<335544580, "42S02">>, isc_conn_lost |-> <<335544648, "08S01">>,
   isc_unique_key_violation |-> <<335544665, "23000">>, isc_network_error |-> <<335544721, "08001">>,
   isc_net_read_err |-> <<335544726, "08S01">>, isc_cancelled |-> <<335544794, "HY008">>,
   isc_dsql_error |-> <<335544569, "">>, isc_numeric_out_of_range |-> <<335544779, "">>, none |-> <<0, "">>]
OfSql ==
  [syntax |-> <<-1, "42000">>, table |-> <<-204, "42S02">>, conflict |-> <<-913, "40001">>, token |-> <<-104, "">>,
   unknown |-> <<-999, "">>, none |-> <<0, "">>]
RaisedCases == [kind : {"raised"}, server : DOMAIN OfServer, sql : DOMAIN OfSql, caller : {"HY000", "08003"}]
Raise ==
  /\ Pending("raised")
  /\ Result(B!Error(OfSql[item.sql][1], OfServer[item.server][1], item.caller, 24))
Meant(x) ==
  CASE OfServer[x.server][2] # "" -> OfServer[x.server][2]
    [] OfSql[x.sql][2] # ""       -> OfSql[x.sql][2]
    [] OTHER                      -> x.caller

\* told: the records of the last call, and of those before that it did not clear,
\* but the ones SQLError took.  last: what the last call returned.
Errors == {B!Error(-913, 335544336, "HY000", 40), B!Error(0, 0, "01004", 9), B!Error(0, 0, "07009", 1)}
Posts == {<< >>} \cup {<<e>> : e \in Errors} \cup {<<e, f>> : e \in Errors, f \in Errors}
CallBound == 4   \* bound: calls on a statement in one case
CallCase == [kind |-> "calls", o |-> B!Fresh, told |-> << >>, last |-> "ok", left |-> CallBound]
Calling == item.kind = "calls" /\ item.left > 0
Told(o, told, last) == item' = [item EXCEPT !.o = o, !.told = told, !.last = last, !.left = @ - 1]
RECURSIVE PostAll(_, _)
PostAll(o, posts) == IF posts = << >> THEN o ELSE PostAll(B!PostError(o, posts[1]), Tail(posts))
Call ==
  /\ Calling
  /\ \E clears, fails \in BOOLEAN : \E posts \in {p \in Posts : fails => p # << >>} :
       LET o == PostAll(IF clears THEN B!ClearStatement(item.o) ELSE item.o, posts)
       IN  Told(o, (IF clears THEN << >> ELSE item.told) \o posts, IF fails THEN "error" ELSE B!Success(o))
ReturnText ==
  /\ Calling
  /\ \E room \in {0, 1, 5, 6} :
       LET r == B!ReturnStringInfo(B!ClearStatement(item.o), 5, room)
       IN  Told(r.o, IF r.given < 5 THEN <<B!Error(0, 0, "01004", 60)>> ELSE << >>, r.ret)
Take ==
  /\ Calling
  /\ LET r == B!SqlError(item.o, 100) IN Told(r.o, SubSeq(item.told, 2, Len(item.told)), item.last)

-----------------------------------------------------------------------------
\* Rows inserted in bulk below a select, and the calls between.  mixed: rows were
\* inserted in manual mode since the statement that inserts is there; waiting: rows
\* the application has yet to commit; add: the last call and what came of it.
NoAdd == [how |-> "", auto |-> FALSE, early |-> FALSE, expected |-> << >>]
BulkBound == 4   \* bound: calls around SQL_ADD in one case
BulkCases ==
  {[kind |-> "bulk", s |-> t, mixed |-> FALSE, waiting |-> FALSE, add |-> NoAdd, left |-> BulkBound] :
     t \in UNION {B!Select(v, 3) : v \in UNION {B!SetAutoCommit(B!Closed, b) : b \in BOOLEAN}}}
Bulk == item.kind = "bulk" /\ item.left > 0 /\ item.s.w.ret # "crash"
AddRows ==
  /\ Bulk
  /\ \E n \in 1..2, bad \in 0..2, warned \in 0..2 :
       /\ bad <= n
       /\ \E r \in B!Add(item.s, n, bad, warned) :
            LET auto == item.s.w.tr["conn"].auto
                warnings == [k \in 1 .. warned |-> "01004"]
            IN  item' = [item EXCEPT !.s = r.s, !.left = @ - 1, !.mixed = @ \/ ~auto,
                                     !.waiting = @ \/ (~auto /\ r.sent > 0),
                                     !.add = [how |-> r.how, auto |-> auto, early |-> r.early, expected |-> warnings]]
SwitchMode ==
  /\ Bulk
  /\ \E b \in BOOLEAN : \E t \in B!SetAutoCommit(item.s, b) :
       item' = [item EXCEPT !.s = t, !.left = @ - 1, !.waiting = @ /\ ~b, !.add = NoAdd]
EndRows ==
  /\ Bulk
  /\ \E op \in {"commit", "rollback"} : \E t \in B!EndTran(item.s, op) :
       item' = [item EXCEPT !.s = t, !.left = @ - 1, !.waiting = FALSE, !.add = NoAdd]
Rebind ==
  /\ Bulk /\ item.s.exists
  /\ \E t \in B!Delete(item.s) : item' = [item EXCEPT !.s = t, !.left = @ - 1, !.mixed = FALSE, !.add = NoAdd]

-----------------------------------------------------------------------------
\* User events: other connections post, the server answers, the application's
\* callback brings its counts up to date or not, and queues again when it likes.
\* seen: the posts the last counts it was given include; before: those of the ones
\* before; told: the counts were just given.
EventBound == 9  \* bound: calls, posts and answers in one case
EventCases ==
  {[kind |-> "events", e |-> U!NoEvents(names, word), posts |-> [k \in DOMAIN names |-> 0], answer |-> << >>,
    answered |-> << >>, seen |-> [k \in DOMAIN names |-> 0], before |-> [k \in DOMAIN names |-> 0], told |-> FALSE, left |-> EventBound] :
     names \in {<<3>>, <<3, 6>>}, word \in {4, 8}}
Eventful == item.kind = "events" /\ item.left > 0 /\ item.e.ret # "crash"
OnEvents(e) == item' = [item EXCEPT !.e = e, !.told = FALSE, !.left = @ - 1]
Post ==
  /\ Eventful /\ item.e.there
  /\ \E k \in DOMAIN item.posts, n \in {1, 100, 255} :
       item' = [item EXCEPT !.posts[k] = @ + n, !.told = FALSE, !.left = @ - 1]
\* The server answers a block that is due, the callback begins.
Fire ==
  /\ Eventful /\ item.answer = << >>
  /\ \E k \in DOMAIN item.e.queued :
       /\ U!Answers(item.e, item.posts, item.e.queued[k])
       /\ item' = [item EXCEPT !.e.queued = [i \in 1 .. Len(@) - 1 |-> IF i < k THEN @[i] ELSE @[i + 1]],
                               !.answer = U!Answer(item.e, item.posts), !.answered = item.posts, !.told = FALSE, !.left = @ - 1]
Update ==
  /\ Eventful /\ item.answer # << >>
  /\ item' = [item EXCEPT !.e = U!UpdateResultEvents(@, item.answer), !.told = TRUE, !.before = item.seen,
                          !.seen = item.answered, !.left = @ - 1]
Returned == Eventful /\ item.answer # << >> /\ item' = [item EXCEPT !.answer = << >>, !.told = FALSE, !.left = @ - 1]
Register == Eventful /\ OnEvents(U!InitUserEvents(item.e))
Requeue  == Eventful /\ Len(item.e.queued) < 2 /\ OnEvents(U!RequeueEvents(item.e))
HangUp   == Eventful /\ item.answer = << >> /\ item.e.open /\ OnEvents(U!Disconnect(item.e))
Free     == Eventful /\ ~item.e.open /\ OnEvents(U!FreeConnect(item.e))

ReportInit == SettingInit \/ item \in RaisedCases \cup {CallCase} \cup BulkCases \cup EventCases
ReportNext ==
  \/ SettingNext \/ Raise \/ Call \/ ReturnText \/ Take
  \/ AddRows \/ SwitchMode \/ EndRows \/ Rebind
  \/ Post \/ Fire \/ Update \/ Returned \/ Register \/ Requeue \/ HangUp \/ Free
ReportSpec == ReportInit /\ [][ReportNext]_item

-----------------------------------------------------------------------------
States(errors) == [k \in DOMAIN errors |-> errors[k].state]

\* What a call has to say is told in the order it came up, once to SQLError and as
\* often as wanted to SQLGetDiagRec and SQLGetDiagField, until a call that clears it,
\* and a return without information means there is none; a cut message is said to be
\* cut and how long it is.  The state is that of the server's code, else of SQL's, else
\* the caller's.  Rows inserted in bulk that are refused, or cut with one
\* warning, tell it on the application's statement (more of them, and the errors of
\* a conversion, do not get there, see the README) (OdbcObject.cpp 60-340,
\* OdbcError.cpp 252-690, OdbcStatement.cpp 1322-1447).
ErrorsTold ==
  /\ Done("raised") => item.result.state = Meant(item)
  /\ item.kind = "calls" =>
       /\ B!GetDiagField(item.o, 0, "NUMBER", 4).value = Len(item.told)
       /\ item.last = "ok" => item.told = << >>
       /\ \A n \in 1..9, room \in {1, 2, 41, 100} :
            LET r == B!GetDiagRec(item.o, n, room)
            IN  IF n > Len(item.told) THEN r.ret = "none"
                ELSE /\ r.state = item.told[n].state /\ r.length = item.told[n].length
                     /\ B!GetDiagField(item.o, n, "SQLSTATE", 6).value = r.state
                     /\ r.given = B!GetDiagField(item.o, n, "MESSAGE_TEXT", room).value
                     /\ (r.ret = "ok") = (r.given = r.length)
  /\ item.kind = "bulk" /\ Len(item.add.expected) <= 1 =>
       /\ item.add.how = "done" => States(item.s.o.errors) = item.add.expected
       /\ item.add.how = "thrown" => States(item.s.o.errors) = item.add.expected \o <<"40001">>

\* In autocommit mode the rows of one SQL_ADD are committed together, or none of
\* them is; in manual mode none is before the application says so, and a refused one
\* takes none of those before it with it.  The cursor of the select stays open
\* (OdbcStatement.cpp 1322-1447, IscStatement.cpp 150-300, 660-727).  Not
\* promised to a statement that has inserted in manual mode before: it stays in the
\* connection's transaction, see the README.
RowsAsOne ==
  item.kind = "bulk" /\ item.s.w.ret # "crash" =>
    LET w == item.s.w
    IN  /\ item.add.auto /\ ~item.mixed =>
             /\ ~item.add.early
             /\ item.add.how \in {"done", "thrown", "unconverted"} => w.tr["bulk"].handle = "none" /\ w.work = {}
        /\ item.waiting => w.tr["conn"].handle \in w.work
        /\ w.st["select"].fb \in w.open

\* In its callback an application is given as many posts of each event as there
\* were when the server answered, and whether that changed since it last asked; and
\* while a block is queued that the server does not answer, it was given them all
\* (unless it has registered again, which is refused but resets its counts):
\* none is lost between an answer and the next block, however late or often that is
\* queued (IscUserEvents.cpp 73-168, OdbcConnection.cpp 2189-2262).  A count whose
\* low byte is 128 or more is misread, and of several events only the first is read
\* right where an unsigned long has eight bytes, see the README.
EventsCounted ==
  item.kind = "events" /\ item.e.ret # "crash" =>
    LET Readable(n) == (n + 1) % 256 < 128 /\ ((n + 1) \div 256) < 128
        Given(n, k) == Readable(n) => item.e.info[k].count = n
    IN  /\ item.told /\ item.e.open => \A k \in DOMAIN item.seen :
             Given(item.seen[k], k) /\ item.e.info[k].changed = (item.seen[k] # item.before[k])
        /\ (\E b \in DOMAIN item.e.queued : ~U!Answers(item.e, item.posts, item.e.queued[b])) =>
             \A k \in DOMAIN item.posts : item.e.info[k] = U!Fresh \/ Given(item.posts[k], k)
=============================================================================
