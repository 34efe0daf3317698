----------------------------- MODULE Diagnostics -----------------------------
(***************************************************************************)
(* The diagnostics of a handle (OdbcObject.cpp) and its records            *)
(* (OdbcError.cpp): how a code of the server becomes a state, how records  *)
(* are kept, moved to another handle, read and forgotten.  Of a message    *)
(* only the length is kept.                                                *)
(***************************************************************************)
EXTENDS Integers, Sequences

\* The states, by their number from 0; of the driver manager's only the one the driver posts.
Codes ==
  <<"01000", "01001", "01002", "01003", "01004", "01006", "01007", "01S00", "01S01", "01S02", "01S06", "01S07", "01S08",
    "01S09", "07001", "07002", "07005", "07006", "07009", "07S01", "08001", "08002", "08003", "08004", "08007", "08S01",
    "21S01", "21S02", "22001", "22002", "22003", "22007", "22008", "22012", "22015", "22018", "22019", "22025", "22026",
    "23000", "24000", "25000", "25S01", "25S02", "25S03", "28000", "34000", "3C000", "3D000", "3F000", "40001", "40002",
    "40003", "42000", "42S01", "42S02", "42S11", "42S12", "42S21", "42S22", "44000", "HY000", "HY001", "HY003", "HY004",
    "HY007", "HY008", "HY009", "HY010", "HY011", "HY012", "HY013", "HY014", "HY015", "HY016", "HY017", "HY018", "HY019",
    "HY020", "HY021", "HY024", "HY090", "HY091", "HY092", "HY095", "HY096", "HY097", "HY098", "HY099", "HY100", "HY101",
    "HY103", "HY104", "HY105", "HY106", "HY107", "HY109", "HY110", "HY111", "HYC00", "HYT00", "HYT01", "IM001">>
OdbcOrigin ==
  {"01S00", "01S01", "01S02", "01S06", "01S07", "01S08", "01S09", "07S01", "08S01", "21S01", "21S02", "25S01", "25S02",
   "25S03", "42S01", "42S02", "42S11", "42S12", "42S21", "42S22", "HY095", "HY097", "HY098", "HY099", "HY100", "HY101",
   "HY105", "HY107", "HY109", "HY110", "HY111", "HYT00", "HYT01", "IM001"}

\* Codes of SQL and of the server with the number of their state; most of SQL's have none.
SqlLinks == << <<53, -1>>, <<0, -104>>, <<55, -204>>, <<0, -206>>, <<0, -551>>, <<0, -803>>, <<0, -902>>, <<50, -913>> >>
ServerLinks ==
  << <<50, 335544336>>, <<50, 335544345>>, <<39, 335544347>>, <<39, 335544349>>, <<20, 335544375>>, <<23, 335544421>>,
     <<39, 335544466>>, <<45, 335544472>>, <<39, 335544558>>, <<59, 335544578>>, <<55, 335544580>>, <<25, 335544648>>,
     <<39, 335544665>>, <<20, 335544721>>, <<25, 335544726>>, <<25, 335544727>>, <<25, 335544741>>, <<23, 335544744>>,
     <<66, 335544794>> >>
SqlSlot(code)    == (code % 65536) % 211
ServerSlot(code) == (IF (code \div 256) % 2 = 0 THEN code + 256 ELSE code) % 21

\* A code is looked for in the chain of its slot, from the last that was put there.
BugFind(list, chain, code) == IF chain = {} THEN 0 ELSE list[CHOOSE i \in chain : \A j \in chain : j <= i][1]
Find(list, chain, code) ==
  LET hits == {i \in chain : list[i][2] = code}
  IN  IF hits = {} THEN 0 ELSE list[CHOOSE i \in hits : \A j \in hits : j <= i][1]
FindSql(code)    == Find(SqlLinks, {i \in DOMAIN SqlLinks : SqlSlot(SqlLinks[i][2]) = SqlSlot(code)}, code)
FindServer(code) == Find(ServerLinks, {i \in DOMAIN ServerLinks : ServerSlot(ServerLinks[i][2]) = ServerSlot(code)}, code)

\* The server's code decides, then SQL's, then the caller.
State(sqlcode, fbcode, state) ==
  LET server == IF fbcode = 0 THEN 0 ELSE FindServer(fbcode)
      sql    == IF sqlcode = 0 THEN 0 ELSE FindSql(sqlcode)
  IN  CASE server # 0 -> Codes[server + 1] [] sql # 0 -> Codes[sql + 1] [] OTHER -> state
Error(sqlcode, fbcode, state, length) ==
  [state |-> State(sqlcode, fbcode, state), native |-> sqlcode, length |-> length, row |-> 0]

-----------------------------------------------------------------------------
(* A handle.  rows: the number of rows of its static cursor.               *)
Fresh == [errors |-> << >>, info |-> FALSE, rows |-> 0]
BugPostError(o, e) == [o EXCEPT !.errors = <<e>> \o @, !.info = TRUE]
PostError(o, e)    == [o EXCEPT !.errors = Append(@, e), !.info = TRUE]
ClearErrors(o)     == [o EXCEPT !.errors = << >>, !.info = FALSE]
\* A statement skips it if nothing was posted.
ClearStatement(o)  == IF o.info THEN ClearErrors(o) ELSE o
Success(o)         == IF o.info THEN "info" ELSE "ok"
\* Posting a record to o ends the chain the loop is following.
Moved(o, from) ==
  [errors |-> o.errors \o SubSeq(from.errors, 1, 1), info |-> from.info, rows |-> from.rows]

\* What of a text of some length fits into a buffer with its closing zero.
Given(length, room) == IF room - 1 <= 0 THEN 0 ELSE IF length <= room - 1 THEN length ELSE room - 1
Fits(length, room)  == IF room - 1 > 0 /\ length <= room - 1 THEN "ok" ELSE "info"
NoRecord == [ret |-> "none", state |-> "00000", length |-> 0]
DiagRec(e, room) ==
  [ret |-> Fits(e.length, room), state |-> e.state, native |-> e.native, length |-> e.length, given |-> Given(e.length, room)]
GetDiagRec(o, n, room) == IF n \in DOMAIN o.errors THEN DiagRec(o.errors[n], room) ELSE NoRecord
\* SQLError takes the first record with it.
SqlError(o, room) ==
  IF o.errors = << >> THEN [o |-> o, r |-> NoRecord]
  ELSE [o |-> [o EXCEPT !.errors = Tail(@)], r |-> DiagRec(o.errors[1], room)]
GetDiagField(o, n, id, room) ==
  CASE id = "CURSOR_ROW_COUNT" -> [ret |-> "ok", value |-> o.rows]
    [] id = "NUMBER"           -> [ret |-> "ok", value |-> Len(o.errors)]
    [] id = "RETURNCODE"       -> [ret |-> "ok", value |-> "ok"]
    [] id = "ROW_COUNT"        -> [ret |-> "ok", value |-> 0]
    [] room = 0 \/ n \notin DOMAIN o.errors -> [ret |-> "none"]
    [] id = "NATIVE"           -> [ret |-> "ok", value |-> o.errors[n].native]
    [] id = "ROW_NUMBER"       -> [ret |-> "ok", value |-> o.errors[n].row]
    [] id = "COLUMN_NUMBER"    -> [ret |-> "ok", value |-> 0]
    [] id = "MESSAGE_TEXT"     -> [ret |-> Fits(o.errors[n].length, room), value |-> Given(o.errors[n].length, room)]
    [] id = "SQLSTATE"         -> [ret |-> Fits(5, room), value |-> o.errors[n].state]
    [] id = "CLASS_ORIGIN"     -> [ret |-> Fits(8, room), value |-> IF o.errors[n].state = "IM001" THEN "ODBC 3.0" ELSE "ISO 9075"]
    [] id = "SUBCLASS_ORIGIN"  -> [ret |-> Fits(8, room),
                                   value |-> IF o.errors[n].state \in OdbcOrigin THEN "ODBC 3.0" ELSE "ISO 9075"]
    [] OTHER                   -> [ret |-> "error"]

\* A text given back to the caller; a cut one's length is what was given of it.
ReturnStringInfo(o, length, room) ==
  IF length < room THEN [o |-> o, ret |-> Success(o), length |-> length, given |-> length]
  ELSE [o |-> PostError(o, Error(0, 0, "01004", 60)), ret |-> "info", given |-> Given(length, room),
        length |-> IF room > 0 THEN room - 1 ELSE length]
=============================================================================
