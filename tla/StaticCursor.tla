----------------------------- MODULE StaticCursor -----------------------------
(***************************************************************************)
(* Scrolling in a static cursor (OdbcStatement::sqlFetchScrollCursorStatic *)
(* and the position kept by IscResultSet): the rows are in memory, numbered *)
(* from 0, and a fetch returns a rowset of up to SQL_ATTR_ROW_ARRAY_SIZE   *)
(* rows.  The application may change the rowset size, the maximum number   *)
(* of rows and the retrieval of data between any two fetches.              *)
(***************************************************************************)
EXTENDS Integers, FiniteSetsExt

CONSTANTS Counts,     \* numbers of rows the query may have
          Sizes,      \* rowset sizes the application sets
          Limits,     \* SQL_ATTR_MAX_ROWS, 0 for none
          Offsets,    \* offsets of ABSOLUTE, RELATIVE and BOOKMARK
          Bookmarks,  \* values behind SQL_ATTR_FETCH_BOOKMARK_PTR, 0 for NULL
          Odbc3       \* the application asked for ODBC 3 behaviour

ASSUME ConstantsAssumption ==
  /\ Counts \subseteq Nat
  /\ Sizes \subseteq Nat \ {0} /\ 1 \in Sizes
  /\ Limits \subseteq Nat /\ 0 \in Limits
  /\ Offsets \subseteq Int
  /\ Bookmarks \subseteq Nat /\ 0 \in Bookmarks
  /\ Odbc3 \in BOOLEAN

VARIABLES count,     \* sqlDiagCursorRowCount
          pos,       \* activePosRowInSet
          place,     \* statysPositionRow
          eof, lastRowsetSize,
          enFetch,   \* the function of the first fetch
          size, maxRows, fetchRetData, bookmark,  \* statement attributes
          result,    \* of the last call: the rows from start on, or NO_DATA
          due,       \* history only, no action reads it: the row a reader that
                     \* goes forward has not been given yet, or Unknown
          loop       \* the application only calls SQLFetch from now on

attributes == <<size, maxRows, fetchRetData, bookmark>>

fetchVars == <<count, pos, place, eof, lastRowsetSize, enFetch, attributes, result, due>>

vars == <<fetchVars, loop>>

Place == {"before", "row", "after"}

Result == [call: {"open", "setPos", "NEXT", "FIRST", "LAST", "PRIOR",
                  "ABSOLUTE", "RELATIVE", "BOOKMARK"},
           ret: {"success", "noData", "error"},
           start: Nat, rows: Nat, warned: BOOLEAN]

Returns(call, ret) ==
  result' = [call |-> call, ret |-> ret, start |-> 0, rows |-> 0,
             warned |-> FALSE]

-----------------------------------------------------------------------------
\* The position after the fetch.

LastRow == IF count = 0 THEN 0 ELSE count - 1

Stay == UNCHANGED <<pos, place, eof, lastRowsetSize>>

BeforeFirst(call) ==
  /\ place' = "before"
  /\ pos' = 0
  /\ Returns(call, "noData")
  /\ UNCHANGED <<eof, lastRowsetSize>>

AfterLast(call) ==
  /\ place' = "after"
  /\ pos' = LastRow
  /\ Returns(call, "noData")
  /\ UNCHANGED <<eof, lastRowsetSize>>

BugRowsFrom(row) == IF maxRows = 0 THEN size ELSE Min({size, maxRows})

\* The loop over the rowset.  maxRows cuts each rowset, not the result set.
RowsFrom(row) ==
  IF ~fetchRetData THEN 0
  ELSE Min({size, count - row} \cup ({maxRows} \ {0}))

\* The common end of every orientation: the rowset that starts at row.
FetchRowset(call, row, warned) ==
  /\ lastRowsetSize' = size
  /\ result' = [call |-> call, warned |-> warned,
                ret   |-> IF row \in 0 .. count - 1 THEN "success" ELSE "noData",
                start |-> IF row \in 0 .. count - 1 THEN row ELSE 0,
                rows  |-> IF row \in 0 .. count - 1 THEN RowsFrom(row) ELSE 0]
  /\ \/ /\ row \in 0 .. count - 1
        /\ pos' = row
        /\ place' = "row"
        /\ eof' = (fetchRetData /\ RowsFrom(row) < size
                     /\ row + RowsFrom(row) = count)
     \/ /\ row < 0 \/ count = 0
        /\ pos' = 0
        /\ place' = "before"
        /\ UNCHANGED eof
     \/ /\ row >= count /\ count > 0
        /\ pos' = LastRow
        /\ place' = "after"
        /\ UNCHANGED eof

FromEnd == Max({count - size, 0})

-----------------------------------------------------------------------------
\* The orientations.

BugNext ==
  IF eof /\ pos = count - 1
  THEN Stay /\ Returns("NEXT", "noData")
  ELSE FetchRowset("NEXT", pos + size, FALSE)

BugFetchNext ==
  IF eof /\ pos = count - 1
  THEN Stay /\ Returns("NEXT", "noData")
  ELSE FetchRowset("NEXT", Min({pos + lastRowsetSize, LastRow}), FALSE)

FetchNext ==
  IF eof /\ pos = count - 1
  THEN Stay /\ Returns("NEXT", "noData")
  ELSE FetchRowset("NEXT", pos + lastRowsetSize, FALSE)

First == FetchRowset("FIRST", 0, FALSE)

Last == FetchRowset("LAST", IF count = 0 THEN pos ELSE FromEnd, FALSE)

BugPrior ==
  LET row == pos - size
  IN  IF count > 0 /\ pos > 0
      THEN FetchRowset("PRIOR", Max({row, 0}), row < 0)
      ELSE /\ place' = "before"
           /\ pos' = 0
           /\ lastRowsetSize' = 0
           /\ Returns("PRIOR", "noData")
           /\ UNCHANGED eof

Prior ==
  LET row == pos - size + (IF place = "after" THEN 1 ELSE 0)
  IN  IF count > 0 /\ pos > 0
      THEN FetchRowset("PRIOR", Max({row, 0}), row < 0)
      ELSE /\ place' = "before"
           /\ pos' = 0
           /\ lastRowsetSize' = 0
           /\ Returns("PRIOR", "noData")
           /\ UNCHANGED eof

Size(k) == IF k < 0 THEN -k ELSE k

Absolute(call, k) ==
  CASE k > 0  -> FetchRowset(call, k - 1, FALSE)
    [] k = -1 -> FetchRowset(call, FromEnd, FALSE)
    [] k < -1 /\ Size(k) <= count -> FetchRowset(call, count + k, FALSE)
    [] k < -1 /\ Size(k) > count /\ Size(k) <= size -> FetchRowset(call, 0, TRUE)
    [] OTHER  -> BeforeFirst(call)

\* From a row, the warning is posted and then the row number is overwritten.
RelativeToRow(k) ==
  IF pos = 0 /\ k < 0
  THEN BeforeFirst("RELATIVE")
  ELSE IF pos + k < 0
  THEN IF Size(k) > size THEN BeforeFirst("RELATIVE")
                         ELSE FetchRowset("RELATIVE", pos + k, TRUE)
  ELSE IF pos + k > count THEN AfterLast("RELATIVE")
                          ELSE FetchRowset("RELATIVE", pos + k, FALSE)

Relative(k) ==
  \/ place = "row" /\ RelativeToRow(k)
  \/ place = "before" /\ IF k > 0 THEN Absolute("RELATIVE", k)
                                  ELSE BeforeFirst("RELATIVE")
  \/ place = "after" /\ IF k < 0 THEN Absolute("RELATIVE", k)
                                 ELSE AfterLast("RELATIVE")

Bookmark(k) ==
  LET row == bookmark + k - 1
  IN  IF bookmark = 0 /\ enFetch' = "FetchScroll" /\ Odbc3
      THEN Stay /\ Returns("BOOKMARK", "error")
      ELSE IF row < 0 THEN BeforeFirst("BOOKMARK")
      ELSE IF row >= count THEN AfterLast("BOOKMARK")
      ELSE FetchRowset("BOOKMARK", row, FALSE)

-----------------------------------------------------------------------------
\* What the application may expect of the next SQL_FETCH_NEXT, told from the
\* answers (and, where SQL_FETCH_PRIOR goes before the first row, from `eof').
Unknown == -1

\* No row of the rowset is withheld: the row limit is not below the rowset size,
\* and data is retrieved.
Whole(start, rows) == rows = Min({size, count - start})

\* A rowset leaves the row after its last one due, and NO_DATA of NEXT changes
\* nothing.  SQL_FETCH_PRIOR at the start goes before the first row, but the
\* code leaves `eof', and with it a single row counts as read (line 1021).  The
\* other calls that leave the rows say nothing of lastRowsetSize.
DueAfter ==
  CASE result'.ret = "success" ->
         IF Whole(result'.start, result'.rows) THEN result'.start + result'.rows
                                               ELSE Unknown
    [] result'.ret = "noData" /\ result'.call = "PRIOR" /\ place' = "before" ->
         IF eof /\ count = 1 THEN Unknown ELSE 0
    [] result'.ret = "error" \/ (result'.ret = "noData" /\ result'.call = "NEXT") -> due
    [] OTHER -> Unknown

-----------------------------------------------------------------------------
\* The ODBC calls.

\* The function of the first fetch is remembered.
By(function) ==
  /\ enFetch' = IF enFetch = "NoneFetch" THEN function ELSE enFetch
  /\ UNCHANGED <<count, attributes>>

Fetch ==
  /\ By("Fetch")
  /\ FetchNext
  /\ due' = DueAfter

FetchScroll ==
  /\ \E function \in {"FetchScroll", "ExtendedFetch"} : By(function)
  /\ \/ FetchNext
     \/ First
     \/ Last
     \/ Prior
     \/ \E k \in Offsets : \/ Absolute("ABSOLUTE", k)
                           \/ Relative(k)
                           \/ Bookmark(k)
  /\ due' = DueAfter

\* SQL_POSITION in the rowset just fetched: its row is counted from the start
\* of the result set, or from the bookmark.
SetPos(row) ==
  /\ result.ret = "success" /\ row \in 1 .. result.rows
  /\ pos' = (IF bookmark > 0 THEN bookmark - 1 ELSE 0) + row - 1
  /\ Returns("setPos", "success")
  /\ due' = Unknown
  /\ UNCHANGED <<count, place, eof, lastRowsetSize, enFetch, attributes>>

\* SQLSetStmtAttr, one attribute at a time.
SetAttribute ==
  /\ \/ size' \in Sizes /\ UNCHANGED <<maxRows, fetchRetData, bookmark>>
     \/ maxRows' \in Limits /\ UNCHANGED <<size, fetchRetData, bookmark>>
     \/ fetchRetData' \in BOOLEAN /\ UNCHANGED <<size, maxRows, bookmark>>
     \/ bookmark' \in Bookmarks /\ UNCHANGED <<size, maxRows, fetchRetData>>
  /\ Stay
  /\ UNCHANGED <<count, enFetch, result, due>>

\* setResultSet.  SQLSpecialColumns(SQL_ROWVER) starts at the end, so that
\* there is nothing to fetch.
Init ==
  /\ count \in Counts
  /\ place = "before"
  /\ eof \in BOOLEAN
  /\ pos = IF eof THEN LastRow ELSE 0
  /\ lastRowsetSize = 0
  /\ enFetch = "NoneFetch"
  /\ size = 1
  /\ maxRows = 0
  /\ fetchRetData = TRUE
  /\ bookmark = 0
  /\ result = [call |-> "open", ret |-> "success", start |-> 0, rows |-> 0,
               warned |-> FALSE]
  /\ due = IF eof THEN count ELSE 0
  /\ loop = FALSE

\* An application that only fetches forward from here on; it may change the
\* attributes as it goes.
StartLoop ==
  /\ ~loop
  /\ loop' = TRUE
  /\ UNCHANGED fetchVars

Forward == Fetch /\ UNCHANGED loop

Next ==
  \/ Forward
  \/ FetchScroll /\ ~loop /\ UNCHANGED loop
  \/ \E row \in 1 .. Max(Sizes) : SetPos(row) /\ ~loop /\ UNCHANGED loop
  \/ SetAttribute /\ UNCHANGED loop
  \/ StartLoop

Spec == Init /\ [][Next]_vars

\* SQLFetch returns, and the application calls it again.
FairSpec == Spec /\ WF_vars(Forward)

-----------------------------------------------------------------------------
\* Properties.

\* Every variable has a value of its C++ type.
TypeOK ==
  /\ count \in Nat
  /\ pos \in Nat
  /\ place \in Place
  /\ eof \in BOOLEAN
  /\ lastRowsetSize \in Sizes \cup {0}
  /\ enFetch \in {"NoneFetch", "Fetch", "FetchScroll", "ExtendedFetch"}
  /\ size \in Sizes
  /\ maxRows \in Limits
  /\ fetchRetData \in BOOLEAN
  /\ bookmark \in Bookmarks
  /\ result \in Result
  /\ due \in Nat \cup {Unknown}
  /\ loop \in BOOLEAN

\* The buffer of the static cursor is only read at rows it holds.
RowsInBuffer == result.start + result.rows <= count

FetchCall(call) == result'.call = call /\ UNCHANGED <<attributes, loop>>

\* A reader that goes forward is given every row once and in order, and then
\* SQL_NO_DATA, whatever happens to the rowset size between two calls, in
\* whichever function and orientation it started and how often it is told that
\* there is no more (lines 1021-1024, with the eof and lastRowsetSize of earlier
\* calls).  Where this begins is what `due' says: at the first row, at a rowset
\* or before the first row by SQL_FETCH_PRIOR.  It ends with SQLSetPos, which
\* moves the row and keeps lastRowsetSize (1306), with a rowset cut short by
\* SQL_ATTR_MAX_ROWS or fetched with SQL_RD_OFF, whose rows are skipped, and
\* where the cursor leaves the rows by another call than NEXT and PRIOR.
EveryRowOnce ==
  [][(FetchCall("NEXT") /\ due # Unknown)
     => IF due < count
        THEN result'.ret = "success" /\ result'.start = due
        ELSE result'.ret = "noData"]_vars

\* NEXT has said that there are no more rows, or another call went beyond them.
RanOut ==
  /\ count > 0
  /\ place = "after" \/ (result.call = "NEXT" /\ result.ret = "noData")

\* When the rows have run out SQL_FETCH_PRIOR comes back: from after the last
\* row to the last rowset.  Where NEXT stopped on the last row, because it was
\* the only one of its rowset (eof, line 1021), PRIOR returns the rows before
\* it.  A result of one row is not come back to: "rowNumber > 0" (1041) takes
\* its only row for the place before the first.
PriorFromEnd ==
  [][(FetchCall("PRIOR") /\ RanOut /\ fetchRetData /\ maxRows = 0)
     => LET end == IF place = "after" THEN count ELSE count - 1
        IN  IF count = 1
            THEN result'.ret = "noData"
            ELSE /\ result'.ret = "success"
                 /\ result'.start = Max({end - size, 0})
                 /\ result'.rows = Min({size, count - result'.start})]_vars

\* A loop over SQLFetch comes to SQL_NO_DATA, wherever scrolling has left the
\* cursor when the loop starts and whatever the attributes do on the way.
FetchLoopEnds == loop ~> (result.ret = "noData")
=============================================================================
