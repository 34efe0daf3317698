-------------------------- MODULE StaticCursor_proofs --------------------------
(***************************************************************************)
(* Scrolling never leaves the buffer, a reader that goes forward is given  *)
(* every row once, and PRIOR comes back from the end, for results, rowsets, *)
(* limits and offsets of any size.  The blocks of the buffer implement a   *)
(* sequence of rows, for every block size and any number of rows.          *)
(***************************************************************************)
EXTENDS StaticCursor, StaticBuffer, TLAPS

\* The library's Max and Min of a few numbers.
LEMMA MaxOfTwo ==
  ASSUME NEW a \in Int, NEW b \in Int
  PROVE  Max({a, b}) \in {a, b} /\ Max({a, b}) >= a /\ Max({a, b}) >= b
<1>1. \E x \in {a, b} : \A y \in {a, b} : x >= y
  BY SMT
<1> QED BY <1>1, SMT DEF Max

LEMMA MinOfTwo ==
  ASSUME NEW a \in Int, NEW b \in Int
  PROVE  Min({a, b}) \in {a, b} /\ Min({a, b}) <= a /\ Min({a, b}) <= b
<1>1. \E x \in {a, b} : \A y \in {a, b} : x <= y
  BY SMT
<1> QED BY <1>1, SMT DEF Min

LEMMA MinOfThree ==
  ASSUME NEW a \in Int, NEW b \in Int, NEW c \in Int
  PROVE  Min({a, b} \cup {c}) \in {a, b, c} /\ Min({a, b} \cup {c}) <= a /\ Min({a, b} \cup {c}) <= b
<1>1. \E x \in {a, b} \cup {c} : \A y \in {a, b} \cup {c} : x <= y
  <2>1. CASE a <= b /\ a <= c
    BY <2>1
  <2>2. CASE b <= a /\ b <= c
    BY <2>2
  <2>3. CASE c <= a /\ c <= b
    BY <2>3
  <2> QED BY <2>1, <2>2, <2>3
<1>2. Min({a, b} \cup {c}) \in {a, b} \cup {c} /\ \A y \in {a, b} \cup {c} : Min({a, b} \cup {c}) <= y
  BY <1>1 DEF Min
<1> QED BY <1>2

-----------------------------------------------------------------------------
\* The numbers are numbers; what a call returned lies in the result set; the rows
\* of a rowset can be positioned on only while the cursor is on it; after the end
\* the last row is the current one.
Numbers ==
  /\ count \in Nat /\ pos \in Nat /\ lastRowsetSize \in Nat
  /\ size \in Sizes /\ maxRows \in Limits /\ fetchRetData \in BOOLEAN /\ bookmark \in Bookmarks
  /\ place \in Place
  /\ result.rows \in Nat /\ result.start \in Nat
Positions ==
  /\ result.ret = "success" /\ result.rows > 0 => place = "row"
  /\ place = "after" => pos = LastRow
IInv == Numbers /\ RowsInBuffer /\ Positions

\* A rowset that starts in the result set ends in it.
LEMMA RowsFit ==
  ASSUME Numbers, NEW row \in 0 .. count - 1
  PROVE  RowsFrom(row) \in Nat /\ row + RowsFrom(row) <= count
<1> USE ConstantsAssumption
<1>1. size \in Nat \ {0} /\ maxRows \in Nat
  BY DEF Numbers
<1>2. CASE ~fetchRetData
  BY <1>2 DEF RowsFrom, Numbers
<1>3. CASE fetchRetData /\ maxRows = 0
  <2>1. {size, count - row} \cup ({maxRows} \ {0}) = {size, count - row}
    BY <1>3
  <2>2. RowsFrom(row) = Min({size, count - row})
    BY <1>3, <2>1 DEF RowsFrom
  <2>3. size \in Int /\ count - row \in Int /\ count - row >= 0
    BY <1>1 DEF Numbers
  <2>4. /\ Min({size, count - row}) \in {size, count - row}
        /\ Min({size, count - row}) <= count - row
    BY <2>3, MinOfTwo
  <2> QED BY <1>1, <2>2, <2>3, <2>4 DEF Numbers
<1>4. CASE fetchRetData /\ maxRows # 0
  <2>1. {maxRows} \ {0} = {maxRows}
    BY <1>4
  <2>2. RowsFrom(row) = Min({size, count - row} \cup {maxRows})
    BY <1>4, <2>1 DEF RowsFrom
  <2>3. size \in Int /\ count - row \in Int /\ maxRows \in Int /\ count - row >= 0
    BY <1>1 DEF Numbers
  <2>4. /\ Min({size, count - row} \cup {maxRows}) \in {size, count - row, maxRows}
        /\ Min({size, count - row} \cup {maxRows}) <= count - row
    BY <2>3, MinOfThree
  <2> QED BY <1>1, <2>2, <2>3, <2>4 DEF Numbers
<1> QED BY <1>2, <1>3, <1>4 DEF Numbers

\* The common end keeps the invariant, wherever the rowset would start.
LEMMA RowsetInv ==
  ASSUME IInv, NEW call, NEW row \in Int, NEW warned, FetchRowset(call, row, warned),
         UNCHANGED <<count, attributes>>
  PROVE  IInv'
<1> USE DEF IInv
<1>1. size \in Nat /\ count \in Nat
  BY ConstantsAssumption DEF Numbers
<1>2. CASE row \in 0 .. count - 1
  BY <1>1, <1>2, RowsFit DEF FetchRowset, Numbers, Positions, RowsInBuffer, LastRow, attributes, Place
<1>3. CASE row \notin 0 .. count - 1
  BY <1>1, <1>3 DEF FetchRowset, Numbers, Positions, RowsInBuffer, LastRow, attributes, Place
<1> QED BY <1>2, <1>3

LEMMA EndsInv ==
  ASSUME IInv, NEW call, UNCHANGED <<count, attributes>>
  PROVE  /\ BeforeFirst(call) => IInv'
         /\ AfterLast(call) => IInv'
         /\ \A ret : ret # "success" /\ Stay /\ Returns(call, ret) => IInv'
<1> USE DEF IInv
<1>1. BeforeFirst(call) => IInv'
  BY DEF BeforeFirst, Returns, Numbers, Positions, RowsInBuffer, LastRow, attributes, Place
<1>2. AfterLast(call) => IInv'
  BY DEF AfterLast, Returns, Numbers, Positions, RowsInBuffer, LastRow, attributes, Place
<1>3. \A ret : ret # "success" /\ Stay /\ Returns(call, ret) => IInv'
  BY DEF Stay, Returns, Numbers, Positions, RowsInBuffer, LastRow, attributes, Place
<1> QED BY <1>1, <1>2, <1>3

LEMMA NextInv == ASSUME IInv, FetchNext, UNCHANGED <<count, attributes>> PROVE IInv'
<1>1. pos + lastRowsetSize \in Int
  BY DEF IInv, Numbers
<1> QED BY <1>1, RowsetInv, EndsInv DEF FetchNext

LEMMA FromEndInt == ASSUME Numbers PROVE FromEnd \in Nat
<1>1. count - size \in Int
  BY ConstantsAssumption DEF Numbers
<1>2. Max({count - size, 0}) \in {count - size, 0} /\ Max({count - size, 0}) >= 0
  BY <1>1, MaxOfTwo
<1> QED BY <1>1, <1>2 DEF FromEnd

LEMMA PriorInv == ASSUME IInv, Prior, UNCHANGED <<count, attributes>> PROVE IInv'
<1> DEFINE row == pos - size + (IF place = "after" THEN 1 ELSE 0)
<1>0. row \in Int
  BY ConstantsAssumption DEF IInv, Numbers
<1> HIDE DEF row
<1>1. Max({row, 0}) \in Int
  <2>1. Max({row, 0}) \in {row, 0} /\ Max({row, 0}) >= 0
    BY <1>0, MaxOfTwo
  <2> QED BY <1>0, <2>1
<1> USE DEF row
<1>2. CASE count > 0 /\ pos > 0
  <2>1. FetchRowset("PRIOR", Max({row, 0}), row < 0)
    BY <1>2 DEF Prior
  <2> QED BY <1>1, <2>1, RowsetInv
<1>3. CASE ~(count > 0 /\ pos > 0)
  BY <1>3 DEF Prior, Returns, IInv, Numbers, Positions, RowsInBuffer, LastRow, attributes, Place
<1> QED BY <1>2, <1>3

LEMMA AbsoluteInv ==
  ASSUME IInv, NEW call, NEW k \in Int, Absolute(call, k), UNCHANGED <<count, attributes>>
  PROVE  IInv'
<1>1. FromEnd \in Int /\ count + k \in Int /\ k - 1 \in Int /\ 0 \in Int
  BY FromEndInt DEF IInv, Numbers
<1>2. \/ FetchRowset(call, k - 1, FALSE) \/ FetchRowset(call, FromEnd, FALSE)
      \/ FetchRowset(call, count + k, FALSE) \/ FetchRowset(call, 0, TRUE) \/ BeforeFirst(call)
  BY DEF Absolute
<1> QED BY <1>1, <1>2, RowsetInv, EndsInv

LEMMA RelativeInv == ASSUME IInv, NEW k \in Int, Relative(k), UNCHANGED <<count, attributes>> PROVE IInv'
<1>1. pos + k \in Int
  BY DEF IInv, Numbers
<1>2. \/ FetchRowset("RELATIVE", pos + k, TRUE) \/ FetchRowset("RELATIVE", pos + k, FALSE)
      \/ BeforeFirst("RELATIVE") \/ AfterLast("RELATIVE") \/ Absolute("RELATIVE", k)
  BY DEF Relative, RelativeToRow
<1> QED BY <1>1, <1>2, RowsetInv, EndsInv, AbsoluteInv

LEMMA BookmarkInv == ASSUME IInv, NEW k \in Int, Bookmark(k), UNCHANGED <<count, attributes>> PROVE IInv'
<1>1. bookmark + k - 1 \in Int
  BY ConstantsAssumption DEF IInv, Numbers
<1>2. \/ Stay /\ Returns("BOOKMARK", "error")
      \/ FetchRowset("BOOKMARK", bookmark + k - 1, FALSE) \/ BeforeFirst("BOOKMARK") \/ AfterLast("BOOKMARK")
  BY DEF Bookmark
<1> QED BY <1>1, <1>2, RowsetInv, EndsInv

LEMMA FetchScrollInv == ASSUME IInv, FetchScroll PROVE IInv'
<1>1. UNCHANGED <<count, attributes>>
  BY DEF FetchScroll, By
<1>2. CASE FetchNext \/ Prior
  BY <1>1, <1>2, NextInv, PriorInv
<1>3. CASE First
  <2>1. 0 \in Int
    OBVIOUS
  <2> QED BY <1>1, <1>3, <2>1, RowsetInv DEF First
<1>4. CASE Last
  <2>1. (IF count = 0 THEN pos ELSE FromEnd) \in Int
    BY FromEndInt DEF IInv, Numbers
  <2> QED BY <1>1, <1>4, <2>1, RowsetInv DEF Last
<1>5. ASSUME NEW k \in Offsets, Absolute("ABSOLUTE", k) \/ Relative(k) \/ Bookmark(k) PROVE IInv'
  <2>1. k \in Int
    BY ConstantsAssumption
  <2> QED BY <1>1, <1>5, <2>1, AbsoluteInv, RelativeInv, BookmarkInv
<1> QED BY <1>2, <1>3, <1>4, <1>5 DEF FetchScroll

LEMMA SetPosInv == ASSUME IInv, NEW row \in Nat \ {0}, SetPos(row) PROVE IInv'
<1>1. place = "row" /\ pos' \in Nat
  BY ConstantsAssumption DEF SetPos, IInv, Numbers, Positions
<1> QED BY <1>1 DEF SetPos, Returns, IInv, Numbers, Positions, RowsInBuffer, LastRow, attributes

LEMMA InitInv == Init => IInv
<1> SUFFICES ASSUME Init PROVE IInv OBVIOUS
<1> QED BY ConstantsAssumption DEF Init, IInv, Numbers, Positions, RowsInBuffer, LastRow, Place

LEMMA StepInv == IInv /\ [Next]_vars => IInv'
<1> SUFFICES ASSUME IInv, [Next]_vars PROVE IInv' OBVIOUS
<1>1. CASE Forward
  BY <1>1, NextInv DEF Forward, Fetch, By
<1>2. CASE FetchScroll
  BY <1>2, FetchScrollInv
<1>3. ASSUME NEW row \in 1 .. Max(Sizes), SetPos(row) PROVE IInv'
  <2>1. row \in Nat \ {0}
    BY <1>3 DEF SetPos, IInv, Numbers
  <2> QED BY <1>3, <2>1, SetPosInv
<1>4. CASE SetAttribute
  BY <1>4 DEF SetAttribute, Stay, IInv, Numbers, Positions, RowsInBuffer, LastRow
<1>5. CASE StartLoop \/ UNCHANGED vars
  BY <1>5 DEF StartLoop, vars, fetchVars, attributes, IInv, Numbers, Positions, RowsInBuffer, LastRow
<1> QED BY <1>1, <1>2, <1>3, <1>4, <1>5 DEF Next

\* IInv holds of every state, whatever the sizes of results and rowsets.
LEMMA IInvHolds == Spec => []IInv
<1> QED BY InitInv, StepInv, PTL DEF Spec

-----------------------------------------------------------------------------
\* Which call a step is.

LEMMA OtherCalls ==
  ASSUME NEW k
  PROVE  /\ First => result'.call = "FIRST"
         /\ Last => result'.call = "LAST"
         /\ Absolute("ABSOLUTE", k) => result'.call = "ABSOLUTE"
         /\ Relative(k) => result'.call = "RELATIVE"
         /\ Bookmark(k) => result'.call = "BOOKMARK"
<1> USE DEF FetchRowset, BeforeFirst, AfterLast, Returns
<1>1. \A call : Absolute(call, k) => result'.call = call
  BY DEF Absolute
<1>2. Relative(k) => result'.call = "RELATIVE"
  BY <1>1 DEF Relative, RelativeToRow
<1>3. First => result'.call = "FIRST"
  BY DEF First
<1>4. Last => result'.call = "LAST"
  BY DEF Last
<1>5. Bookmark(k) => result'.call = "BOOKMARK"
  BY DEF Bookmark
<1> QED BY <1>1, <1>2, <1>3, <1>4, <1>5

LEMMA NextOrPrior ==
  /\ FetchNext => result'.call = "NEXT"
  /\ Prior => result'.call = "PRIOR"
BY DEF FetchNext, Prior, FetchRowset, Returns

\* A step that reports a NEXT or a PRIOR and leaves the attributes alone is
\* that call or changes nothing.
LEMMA StepIs ==
  ASSUME Next, UNCHANGED <<attributes, loop>>, ~UNCHANGED vars
  PROVE  /\ result'.call = "NEXT" => FetchNext /\ UNCHANGED count /\ due' = DueAfter
         /\ result'.call = "PRIOR" => Prior /\ UNCHANGED count
<1>1. CASE Forward
  BY <1>1, NextOrPrior DEF Forward, Fetch, By
<1>2. CASE FetchScroll
  <2>1. UNCHANGED count /\ due' = DueAfter
    BY <1>2 DEF FetchScroll, By
  <2>2. \/ FetchNext \/ Prior \/ First \/ Last
        \/ \E k \in Offsets : Absolute("ABSOLUTE", k) \/ Relative(k) \/ Bookmark(k)
    BY <1>2 DEF FetchScroll
  <2> QED BY <2>1, <2>2, OtherCalls, NextOrPrior
<1>3. CASE \E row \in 1 .. Max(Sizes) : SetPos(row)
  BY <1>3 DEF SetPos, Returns
<1>4. CASE SetAttribute
  BY <1>4 DEF SetAttribute, Stay, vars, fetchVars
<1>5. CASE StartLoop
  BY <1>5 DEF StartLoop
<1> QED BY <1>1, <1>2, <1>3, <1>4, <1>5 DEF Next

-----------------------------------------------------------------------------
\* sqlFetchScrollCursorStatic never lets the fetch loop read a row that the
\* buffer of the static cursor does not hold.
THEOREM RowsStayInBuffer == Spec => []RowsInBuffer
<1>1. IInv => RowsInBuffer
  BY DEF IInv
<1> QED BY <1>1, IInvHolds, PTL

-----------------------------------------------------------------------------
\* What the history says of the cursor: the row due is where NEXT goes, and when
\* none is due NEXT goes beyond the end or is stopped by `eof'.  NEXT reports the
\* end only from the last row.
Ahead ==
  /\ due \in Nat \cup {Unknown}
  /\ due # Unknown /\ due < count => pos + lastRowsetSize = due /\ ~(eof /\ pos = count - 1)
  /\ due # Unknown /\ due >= count => pos + lastRowsetSize >= count \/ (eof /\ pos = count - 1)
EndAtLast == count > 0 /\ result.call = "NEXT" /\ result.ret = "noData" => pos = count - 1
HInv == IInv /\ Ahead /\ EndAtLast

\* A whole rowset leaves the cursor before the row that follows it.
LEMMA RowsetAhead ==
  ASSUME HInv, NEW call, NEW row \in 0 .. count - 1, NEW warned, FetchRowset(call, row, warned),
         UNCHANGED <<count, attributes>>, due' = DueAfter
  PROVE  Ahead' /\ EndAtLast'
<1>1. size \in Nat \ {0} /\ count \in Nat /\ RowsFrom(row) \in Nat
  BY ConstantsAssumption, RowsFit DEF HInv, IInv, Numbers
<1>2. /\ pos' = row /\ lastRowsetSize' = size /\ count' = count /\ result'.ret = "success"
      /\ eof' = (fetchRetData /\ RowsFrom(row) < size /\ row + RowsFrom(row) = count)
      /\ result'.start = row /\ result'.rows = RowsFrom(row)
  BY <1>1 DEF FetchRowset
<1>3. due' = IF Whole(row, RowsFrom(row)) THEN row + RowsFrom(row) ELSE Unknown
  BY <1>2 DEF DueAfter
<1>4. EndAtLast'
  BY <1>2 DEF EndAtLast
<1>5. CASE ~Whole(row, RowsFrom(row))
  BY <1>3, <1>4, <1>5 DEF Ahead
<1>6. CASE Whole(row, RowsFrom(row))
  <2>1. RowsFrom(row) \in {size, count - row} /\ RowsFrom(row) <= size /\ RowsFrom(row) <= count - row
    <3>1. size \in Int /\ count - row \in Int
      BY <1>1
    <3> QED BY <1>6, <3>1, MinOfTwo DEF Whole
  <2>2. due' = row + RowsFrom(row) /\ due' \in Nat
    BY <1>1, <1>3, <1>6
  <2>3. due' < count => RowsFrom(row) = size
    BY <1>1, <2>1, <2>2
  <2> QED BY <1>1, <1>2, <1>4, <2>1, <2>2, <2>3 DEF Ahead
<1> QED BY <1>5, <1>6

\* NEXT reaches the row due, and otherwise the end.
LEMMA NextAhead ==
  ASSUME HInv, FetchNext, UNCHANGED <<count, attributes>>, due' = DueAfter
  PROVE  /\ Ahead' /\ EndAtLast'
         /\ due # Unknown => IF due < count
                             THEN result'.ret = "success" /\ result'.start = due
                             ELSE result'.ret = "noData"
<1>1. /\ pos \in Nat /\ count \in Nat /\ lastRowsetSize \in Nat /\ size \in Nat \ {0}
      /\ due \in Nat \cup {-1}
  BY ConstantsAssumption DEF HInv, IInv, Numbers, Ahead, Unknown
<1>2. CASE eof /\ pos = count - 1
  <2>1. Stay /\ result'.ret = "noData" /\ result'.call = "NEXT" /\ UNCHANGED count
    BY <1>2 DEF FetchNext, Returns
  <2>2. due' = due
    BY <2>1 DEF DueAfter
  <2> QED BY <1>1, <1>2, <2>1, <2>2 DEF HInv, Ahead, EndAtLast, Stay, Unknown
<1>3. CASE ~(eof /\ pos = count - 1)
  <2> DEFINE row == pos + lastRowsetSize
  <2>1. FetchRowset("NEXT", row, FALSE)
    BY <1>3 DEF FetchNext
  <2>2. row \in Nat
    BY <1>1
  <2>3. due # Unknown => IF due < count THEN row = due ELSE row >= count
    BY <1>1, <1>3 DEF HInv, Ahead
  <2> HIDE DEF row
  <2>4. CASE row \in 0 .. count - 1
    <3>1. result'.ret = "success" /\ result'.start = row
      BY <1>1, <2>1, <2>4 DEF FetchRowset
    <3>2. Ahead' /\ EndAtLast'
      BY <2>1, <2>4, RowsetAhead
    <3> QED BY <1>1, <2>3, <2>4, <3>1, <3>2
  <2>5. CASE row \notin 0 .. count - 1
    <3>1. row >= count
      BY <1>1, <2>2, <2>5
    <3>2. /\ result'.ret = "noData" /\ result'.call = "NEXT" /\ count' = count
          /\ lastRowsetSize' = size /\ pos' = LastRow
      BY <1>1, <2>1, <2>2, <2>5, <3>1 DEF FetchRowset, LastRow
    <3>3. due' = due
      BY <3>2 DEF DueAfter
    <3>4. due # Unknown => due >= count
      BY <1>1, <2>3, <3>1 DEF Unknown
    <3>5. pos' + lastRowsetSize' >= count /\ (count > 0 => pos' = count - 1)
      BY <1>1, <3>2 DEF LastRow
    <3> QED BY <1>1, <3>2, <3>3, <3>4, <3>5 DEF HInv, Ahead, EndAtLast, Unknown
  <2> QED BY <2>4, <2>5
<1> QED BY <1>2, <1>3

LEMMA PriorAhead ==
  ASSUME HInv, Prior, UNCHANGED <<count, attributes>>, due' = DueAfter
  PROVE  Ahead' /\ EndAtLast'
<1>1. pos \in Nat /\ count \in Nat /\ size \in Nat \ {0}
  BY ConstantsAssumption DEF HInv, IInv, Numbers
<1>2. CASE count > 0 /\ pos > 0
  <2> DEFINE row == pos - size + (IF place = "after" THEN 1 ELSE 0)
             start == Max({row, 0})
  <2>1. FetchRowset("PRIOR", start, row < 0)
    BY <1>2 DEF Prior
  <2>2. start \in Nat
    <3>1. row \in Int
      BY <1>1
    <3> HIDE DEF row
    <3>2. Max({row, 0}) \in {row, 0} /\ Max({row, 0}) >= 0
      BY <3>1, MaxOfTwo
    <3> QED BY <3>1, <3>2
  <2> HIDE DEF start
  <2>3. CASE start \in 0 .. count - 1
    BY <2>1, <2>3, RowsetAhead
  <2>4. CASE start \notin 0 .. count - 1
    <3>1. result'.ret = "noData" /\ result'.call = "PRIOR" /\ place' = "after"
      BY <1>1, <1>2, <2>1, <2>2, <2>4 DEF FetchRowset
    <3>2. due' = Unknown
      BY <3>1 DEF DueAfter
    <3> QED BY <3>1, <3>2 DEF Ahead, EndAtLast
  <2> QED BY <2>3, <2>4
<1>3. CASE ~(count > 0 /\ pos > 0)
  <2>1. /\ place' = "before" /\ pos' = 0 /\ lastRowsetSize' = 0 /\ eof' = eof /\ count' = count
        /\ result'.ret = "noData" /\ result'.call = "PRIOR"
    BY <1>3 DEF Prior, Returns
  <2>2. due' = IF eof /\ count = 1 THEN Unknown ELSE 0
    BY <2>1 DEF DueAfter
  <2> QED BY <1>1, <2>1, <2>2 DEF Ahead, EndAtLast, Unknown
<1> QED BY <1>2, <1>3

\* Of the other calls only a rowset says what is due.
LEMMA OtherAhead ==
  ASSUME HInv, UNCHANGED <<count, attributes>>, due' = DueAfter, NEW call, call # "NEXT", call # "PRIOR"
  PROVE  /\ BeforeFirst(call) \/ AfterLast(call) => Ahead' /\ EndAtLast'
         /\ Stay /\ Returns(call, "error") => Ahead' /\ EndAtLast'
         /\ \A row \in Int : \A warned : FetchRowset(call, row, warned) => Ahead' /\ EndAtLast'
<1>1. ASSUME result'.ret = "noData", result'.call = call PROVE Ahead' /\ EndAtLast'
  <2>1. due' = Unknown
    BY <1>1 DEF DueAfter
  <2> QED BY <1>1, <2>1 DEF Ahead, EndAtLast
<1>2. BeforeFirst(call) \/ AfterLast(call) => Ahead' /\ EndAtLast'
  BY <1>1 DEF BeforeFirst, AfterLast, Returns
<1>3. ASSUME Stay, Returns(call, "error") PROVE Ahead' /\ EndAtLast'
  <2>1. result'.ret = "error" /\ due' = due
    BY <1>3 DEF Returns, DueAfter
  <2> QED BY <1>3, <2>1 DEF HInv, Ahead, EndAtLast, Stay
<1>4. ASSUME NEW row \in Int, NEW warned, FetchRowset(call, row, warned) PROVE Ahead' /\ EndAtLast'
  <2>1. CASE row \in 0 .. count - 1
    BY <1>4, <2>1, RowsetAhead
  <2>2. CASE row \notin 0 .. count - 1
    <3>1. result'.ret = "noData" /\ result'.call = call
      BY <1>4, <2>2 DEF FetchRowset
    <3> QED BY <1>1, <3>1
  <2> QED BY <2>1, <2>2
<1> QED BY <1>2, <1>3, <1>4

LEMMA FetchScrollAhead == ASSUME HInv, FetchScroll PROVE Ahead' /\ EndAtLast'
<1>1. UNCHANGED <<count, attributes>> /\ due' = DueAfter
  BY DEF FetchScroll, By
<1>2. CASE FetchNext \/ Prior
  BY <1>1, <1>2, NextAhead, PriorAhead
<1>3. CASE First
  <2>1. 0 \in Int
    OBVIOUS
  <2> QED BY <1>1, <1>3, <2>1, OtherAhead DEF First
<1>4. CASE Last
  <2>1. (IF count = 0 THEN pos ELSE FromEnd) \in Int
    BY FromEndInt DEF HInv, IInv, Numbers
  <2> QED BY <1>1, <1>4, <2>1, OtherAhead DEF Last
<1>5. ASSUME NEW call \in {"ABSOLUTE", "RELATIVE"}, NEW k \in Int, Absolute(call, k)
      PROVE  Ahead' /\ EndAtLast'
  <2>1. FromEnd \in Int /\ count + k \in Int /\ k - 1 \in Int /\ 0 \in Int
    BY FromEndInt DEF HInv, IInv, Numbers
  <2>2. \/ FetchRowset(call, k - 1, FALSE) \/ FetchRowset(call, FromEnd, FALSE)
        \/ FetchRowset(call, count + k, FALSE) \/ FetchRowset(call, 0, TRUE) \/ BeforeFirst(call)
    BY <1>5 DEF Absolute
  <2> QED BY <1>1, <2>1, <2>2, OtherAhead
<1>6. ASSUME NEW k \in Int, Relative(k) PROVE Ahead' /\ EndAtLast'
  <2>1. pos + k \in Int
    BY DEF HInv, IInv, Numbers
  <2>2. \/ FetchRowset("RELATIVE", pos + k, TRUE) \/ FetchRowset("RELATIVE", pos + k, FALSE)
        \/ BeforeFirst("RELATIVE") \/ AfterLast("RELATIVE") \/ Absolute("RELATIVE", k)
    BY <1>6 DEF Relative, RelativeToRow
  <2> QED BY <1>1, <1>5, <2>1, <2>2, OtherAhead
<1>7. ASSUME NEW k \in Int, Bookmark(k) PROVE Ahead' /\ EndAtLast'
  <2>1. bookmark + k - 1 \in Int
    BY ConstantsAssumption DEF HInv, IInv, Numbers
  <2>2. \/ Stay /\ Returns("BOOKMARK", "error")
        \/ FetchRowset("BOOKMARK", bookmark + k - 1, FALSE) \/ BeforeFirst("BOOKMARK") \/ AfterLast("BOOKMARK")
    BY <1>7 DEF Bookmark
  <2> QED BY <1>1, <2>1, <2>2, OtherAhead
<1>8. Offsets \subseteq Int
  BY ConstantsAssumption
<1> QED BY <1>2, <1>3, <1>4, <1>5, <1>6, <1>7, <1>8 DEF FetchScroll

LEMMA HInvHolds == Spec => []HInv
<1>1. Init => HInv
  <2> SUFFICES ASSUME Init PROVE HInv OBVIOUS
  <2>1. IInv
    BY InitInv
  <2>2. count \in Nat
    BY ConstantsAssumption DEF Init
  <2> QED BY <2>1, <2>2 DEF Init, HInv, Ahead, EndAtLast, Unknown, LastRow
<1>2. HInv /\ [Next]_vars => HInv'
  <2> SUFFICES ASSUME HInv, [Next]_vars PROVE Ahead' /\ EndAtLast'
    BY StepInv DEF HInv
  <2>1. CASE Forward
    BY <2>1, NextAhead DEF Forward, Fetch, By
  <2>2. CASE FetchScroll
    BY <2>2, FetchScrollAhead
  <2>3. ASSUME NEW row \in 1 .. Max(Sizes), SetPos(row) PROVE Ahead' /\ EndAtLast'
    BY <2>3 DEF SetPos, Returns, Ahead, EndAtLast
  <2>4. CASE SetAttribute
    BY <2>4 DEF SetAttribute, Stay, HInv, Ahead, EndAtLast
  <2>5. CASE StartLoop \/ UNCHANGED vars
    BY <2>5 DEF StartLoop, vars, fetchVars, HInv, Ahead, EndAtLast
  <2> QED BY <2>1, <2>2, <2>3, <2>4, <2>5 DEF Next
<1> QED BY <1>1, <1>2, PTL DEF Spec

\* A reader that goes forward is given every row once and in order, then
\* SQL_NO_DATA, for results and rowsets of any size and every change of the
\* rowset size between two calls (sqlFetchScrollCursorStatic, SQL_FETCH_NEXT).
THEOREM RowsOnce == Spec => EveryRowOnce
<1> DEFINE Given ==
       (FetchCall("NEXT") /\ due # Unknown)
       => IF due < count
          THEN result'.ret = "success" /\ result'.start = due
          ELSE result'.ret = "noData"
<1>1. HInv /\ [Next]_vars => [Given]_vars
  <2> SUFFICES ASSUME HInv, Next, ~UNCHANGED vars, FetchCall("NEXT"), due # Unknown
               PROVE  IF due < count
                      THEN result'.ret = "success" /\ result'.start = due
                      ELSE result'.ret = "noData"
    OBVIOUS
  <2>1. FetchNext /\ UNCHANGED <<count, attributes>> /\ due' = DueAfter
    BY StepIs DEF FetchCall
  <2> QED BY <2>1, NextAhead
<1> QED BY <1>1, HInvHolds, PTL DEF Spec, EveryRowOnce

\* When the rows have run out PRIOR comes back to the last rowset, to the rows
\* before the last one if `eof' stopped NEXT on it, and to nothing if there is
\* only one row; for results and rowsets of any size (line 1041).
THEOREM PriorComesBack == Spec => PriorFromEnd
<1> DEFINE End == IF place = "after" THEN count ELSE count - 1
           ComesBack ==
       (FetchCall("PRIOR") /\ RanOut /\ fetchRetData /\ maxRows = 0)
       => LET end == IF place = "after" THEN count ELSE count - 1
          IN  IF count = 1
              THEN result'.ret = "noData"
              ELSE /\ result'.ret = "success"
                   /\ result'.start = Max({end - size, 0})
                   /\ result'.rows = Min({size, count - result'.start})
<1>1. HInv /\ [Next]_vars => [ComesBack]_vars
  <2> SUFFICES ASSUME HInv, Next, ~UNCHANGED vars, FetchCall("PRIOR"), RanOut,
                      fetchRetData, maxRows = 0
               PROVE  IF count = 1
                      THEN result'.ret = "noData"
                      ELSE /\ result'.ret = "success"
                           /\ result'.start = Max({End - size, 0})
                           /\ result'.rows = Min({size, count - result'.start})
    OBVIOUS
  <2>1. Prior
    BY StepIs DEF FetchCall
  <2>2. count \in Nat /\ size \in Nat \ {0} /\ count > 0 /\ pos = count - 1
    BY ConstantsAssumption DEF HInv, IInv, Numbers, Positions, LastRow, EndAtLast, RanOut
  <2>3. CASE count = 1
    BY <2>1, <2>2, <2>3 DEF Prior, Returns
  <2>4. CASE count # 1
    <3> DEFINE row == Max({End - size, 0})
    <3>1. FetchRowset("PRIOR", row, End - size < 0)
      <4>1. pos - size + (IF place = "after" THEN 1 ELSE 0) = End - size
        BY <2>2
      <4>2. count > 0 /\ pos > 0
        BY <2>2, <2>4
      <4> HIDE DEF End
      <4> QED BY <2>1, <4>1, <4>2 DEF Prior
    <3>2. End - size \in Int /\ End <= count
      BY <2>2
    <3> HIDE DEF End
    <3>3. row \in {End - size, 0} /\ row >= 0
      <4>1. \A n \in Int : Max({n, 0}) \in {n, 0} /\ Max({n, 0}) >= 0
        BY MaxOfTwo
      <4> QED BY <3>2, <4>1
    <3>4. RowsFrom(row) = Min({size, count - row})
      <4>1. {size, count - row} \cup ({maxRows} \ {0}) = {size, count - row}
        OBVIOUS
      <4> QED BY <4>1 DEF RowsFrom
    <3>5. End \in Int
      BY <2>2 DEF End
    <3> HIDE DEF row
    <3>6. row \in 0 .. count - 1
      BY <2>2, <3>2, <3>3, <3>5
    <3>7. result'.ret = "success" /\ result'.start = row /\ result'.rows = RowsFrom(row)
      BY <3>1, <3>6 DEF FetchRowset
    <3> QED BY <2>4, <3>4, <3>7 DEF row
  <2> QED BY <2>3, <2>4
<1> QED BY <1>1, HInvHolds, PTL DEF Spec, PriorFromEnd

-----------------------------------------------------------------------------
(* The block table (StaticBuffer) *)

B == nMAXROWBLOCK

LEMMA Positive == B \in Nat /\ B > 0
  BY BufferConstants DEF B

-----------------------------------------------------------------------------
\* Arithmetic of blocks.

LEMMA Times == \A a, b \in Int : a < b => a * B + B <= b * B
<1> SUFFICES ASSUME NEW a \in Int, NEW b \in Int, a < b
             PROVE  a * B + B <= b * B
  OBVIOUS
<1>1. PICK d \in Nat : b = a + 1 + d
  <2>1. b - a - 1 \in Nat /\ b = a + 1 + (b - a - 1)
    OBVIOUS
  <2> QED BY <2>1
<1>2. b * B = a * B + B + d * B
  BY <1>1, Positive, Z3
<1>3. d * B >= 0
  BY Positive, Z3
<1>4. a * B \in Int /\ d * B \in Int /\ b * B \in Int
  BY <1>1, Positive
<1> QED BY <1>2, <1>3, <1>4, Positive

\* A row number determines its block and its place in the block.
LEMMA OneBlock ==
  ASSUME NEW p \in Int, NEW q \in Int, NEW r \in 0 .. B - 1, NEW s \in 0 .. B - 1,
         p * B + r = q * B + s
  PROVE  p = q /\ r = s
<1> p * B \in Int /\ q * B \in Int
  BY Positive
<1>1. ~(p < q)
  BY Times, Positive
<1>2. ~(q < p)
  BY Times, Positive
<1> QED BY <1>1, <1>2, Positive

LEMMA Division ==
  ASSUME NEW n \in Nat
  PROVE  /\ n \div B \in Nat
         /\ n % B \in 0 .. B - 1
         /\ n = (n \div B) * B + (n % B)
  BY Positive, Z3

LEMMA Located ==
  ASSUME NEW q \in Nat, NEW r \in 0 .. B - 1
  PROVE  (q * B + r) \div B = q /\ (q * B + r) % B = r
<1> DEFINE n == q * B + r
<1>1. n \in Nat
  <2>1. q * B \in Nat
    BY Positive
  <2> QED BY <2>1, Positive
<1>2. n \div B \in Nat /\ n % B \in 0 .. B - 1 /\ n = (n \div B) * B + (n % B)
  BY <1>1, Division
<1> HIDE DEF n
<1>3. n = q * B + r
  BY DEF n
<1>4. n \div B = q /\ n % B = r
  BY <1>2, <1>3, OneBlock
<1> QED BY <1>4 DEF n

\* Rows counted from the first row of a block of rows min .. max - 1.
LEMMA InsideStep ==
  ASSUME NEW it \in Int, NEW row \in Int, NEW min \in Nat, NEW max \in Int,
         max = min + B, it = row - min, it \in -1 .. B - 1, row + 1 < max
  PROVE  it + 1 \in 0 .. B - 1 /\ it + 1 \in Nat /\ row + 1 \in Nat
                                /\ it + 1 = row + 1 - min
  BY Positive

LEMMA OutsideStep ==
  ASSUME NEW it \in Int, NEW row \in Int, NEW min \in Int, NEW max \in Int,
         max = min + B, it = row - min, it \in -1 .. B - 1, ~(row + 1 < max)
  PROVE  row + 1 = min + B
  BY Positive

LEMMA InsideSeek ==
  ASSUME NEW n \in Nat, NEW min \in Nat, NEW max \in Int,
         max = min + B, n \in min .. max - 1
  PROVE  /\ n - min - 1 \in -1 .. B - 1
         /\ n - min - 1 = n - 1 - min
         /\ n - 1 \in Nat \cup {-1}
         /\ n - min - 1 \in Nat \cup {-1}
  BY Positive

-----------------------------------------------------------------------------
\* The operations of a cursor.

\* The parts of BufferTypeOK and IteratorInBlock about the cursor c.
Placed(c) ==
  /\ c \in Cursor
  /\ c.curBlock < Len(c.blocks)
  /\ c.minRow = c.curBlock * B
  /\ c.maxRow = c.minRow + B
  /\ c.it = c.curRow - c.minRow
  /\ c.it \in -1 .. B - 1

Capacity(c) == Len(c.blocks) * B

LEMMA NewBlockType == NewBlock \in [Index -> Row]
  BY DEF NewBlock, Row

\* The row under the iterator is row curRow of the result set.
LEMMA CurrentRow ==
  ASSUME NEW c, Placed(c), c.it >= 0
  PROVE  Current(c) = RowAt(c, c.curRow)
<1>t. /\ c.curBlock \in Nat /\ c.it \in Int /\ c.curRow \in Int /\ c.minRow \in Int
      /\ c.minRow = c.curBlock * B /\ c.it = c.curRow - c.minRow
      /\ c.it \in -1 .. B - 1
  BY DEF Placed, Cursor
<1>1. c.curBlock \in Nat /\ c.it \in 0 .. B - 1
  <2> DEFINE it == c.it
  <2>1. it \in -1 .. B - 1 /\ it >= 0
    BY <1>t
  <2> HIDE DEF it
  <2>2. it \in 0 .. B - 1
    BY <2>1, Positive
  <2> QED BY <1>t, <2>2 DEF it
<1>2. c.curRow = c.curBlock * B + c.it
  BY <1>t
<1>3. c.curRow \div B = c.curBlock /\ c.curRow % B = c.it
  BY <1>1, <1>2, Located
<1> QED BY <1>3 DEF Current, RowAt, B

\* A row before the end of the blocks is in one of them.
LEMMA RowInBlocks ==
  ASSUME NEW c \in Cursor, NEW n \in Nat, n < Capacity(c)
  PROVE  n \div B < Len(c.blocks) /\ n \div B \in Nat /\ n % B \in Index
<1> DEFINE q == n \div B
           r == n % B
<1>1. q \in Nat /\ r \in 0 .. B - 1 /\ n = q * B + r
  BY Division
<1>2. Len(c.blocks) \in Nat
  BY DEF Cursor
<1> HIDE DEF q, r
<1>3. ~(Len(c.blocks) < q)
  <2> SUFFICES ASSUME Len(c.blocks) < q PROVE FALSE
    OBVIOUS
  <2>1. Len(c.blocks) * B + B <= q * B
    BY <1>1, <1>2, Times
  <2>2. Len(c.blocks) * B \in Int /\ q * B \in Int
    BY <1>1, <1>2, Positive
  <2> QED BY <2>1, <2>2, <1>1, Positive DEF Capacity
<1>4. Len(c.blocks) # q
  <2> SUFFICES ASSUME Len(c.blocks) = q PROVE FALSE
    OBVIOUS
  <2>1. q * B \in Int
    BY <1>1, Positive
  <2> QED BY <2>1, <1>1, Positive DEF Capacity
<1> QED BY <1>1, <1>2, <1>3, <1>4 DEF q, r, Index, B

\* nextPosition() steps on by one row, whatever block it is in.
LEMMA NextPositionStep ==
  ASSUME NEW c, Placed(c)
  PROVE  LET d == NextPosition(c)
         IN  /\ Placed(d)
             /\ d.it >= 0
             /\ d.curRow = c.curRow + 1
             /\ d.countAllRows = c.countAllRows
             /\ Len(d.blocks) >= Len(c.blocks)
             /\ Len(d.blocks) * B >= Capacity(c)
             /\ \A b \in 1 .. Len(c.blocks) : d.blocks[b] = c.blocks[b]
<1> DEFINE d == NextPosition(c)
<1>t. /\ c.blocks \in Seq([Index -> Row]) /\ c.curBlock \in Nat /\ c.minRow \in Nat
      /\ c.maxRow \in Nat /\ c.curRow \in Int /\ c.it \in Int
      /\ c.curRow \in Nat \cup {-1} /\ Len(c.blocks) \in Nat
      /\ c.countAllRows \in Nat
  BY DEF Placed, Cursor
<1>p. /\ c.curBlock < Len(c.blocks) /\ c.maxRow = c.minRow + B
      /\ c.it = c.curRow - c.minRow /\ c.it \in -1 .. B - 1
  BY DEF Placed
<1>q. c.minRow = c.curBlock * B
  BY DEF Placed
<1>m. c.curBlock * B \in Int
  BY <1>t, Positive
<1>1. CASE c.curRow + 1 < c.maxRow
  <2>1. d = [c EXCEPT !.curRow = @ + 1, !.it = @ + 1]
    BY <1>1 DEF NextPosition
  <2>2. /\ d.blocks = c.blocks /\ d.curBlock = c.curBlock /\ d.minRow = c.minRow
        /\ d.maxRow = c.maxRow /\ d.curRow = c.curRow + 1 /\ d.it = c.it + 1
        /\ d.countAllRows = c.countAllRows
    BY <2>1 DEF Placed, Cursor
  <2>3. /\ c.it + 1 \in 0 .. B - 1 /\ c.it + 1 \in Nat /\ c.curRow + 1 \in Nat
        /\ c.it + 1 = c.curRow + 1 - c.minRow
    <3> DEFINE it == c.it  row == c.curRow  min == c.minRow  max == c.maxRow
    <3>1. /\ it \in Int /\ row \in Int /\ min \in Nat /\ max \in Int
          /\ max = min + B /\ it = row - min /\ it \in -1 .. B - 1 /\ row + 1 < max
      BY <1>1, <1>t, <1>p
    <3> HIDE DEF it, row, min, max
    <3>2. it + 1 \in 0 .. B - 1 /\ it + 1 \in Nat /\ row + 1 \in Nat
                               /\ it + 1 = row + 1 - min
      BY <3>1, InsideStep
    <3> QED BY <3>2 DEF it, row, min
  <2>4. d \in Cursor
    BY <2>1, <2>3 DEF Placed, Cursor
  <2> HIDE DEF d
  <2>5. Placed(d)
    <3>1. c.it + 1 = c.curRow + 1 - c.minRow
      BY <2>3
    <3>2. d.it \in -1 .. B - 1
      BY <2>2, <2>3, Positive
    <3>3. d.it = d.curRow - d.minRow
      BY <1>t, <1>p, <2>2
    <3>4. d.curBlock < Len(d.blocks) /\ d.minRow = d.curBlock * B
      BY <1>p, <1>q, <2>2
    <3>5. d.maxRow = d.minRow + B
      BY <1>p, <2>2
    <3> QED BY <2>4, <3>2, <3>3, <3>4, <3>5 DEF Placed
  <2>6. Len(c.blocks) * B \in Int
    BY <1>t, Positive
  <2>7. Len(d.blocks) * B >= Capacity(c)
    BY <2>2, <2>6 DEF Capacity
  <2>8. Len(d.blocks) >= Len(c.blocks)
    BY <2>2, <1>t
  <2> QED BY <2>2, <2>3, <2>5, <2>7, <2>8, Positive DEF d
<1>2. CASE ~(c.curRow + 1 < c.maxRow)
  <2> DEFINE bs == IF c.curBlock + 1 < Len(c.blocks) THEN c.blocks
                                                     ELSE Append(c.blocks, NewBlock)
  <2>1. d = [c EXCEPT !.blocks = bs, !.curBlock = @ + 1, !.it = 0,
                      !.curRow = @ + 1, !.minRow = c.curRow + 1,
                      !.maxRow = c.curRow + 1 + B]
    BY <1>2 DEF NextPosition, B
  <2>2. /\ d.blocks = bs /\ d.curBlock = c.curBlock + 1 /\ d.it = 0
        /\ d.curRow = c.curRow + 1 /\ d.minRow = c.curRow + 1
        /\ d.maxRow = c.curRow + 1 + B /\ d.countAllRows = c.countAllRows
    BY <2>1 DEF Placed, Cursor
  <2>3. /\ bs \in Seq([Index -> Row])
        /\ Len(bs) >= Len(c.blocks)
        /\ Len(bs) > c.curBlock + 1
        /\ Len(bs) \in Nat
        /\ \A b \in 1 .. Len(c.blocks) : bs[b] = c.blocks[b]
    BY <1>t, NewBlockType DEF Placed
  <2>4. c.curBlock * B \in Int /\ (c.curBlock + 1) * B = c.curBlock * B + B
    BY <1>t, Positive, Z3
  <2>5. c.curRow + 1 = (c.curBlock + 1) * B
    <3>1. c.curRow + 1 = c.minRow + B
      BY <1>t, <1>p, <1>2, OutsideStep
    <3> QED BY <1>q, <2>4, <3>1
  <2> HIDE DEF bs
  <2>6. d \in Cursor
    <3>1. c.curRow + 1 \in Nat /\ c.curRow + 1 + B \in Nat /\ c.curBlock + 1 \in Nat
      BY <1>t, Positive
    <3>2. c \in Cursor
      BY DEF Placed
    <3> HIDE DEF d
    <3> QED BY <2>1, <2>3, <3>1, <3>2 DEF Cursor
  <2> HIDE DEF d
  <2>7. Placed(d)
    <3>1. d.it = d.curRow - d.minRow /\ d.it \in -1 .. B - 1
      BY <1>t, <2>2, Positive
    <3> QED BY <2>2, <2>3, <2>5, <2>6, <3>1 DEF Placed
  <2>8. Len(bs) * B >= Len(c.blocks) * B
    <3>1. CASE Len(bs) = Len(c.blocks)
      BY <3>1, <1>t, Positive
    <3>2. CASE Len(c.blocks) < Len(bs)
      <4>1. Len(c.blocks) * B + B <= Len(bs) * B
        BY <3>2, <1>t, <2>3, Times
      <4>2. Len(c.blocks) * B \in Int /\ Len(bs) * B \in Int
        BY <1>t, <2>3, Positive
      <4> QED BY <4>1, <4>2, Positive
    <3> QED BY <3>1, <3>2, <1>t, <2>3
  <2> QED BY <2>2, <2>3, <2>7, <2>8 DEF d, Capacity
<1> QED BY <1>1, <1>2

\* current(n) finds the block and leaves the iterator just before row n.
LEMMA SeekStep ==
  ASSUME NEW c, Placed(c), NEW n \in Nat, n <= Capacity(c)
  PROVE  LET d == Seek(c, n)
         IN  /\ Placed(d)
             /\ d.curRow = n - 1
             /\ d.countAllRows = c.countAllRows
             /\ d.blocks = c.blocks
<1>t. /\ c.blocks \in Seq([Index -> Row]) /\ c.curBlock \in Nat /\ c.minRow \in Nat
      /\ c.maxRow \in Nat /\ Len(c.blocks) \in Nat
      /\ c.curBlock * B \in Int
  BY Positive DEF Placed, Cursor
<1>p. c.maxRow = c.minRow + B
  BY DEF Placed
<1>1. CASE n \in c.minRow .. c.maxRow - 1
  <2>1. Seek(c, n) = [c EXCEPT !.curRow = n - 1, !.it = n - c.minRow - 1]
    BY <1>1 DEF Seek, Before
  <2>2. /\ n - c.minRow - 1 \in -1 .. B - 1
        /\ n - c.minRow - 1 = n - 1 - c.minRow
        /\ n - 1 \in Nat \cup {-1}
        /\ n - c.minRow - 1 \in Nat \cup {-1}
    <3> DEFINE min == c.minRow  max == c.maxRow
    <3>1. min \in Nat /\ max \in Int /\ max = min + B /\ n \in min .. max - 1
      BY <1>1, <1>t, <1>p
    <3> HIDE DEF min, max
    <3>2. /\ n - min - 1 \in -1 .. B - 1
          /\ n - min - 1 = n - 1 - min
          /\ n - 1 \in Nat \cup {-1}
          /\ n - min - 1 \in Nat \cup {-1}
      BY <3>1, InsideSeek
    <3> QED BY <3>2 DEF min
  <2> QED BY <2>1, <2>2 DEF Placed, Cursor
<1>2. CASE n \notin c.minRow .. c.maxRow - 1
  <2> DEFINE P(b) == n <= (b + 1) * B /\ (b > 0 => b * B < n)
             e == InBlock(c, BlockOf(c, n))
  <2>1. \E b \in 0 .. Len(c.blocks) - 1 : P(b)
    <3>1. CASE n = 0
      <4>1. 0 \in 0 .. Len(c.blocks) - 1
        BY <1>t DEF Placed
      <4>2. P(0)
        BY <3>1, Positive
      <4> QED BY <4>1, <4>2
    <3>2. CASE n > 0
      <4> DEFINE q == (n - 1) \div B
                 r == (n - 1) % B
      <4>1. q \in Nat /\ r \in 0 .. B - 1 /\ n - 1 = q * B + r
        BY <3>2, Division
      <4>2. q < Len(c.blocks)
        <5>1. n - 1 \in Nat /\ n - 1 < Capacity(c)
          BY <3>2, <1>t, Positive DEF Capacity
        <5> QED BY <5>1, RowInBlocks DEF Placed
      <4> HIDE DEF q, r
      <4>3. q * B \in Int /\ (q + 1) * B = q * B + B
        BY <4>1, Positive, Z3
      <4>4. P(q)
        BY <4>1, <4>3, Positive
      <4> QED BY <4>1, <4>2, <4>4, <1>t
    <3> QED BY <3>1, <3>2
  <2>2. BlockOf(c, n) \in 0 .. Len(c.blocks) - 1 /\ P(BlockOf(c, n))
    <3>1. BlockOf(c, n) = CHOOSE b \in 0 .. Len(c.blocks) - 1 : P(b)
      BY DEF BlockOf, B
    <3> QED BY <2>1, <3>1
  <2> DEFINE b == BlockOf(c, n)
  <2>3. b \in Nat /\ b < Len(c.blocks) /\ n <= (b + 1) * B /\ (b > 0 => b * B < n)
    BY <2>2, <1>t
  <2>4. Seek(c, n) = [e EXCEPT !.curRow = n - 1, !.it = n - e.minRow - 1]
    BY <1>2 DEF Seek, Before
  <2>5. e = [c EXCEPT !.curBlock = b, !.minRow = b * B, !.maxRow = (b + 1) * B]
    BY DEF InBlock, B
  <2> HIDE DEF b, P
  <2>6. b * B \in Nat /\ (b + 1) * B = b * B + B /\ (b + 1) * B \in Nat
    BY <2>3, Positive, Z3
  <2>7. e \in Cursor
    BY <2>3, <2>5, <2>6 DEF Placed, Cursor
  <2>8. /\ e.blocks = c.blocks /\ e.curBlock = b /\ e.minRow = b * B
        /\ e.maxRow = b * B + B /\ e.countAllRows = c.countAllRows
    BY <2>5, <2>6 DEF Placed, Cursor
  <2> HIDE DEF e
  <2>9. n >= b * B
    BY <2>3, <2>6, Positive
  <2>10. /\ n - e.minRow - 1 \in -1 .. B - 1
         /\ n - e.minRow - 1 = n - 1 - e.minRow
         /\ n - 1 \in Nat \cup {-1}
         /\ n - e.minRow - 1 \in Nat \cup {-1}
    <3> DEFINE m == b * B
    <3>1. m \in Nat /\ e.minRow = m /\ n >= m /\ n <= m + B /\ n \in Nat
      BY <2>3, <2>6, <2>8, <2>9
    <3> HIDE DEF m
    <3> QED BY <3>1, Positive
  <2> QED BY <2>3, <2>4, <2>7, <2>8, <2>10 DEF Placed, Cursor
<1> QED BY <1>1, <1>2

\* The row that a cursor stands on or before is in its blocks.
LEMMA BelowCapacity ==
  ASSUME NEW c, Placed(c)
  PROVE  c.curRow < Capacity(c) /\ Capacity(c) \in Nat /\ c.curRow \in Int
<1>t. /\ c.curBlock \in Nat /\ Len(c.blocks) \in Nat /\ c.minRow \in Nat
      /\ c.curRow \in Int
  BY DEF Placed, Cursor
<1>p. /\ c.curBlock < Len(c.blocks) /\ c.it = c.curRow - c.minRow
      /\ c.it \in -1 .. B - 1
  BY DEF Placed
<1>q. c.minRow = c.curBlock * B
  BY DEF Placed
<1>1. c.curBlock * B + B <= Len(c.blocks) * B
  BY <1>t, <1>p, Times
<1>2. c.curBlock * B \in Int /\ Len(c.blocks) * B \in Nat
  BY <1>t, Positive
<1>3. c.curRow < c.minRow + B
  BY <1>t, <1>p, Positive
<1> QED BY <1>t, <1>q, <1>1, <1>2, <1>3, Positive DEF Capacity

\* Blocks that are only added to keep their rows.
LEMMA RowKept ==
  ASSUME NEW c \in Cursor, NEW d, NEW n \in Nat, n < Capacity(c),
         \A b \in 1 .. Len(c.blocks) : d.blocks[b] = c.blocks[b]
  PROVE  RowAt(d, n) = RowAt(c, n)
<1>1. n \div B < Len(c.blocks) /\ n \div B \in Nat
  BY RowInBlocks
<1>2. n \div B + 1 \in 1 .. Len(c.blocks)
  <2>1. Len(c.blocks) \in Nat
    BY DEF Cursor
  <2> QED BY <1>1, <2>1
<1> QED BY <1>2 DEF RowAt, B

LEMMA RowType ==
  ASSUME NEW c \in Cursor, NEW n \in Nat, n < Capacity(c)
  PROVE  RowAt(c, n) \in Row
<1>1. n \div B < Len(c.blocks) /\ n \div B \in Nat /\ n % B \in Index
  BY RowInBlocks
<1>2. c.blocks \in Seq([Index -> Row]) /\ Len(c.blocks) \in Nat
  BY DEF Cursor
<1>3. c.blocks[n \div B + 1] \in [Index -> Row]
  <2>1. n \div B + 1 \in 1 .. Len(c.blocks)
    BY <1>1, <1>2
  <2> QED BY <1>2, <2>1
<1> QED BY <1>1, <1>3 DEF RowAt, B

\* The cursor with row r written under the iterator, as addRow() counts it.
Written(c, r) ==
  [c EXCEPT !.blocks[c.curBlock + 1][c.it] = r, !.countAllRows = @ + 1]

LEMMA WrittenStep ==
  ASSUME NEW c, Placed(c), c.it >= 0, NEW r \in Row
  PROVE  LET d == Written(c, r)
         IN  /\ Placed(d)
             /\ d.it = c.it
             /\ d.curRow = c.curRow
             /\ d.countAllRows = c.countAllRows + 1
             /\ Capacity(d) = Capacity(c)
             /\ RowAt(d, c.curRow) = r
             /\ \A n \in Nat : n < Capacity(c) /\ n # c.curRow
                                 => RowAt(d, n) = RowAt(c, n)
<1> DEFINE d == Written(c, r)
           old == c.blocks[c.curBlock + 1]
           new == [old EXCEPT ![c.it] = r]
           bs == [c.blocks EXCEPT ![c.curBlock + 1] = new]
<1>t. /\ c.blocks \in Seq([Index -> Row]) /\ c.curBlock \in Nat
      /\ Len(c.blocks) \in Nat /\ c.countAllRows \in Nat
      /\ c.it \in Index /\ c.curBlock + 1 \in 1 .. Len(c.blocks)
      /\ c.curRow \in Int /\ c.minRow \in Nat
  <2>1. c.it \in 0 .. B - 1
    BY Positive DEF Placed
  <2> QED BY <2>1 DEF Placed, Cursor, Index, B
<1>1. d = [c EXCEPT !.blocks = bs, !.countAllRows = @ + 1]
  BY DEF Written
<1>2. old \in [Index -> Row]
  BY <1>t
<1>3. new \in [Index -> Row] /\ new[c.it] = r
      /\ \A i \in Index \ {c.it} : new[i] = old[i]
  BY <1>t, <1>2
<1> HIDE DEF new
<1>4. /\ bs \in Seq([Index -> Row]) /\ Len(bs) = Len(c.blocks)
      /\ bs[c.curBlock + 1] = new
      /\ \A b \in 1 .. Len(c.blocks) : b # c.curBlock + 1 => bs[b] = c.blocks[b]
  BY <1>t, <1>3
<1> HIDE DEF bs
<1>5. d \in Cursor
  <2>1. c \in Cursor /\ c.countAllRows + 1 \in Nat
    BY <1>t DEF Placed
  <2> HIDE DEF d
  <2> QED BY <1>1, <1>4, <2>1 DEF Cursor
<1>6. /\ d.blocks = bs /\ d.curBlock = c.curBlock /\ d.minRow = c.minRow
      /\ d.maxRow = c.maxRow /\ d.curRow = c.curRow /\ d.it = c.it
      /\ d.countAllRows = c.countAllRows + 1
  BY <1>1 DEF Placed, Cursor
<1> HIDE DEF d
<1>7. Placed(d)
  BY <1>4, <1>5, <1>6 DEF Placed
<1>8. Capacity(d) = Capacity(c)
  BY <1>4, <1>6 DEF Capacity
<1>9. RowAt(d, c.curRow) = r
  <2>1. RowAt(d, d.curRow) = Current(d)
    BY <1>6, <1>7, CurrentRow
  <2> QED BY <1>3, <1>4, <1>6, <2>1 DEF Current
<1>10. ASSUME NEW n \in Nat, n < Capacity(c), n # c.curRow
       PROVE  RowAt(d, n) = RowAt(c, n)
  <2> DEFINE q == n \div B
             i == n % B
  <2>1. q \in Nat /\ i \in 0 .. B - 1 /\ n = q * B + i
    BY Division
  <2>2. q < Len(c.blocks) /\ i \in Index
    BY <1>10, RowInBlocks DEF Placed
  <2> HIDE DEF q, i
  <2>3. q + 1 \in 1 .. Len(c.blocks)
    BY <1>t, <2>1, <2>2
  <2>4. c.curRow = c.curBlock * B + c.it
    <3>1. c.it = c.curRow - c.minRow
      BY DEF Placed
    <3>2. c.minRow = c.curBlock * B
      BY DEF Placed
    <3>3. c.curRow = c.minRow + c.it
      BY <1>t, <3>1 DEF Index
    <3> QED BY <3>2, <3>3
  <2>5. CASE q = c.curBlock
    <3>1. i # c.it
      BY <1>10, <2>1, <2>4, <2>5
    <3>2. bs[q + 1][i] = c.blocks[q + 1][i]
      BY <1>3, <1>4, <2>2, <2>5, <3>1
    <3> QED BY <1>6, <3>2 DEF RowAt, q, i, B
  <2>6. CASE q # c.curBlock
    <3>1. q + 1 # c.curBlock + 1
      BY <1>t, <2>1, <2>6
    <3>2. bs[q + 1] = c.blocks[q + 1]
      BY <1>4, <2>3, <3>1
    <3> QED BY <1>6, <3>2 DEF RowAt, q, i, B
  <2> QED BY <2>5, <2>6
<1> QED BY <1>6, <1>7, <1>8, <1>9, <1>10 DEF d

-----------------------------------------------------------------------------
\* The inductive invariant.

\* While rows are read the iterator stands on the row to be written; the
\* first row is there, and copied, before it is written too.
Writing ==
  loading => /\ cursor.it >= 0
             /\ cursor.curRow = cursor.countAllRows
             /\ cursor.countAllRows = 0 => RowAt(cursor, 0) = Garbage

BufferInv ==
  /\ BufferTypeOK
  /\ Placed(cursor)
  /\ cursor.countAllRows <= Capacity(cursor)
  /\ Writing

LEMMA BufferInvInit == BufferInit => BufferInv
<1> SUFFICES ASSUME BufferInit PROVE BufferInv
  OBVIOUS
<1>1. cursor \in Cursor /\ Len(cursor.blocks) = 1
  BY NewBlockType, Positive DEF BufferInit, Cursor, B
<1>2. 0 * B = 0 /\ 1 * B = B
  BY Positive
<1>3. Placed(cursor)
  BY <1>1, <1>2, Positive DEF BufferInit, Placed, B
<1>4. cursor.countAllRows <= Capacity(cursor)
  BY <1>1, <1>2, Positive DEF BufferInit, Capacity
<1>5. RowAt(cursor, 0) = Garbage
  <2>1. (0 * B + 0) \div B = 0 /\ (0 * B + 0) % B = 0
    BY Located, Positive
  <2>2. cursor.blocks[1] = NewBlock /\ 0 \in Index
    BY Positive DEF BufferInit, Index, B
  <2> QED BY <1>2, <2>1, <2>2 DEF RowAt, NewBlock, B
<1> QED BY <1>1, <1>3, <1>4, <1>5 DEF BufferInit, BufferInv, BufferTypeOK, Writing, Row

\* What a step does: the row added, the row read, and the rows kept.
Added(d) ==
  /\ cursor'.countAllRows = cursor.countAllRows + 1
  /\ RowAt(cursor', cursor.countAllRows) = d
  /\ \A n \in 0 .. cursor.countAllRows - 1 : RowAt(cursor', n) = RowAt(cursor, n)

Kept ==
  /\ cursor'.countAllRows = cursor.countAllRows
  /\ \A n \in Nat : n < Capacity(cursor) => RowAt(cursor', n) = RowAt(cursor, n)

LEMMA AddRowStep ==
  ASSUME BufferInv, NEW d \in Data, AddRow(d)
  PROVE  BufferInv' /\ Added(d)
<1> DEFINE w == Written(cursor, d)
           k == cursor.countAllRows
<1>1. /\ Placed(cursor) /\ cursor.it >= 0 /\ cursor.curRow = k /\ k \in Nat
      /\ d \in Row
  BY DEF BufferInv, Writing, AddRow, BufferTypeOK, Cursor, Row
<1>2. k < Capacity(cursor)
  BY <1>1, BelowCapacity
<1>3. /\ Placed(w) /\ w.curRow = k /\ w.countAllRows = k + 1
      /\ Capacity(w) = Capacity(cursor) /\ RowAt(w, k) = d
      /\ \A n \in Nat : n < Capacity(cursor) /\ n # k
                          => RowAt(w, n) = RowAt(cursor, n)
  BY <1>1, WrittenStep
<1>4. cursor' = NextPosition(w)
  BY DEF AddRow, Written
<1> HIDE DEF w
<1>5. /\ Placed(cursor') /\ cursor'.it >= 0 /\ cursor'.curRow = k + 1
      /\ cursor'.countAllRows = k + 1
      /\ \A b \in 1 .. Len(w.blocks) : cursor'.blocks[b] = w.blocks[b]
  BY <1>3, <1>4, NextPositionStep
<1>6. \A n \in 0 .. k : RowAt(cursor', n) = RowAt(w, n)
  <2> SUFFICES ASSUME NEW n \in 0 .. k PROVE RowAt(cursor', n) = RowAt(w, n)
    OBVIOUS
  <2>1. n \in Nat /\ n < Capacity(w)
    BY <1>1, <1>2, <1>3, BelowCapacity
  <2>2. w \in Cursor
    BY <1>3 DEF Placed
  <2> QED BY <1>5, <2>1, <2>2, RowKept
<1>7. Added(d)
  <2>1. \A n \in 0 .. k - 1 : n \in Nat /\ n < Capacity(cursor) /\ n # k /\ n \in 0 .. k
    BY <1>1, <1>2, BelowCapacity
  <2>2. k \in 0 .. k
    BY <1>1
  <2> QED BY <1>3, <1>5, <1>6, <2>1, <2>2 DEF Added
<1>8. cursor'.countAllRows <= Capacity(cursor')
  BY <1>1, <1>5, BelowCapacity
<1>9. BufferTypeOK'
  BY <1>1, <1>5 DEF AddRow, BufferInv, BufferTypeOK, Placed
<1>10. Writing'
  BY <1>1, <1>5 DEF Writing
<1> QED BY <1>5, <1>7, <1>8, <1>9, <1>10 DEF BufferInv

\* Steps that move the iterator: it ends before or on a row, and no row of
\* the result set changes.
LEMMA Moved ==
  ASSUME BufferInv, Placed(cursor'), loading' = FALSE, buffer' \in Row,
         cursor'.countAllRows = cursor.countAllRows,
         Capacity(cursor') >= Capacity(cursor),
         \A b \in 1 .. Len(cursor.blocks) : cursor'.blocks[b] = cursor.blocks[b]
  PROVE  BufferInv' /\ Kept
<1> DEFINE k == cursor.countAllRows
<1>1. Placed(cursor) /\ cursor \in Cursor /\ k \in Nat /\ k <= Capacity(cursor)
  BY DEF BufferInv, BufferTypeOK, Cursor
<1>2. Capacity(cursor) \in Nat /\ Capacity(cursor') \in Nat
  BY <1>1, BelowCapacity
<1>3. Kept
  BY <1>1, RowKept DEF Kept
<1>4. cursor'.countAllRows <= Capacity(cursor')
  BY <1>1, <1>2
<1>5. BufferTypeOK' /\ Writing'
  BY DEF BufferTypeOK, Writing, Placed
<1> QED BY <1>3, <1>4, <1>5 DEF BufferInv

\* The row that is read into the buffer.
LEMMA RowRead ==
  ASSUME NEW c, Placed(c), c.it >= 0
  PROVE  Current(c) = RowAt(c, c.curRow) /\ Current(c) \in Row
<1>1. c \in Cursor /\ c.curRow \in Nat /\ c.curRow < Capacity(c)
  <2>1. c.minRow \in Nat /\ c.it = c.curRow - c.minRow /\ c.curRow \in Int
    BY DEF Placed, Cursor
  <2>2. c.it \in Nat
    BY Positive DEF Placed
  <2> QED BY <2>1, <2>2, BelowCapacity DEF Placed
<1>2. Current(c) = RowAt(c, c.curRow)
  BY CurrentRow
<1> QED BY <1>1, <1>2, RowType

LEMMA SetCurrentRowStep ==
  ASSUME BufferInv, NEW n \in 0 .. MaxRows, SetCurrentRow(n)
  PROVE  BufferInv' /\ Kept /\ cursor'.curRow = n - 1
<1>1. /\ Placed(cursor) /\ n \in Nat /\ n < cursor.countAllRows
      /\ cursor.countAllRows <= Capacity(cursor)
      /\ cursor.countAllRows \in Nat
  BY BufferConstants DEF BufferInv, SetCurrentRow, BufferTypeOK, Cursor
<1>2. n <= Capacity(cursor)
  BY <1>1, BelowCapacity
<1>3. /\ Placed(cursor') /\ cursor'.curRow = n - 1
      /\ cursor'.countAllRows = cursor.countAllRows
      /\ cursor'.blocks = cursor.blocks
  BY <1>1, <1>2, SeekStep DEF SetCurrentRow
<1>4. Capacity(cursor') = Capacity(cursor) /\ Capacity(cursor) \in Nat
  BY <1>1, <1>3, BelowCapacity DEF Capacity
<1>5. loading' = FALSE /\ buffer' \in Row
  BY DEF SetCurrentRow, BufferInv, BufferTypeOK
<1>6. /\ Capacity(cursor') >= Capacity(cursor)
      /\ \A b \in 1 .. Len(cursor.blocks) : cursor'.blocks[b] = cursor.blocks[b]
  BY <1>3, <1>4
<1>7. BufferInv' /\ Kept
  BY <1>3, <1>5, <1>6, Moved
<1> QED BY <1>3, <1>7

\* nextPosition() from a cursor c that has the blocks of the current one.
LEMMA ReadStep ==
  ASSUME BufferInv, NEW c, Placed(c), c.blocks = cursor.blocks,
         c.countAllRows = cursor.countAllRows,
         cursor' = NextPosition(c), buffer' = Current(cursor'), loading' = FALSE
  PROVE  /\ BufferInv'
         /\ Kept
         /\ cursor'.curRow = c.curRow + 1
         /\ buffer' = RowAt(cursor', c.curRow + 1)
<1>1. /\ Placed(cursor') /\ cursor'.it >= 0 /\ cursor'.curRow = c.curRow + 1
      /\ cursor'.countAllRows = cursor.countAllRows
      /\ Len(cursor'.blocks) * B >= Capacity(c)
      /\ \A b \in 1 .. Len(cursor.blocks) : cursor'.blocks[b] = cursor.blocks[b]
  BY NextPositionStep
<1>2. Capacity(cursor') >= Capacity(cursor)
  BY <1>1 DEF Capacity
<1>3. buffer' = RowAt(cursor', c.curRow + 1) /\ buffer' \in Row
  BY <1>1, RowRead
<1>4. BufferInv' /\ Kept
  BY <1>1, <1>2, <1>3, Moved
<1> QED BY <1>1, <1>3, <1>4

LEMMA CopyNextStep ==
  ASSUME BufferInv, CopyNext
  PROVE  /\ BufferInv'
         /\ Kept
         /\ cursor'.curRow = cursor.curRow + 1
         /\ buffer' = RowAt(cursor', cursor.curRow + 1)
<1>1. loading' = FALSE
  BY DEF CopyNext, BufferInv, BufferTypeOK
<1>2. Placed(cursor)
  BY DEF BufferInv
<1> QED BY <1>1, <1>2, ReadStep DEF CopyNext

LEMMA SeekAndRead ==
  ASSUME BufferInv, NEW n \in Nat, n <= Capacity(cursor), loading' = FALSE,
         cursor' = NextPosition(Seek(cursor, n)), buffer' = Current(cursor')
  PROVE  BufferInv' /\ Kept /\ cursor'.curRow = n /\ buffer' = RowAt(cursor', n)
<1> DEFINE c == Seek(cursor, n)
<1>1. /\ Placed(c) /\ c.curRow = n - 1 /\ c.countAllRows = cursor.countAllRows
      /\ c.blocks = cursor.blocks
  BY SeekStep DEF BufferInv
<1>2. cursor' = NextPosition(c)
  OBVIOUS
<1> HIDE DEF c
<1>3. /\ BufferInv' /\ Kept /\ cursor'.curRow = c.curRow + 1
      /\ buffer' = RowAt(cursor', c.curRow + 1)
  BY <1>1, <1>2, ReadStep
<1>4. c.curRow + 1 = n
  BY <1>1
<1> QED BY <1>3, <1>4

LEMMA GetDataStep ==
  ASSUME BufferInv, NEW n \in 0 .. MaxRows, GetData(n)
  PROVE  BufferInv' /\ Kept /\ cursor'.curRow = n /\ buffer' = RowAt(cursor', n)
<1>1. n \in Nat /\ n <= Capacity(cursor)
  <2>1. /\ n \in Nat /\ n < cursor.countAllRows /\ cursor.countAllRows \in Nat
        /\ cursor.countAllRows <= Capacity(cursor)
    BY BufferConstants DEF GetData, BufferInv, BufferTypeOK, Cursor
  <2>2. Capacity(cursor) \in Nat
    BY BelowCapacity DEF BufferInv
  <2> QED BY <2>1, <2>2
<1>2. loading' = FALSE
  BY DEF GetData, BufferInv, BufferTypeOK
<1> QED BY <1>1, <1>2, SeekAndRead DEF GetData

LEMMA LoadedStep ==
  ASSUME BufferInv, Loaded
  PROVE  BufferInv' /\ Kept /\ cursor'.curRow = 0 /\ buffer' = RowAt(cursor', 0)
<1>1. 0 <= Capacity(cursor)
  BY BelowCapacity DEF BufferInv
<1> QED BY <1>1, SeekAndRead DEF Loaded

LEMMA BufferInvNext == BufferInv /\ [BufferNext]_bufferVars => BufferInv'
<1> SUFFICES ASSUME BufferInv, [BufferNext]_bufferVars PROVE BufferInv'
  OBVIOUS
<1>1. ASSUME NEW d \in Data, AddRow(d) PROVE BufferInv'
  BY <1>1, AddRowStep
<1>2. CASE Loaded
  BY <1>2, LoadedStep
<1>3. CASE CopyNext
  BY <1>3, CopyNextStep
<1>4. ASSUME NEW n \in 0 .. MaxRows, SetCurrentRow(n) PROVE BufferInv'
  BY <1>4, SetCurrentRowStep
<1>5. ASSUME NEW n \in 0 .. MaxRows, GetData(n) PROVE BufferInv'
  BY <1>5, GetDataStep
<1>6. CASE UNCHANGED bufferVars
  BY <1>6 DEF bufferVars, BufferInv, BufferTypeOK, Writing
<1> QED BY <1>1, <1>2, <1>3, <1>4, <1>5, <1>6 DEF BufferNext

\* Every member of the buffer has a value of its type, and the iterator never
\* leaves its block while rows are added, sought and read: no access of
\* listBlocks or of a block is out of range (nextPosition, current, addRow).
THEOREM BufferPlaced == BufferSpec => [](BufferTypeOK /\ IteratorInBlock)
<1>1. BufferInit => BufferInv
  BY BufferInvInit
<1>2. BufferInv /\ [BufferNext]_bufferVars => BufferInv'
  BY BufferInvNext
<1>3. BufferInv => BufferTypeOK /\ IteratorInBlock
  BY DEF BufferInv, Placed, IteratorInBlock, B
<1> QED BY <1>1, <1>2, <1>3, PTL DEF BufferSpec

-----------------------------------------------------------------------------
\* Refinement.

Count == cursor.countAllRows

LEMMA StoredType ==
  ASSUME BufferInv
  PROVE  /\ Count \in Nat
         /\ Stored \in Seq(Row)
         /\ Len(Stored) = Count
         /\ \A n \in 0 .. Count - 1 : Stored[n + 1] = RowAt(cursor, n)
<1>1. /\ Count \in Nat /\ cursor \in Cursor /\ Count <= Capacity(cursor)
      /\ Capacity(cursor) \in Nat
  BY BelowCapacity DEF BufferInv, Count, BufferTypeOK, Cursor
<1>2. \A n \in 1 .. Count : RowAt(cursor, n - 1) \in Row
  <2> SUFFICES ASSUME NEW n \in 1 .. Count PROVE RowAt(cursor, n - 1) \in Row
    OBVIOUS
  <2>1. n - 1 \in Nat /\ n - 1 < Capacity(cursor)
    BY <1>1
  <2> QED BY <1>1, <2>1, RowType
<1>3. Stored \in [1 .. Count -> Row]
  BY <1>2 DEF Stored, Count
<1>4. Stored \in Seq(Row) /\ Len(Stored) = Count
  BY <1>1, <1>3
<1>5. ASSUME NEW n \in 0 .. Count - 1 PROVE Stored[n + 1] = RowAt(cursor, n)
  <2>1. n + 1 \in 1 .. Count /\ n + 1 - 1 = n
    BY <1>1
  <2> QED BY <2>1 DEF Stored, Count
<1> QED BY <1>1, <1>4, <1>5

LEMMA StoredKept == BufferInv /\ Kept => Stored' = Stored
<1> SUFFICES ASSUME BufferInv, Kept PROVE Stored' = Stored
  OBVIOUS
<1>1. Count \in Nat /\ cursor'.countAllRows = Count
  BY StoredType DEF Kept, Count
<1>2. \A n \in 1 .. Count : RowAt(cursor', n - 1) = RowAt(cursor, n - 1)
  <2>1. Count <= Capacity(cursor) /\ Capacity(cursor) \in Nat
    BY BelowCapacity DEF BufferInv, Count
  <2>2. \A n \in 1 .. Count : n - 1 \in Nat /\ n - 1 < Capacity(cursor)
    BY <1>1, <2>1
  <2> QED BY <2>2 DEF Kept
<1> QED BY <1>1, <1>2 DEF Stored, Count

LEMMA SequenceOf ==
  ASSUME NEW s \in Seq(Row)
  PROVE  s = [n \in 1 .. Len(s) |-> s[n]]
  OBVIOUS

LEMMA StoredAdded ==
  ASSUME BufferInv, NEW d \in Data, Added(d)
  PROVE  Stored' = Append(Stored, d)
<1>1. /\ Count \in Nat /\ cursor'.countAllRows = Count + 1
      /\ Stored \in Seq(Row) /\ Len(Stored) = Count
      /\ \A n \in 0 .. Count - 1 : Stored[n + 1] = RowAt(cursor, n)
  BY StoredType DEF Added, Count
<1>2. Stored' = [n \in 1 .. Count + 1 |-> RowAt(cursor', n - 1)]
  BY <1>1 DEF Stored
<1>3. ASSUME NEW n \in 1 .. Count + 1
      PROVE  RowAt(cursor', n - 1) = Append(Stored, d)[n]
  <2>1. CASE n = Count + 1
    <3>1. n - 1 = Count
      BY <1>1, <2>1
    <3>2. RowAt(cursor', n - 1) = d
      BY <3>1 DEF Added, Count
    <3> QED BY <1>1, <2>1, <3>2
  <2>2. CASE n # Count + 1
    <3>1. n - 1 \in 0 .. Count - 1 /\ n - 1 + 1 = n
      BY <1>1, <2>2
    <3>2. RowAt(cursor', n - 1) = Stored[n]
      BY <1>1, <3>1 DEF Added, Count
    <3> QED BY <1>1, <2>2, <3>2
  <2> QED BY <2>1, <2>2
<1>4. Stored' = [n \in 1 .. Count + 1 |-> Append(Stored, d)[n]]
  BY <1>2, <1>3
<1>5. Append(Stored, d) \in Seq(Row) /\ Len(Append(Stored, d)) = Count + 1
  BY <1>1 DEF Row
<1> QED BY <1>4, <1>5, SequenceOf

LEMMA StoredRow ==
  ASSUME BufferInv, Kept, NEW n \in 0 .. Count - 1
  PROVE  RowAt(cursor', n) = Stored[n + 1]
<1>1. n \in Nat /\ n < Count /\ Count \in Nat /\ Stored[n + 1] = RowAt(cursor, n)
  BY StoredType
<1>2. Count <= Capacity(cursor) /\ Capacity(cursor) \in Nat
  BY BelowCapacity DEF BufferInv, Count
<1>3. n < Capacity(cursor)
  BY <1>1, <1>2
<1> QED BY <1>1, <1>3 DEF Kept

LEMMA RefinesNext == BufferInv /\ [BufferNext]_bufferVars => [Rows!Next]_(Rows!vars)
<1> SUFFICES ASSUME BufferInv, [BufferNext]_bufferVars PROVE [Rows!Next]_(Rows!vars)
  OBVIOUS
<1> USE DEF Rows!Next, Rows!vars
<1>t. /\ Count \in Nat /\ Len(Stored) = Count /\ loading \in BOOLEAN
      /\ \A n \in 0 .. Count - 1 : Stored[n + 1] = RowAt(cursor, n)
      /\ cursor.curRow \in Int
  BY StoredType, BelowCapacity DEF BufferInv, BufferTypeOK
<1>1. ASSUME NEW d \in Data, AddRow(d) PROVE Rows!Add(d)
  <2>1. Stored' = Append(Stored, d)
    BY <1>1, AddRowStep, StoredAdded
  <2> QED BY <1>1, <2>1 DEF AddRow, Rows!Add
<1>2. ASSUME Loaded PROVE Rows!Load
  <2>1. /\ BufferInv' /\ Kept /\ Stored' = Stored /\ cursor'.curRow = 0
        /\ buffer' = RowAt(cursor', 0)
    BY <1>2, LoadedStep, StoredKept
  <2>2. CASE Count = 0
    <3>1. 0 < Capacity(cursor)
      BY <1>2, <2>2, BelowCapacity DEF BufferInv, Writing, Loaded, Count
    <3>2. RowAt(cursor', 0) = RowAt(cursor, 0)
      BY <2>1, <3>1 DEF Kept
    <3>3. buffer' = Garbage
      BY <1>2, <2>1, <2>2, <3>2 DEF BufferInv, Writing, Loaded, Count
    <3>4. Stored = <<>>
      BY <1>t, <2>2
    <3> QED BY <1>2, <2>1, <3>3, <3>4 DEF Loaded, Rows!Load
  <2>3. CASE Count # 0
    <3>1. 0 \in 0 .. Count - 1 /\ Stored # <<>>
      BY <1>t, <2>3
    <3>2. Stored[0 + 1] = RowAt(cursor, 0)
      BY <1>t, <3>1
    <3>3. RowAt(cursor', 0) = RowAt(cursor, 0)
      <4>1. Count <= Capacity(cursor) /\ Capacity(cursor) \in Nat
        BY BelowCapacity DEF BufferInv, Count
      <4>2. 0 < Capacity(cursor)
        BY <1>t, <2>3, <4>1
      <4> QED BY <2>1, <4>2 DEF Kept
    <3> QED BY <1>2, <2>1, <3>1, <3>2, <3>3 DEF Loaded, Rows!Load
  <2> QED BY <2>2, <2>3
<1>3. ASSUME CopyNext PROVE Rows!ReadNext
  <2>1. /\ BufferInv' /\ Kept /\ Stored' = Stored
        /\ cursor'.curRow = cursor.curRow + 1
        /\ buffer' = RowAt(cursor', cursor.curRow + 1)
    BY <1>3, CopyNextStep, StoredKept
  <2>2. cursor.curRow + 1 \in 0 .. Count - 1 /\ ~loading
    <3>1. cursor.curRow \in Nat \cup {-1}
      BY DEF BufferInv, BufferTypeOK, Cursor
    <3> QED BY <1>3, <1>t, <3>1 DEF CopyNext, Count
  <2>3. buffer' = Stored[cursor.curRow + 1 + 1]
    BY <1>t, <2>1, <2>2, StoredRow
  <2> QED BY <1>3, <1>t, <2>1, <2>2, <2>3 DEF CopyNext, Rows!ReadNext, Rows!Read
<1>4. ASSUME NEW n \in 0 .. MaxRows, SetCurrentRow(n)
      PROVE  n \in 0 .. Len(Stored) - 1 /\ Rows!Position(n)
  <2>1. Stored' = Stored /\ cursor'.curRow = n - 1
    BY <1>4, SetCurrentRowStep, StoredKept
  <2>2. n \in 0 .. Count - 1 /\ n - 1 + 1 = n
    BY <1>4, <1>t, BufferConstants DEF SetCurrentRow, Count
  <2> QED BY <1>4, <1>t, <2>1, <2>2 DEF SetCurrentRow, Rows!Position
<1>5. ASSUME NEW n \in 0 .. MaxRows, GetData(n)
      PROVE  n \in 0 .. Len(Stored) - 1 /\ Rows!Read(n)
  <2>1. /\ BufferInv' /\ Kept /\ Stored' = Stored /\ cursor'.curRow = n
        /\ buffer' = RowAt(cursor', n)
    BY <1>5, GetDataStep, StoredKept
  <2>2. n \in 0 .. Count - 1
    BY <1>5, <1>t, BufferConstants DEF GetData, Count
  <2>3. buffer' = Stored[n + 1]
    BY <1>t, <2>1, <2>2, StoredRow
  <2> QED BY <1>5, <1>t, <2>1, <2>2, <2>3 DEF GetData, Rows!Read
<1>6. CASE UNCHANGED bufferVars
  <2>1. Stored' = Stored
    BY <1>6 DEF bufferVars, Stored, RowAt
  <2> QED BY <1>6, <2>1 DEF bufferVars
<1> QED BY <1>1, <1>2, <1>3, <1>4, <1>5, <1>6 DEF BufferNext

\* CDataStaticCursor keeps the rows it was given and returns the row it is
\* asked for, whatever the size of its blocks, the number of rows and the
\* order of seeks and reads (current, nextPosition, copyToBuffer).
THEOREM BufferImplementsRows == BufferSpec => ReadsRows
<1>1. BufferInit => BufferInv /\ Rows!Init
  <2>1. BufferInit => Stored = <<>>
    BY DEF BufferInit, Stored
  <2> QED BY <2>1, BufferInvInit DEF BufferInit, Rows!Init
<1>2. BufferInv /\ [BufferNext]_bufferVars => BufferInv'
  BY BufferInvNext
<1>3. BufferInv /\ [BufferNext]_bufferVars => [Rows!Next]_(Rows!vars)
  BY RefinesNext
<1> QED BY <1>1, <1>2, <1>3, PTL DEF BufferSpec, ReadsRows, Rows!Spec
=============================================================================
