-------------------------------- MODULE GetData --------------------------------
(***************************************************************************)
(* SQLGetData reads a value piece by piece (OdbcStatement::sqlGetData and  *)
(* the conversions of text and blobs in OdbcConvert), with what SQLPutData *)
(* or a bound parameter wrote into the blob before (IscBlob, Stream).      *)
(*                                                                         *)
(* One column is followed.  `rec' is its record of the row descriptor,     *)
(* whose place (`offset') every kind of read shares; `blob' its IscBlob;   *)
(* `copy' the wide text a conversion keeps between calls, in the column's  *)
(* record for a blob and in the target's for text.  `got' is what the      *)
(* application has put together in the present row.                        *)
(***************************************************************************)
EXTENDS Streams

CONSTANTS
  Byte,         \* what a text or a blob is made of
  Columns,      \* [source, static, bound]: the kinds of columns tried
  Tables,       \* sequences of rows, a row being Null or a sequence of the server's segments
  Sent,         \* what an application writes into the blob of the first row
  Pieces,       \* the lengths of the pieces it sends
  Buffers,      \* buffer lengths, in bytes
  BoundLength,  \* the length of the bound buffer
  WideChar,     \* sizeof(wchar_t)
  MayFail, Again, NoData, Null, None

Sources == {"fixed", "varying", "clob", "blob"}
Targets == {"char", "wide", "binary"}
ASSUME GetDataConstants ==
  /\ Columns \subseteq [source : Sources, static : BOOLEAN, bound : Targets \cup {"no"}]
  /\ Tables \subseteq Seq({Null} \cup Seq(Seq(Byte))) /\ Sent \subseteq Seq(Byte)
  /\ Pieces \subseteq Nat \ {0} /\ Buffers \subseteq Nat /\ MayFail \in BOOLEAN /\ Again \in Nat
  /\ BoundLength \in Nat /\ WideChar \in Nat \ {0}
\* NULL is no value, None no text and no target, SQL_NO_DATA no other return.
ASSUME GetDataNames ==
  /\ Null \notin Seq(Seq(Byte \cup {Wild})) /\ None \notin Seq(Byte \cup {Wild}) /\ None \notin Targets
  /\ NoData \notin {"success", "info", "error", "crash"}

VARIABLES
  column, table,   \* chosen once; the table once the blob is written
  param,           \* the parameter: [sent, left, stream, route]
  countFetched, row, rec, blob, copy, boundCopy,
  target, room,    \* what the last SQLGetData of this row was asked for
  got, calls,      \* what this row gave, and the calls that offered room for it
  ret, restarts,
  torn             \* the server failed while the blob of this row was read
vars == <<column, table, param, countFetched, row, rec, blob, copy, boundCopy,
          target, room, got, calls, ret, restarts, torn>>
place == <<countFetched, row, rec, blob, copy, boundCopy>>

IsBlob == column.source \in {"clob", "blob"}
Value == IF row = 0 THEN Null ELSE table[row]
Bytes(v) == FlattenSeq(v)
\* A binary blob is text of hex digits; everything else is its bytes.
Hex(t) == column.source = "blob" /\ t # "binary"
Units(v, t) == IF Hex(t) THEN ToHex(Bytes(v)) ELSE Bytes(v)

\* How much of the buffer a piece may fill.
Capacity(t, length) ==
  CASE t = "char" -> Most2(0, length - 1)
    [] t = "wide" -> Most2(0, length \div WideChar - 1)
    [] OTHER      -> length

NewRecord == [current |-> 0, offset |-> 0, started |-> FALSE]
NoBlob == [id |-> 0, fetched |-> FALSE, stream |-> Empty(PieceLength)]

Init ==
  /\ column \in Columns
  /\ \/ table \in Tables /\ param = [sent |-> None, left |-> << >>, stream |-> Empty(PieceLength), route |-> "none"]
     \/ /\ column.source = "blob" /\ table = << >>
        /\ \E s \in Sent, r \in {"stream", "hexStream", "hexString", "direct"} :
             param = [sent |-> s, left |-> IF r \in {"hexStream", "hexString"} THEN ToHex(s) ELSE s,
                      stream |-> Empty(PieceLength), route |-> r]
  /\ countFetched = 0 /\ row = 0 /\ rec = NewRecord /\ blob = NoBlob
  /\ copy = None /\ boundCopy = None
  /\ target = None /\ room = 0 /\ got = << >> /\ calls = 0 /\ ret = "success" /\ restarts = 0 /\ torn = FALSE

-----------------------------------------------------------------------------
(* Writing the blob: SQLPutData once or more, then the end of the transfer;*)
(* or a bound parameter, at once.                                          *)
Writing == param.route # "none"
Stored(segments) ==
  /\ table' = <<NotEmpty(segments)>>
  /\ param' = [param EXCEPT !.route = "none", !.stream = Clear(@)]
  /\ UNCHANGED <<column, place, target, room, got, calls, ret, restarts, torn>>
PutData ==
  /\ param.route \in {"stream", "hexStream"} /\ param.left # << >>
  /\ \E n \in Pieces :
       LET k == Least2(n, Len(param.left))
       IN  param' = [param EXCEPT !.left = SubSeq(@, k + 1, Len(@)),
                                  !.stream = PutLongSegment(@, SubSeq(param.left, 1, k))]
  /\ UNCHANGED <<column, table, place, target, room, got, calls, ret, restarts, torn>>
EndPut ==
  /\ param.route \in {"stream", "hexStream"} /\ param.left = << >>
  /\ Stored(IF param.route = "stream" THEN WriteBlob(param.stream)
            ELSE WriteStreamHexToBlob(param.stream))
WriteBound ==
  /\ param.route \in {"hexString", "direct"}
  /\ Stored(IF param.route = "direct" THEN WriteData(param.left) ELSE WriteStringHexToBlob(param.left))

-----------------------------------------------------------------------------
(* One conversion: `t' the target, `length' its buffer, `bound' whether the   *)
(* fetch calls it (statusReturnData); w holds what it reads and changes.   *)
World == [rec |-> rec, blob |-> blob, copy |-> copy, boundCopy |-> boundCopy, count |-> countFetched,
          row |-> row, value |-> Value, len |-> 0, piece |-> << >>, ret |-> "success"]
Fetched(w) == w.rec.current = w.count
AtNewRow(w) == [w EXCEPT !.rec = [current |-> w.count, offset |-> 0, started |-> FALSE]]

\* The place of the next piece: `total' is the value's length in units, `was' that
\* the row was read before, `even' that only pairs are given, `moves' that the
\* place goes on.
BugAdvance(w, was, total, length, capacity, even, moves) ==       \* an empty value never ends
  LET left == total - w.rec.offset
      len  == LET n == Least2(left, capacity) IN IF even THEN n - (n % 2) ELSE n
  IN  IF length = 0 THEN w
      ELSE IF left = 0 /\ w.rec.offset # 0 /\ w.rec.started
           THEN [w EXCEPT !.rec.offset = 0, !.ret = NoData]
      ELSE [w EXCEPT !.rec.started = TRUE, !.rec.offset = IF moves THEN @ + len ELSE @,
                     !.len = len, !.ret = IF len > 0 /\ len < left THEN "info" ELSE "success"]
Advance(w, was, total, length, capacity, even, moves) ==
  LET left == total - w.rec.offset
      len  == LET n == Least2(left, capacity) IN IF even THEN n - (n % 2) ELSE n
  IN  IF length = 0 THEN w
      ELSE IF left = 0 /\ (w.rec.offset # 0 \/ was) /\ w.rec.started
           THEN [w EXCEPT !.rec.offset = 0, !.ret = NoData]
      ELSE [w EXCEPT !.rec.started = TRUE, !.rec.offset = IF moves THEN @ + len ELSE @,
                     !.len = len, !.ret = IF len > 0 /\ len < left THEN "info" ELSE "success"]

(* Text.  A wide text is converted once a row and read from the copy, whose *)
(* place moves also for a bound column.                                    *)
NarrowText(w, was, t, length, bound) ==
  LET a == Advance(w, was, Len(w.value), length, Capacity(t, length), FALSE, ~bound)
  IN  [a EXCEPT !.piece = SubSeq(w.value, w.rec.offset + 1, w.rec.offset + a.len)]
WideText(w, was, length, bound) ==
  LET old  == IF bound THEN w.boundCopy ELSE w.copy
      text == IF was THEN old ELSE w.value
      a    == Advance(w, was, Len(text), length, Capacity("wide", length), FALSE, TRUE)
      b    == [a EXCEPT !.piece = SubSeq(text, w.rec.offset + 1, w.rec.offset + a.len)]
  IN  IF text = None THEN [w EXCEPT !.ret = "crash"]
      ELSE IF bound THEN [b EXCEPT !.boundCopy = text] ELSE [b EXCEPT !.copy = text]

ConvStringToStringW(w, was, length, bound) == WideText(w, was, length, bound)
ConvVarStringToStringW(w, was, length, bound) == WideText(w, was, length, bound)

(* A blob is found anew in each row: shared with the row buffer of a static *)
(* cursor, or named, to be read when its length is asked for.               *)
BugBind(w) == [w EXCEPT !.blob = [id |-> w.row, fetched |-> FALSE, stream |-> @.stream]]
Bind(w) == [w EXCEPT !.blob = [id |-> w.row, fetched |-> FALSE, stream |-> Clear(@.stream)]]
AttachBlob(w) ==
  [w EXCEPT !.blob = [id |-> w.row, fetched |-> TRUE,
                      stream |-> Attach(@.stream, FetchInto(Empty(0), table[w.row]))]]
BugFetchBlob(w) ==                  \* stops after the first segment
  IF w.blob.fetched THEN w
  ELSE [w EXCEPT !.blob.stream = FetchInto(@, SubSeq(table[w.blob.id], 1, Least2(1, Len(table[w.blob.id])))), !.blob.fetched = TRUE]
FetchBlob(w) ==
  IF w.blob.fetched THEN w
  ELSE [w EXCEPT !.blob.stream = FetchInto(@, table[w.blob.id]), !.blob.fetched = TRUE]
BlobLength(w) == TotalLength(w.blob.stream)

\* Hex digits: an odd length leaves the last digit of the piece unwritten.
TakeHex(w, offset, len) ==
  LET g == GetSegment(w.blob.stream, offset \div 2, len \div 2, TRUE)
  IN  IF len = 0 THEN w
      ELSE [w EXCEPT !.blob.stream = g.stream,
                     !.piece = ToHex(g.data) \o IF len % 2 = 0 THEN << >> ELSE <<Wild>>]
TakeBytes(w, offset, len) ==
  LET g == GetSegment(w.blob.stream, offset, len, FALSE)
  IN  IF len = 0 THEN w ELSE [w EXCEPT !.blob.stream = g.stream, !.piece = g.data]

BlobPieces(w, was, t, length, bound) ==
  LET x == FetchBlob(w)
      a == Advance(x, was, BlobLength(x) * (IF Hex(t) THEN 2 ELSE 1), length, Capacity(t, length),
                   Hex(t) /\ t = "wide", ~bound)
  IN  IF Hex(t) THEN TakeHex(a, w.rec.offset, a.len) ELSE TakeBytes(a, w.rec.offset, a.len)

\* The text of a blob is converted as a whole, and the copy kept with the column.
WideBlob(w, was, length, bound) ==
  LET x == IF was THEN FetchBlob(w) ELSE FetchBlob([w EXCEPT !.copy = None])
      y == IF x.copy # None THEN x
           ELSE LET z == TakeBytes(x, 0, BlobLength(x)) IN [z EXCEPT !.copy = z.piece, !.piece = << >>]
      a == Advance(y, was, Len(y.copy), length, Capacity("wide", length), FALSE, ~bound)
  IN  [a EXCEPT !.piece = SubSeq(y.copy, w.rec.offset + 1, w.rec.offset + a.len)]

\* A bound blob of a forward cursor is read from the server itself; when it is
\* closed it counts as fetched, though the stream holds none of it.
DirectBlob(w, t, length) ==
  LET units == Units(table[w.row], t)
      a == Advance(w, FALSE, Len(units), length, Capacity(t, length), Hex(t) /\ t = "wide", FALSE)
  IN  [a EXCEPT !.piece = SubSeq(units, 1, a.len), !.blob.fetched = TRUE,
                !.copy = IF t = "wide" /\ ~Hex(t) THEN units ELSE @]

ConvBlobToBlob(w, was, length, bound) == BlobPieces(w, was, "binary", length, bound)
ConvBlobToString(w, was, length, bound) == BlobPieces(w, was, "char", length, bound)
ConvBlobToStringW(w, was, length, bound) ==
  IF Hex("wide") THEN BlobPieces(w, was, "wide", length, bound) ELSE WideBlob(w, was, length, bound)
ConvertBlob(w, was, t, length, bound) ==
  LET x == IF was THEN w ELSE IF column.static THEN AttachBlob(w) ELSE Bind(w)
  IN  IF bound /\ ~was /\ ~column.static THEN DirectBlob(w, t, length)
      ELSE CASE t = "wide" -> ConvBlobToStringW(x, was, length, bound)
             [] t = "char" -> ConvBlobToString(x, was, length, bound)
             [] OTHER      -> ConvBlobToBlob(x, was, length, bound)
ConvertText(w, was, t, length, bound) ==
  LET x == [w EXCEPT !.value = Bytes(@)]
  IN  IF t # "wide" THEN NarrowText(x, was, t, length, bound)
      ELSE IF column.source = "fixed" THEN ConvStringToStringW(x, was, length, bound)
      ELSE ConvVarStringToStringW(x, was, length, bound)
Convert(w, t, length, bound) ==
  LET was == Fetched(w)
      x   == IF was THEN w ELSE AtNewRow(w)
  IN  IF w.value = Null THEN w
      ELSE IF IsBlob THEN ConvertBlob(x, was, t, length, bound)
      ELSE ConvertText(x, was, t, length, bound)
Become(w) ==
  rec' = w.rec /\ blob' = w.blob /\ copy' = w.copy /\ boundCopy' = w.boundCopy

-----------------------------------------------------------------------------
StartRow == target' = None /\ room' = 0 /\ got' = << >> /\ calls' = 0 /\ ret' = "success" /\ torn' = FALSE
NewRow(r) ==
  LET w == [World EXCEPT !.count = countFetched + 1, !.row = r, !.value = table[r]]
      c == Convert(w, column.bound, BoundLength, TRUE)
  IN  /\ countFetched' = countFetched + 1 /\ row' = r
      /\ Become(IF column.bound = "no" THEN w ELSE c)
      /\ StartRow

\* SQLFetch; a row of a static cursor is its number in the buffer.
Fetch ==
  /\ ~Writing /\ row < Len(table) /\ ret # "crash"
  /\ NewRow(row + 1)
  /\ UNCHANGED <<column, table, param, restarts>>
\* SQLSetPos(SQL_POSITION) on the row it is on: the values are read again.
SetPos ==
  /\ row > 0 /\ column.static /\ restarts < Again /\ ret # "crash"
  /\ countFetched' = countFetched + 1 /\ restarts' = restarts + 1
  /\ StartRow
  /\ UNCHANGED <<column, table, param, row, rec, blob, copy, boundCopy>>
\* The statement is executed again: releaseResultSet, setResultSet.
Execute ==
  /\ row > 0 /\ restarts < Again /\ ret # "crash"
  /\ countFetched' = 0 /\ row' = 0 /\ restarts' = restarts + 1
  /\ rec' = [rec EXCEPT !.current = 0] /\ blob' = NoBlob /\ copy' = None
  /\ StartRow
  /\ UNCHANGED <<column, table, param, boundCopy>>
\* SQLFreeStmt(SQL_UNBIND) drops the record SQLGetData converts to.
Unbind ==
  /\ row > 0 /\ restarts < Again /\ ret # "crash" /\ column.bound = "no"
  /\ copy' = IF IsBlob THEN copy ELSE None
  /\ restarts' = restarts + 1
  /\ UNCHANGED <<column, table, param, countFetched, row, rec, blob, boundCopy, target, room, got, calls, ret, torn>>

\* Where the driver gives something else, see the README: a blob in a static
\* cursor, a column that is bound as well, a blob whose reading was broken off.
ExactFor(t) == /\ ~torn
               /\ ~(IsBlob /\ column.static)
               /\ column.bound # "no" => ~IsBlob /\ column.bound # "wide" /\ t # "wide"
Exact == ExactFor(target)

\* A buffer that holds something.
Ample(t, length) == Capacity(t, length) >= 2 /\ (Hex(t) => Capacity(t, length) % 2 = 0)
SqlGetData(t, length) ==
  \E c \in {Convert(World, t, length, FALSE)} :
    /\ Become(c) /\ target' = t /\ room' = length /\ ret' = c.ret /\ got' = got \o c.piece
    /\ calls' = IF Ample(t, length) /\ ret' # NoData /\ Value # Null /\ ExactFor(t)
              THEN calls + 1 ELSE calls
    /\ UNCHANGED <<column, table, param, countFetched, row, restarts, torn>>
\* Of hex digits the application takes whole bytes.
Even(t, length) == Hex(t) /\ t = "char" => Capacity(t, length) % 2 = 0
\* The application reads on until it is told that there is no more to read, with
\* one kind of target in a row.
GetPiece ==
  /\ row > 0 /\ ret \notin {NoData, "crash"}
  /\ \E t \in IF target = None THEN Targets ELSE {target}, length \in Buffers :
       Even(t, length) /\ SqlGetData(t, length)
\* The server stops answering while the blob is read.
GetFails ==
  /\ MayFail /\ row > 0 /\ ret \notin {NoData, "crash"} /\ restarts < Again
  /\ IsBlob /\ Value # Null /\ ~column.static
  /\ \E t \in IF target = None THEN Targets ELSE {target}, k \in 0..Len(Value) :
       LET w == IF Fetched(World) THEN World ELSE Bind(AtNewRow(World))
           x == [w EXCEPT !.blob.stream = FetchInto(@, SubSeq(Value, 1, k)),
                          !.copy = IF t = "wide" /\ ~Hex(t) THEN None ELSE @]
       IN  /\ ~w.blob.fetched
           /\ Become(x) /\ target' = t /\ ret' = "error" /\ torn' = TRUE
  /\ restarts' = restarts + 1
  /\ UNCHANGED <<column, table, param, countFetched, row, room, got, calls>>

Next == \/ PutData \/ EndPut \/ WriteBound
        \/ Fetch \/ SetPos \/ Execute \/ Unbind \/ GetPiece \/ GetFails
Spec == Init /\ [][Next]_vars

-----------------------------------------------------------------------------
Whole == Units(Value, target)
\* The pieces put together are the value from its beginning, of this row and no
\* other, whatever the lengths of the buffers, the segments the server sends, the
\* kind of target, and what was read, broken off or executed again before
\* (OdbcConvert.cpp 2609-3039, 3214-3356, 3492-3553, 3895-4098).
PiecesInOrder ==
  target # None /\ Value # Null /\ Exact /\ ret # "crash" => IsPrefix(got, Whole)

\* SQL_NO_DATA comes when all was given and never before, and SQL_SUCCESS from a
\* buffer that could hold something is the last piece.  (An empty text of a bound
\* column gives SQL_NO_DATA at once, a value that is NULL nothing.)
EndTold ==
  target # None /\ Value # Null /\ Exact
    => /\ ret = NoData => got = Whole
       /\ ret = "success" /\ Ample(target, room) => got = Whole

\* Every call that offers room brings something, and only the first of an empty
\* value may bring nothing: who reads on comes to SQL_NO_DATA.
ReadsMove == ret # "crash" => calls <= Most2(1, Len(got))

\* The server's blob is what the application sent, in whatever pieces: hex digits
\* are put together although a segment is written at a time (IscBlob.cpp 178-284).
WrittenAsSent == ~Writing /\ param.sent # None => Bytes(table[1]) = param.sent

\* Reading in pieces gives the value also in a static cursor.
StaticPieces ==
  target # None /\ Value # Null /\ column.bound = "no" /\ ret # "crash"
    => IsPrefix(got, Whole)
=============================================================================
