-------------------------------- MODULE Values --------------------------------
(***************************************************************************)
(* The conversions of one value, run on one case after the other: a number *)
(* to another type, a number to text and back, a day of the calendar.      *)
(* `item' is the case and, once `done', what the conversion made of it.    *)
(***************************************************************************)
EXTENDS Numbers

CONSTANTS
  Numbers,       \* the numerators tried
  Scales,        \* the scales tried
  Stamps,        \* points in time: pairs of a day number and ten-thousandths
  Declared,      \* declared types of columns, see ColumnTypes
  Fields,        \* fields of descriptors, see Attributes
  Starts, WalkDays, \* days at which a walk through the calendar begins; its length
  SetBound       \* settings of a cursor, calls on descriptors, in one case

D == INSTANCE Dates
T == INSTANCE ColumnTypes
A == INSTANCE Attributes

(* The calendar, the definition the conversions are checked against. *)
Leap(y) == y % 4 = 0 /\ (y % 100 # 0 \/ y % 400 = 0)
Length(d) == CASE d.month = 2 -> IF Leap(d.year) THEN 29 ELSE 28
               [] d.month \in {4, 6, 9, 11} -> 30
               [] OTHER -> 31
IsDate(d) ==
  /\ d = D!Day(d.year, d.month, d.day)
  /\ d.year \in Nat \ {0} /\ d.month \in 1..12 /\ d.day \in 1..Length(d)
\* The day after.
After(d) == IF d.day < Length(d) THEN D!Day(d.year, d.month, d.day + 1)
            ELSE IF d.month < 12 THEN D!Day(d.year, d.month + 1, 1)
            ELSE D!Day(d.year + 1, 1, 1)

\* The days the server knows: 1 January 1 to 31 December 9999.
FirstDay == -678575
LastDay  == 2973483
DayTime  == 24 * 60 * 60 * D!Precision

ASSUME ValueConstants ==
  /\ Numbers \subseteq Int /\ Scales \subseteq 0..3
  /\ WalkDays \in Nat /\ SetBound \in Nat
  /\ Stamps \subseteq (FirstDay .. LastDay) \X (0 .. DayTime - 1)
  /\ \A d \in Starts : IsDate(d)
  /\ Fields \subseteq A!HeadFields \cup A!RecordFields

VARIABLE item

-----------------------------------------------------------------------------
(* Records: a column (`sqlda') has the scale of its type; a parameter's or *)
(* a buffer's scale is 0 unless the application sets it.  Floating types    *)
(* have none in the server.                                                *)
Record(concise, scale, sqlda) ==
  [concise |-> concise, type |-> concise, scale |-> scale, sqlda |-> sqlda,
   dataBlob |-> FALSE, blobOrArray |-> FALSE, zeroColumn |-> FALSE, paramArray |-> FALSE]
Scalable(type) == IF type \in {"SHORT", "LONG", "BIGINT"} THEN Scales ELSE {0}
Records(types, sqlda) ==
  UNION {{Record(type, s, sqlda) : s \in Scalable(type)} : type \in types}
Inputs(type) ==
  CASE type \in Float -> {Frac(n, d) : n \in Numbers, d \in {1, 4}}
    [] OTHER          -> {Frac(n, 1) : n \in {m \in Numbers : Cast(type, m) = m}}

NumberCases ==
  UNION {[kind : {"number"}, from : {f}, to : Records(Number, ~f.sqlda), value : Inputs(f.concise)] :
         f \in Records(Number, TRUE) \cup Records(Number, FALSE)}
NumericCases ==
  UNION {[kind : {"numeric"}, from : {f}, to : Records(Number, TRUE), value : Inputs(f.concise)] :
         f \in Records({"TINYINT", "SHORT", "LONG", "BIGINT"}, TRUE)}
TextCases ==
  UNION {[kind : {"text"}, from : {f}, wide : BOOLEAN, length : {4, 40}, rest : {<< >>, <<"7">>},
          value : Inputs(f.concise)] : f \in Records(Whole, TRUE)}
StampCases == [kind : {"stamp"}, value : Stamps]
DayCases == {[kind |-> "day", date |-> d, day |-> D!EncodeDate(d), left |-> WalkDays] : d \in Starts}

ColumnCases == [kind : {"column"}, type : Declared, version : 2..3]

CursorCase == [kind |-> "cursor", cursor |-> A!FreshCursor, direct |-> FALSE, left |-> SetBound]
FieldCase  == [kind |-> "fields", s |-> A!FreshStatement, left |-> SetBound]

Init == item \in NumberCases \cup NumericCases \cup TextCases \cup StampCases \cup DayCases
                 \cup ColumnCases \cup {CursorCase, FieldCase}

Pending(kind) == item.kind = kind /\ "result" \notin DOMAIN item
Done(kind)    == item.kind = kind /\ "result" \in DOMAIN item
With(f, k, v) == [x \in DOMAIN f \cup {k} |-> IF x = k THEN v ELSE f[x]]
Result(r)     == item' = With(item, "result", r)

ConvertNumber  == Pending("number") /\ Result(ToNumber(item.from, item.to, item.value))
ConvertNumeric == Pending("numeric") /\ Result(Numeric(item.from, item.to, item.value))
\* The text of a number, and the numbers the parsers read in it when it is what a
\* column of text holds, `rest' still behind it from an earlier row.
Targets == {"LONG", "DOUBLE"}
Readings(text, rest) ==
  [text     |-> text,
   char     |-> [t \in Targets |-> FromString(Record(t, 0, FALSE), text)],
   varchar  |-> [t \in Targets |-> FromVarString(Record(t, 0, FALSE), text, rest)],
   varcharW |-> [t \in Targets |-> FromVarStringW(Record(t, 0, FALSE), text, rest)]]
ConvertText ==
  /\ Pending("text")
  /\ Result(Readings(IF item.wide THEN ToTextW(item.from, item.length, item.value.n)
                  ELSE ToText(item.from, item.length, item.value.n), item.rest))

(* A point in time as an application may write it: as it is, as the escape *)
(* of ODBC, with a longer fraction.                                        *)
Quoted(s) == <<"'">> \o s \o <<"'">>
Frames(s) == {s, <<" ">> \o s, <<"{", "t", "s", " ">> \o Quoted(s) \o <<"}">>}
Longer(s) == IF Contains(s, ".") THEN {s, s \o <<"0", "0">>} ELSE {s}
Stamped(v) ==
  LET text == D!TimestampToString(v, 40).text
  IN  [struct |-> D!TimestampToTagTimestamp(v), text |-> text,
       sent |-> {D!ServerText(f) : f \in UNION {Frames(s) : s \in Longer(text)}},
       array |-> D!FirstElement(<<"{">> \o Quoted(text) \o <<",">> \o Quoted(text) \o <<"}">>)]
ConvertStamp == Pending("stamp") /\ Result(Stamped(item.value))

\* What the application is told of a column.
Describe ==
  /\ Pending("column")
  /\ LET t == item.type
         v == item.version
     IN  Result([columns   |-> T!Columns(t, v), procedure |-> T!ProcedureColumns(t, v),
                 special   |-> T!SpecialColumns(t, v), described |-> T!DescribeCol(t),
                 attribute |-> [f \in {"TYPE", "DISPLAY_SIZE", "SCALE", "NUM_PREC_RADIX"} |-> T!ColAttribute(t, f)],
                 concise   |-> T!GetConciseType(T!DescribeCol(t).real),
                 bound     |-> T!GetDefaultFromSQLToConciseType(T!DescribeCol(t).type, 0),
                 listed    |-> T!GetTypeInfo(T!Columns(t, v).type, v, 1)])

\* The cursor's attributes are set, one by one or by SQLSetScrollOptions; `direct' while
\* the sensitivity was set last of those that say how the cursor moves.
Cursor(c, direct) == item' = [item EXCEPT !.cursor = c, !.direct = direct, !.left = @ - 1]
SetCursor ==
  /\ item.kind = "cursor" /\ item.left > 0
  /\ LET c == item.cursor
     IN  \/ \E v \in A!Concurrencies : Cursor(A!SetConcurrency(c, v), item.direct)
         \/ \E v \in A!CursorTypes : Cursor(A!SetCursorType(c, v), FALSE)
         \/ \E v \in BOOLEAN : Cursor(A!SetScrollable(c, v), FALSE)
         \/ \E v \in A!Sensitivities : Cursor(A!SetSensitivity(c, v), TRUE)
         \/ \E k \in A!CursorTypes \X {0} \cup {<<"rows", 5>>, <<"rows", 2>>}, v \in A!Concurrencies :
              LET o == A!SetScrollOptions(c, v, k, 3) IN o.ok /\ Cursor(o.cursor, FALSE)

\* Some steps of the statement, then one call of which the outcome is kept.
SetUp ==
  /\ Pending("fields") /\ item.left > 0
  /\ \E c \in A!Steps : item' = [item EXCEPT !.s = A!Apply(@, c).s, !.left = @ - 1]
SetField ==
  /\ Pending("fields")
  /\ \E c \in A!Calls(Fields) : item' = With(With(item, "call", c), "result", A!Apply(item.s, c))

NextDay ==
  /\ item.kind = "day" /\ item.left > 0
  /\ item' = [item EXCEPT !.date = After(@), !.day = @ + 1, !.left = @ - 1]

Next == ConvertNumber \/ ConvertNumeric \/ ConvertText \/ ConvertStamp \/ Describe \/ NextDay
        \/ SetCursor \/ SetUp \/ SetField
Spec == Init /\ [][Next]_item

-----------------------------------------------------------------------------
\* x in units of 10^-s and y in units of 10^-t differ by less than 10^-s.
Absolute(n) == IF n < 0 THEN -n ELSE n
Near(x, s, y, t) ==
  Absolute(x.n * y.d * Power(t) - y.n * x.d * Power(s)) < x.d * y.d * Power(t)
Fits(type, n) == Cast(type, n) = n

\* Where the driver loses a part of the number, and says nothing: a negative
\* TINYINT is read as unsigned, a TINYINT has no scaled conversion, and a
\* scaled SMALLINT has none to a 64 bit number.
Unsigned8(i) == i.from.concise = "TINYINT" /\ i.value.n < 0
Unscaled(i)  == \/ i.from.concise = "TINYINT" /\ HasScale(i.from, i.to)
                \/ i.from.concise = "SHORT" /\ i.to.concise = "BIGINT" /\ HasScale(i.from, i.to)
\* The value in the target's units, rounded up in magnitude, still fits its type.
InRange(i) ==
  LET n == Absolute(i.value.n * Power(i.to.scale)) \div (i.value.d * Power(i.from.scale)) + 1
  IN  Fits(i.to.concise, n)

\* A number keeps its value through any conversion to a type that can hold it,
\* to within one unit of the target's last place, whatever the two scales; also
\* through a SQL_NUMERIC_STRUCT (OdbcConvert.cpp 178-492, 1129-1295).
NumberKept ==
  Done("number") \/ Done("numeric") =>
    \/ Unsigned8(item) \/ (item.kind = "number" /\ Unscaled(item)) \/ ~InRange(item)
    \/ Near(item.result, item.to.scale, item.value, item.from.scale)

\* A number's text, wide or narrow, names that number to every parser, whether
\* it is read into a floating number or, without its fraction, into an integer:
\* the point, the zeros behind it and the sign are where the parsers look
\* for them (OdbcConvert.cpp 1297-1464, 3089-3199, 3878-3893).  Not said, for the
\* driver does otherwise: of a buffer that is too short, whose text silently
\* lacks its first figures; of the least number of a type; of a VARCHAR with
\* something left behind its text; of a multi-byte VARCHAR of more than one character.
TextReadsBack ==
  Done("text") /\ item.length = 40 /\ item.value.n # Least(item.from.concise) =>
    LET r == item.result
        Names(read) ==
          /\ read["DOUBLE"].n * Power(item.from.scale) = item.value.n * read["DOUBLE"].d
          /\ read["LONG"].n = Quotient(item.value.n, Power(item.from.scale))
    IN  /\ Names(r.char)
        /\ item.rest = << >> => Names(r.varchar)
        /\ item.rest = << >> /\ Len(r.text) = 1 => Names(r.varcharW)

\* The server's day number and the calendar agree day by day, and with the day of
\* the year, over leap years and centuries (OdbcConvert.cpp 4186-4273).
CalendarAgrees ==
  item.kind = "day" =>
    /\ D!EncodeDate(item.date) = item.day
    /\ D!DecodeDate(item.day) = item.date
    /\ item.date.month = 1 /\ item.date.day = 1 => D!YearDay(item.date) = 0
    /\ D!YearDay(After(item.date)) \in {D!YearDay(item.date) + 1, 0}

\* A point in time survives the way to the application and back, in structures
\* (alone, or as a date and a time apart), in the short forms of DOS and as
\* text: what the server is sent of the driver's own text is that text, however
\* the application frames it (OdbcConvert.cpp 1977-2596, 4292-4435).
StampReadsBack ==
  Done("stamp") =>
    LET v    == item.value
        s    == item.result.struct
        tail == v[2] % D!Precision
        dos  == D!TimestampToBinary(v, 8)
    IN  /\ D!TimestampToTimestamp(s) = v
        /\ D!TimestampToBinary(v, 16) = s
        /\ <<D!TimestampToDate(s), D!TimestampToTime(s)>> = v
        /\ D!DateToTimestamp(D!TimestampToTagDate(v)) = <<v[1], 0>>
        /\ D!DateToDate(D!DateToTagDate(v[1])) = v[1]
        /\ D!TimestampToTime(D!TimeToTagTimestamp(v[2])) = v[2]
        /\ D!TimeToTime(D!TimestampToTagTime(v)) = v[2] - tail
        /\ D!TimeToTimestamp(D!TimeToTagTime(v[2]))[2] = v[2] - tail
        /\ dos.date = D!DateToBinary(v[1], 4)
        /\ [time |-> dos.time, hsecond |-> tail \div 100] = D!TimeToBinary(v[2], 4)
        /\ item.result.sent = {item.result.text}
        /\ item.result.array = item.result.text
        /\ item.result.text = D!DateToString(v[1], 40).text \o <<" ">> \o D!TimeToString(v[2], 40).text

\* A date and a time are the same to the server and the application: by the
\* calendar, and on every way between the two (the two parts above).
DatesKept == CalendarAgrees /\ StampReadsBack

\* Numbers of the type's declared precision, in units of its last place.
Largest(type, precision) ==
  LET n == CASE type = "SMALLINT" /\ precision = 5  -> 32767
             [] type = "INTEGER"  /\ precision = 10 -> 1073741823
             [] OTHER -> Power(precision) - 1
  IN  {n, -n, -1}
Stored == [SMALLINT |-> "SHORT", INTEGER |-> "LONG"]

\* The places that tell an application of a column agree, although each has
\* the type from another source: the catalog functions and SQLDescribeCol name
\* one type, scale and radix; SQLGetTypeInfo lists that type; the C type
\* bound by default is the descriptor's and fits the described buffer; a number of
\* the described precision fits the display size, sign and point included
\* (IscSqlType.cpp 46-274, IscColumnsResultSet.cpp 136-408, Sqlda.cpp 685-944).
\* Left out, see the README: texts of the other multi-byte character sets,
\* procedure and special columns of texts above ASCII and of the newer types.
TypesAgree ==
  Done("column") =>
    LET t == item.type
        c == item.result.columns
        d == item.result.described
        text  == t.is \in {"CHAR", "VARCHAR", "INT128"}
        newer == t.is \in {"DECFLOAT", "INT128", "TIME_TZ", "TIMESTAMP_TZ"}
        exact == d.real \in {"SMALLINT", "INTEGER", "BIGINT"}
    IN  /\ item.version = 3 => c.type = d.type
        /\ c.digits # T!Null /\ t.is # "INT128" => c.digits = d.scale
        /\ exact \/ d.real \in {"REAL", "DOUBLE"} =>
             c.radix = d.radix \/ (d.type \in {"NUMERIC", "DECIMAL"} /\ d.real = "DOUBLE")
        /\ ~text /\ d.type \notin {"NUMERIC", "DECIMAL"} => c.size = d.precision
        /\ d.type \in {"NUMERIC", "DECIMAL"} /\ t.digits # 0 => c.size <= d.precision
        /\ t.is \in {"CHAR", "VARCHAR"} /\ t.charset \notin 5..8 => c.size = d.precision
        /\ d.type \in {"WCHAR", "WVARCHAR"} => c.octets = c.size * T!CharsetSize(t.charset)
        /\ ~newer /\ (~text \/ t.charset \in {0, 2}) =>
             /\ item.result.procedure.type = c.type /\ item.result.special.type = c.type
             /\ c.digits # T!Null => item.result.procedure.digits = c.digits
             /\ item.result.special.size = c.size \/ c.size = T!Null
        /\ d.type = d.real /\ d.type \notin T!Wides => item.result.bound = item.result.concise
        /\ T!GetConciseSize(item.result.bound, item.result.attribute["DISPLAY_SIZE"]) <= c.buffer
        /\ item.version = 3 => item.result.attribute["TYPE"] = c.type
        /\ item.result.listed # << >>
        /\ item.version = 3 => item.result.listed[1].type = d.type
        /\ d.real \in DOMAIN Stored =>
             \A n \in Largest(d.real, d.precision) :
               Len(ToText([concise |-> Stored[d.real], scale |-> -t.scale], 40, n)) <= d.display

\* The fields a call is about: what it sets, and what goes with that.
Touches(c, s, d, r, f) ==
  \/ c.op = "field" /\ d = c.d
       /\ \/ f = c.f \/ f = "COUNT"
          \/ c.f \in {"TYPE", "CONCISE_TYPE"} /\ f \in {"TYPE", "CONCISE_TYPE"}
          \/ c.f = "OCTET_LENGTH" /\ f = "LENGTH"
       /\ (f \in A!HeadFields \/ r = c.r)
  \/ c.op = "rec" /\ d = c.d /\ r = c.r /\ f \in A!RecFields \cup A!Buffer
  \/ c.op = "copy" /\ d = c.f
  \/ c.op = "attribute" /\ c.f \in A!HeaderAttributes
       /\ d = A!Attached(s, A!HeaderOf[c.f][1]) /\ f = A!HeaderOf[c.f][2]
Visible(s, d, r, f) == A!GetDescField(s, d, r, f).state = ""
Adjusted == {"ALLOC_TYPE", "CONCISE_TYPE", "OCTET_LENGTH_PTR", "NAME", "TYPE_NAME", "PARAMETER_TYPE"}

\* A cursor is never insensitive and writable, nor sensitive and read-only, and
\* scrolls unless it is forward-only, in whatever order its attributes were set.  A
\* field that was set is read back, by the descriptor and by the statement's
\* attribute alike; nothing else an application can read changes with it, nor with
\* a refused call; a copied descriptor reads as its source (OdbcStatement.cpp
\* 1464-1541, 2521-2673, 3389-3605, OdbcDesc.cpp 331-1285).
AttributesKept ==
  /\ item.kind = "cursor" =>
       LET c == item.cursor
       IN  /\ c.sensitivity = "INSENSITIVE" => c.concurrency = "READ_ONLY"
           /\ c.sensitivity = "SENSITIVE"   => c.concurrency # "READ_ONLY"
           /\ item.direct \/ A!IsStaticCursor(c) = (c.type # "FORWARD_ONLY")
  /\ Done("fields") =>
       LET c == item.call
           b == item.s
           a == item.result.s
           ok == item.result.state = ""
           Was(d, r, f) == A!GetDescField(b, d, r, f)
           Is(d, r, f)  == A!GetDescField(a, d, r, f)
       IN  /\ \A d \in A!All, r \in A!Records, f \in Fields :
                Visible(b, d, r, f) /\ (f # "COUNT" \/ ok) /\ ~(ok /\ Touches(c, b, d, r, f))
                  => Is(d, r, f) = Was(d, r, f)
           /\ c.op = "field" /\ ok /\ Visible(a, c.d, c.r, c.f) /\ (c.r > 0 \/ c.f \in A!HeadFields)
                => Is(c.d, c.r, c.f).value = A!New
           /\ c.op = "attribute" /\ ok /\ A!GetStmtAttr(a, c.f).state = "" /\ c.f # "ASYNC_ENABLE"
                => A!GetStmtAttr(a, c.f).value = A!New
           /\ \A h \in A!HeaderAttributes \ A!Unread :
                LET at == A!HeaderOf[h]
                    d  == A!Attached(a, at[1])
                IN  Visible(a, d, 0, at[2]) => A!GetStmtAttr(a, h) = Is(d, 0, at[2])
           /\ c.op = "copy" /\ ok =>
                \A r \in A!Records, f \in Fields \ Adjusted :
                  Visible(b, c.d, r, f) /\ Visible(a, c.f, r, f) => Is(c.f, r, f) = Was(c.d, r, f)
=============================================================================
