----------------------------- MODULE ColumnTypes -----------------------------
(***************************************************************************)
(* What the driver says of a column's type.  It says it in several places,  *)
(* from two sources: SQLColumns, SQLProcedureColumns and SQLSpecialColumns  *)
(* from the system tables (IscSqlType.cpp and the result sets over it),     *)
(* SQLDescribeCol and SQLColAttribute from the message's metadata           *)
(* (Sqlda.cpp), SQLGetTypeInfo from a table of its own.                     *)
(*                                                                         *)
(* A declared type t is [is, chars, charset, digits, scale, sub]; the       *)
(* server's two pictures of it are Row(t) and Var(t).                       *)
(***************************************************************************)
EXTENDS Integers, Sequences

Null == -99                                  \* a number the result set leaves out

\* InfoItems.h and Types.h: the sizes of the types that have one of their own.
Size == [TINYINT |-> 3, SMALLINT |-> 5, INTEGER |-> 10, BIGINT |-> 18, BOOLEAN |-> 1,
         REAL |-> 24, DOUBLE |-> 53, DATE |-> 10, TIME |-> 13, TIMESTAMP |-> 24,
         LONGVARCHAR |-> 2147483647, LONGVARBINARY |-> 2147483647]
\* Figures of a NUMERIC or a DECIMAL by the type it is stored in.
Held == [SMALLINT |-> 4, INTEGER |-> 9, DOUBLE |-> 15, BIGINT |-> 18]
Bytes == [SMALLINT |-> 2, INTEGER |-> 4, BIGINT |-> 8, REAL |-> 4, DOUBLE |-> 8, BOOLEAN |-> 1]
Exact == {"SMALLINT", "INTEGER", "BIGINT", "DOUBLE"}

\* A character's bytes in a character set, by its number (listCharsets).
CharsetSize(id) ==
  CASE id = 3 -> 3 [] id = 4 -> 4 [] id = 8 -> 3 [] id \in 5..7 -> 2 [] OTHER -> 1

-----------------------------------------------------------------------------
(* The server: a column in RDB$FIELDS, and the same column in a message.  An *)
(* attachment asks for INT128 as a text, DECFLOAT as a double, and times     *)
(* with a zone without it.                                                   *)

Wire(t) == CASE t.is = "DECFLOAT" -> "DOUBLE" [] t.is = "INT128" -> "VARCHAR"
             [] t.is = "TIME_TZ" -> "TIME" [] t.is = "TIMESTAMP_TZ" -> "TIMESTAMP"
             [] OTHER -> t.is
Length(t) ==
  CASE t.is \in {"CHAR", "VARCHAR"} -> t.chars * CharsetSize(t.charset)
    [] t.is = "INT128" -> 47
    [] t.is \in DOMAIN Bytes -> Bytes[t.is]
    [] OTHER -> 8
Row(t) == [blr |-> t.is, subType |-> t.sub, scale |-> t.scale, precision |-> t.digits,
           length |-> Length(t), charLength |-> t.chars, characterId |-> t.charset]
Var(t) == [sqltype |-> Wire(t), subtype |-> IF t.is \in {"CHAR", "VARCHAR"} THEN t.charset
                                            ELSE IF t.is = "INT128" THEN 0 ELSE t.sub,
           scale |-> IF t.is = "INT128" THEN 0 ELSE t.scale, len |-> Length(t)]

-----------------------------------------------------------------------------
(* IscSqlType::buildType                                                     *)

BugIsWide(in) == in.characterId = 3 /\ in.charLength # 0
IsWide(in) == in.characterId \in {3, 4} /\ in.charLength # 0
\* Texts of a character set above ASCII have their length in characters.
TextLength(in) == IF in.characterId > 2 /\ in.charLength # 0 THEN in.charLength ELSE in.length

Built(type, length, bufferLength, precision) ==
  [type |-> type, length |-> length, bufferLength |-> bufferLength, precision |-> precision]

BlrType(in, version) ==
  CASE in.blr = "CHAR" /\ in.length = 1 /\ in.characterId = 1 -> Built("TINYINT", Size.TINYINT, 1, in.precision)
    [] in.blr = "CHAR"    -> Built(IF IsWide(in) THEN "WCHAR" ELSE "CHAR",
                                   TextLength(in), in.length, in.precision)
    [] in.blr = "VARCHAR" -> Built(IF IsWide(in) THEN "WVARCHAR" ELSE "VARCHAR",
                                   TextLength(in), in.length, in.precision)
    [] in.blr = "BLOB"    -> LET type == IF in.subType = 1 THEN "LONGVARCHAR" ELSE "LONGVARBINARY"
                             IN  Built(type, Size[type], Size[type], in.precision)
    [] in.blr \in {"DATE", "TIME", "TIMESTAMP"} ->
         Built(IF version = 2 THEN "SQL_" \o in.blr ELSE in.blr, Size[in.blr],
               IF in.blr = "TIMESTAMP" THEN 16 ELSE 6, in.precision)
    [] in.blr \in {"REAL", "DOUBLE"} -> Built(in.blr, Size[in.blr], Bytes[in.blr], in.precision)
    [] in.blr \in {"BOOLEAN", "SMALLINT", "INTEGER", "BIGINT"} ->
         Built(in.blr, Size[in.blr], IF in.blr = "BIGINT" THEN Size.BIGINT + 2 ELSE Bytes[in.blr],
               IF in.precision = 0 THEN Size[in.blr] ELSE in.precision)
    [] OTHER -> Built("unknown", in.length, in.length, in.precision)

\* A NUMERIC of no precision keeps the one of its storage, set just before.
BuildType(in, version) ==
  LET b == BlrType(in, version)
      Scaled(type) ==
        LET p == IF b.precision = 0 THEN Held[b.type] ELSE b.precision
        IN  Built(type, IF type = "DECIMAL" THEN b.precision ELSE p, Held[b.type] + 2, p)
  IN  CASE b.type \in Exact /\ in.subType = 2 -> Scaled("DECIMAL")
        [] b.type \in Exact /\ (in.subType = 1 \/ (in.subType = 0 /\ in.scale # 0)) ->
             Scaled("NUMERIC")
        [] OTHER -> b

Texts == {"CHAR", "VARCHAR", "WCHAR", "WVARCHAR"}
Longs == {"LONGVARCHAR", "LONGVARBINARY"}
Days  == {"DATE", "SQL_DATE"}
Times == {"TIME", "SQL_TIME", "TIMESTAMP", "SQL_TIMESTAMP"}
Sub(type) == CASE type \in Days -> 1 [] type \in {"TIME", "SQL_TIME"} -> 2 [] OTHER -> 3
SqlDataType(type) == IF type \in Days \cup Times THEN "DATETIME" ELSE type
DatetimeSub(type) == IF type \in Days \cup Times THEN Sub(type) ELSE Null

\* IscColumnsResultSet::LegacyTypesConversion
LegacyTypesConversion(in) ==
  CASE in.blr = "DECFLOAT"     -> [in EXCEPT !.blr = "DOUBLE", !.length = 8]
    [] in.blr = "INT128"       -> [in EXCEPT !.blr = "VARCHAR", !.characterId = 2,
                                             !.charLength = 255, !.length = 255]
    [] in.blr = "TIME_TZ"      -> [in EXCEPT !.blr = "TIME", !.length = 4]
    [] in.blr = "TIMESTAMP_TZ" -> [in EXCEPT !.blr = "TIMESTAMP", !.length = 8]
    [] OTHER                   -> in

\* IscColumnsResultSet::setCharLen: narrow texts keep the length of the row.
SetCharLen(in, b) ==
  LET narrow == b.type \in {"VARCHAR", "CHAR"}
      chars  == IF narrow THEN in.length ELSE b.length
  IN  [size |-> IF chars = 0 THEN Null ELSE chars,
       buffer |-> IF narrow THEN in.length ELSE b.bufferLength]

\* The decimal digits and the radix: adjustResults of SQLColumns.
Adjusted(in, b) ==
  CASE b.type \in {"NUMERIC", "DECIMAL"} -> [digits |-> -in.scale, radix |-> 10]
    [] b.type \in {"REAL", "DOUBLE"}      -> [digits |-> Null, radix |-> 2]
    [] b.type \in Texts \cup Longs \cup Days -> [digits |-> Null, radix |-> Null]
    [] b.type \in Times                   -> [digits |-> 4, radix |-> Null]
    [] OTHER                              -> [digits |-> in.scale, radix |-> 10]

Columns(t, version) ==
  LET in == LegacyTypesConversion(Row(t))
      b  == BuildType(in, version)
      s  == SetCharLen(in, b)
      a  == Adjusted(in, b)
  IN  [type |-> b.type, size |-> s.size, buffer |-> s.buffer, digits |-> a.digits, radix |-> a.radix,
       octets |-> CASE b.type \in {"VARCHAR", "CHAR"}   -> s.buffer
                    [] b.type \in {"WVARCHAR", "WCHAR"} -> b.bufferLength
                    [] OTHER -> Null,
       sqlDataType |-> SqlDataType(b.type), datetimeSub |-> DatetimeSub(b.type)]

\* IscProcedureColumnsResultSet and IscSpecialColumnsResultSet read neither the
\* character set nor the length in characters, and know no legacy types.
Bare(in) == [in EXCEPT !.characterId = 0, !.charLength = 0]
ProcedureColumns(t, version) ==
  LET in == Bare(Row(t))
      b  == BuildType(in, version)
  IN  [type |-> b.type, size |-> in.length,
       buffer |-> IF b.type \in {"VARCHAR", "CHAR"} THEN in.length ELSE b.bufferLength,
       digits |-> CASE b.type \in Texts \cup Longs \cup Days -> Null
                    [] b.type \in Times -> 4
                    [] b.type \in {"NUMERIC", "DECIMAL"} -> -in.scale
                    [] OTHER -> in.scale,
       radix |-> CASE b.type \in Texts \cup Longs \cup Days -> Null
                   [] b.type \in {"REAL", "DOUBLE"} -> 2
                   [] OTHER -> 10,
       octets |-> IF b.type \in Texts \cup Longs THEN in.length ELSE Null,
       sqlDataType |-> SqlDataType(b.type), datetimeSub |-> DatetimeSub(b.type)]
SpecialColumns(t, version) ==
  LET in == Bare(Row(t))
      b  == BuildType(in, version)
  IN  [type |-> b.type, size |-> b.length,
       digits |-> CASE b.type \in Texts \cup Longs \cup Days -> Null
                    [] b.type \in Times -> 4
                    [] OTHER -> -in.scale]

-----------------------------------------------------------------------------
(* Sqlda: a prepared statement's columns and parameters.                     *)

IsTinyInt(var) == var.sqltype = "CHAR" /\ var.len = 1 /\ var.subtype = 1
InCharacters(var) ==
  IF var.len % CharsetSize(var.subtype) = 0 THEN var.len \div CharsetSize(var.subtype) ELSE var.len
\* SET_INFO_FROM_SUBTYPE
BySubtype(var, numeric, decimal, otherwise) ==
  CASE var.subtype = 1 \/ (var.subtype = 0 /\ var.scale # 0) -> numeric
    [] var.subtype = 2 -> decimal
    [] OTHER -> otherwise

GetPrecision(var) ==
  CASE IsTinyInt(var)           -> Size.TINYINT
    [] var.sqltype \in Exact    -> BySubtype(var, Held[var.sqltype], Held[var.sqltype], Size[var.sqltype])
    [] var.sqltype = "BLOB"     -> Size.LONGVARCHAR
    [] var.sqltype \in DOMAIN Size -> Size[var.sqltype]
    [] OTHER                    -> InCharacters(var)

\* A sign, and a point where there is a scale; an exponent of a floating number.
GetColumnDisplaySize(var) ==
  CASE IsTinyInt(var) -> Size.TINYINT + 1
    [] var.sqltype = "REAL" -> Size.REAL + 4
    [] var.sqltype \in Exact ->
         BySubtype(var, Held[var.sqltype] + 2, Held[var.sqltype] + 2,
                   Size[var.sqltype] + (IF var.sqltype = "DOUBLE" THEN 4 ELSE 1))
    [] OTHER -> GetPrecision(var)

GetNumPrecRadix(var) ==
  CASE var.sqltype \in {"SMALLINT", "INTEGER", "BIGINT"} -> 10
    [] var.sqltype \in {"REAL", "DOUBLE"} -> 2
    [] OTHER -> 0

\* IscStatementMetaData turns the sign of the scale round.
GetScale(var) == IF var.sqltype \in {"TIME", "TIMESTAMP"} THEN 4 ELSE -var.scale

\* `real' is the type the C type of a descriptor record is derived from.
GetSqlType(var) ==
  LET Is(type) == [type |-> type, real |-> type]
      wide == var.subtype \in {3, 4} /\ var.len % CharsetSize(var.subtype) = 0
  IN  CASE IsTinyInt(var) -> Is("TINYINT")
        [] var.sqltype = "CHAR"    -> Is(IF wide THEN "WCHAR" ELSE "CHAR")
        [] var.sqltype = "VARCHAR" -> Is(IF wide THEN "WVARCHAR" ELSE "VARCHAR")
        [] var.sqltype = "BLOB"    -> Is(IF var.subtype = 1 THEN "LONGVARCHAR" ELSE "LONGVARBINARY")
        [] var.sqltype \in Exact   ->
             [type |-> BySubtype(var, "NUMERIC", "DECIMAL", var.sqltype), real |-> var.sqltype]
        [] OTHER                   -> Is(var.sqltype)

DescribeCol(t) ==
  LET var == Var(t)
      ty  == GetSqlType(var)
  IN  [type |-> ty.type, real |-> ty.real, precision |-> GetPrecision(var), scale |-> GetScale(var),
       radix |-> GetNumPrecRadix(var), display |-> GetColumnDisplaySize(var)]

\* sqlColAttribute: a length in octets is the precision, a length the display size.
ColAttribute(t, field) ==
  LET d == DescribeCol(t)
  IN  CASE field \in {"TYPE", "CONCISE_TYPE"}          -> d.type
        [] field \in {"LENGTH", "DISPLAY_SIZE"}        -> d.display
        [] field \in {"PRECISION", "OCTET_LENGTH"}     -> d.precision
        [] field = "SCALE"                             -> d.scale
        [] field = "NUM_PREC_RADIX"                    -> d.radix
        [] field = "SEARCHABLE"                        -> d.type \notin Longs
        [] field \in {"UNSIGNED", "FIXED_PREC_SCALE", "AUTO_UNIQUE_VALUE"} -> FALSE
        [] field \in {"UPDATABLE", "CASE_SENSITIVE"}   -> TRUE

-----------------------------------------------------------------------------
(* OdbcDesc: the C types that stand for a column's type.                     *)

Chars == {"CHAR", "VARCHAR", "LONGVARCHAR"}
Wides == {"WCHAR", "WVARCHAR", "WLONGVARCHAR"}
GetConciseType(real) ==
  CASE real \in Chars -> "C_CHAR"
    [] real \in Wides -> "C_WCHAR"
    [] real \in {"BINARY", "VARBINARY", "LONGVARBINARY"} -> "C_BINARY"
    [] real = "BOOLEAN" -> "C_BIT"
    [] OTHER -> "C_" \o real
GetDefaultFromSQLToConciseType(type, bufferLength) ==
  CASE type \in Chars \cup Wides \cup {"NUMERIC", "DECIMAL"} -> "C_CHAR"
    [] type = "BIGINT" /\ bufferLength # 0     -> "C_CHAR"
    [] type = "DATE" /\ bufferLength = 11      -> "C_CHAR"
    [] type = "TIME" /\ bufferLength = 14      -> "C_CHAR"
    [] type = "TIMESTAMP" /\ bufferLength = 25 -> "C_CHAR"
    [] OTHER -> GetConciseType(type)
GetConciseSize(type, length) ==
  CASE type \in {"C_CHAR", "C_WCHAR", "C_BINARY"} -> length
    [] type \in {"C_BIT", "C_TINYINT"} -> 1
    [] type = "C_SMALLINT" -> 2
    [] type \in {"C_INTEGER", "C_REAL"} -> 4
    [] type \in {"C_DOUBLE", "C_BIGINT"} -> 8
    [] type \in {"C_DATE", "C_SQL_DATE", "C_TIME", "C_SQL_TIME"} -> 6
    [] type \in {"C_TIMESTAMP", "C_SQL_TIMESTAMP"} -> 16

-----------------------------------------------------------------------------
(* TypesResultSet: one table for all connections, into which every call      *)
(* writes the codes of its version and the widths of its character set.      *)

Kind(type, size, radix, minScale, maxScale) ==
  [type |-> type, size |-> size, radix |-> radix, min |-> minScale, max |-> maxScale]
Text(type, size) == Kind(type, size, -1, -1, -1)
Types ==
  <<Text("CHAR", 32767), Text("VARCHAR", 32765), Text("LONGVARCHAR", Size.LONGVARCHAR),
    Text("WCHAR", 10922), Text("WVARCHAR", 10921), Text("WLONGVARCHAR", 715827882),
    Text("LONGVARBINARY", Size.LONGVARBINARY), Text("VARBINARY", Size.LONGVARBINARY),
    Text("BINARY", Size.LONGVARBINARY),
    Kind("NUMERIC", 18, 10, 0, 18), Kind("DECIMAL", 18, 10, 0, 18), Kind("INTEGER", 10, 10, 0, 0),
    Kind("TINYINT", 5, 10, 0, 0), Kind("SMALLINT", 5, 10, 0, 0), Kind("FLOAT", 15, 2, -1, -1),
    Kind("REAL", 7, 2, -1, -1), Kind("DOUBLE", 15, 2, -1, -1), Kind("BIGINT", 18, 10, 0, 18),
    Kind("BOOLEAN", 1, -1, -1, -1), Text("DATE", 10), Kind("TIME", 13, -1, 0, 4),
    Kind("TIMESTAMP", 24, -1, 0, 4)>>

ByVersion(type, version) == IF version = 3 THEN type ELSE "SQL_" \o type
TypesResultSet(version, bytesPerCharacter) ==
  [i \in DOMAIN Types |->
     CASE i \in 20..22 -> [Types[i] EXCEPT !.type = ByVersion(@, version)]
       [] i \in 1..3   -> [Types[i] EXCEPT !.size = @ \div bytesPerCharacter]
       [] OTHER        -> Types[i]]
\* A type of the other version's code is looked for under this version's.
Sought(type, version) ==
  CASE type \in {"DATE", "TIME", "TIMESTAMP"} -> ByVersion(type, version)
    [] type = "SQL_DATE" -> ByVersion("DATE", version)
    [] type = "SQL_TIME" -> ByVersion("TIME", version)
    [] type = "SQL_TIMESTAMP" -> ByVersion("TIMESTAMP", version)
    [] OTHER -> type
\* The rows fetched for one type: the first of that code, or none.
GetTypeInfo(type, version, bytesPerCharacter) ==
  LET rows == TypesResultSet(version, bytesPerCharacter)
      hits == {i \in DOMAIN rows : rows[i].type = Sought(type, version)}
  IN  IF hits = {} THEN << >> ELSE <<rows[CHOOSE i \in hits : \A j \in hits : i <= j]>>
=============================================================================
