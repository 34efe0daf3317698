------------------------------ MODULE ConvertTable ------------------------------
(***************************************************************************)
(* OdbcConvert::getAdressFunction: which conversion takes a value from one *)
(* descriptor record to another.  A record is of a C type (`concise'; the  *)
(* signed and unsigned codes of a width are one type here); `sqlda' says   *)
(* that it lies over the message buffer of the server (a column read, a    *)
(* parameter written) instead of the application's memory.                 *)
(*                                                                         *)
(* The result names a family of conversions: "plain" copies with a C cast, *)
(* "scaled" goes through a double, "rounded" through a 64 bit integer,     *)
(* "tag" out of a SQL_NUMERIC_STRUCT, "nearest" out of a floating number.  *)
(* "notYet" posts 07006; so does, in the caller, "null" (no function).     *)
(***************************************************************************)
EXTENDS Integers

Whole == {"TINYINT", "SHORT", "LONG", "BIGINT"}
Float   == {"FLOAT", "DOUBLE"}
Number  == Whole \cup Float
Dates   == {"DATE", "TIME", "TIMESTAMP"}
Concise == Number \cup Dates \cup {"BIT", "NUMERIC", "BINARY", "CHAR", "WCHAR", "GUID"}

HasScale(from, to) == from.scale # 0 \/ to.scale # 0
\* Behind a parameter the type of the server's variable is changed to text
\* (setTypeText), so that the server converts.
ByServer(to, how, otherwise) == IF to.sqlda THEN how ELSE otherwise

FromTinyInt(from, to) ==
  CASE to.concise \in Number \cup {"BIT"} -> "plain"
    [] to.concise = "CHAR"                -> "text"
    [] to.concise = "WCHAR"               -> "wide"
    [] to.concise = "NUMERIC"             -> "numeric"
    [] to.concise \in Dates \cup {"BINARY"} -> "notYet"
    [] OTHER                              -> "null"

BugFromShort(from, to) ==      \* the scale decides for wide targets only
  CASE to.concise \in {"LONG", "FLOAT", "DOUBLE"} /\ HasScale(from, to) -> "scaled"
    [] to.concise \in {"TINYINT", "SHORT"} -> "plain"
    [] OTHER -> FromTinyInt(from, to)
\* A scaled SMALLINT is scaled for every number but the 64 bit one.
FromShort(from, to) ==
  IF to.concise \in Number \ {"BIGINT"} /\ HasScale(from, to) THEN "scaled"
  ELSE FromTinyInt(from, to)

FromLong(from, to) ==
  CASE to.concise \in Number /\ HasScale(from, to) -> "scaled"
    [] FromTinyInt(from, to) = "null"              -> "notYet"
    [] OTHER                                       -> FromTinyInt(from, to)

FromFloat(from, to) ==
  CASE to.concise \in Whole          -> "nearest"
    [] to.concise \in Float \cup {"BIT"} -> "plain"
    [] to.concise = "CHAR"             -> "text"
    [] to.concise = "WCHAR"            -> "wide"
    [] OTHER                           -> "notYet"

FromDouble(from, to) ==
  IF to.concise = "NUMERIC" THEN "numeric" ELSE FromFloat(from, to)

FromBigint(from, to) ==
  CASE to.concise \in Number \cup {"BIT"} ->
         IF to.concise \in Float /\ HasScale(from, to) THEN "scaled" ELSE "rounded"
    [] to.concise = "BINARY"              -> "binary"
    [] to.concise = "CHAR"                -> "text"
    [] to.concise = "WCHAR"               -> "wide"
    [] to.concise = "NUMERIC"             -> "numeric"
    [] OTHER                              -> "notYet"

FromNumeric(from, to) ==
  CASE to.concise \in Number    -> ByServer(to, "tag", "plain")
    [] to.concise = "NUMERIC"   -> ByServer(to, "tag", "numeric")
    [] to.concise = "BIT"       -> "plain"
    [] OTHER                    -> "notYet"

FromDate(from, to) ==
  CASE to.concise \in {"LONG", "BIGINT"} \cup Float -> "plain"
    [] to.concise \in {"DATE", "TIMESTAMP"} -> ByServer(to, "encode", "decode")
    [] to.concise \in {"BINARY", "CHAR", "WCHAR"} -> "dateText"
    [] OTHER -> "notYet"

FromTime(from, to) ==
  CASE to.concise \in {"LONG", "BIGINT"} \cup Float -> "plain"
    [] to.concise \in {"TIME", "TIMESTAMP"} -> ByServer(to, "encode", "decode")
    [] to.concise \in {"BINARY", "CHAR", "WCHAR"} -> "dateText"
    [] OTHER -> "notYet"

FromTimestamp(from, to) ==
  CASE to.concise \in {"DOUBLE", "BIGINT"} -> "plain"
    [] to.concise \in Dates -> ByServer(to, "encode", "decode")
    [] to.concise \in {"BINARY", "CHAR", "WCHAR"} -> "dateText"
    [] OTHER -> "notYet"

FromBinary(from, to) ==
  CASE to.concise \in Number -> ByServer(to, "byServer", "blobNumber")
    [] to.concise = "BINARY" -> IF to.sqlda THEN "toBlob"
                                ELSE IF to.zeroColumn THEN "plain" ELSE "blobBytes"
    [] to.concise = "CHAR"   -> IF to.sqlda /\ to.blobOrArray THEN "toBlob" ELSE "blobText"
    [] to.concise = "WCHAR"  -> "blobWide"
    [] OTHER                 -> "notYet"

Narrow == {"VARCHAR", "LONGVARCHAR"}      \* values of DescRecord::type
Wide   == {"WVARCHAR", "WLONGVARCHAR"}

\* A column of varying length; `catalog': a row the driver composed itself.
FromVarying(from, to, catalog) ==
  LET viaBlob(blob, other) == IF from.sqlda /\ from.dataBlob THEN blob
                              ELSE IF catalog /\ to.concise # "BINARY" THEN "system"
                              ELSE other
  IN  CASE to.concise \in Number   -> "varNumber"
        [] to.concise = "CHAR"     -> viaBlob("blobText", "varText")
        [] to.concise = "WCHAR"    -> viaBlob("blobWide", "varWide")
        [] to.concise = "BINARY"   -> viaBlob("blobBytes", "varBinary")
        [] OTHER                   -> "notYet"

\* A column of fixed length, or a parameter.
FromText(from, to) ==
  IF to.sqlda /\ to.paramArray THEN "byServer"
  ELSE CASE
       to.concise \in Number -> ByServer(to, "byServer", "textNumber")
    [] to.concise \in {"CHAR", "WCHAR"} ->
         IF to.sqlda THEN IF to.type \in Narrow /\ to.blobOrArray THEN "toBlob" ELSE "byServer"
         ELSE IF to.type \in Narrow THEN "varying"
         ELSE IF to.concise = "CHAR" THEN "fixText" ELSE "fixWide"
    [] to.concise = "BINARY" -> ByServer(to, "toBlob", IF from.concise = "CHAR"
                                                        THEN "fixBinary" ELSE "fixText")
    [] to.concise \in Dates  -> ByServer(to, "dateByServer", "notYet")
    [] OTHER                 -> "notYet"

FromChar(from, to, catalog) ==
  IF from.type \in Narrow THEN FromVarying(from, to, catalog) ELSE FromText(from, to)

\* Wide text behaves alike; its varying columns are also those of a wide type,
\* and read as binary they are read as text.
FromWChar(from, to, catalog) ==
  IF from.type \in Narrow \cup Wide
    THEN IF FromVarying(from, to, catalog) = "varBinary" THEN "varText"
         ELSE FromVarying(from, to, catalog)
    ELSE FromText(from, to)

FromGuid(to) == IF to.concise \in {"CHAR", "WCHAR"} THEN "guidText" ELSE "notYet"

GetAdressFunction(from, to, catalog) ==
  CASE from.concise \in {"TINYINT", "BIT"} -> FromTinyInt(from, to)
    [] from.concise = "SHORT"     -> FromShort(from, to)
    [] from.concise = "LONG"      -> FromLong(from, to)
    [] from.concise = "FLOAT"     -> FromFloat(from, to)
    [] from.concise = "DOUBLE"    -> FromDouble(from, to)
    [] from.concise = "BIGINT"    -> FromBigint(from, to)
    [] from.concise = "NUMERIC"   -> FromNumeric(from, to)
    [] from.concise = "DATE"      -> FromDate(from, to)
    [] from.concise = "TIME"      -> FromTime(from, to)
    [] from.concise = "TIMESTAMP" -> FromTimestamp(from, to)
    [] from.concise = "BINARY"    -> FromBinary(from, to)
    [] from.concise = "CHAR"      -> FromChar(from, to, catalog)
    [] from.concise = "WCHAR"     -> FromWChar(from, to, catalog)
    [] from.concise = "GUID"      -> FromGuid(to)
=============================================================================
