----------------------------- MODULE Announced -----------------------------
(***************************************************************************)
(* What the driver says of itself: SQLGetFunctions and SQLGetInfo          *)
(* (OdbcConnection.cpp 80-287, 1159-1567, InfoItems.h) and the capabilities*)
(* of a connection that SQLGetInfo asks for (IscDatabaseMetaData.cpp).     *)
(* Bit masks are sets of names; names of the driver, its versions and the  *)
(* grammar of the server are left out.                                     *)
(***************************************************************************)
EXTENDS Integers, Sequences

\* Functions by their standards, those of ODBC 2 first.
SupportedFunctions ==
  {"SQLAllocConnect", "SQLAllocEnv", "SQLAllocStmt", "SQLFreeConnect", "SQLFreeEnv", "SQLFreeStmt", "SQLColAttributes",
   "SQLError", "SQLSetParam", "SQLTransact", "SQLSetConnectOption", "SQLGetConnectOption"}
  \cup {"SQLEndTran", "SQLAllocHandle", "SQLGetDescField", "SQLBindCol", "SQLGetDescRec", "SQLCancel", "SQLGetDiagField",
        "SQLCloseCursor", "SQLGetDiagRec", "SQLColAttribute", "SQLGetEnvAttr", "SQLConnect", "SQLGetFunctions",
        "SQLCopyDesc", "SQLGetInfo", "SQLDataSources", "SQLGetStmtAttr", "SQLDescribeCol", "SQLGetTypeInfo",
        "SQLDisconnect", "SQLNumResultCols", "SQLDrivers", "SQLParamData", "SQLPrepare", "SQLExecDirect", "SQLPutData",
        "SQLExecute", "SQLRowCount", "SQLFetch", "SQLSetConnectAttr", "SQLFetchScroll", "SQLSetCursorName",
        "SQLFreeHandle", "SQLSetDescField", "SQLSetDescRec", "SQLGetConnectAttr", "SQLSetEnvAttr", "SQLGetCursorName",
        "SQLSetStmtAttr", "SQLGetData", "SQLSetScrollOptions", "SQLExtendedFetch"}
  \cup {"SQLColumns", "SQLStatistics", "SQLSpecialColumns", "SQLTables"}
  \cup {"SQLBindParameter", "SQLNativeSql", "SQLBrowseConnect", "SQLNumParams", "SQLBulkOperations", "SQLPrimaryKeys",
        "SQLColumnPrivileges", "SQLProcedureColumns", "SQLDescribeParam", "SQLProcedures", "SQLDriverConnect",
        "SQLSetPos", "SQLForeignKeys", "SQLTablePrivileges", "SQLMoreResults"}

-----------------------------------------------------------------------------
(* The capabilities of a connection.  a: its dialect, whether identifiers  *)
(* are quoted and told apart by case, whether schemas are taken away.      *)
BugUnquoted(a) == ~a.quoted
Unquoted(a)    == a.dialect < 3 \/ ~a.quoted
Naming(a) ==
  [readOnly |-> FALSE, nulls |-> {"END"},
   upper |-> ~a.sensitive, lower |-> FALSE, mixed |-> FALSE,
   quotedUpper |-> FALSE, quotedLower |-> FALSE, quotedMixed |-> Unquoted(a),
   quote |-> IF Unquoted(a) THEN " " ELSE "\"",
   searchEscape |-> "\\", extra |-> "$"]
Grammar(a) ==
  [aliases |-> TRUE, correlation |-> TRUE, orderBy |-> FALSE, orderByUnrelated |-> TRUE, groupBy |-> TRUE,
   likeEscape |-> TRUE, nonNullable |-> TRUE, odbc |-> {"MINIMUM", "CORE"}, ansi |-> {"ENTRY", "FULL"},
   schemaTerm |-> IF a.schemas = 0 THEN "" ELSE "schema",
   procedureTerm |-> "procedure", catalogTerm |-> "", catalogAtStart |-> TRUE, catalogSeparator |-> ""]
\* Where schemas and catalogs may be written, what a subquery and a union may be,
\* what stays open when a transaction ends.
Usage ==
  [schemas |-> {}, catalogs |-> {}, procedures |-> TRUE,
   subqueries |-> {"COMPARISON", "EXISTS", "IN", "QUANTIFIED", "CORRELATED"}, unions |-> {"UNION", "UNION_ALL"},
   cursors |-> {"commit", "rollback"}, statements |-> {"commit", "rollback"}]
IdentLen == 63
Limits ==
  [columnName |-> IdentLen, columnsInIndex |-> 16, columnsInTable |-> 32767, connections |-> 32767,
   cursorName |-> IdentLen, index |-> 250, schemaName |-> 0, procedureName |-> IdentLen, catalogName |-> 0,
   row |-> 65535, rowIncludesBlobs |-> FALSE, tableName |-> IdentLen, tablesInSelect |-> 128, userName |-> IdentLen]
TxnLevels == {"READ_UNCOMMITTED", "READ_COMMITTED", "REPEATABLE_READ", "SERIALIZABLE"}
DefaultTransactionIsolation == "READ_COMMITTED"

-----------------------------------------------------------------------------
(* The table of information types: what is answered unless the connection  *)
(* says otherwise.                                                         *)
C(v) == [is |-> "string", value |-> v]
S(v) == [is |-> "short", value |-> v]
N(v) == [is |-> "long", value |-> v]
U(v) == [is |-> "unsupported", value |-> v]

OnRows == {"NEXT", "LOCK_NO_CHANGE", "ABSOLUTE", "RELATIVE", "POS_POSITION", "POSITIONED_DELETE", "POSITIONED_UPDATE",
           "SELECT_FOR_UPDATE"}
OfRows == {"READ_ONLY_CONCURRENCY", "OPT_VALUES_CONCURRENCY", "SENSITIVITY_UPDATES", "MAX_ROWS_SELECT",
           "MAX_ROWS_CATALOG", "MAX_ROWS_AFFECTS_ALL"}
CursorItems ==
  [GETDATA_EXTENSIONS |-> N({"ANY_COLUMN", "ANY_ORDER", "BLOCK", "BOUND"}), ASYNC_MODE |-> N("STATEMENT"),
   DATA_SOURCE_NAME |-> C(""), MAX_DRIVER_CONNECTIONS |-> S(0), DRIVER_HLIB |-> U(0), ODBC_VER |-> C("version"),
   DRIVER_ODBC_VER |-> C("03.51.0000"), ROW_UPDATES |-> C("Y"),
   PARAM_ARRAY_ROW_COUNTS |-> N("BATCH"), PARAM_ARRAY_SELECTS |-> N("BATCH"),
   DYNAMIC_CURSOR_ATTRIBUTES1 |-> N({"NEXT"}), DYNAMIC_CURSOR_ATTRIBUTES2 |-> N({"READ_ONLY_CONCURRENCY"}),
   FORWARD_ONLY_CURSOR_ATTRIBUTES1 |-> N(OnRows), FORWARD_ONLY_CURSOR_ATTRIBUTES2 |-> N(OfRows),
   STATIC_CURSOR_ATTRIBUTES1 |-> N(OnRows \cup {"BOOKMARK"}), STATIC_CURSOR_ATTRIBUTES2 |-> N(OfRows),
   KEYSET_CURSOR_ATTRIBUTES1 |-> N({"NEXT", "BOOKMARK", "LOCK_NO_CHANGE"}),
   KEYSET_CURSOR_ATTRIBUTES2 |-> N({"READ_ONLY_CONCURRENCY", "OPT_VALUES_CONCURRENCY", "SENSITIVITY_ADDITIONS",
                                    "SENSITIVITY_UPDATES"})]
ServerItems ==
  [SEARCH_PATTERN_ESCAPE |-> C(""), DATABASE_NAME |-> C(""), BOOKMARK_PERSISTENCE |-> N({"SCROLL", "UPDATE"}),
   MULT_RESULT_SETS |-> C("N"), CATALOG_TERM |-> C(""), PROCEDURE_TERM |-> C(""), SCHEMA_TERM |-> C(""),
   CURSOR_COMMIT_BEHAVIOR |-> S(0), CURSOR_ROLLBACK_BEHAVIOR |-> S(0), SCROLL_OPTIONS |-> N({"STATIC", "FORWARD_ONLY"}),
   TXN_CAPABLE |-> S("ALL"), DATA_SOURCE_READ_ONLY |-> C("N"), TXN_ISOLATION_OPTION |-> N({}),
   DEFAULT_TXN_ISOLATION |-> N(0), USER_NAME |-> C(""), DESCRIBE_PARAMETER |-> C("N"),
   EXPRESSIONS_IN_ORDERBY |-> C(""), GROUP_BY |-> S(0), CATALOG_LOCATION |-> S("START"), IDENTIFIER_CASE |-> S("UPPER"),
   CATALOG_NAME |-> C("N"), IDENTIFIER_QUOTE_CHAR |-> C("\""), CATALOG_NAME_SEPARATOR |-> C(""),
   CATALOG_USAGE |-> N({}), COLUMN_ALIAS |-> C("Y"), CORRELATION_NAME |-> S(0), LIKE_ESCAPE_CLAUSE |-> C(""),
   NON_NULLABLE_COLUMNS |-> S(0), NULL_COLLATION |-> S({}), SQL_CONFORMANCE |-> N(0),
   ORDER_BY_COLUMNS_IN_SELECT |-> C(""), PROCEDURES |-> C(""), QUOTED_IDENTIFIER_CASE |-> S(0), SCHEMA_USAGE |-> N({}),
   SPECIAL_CHARACTERS |-> C(""), SUBQUERIES |-> N({}), UNIONS |-> N({}),
   MAX_IDENTIFIER_LEN |-> S(31), MAX_CATALOG_NAME_LEN |-> S(0), MAX_INDEX_SIZE |-> N(0), MAX_PROCEDURE_NAME_LEN |-> S(0),
   MAX_COLUMN_NAME_LEN |-> S(0), MAX_ROW_SIZE |-> N(0), MAX_ROW_SIZE_INCLUDES_LONG |-> C(""),
   MAX_SCHEMA_NAME_LEN |-> S(0), MAX_TABLE_NAME_LEN |-> S(0), MAX_COLUMNS_IN_INDEX |-> S(0),
   MAX_COLUMNS_IN_TABLE |-> S(0), MAX_TABLES_IN_SELECT |-> S(0), MAX_CURSOR_NAME_LEN |-> S(0), MAX_USER_NAME_LEN |-> S(0)]
FunctionItems ==
  [NUMERIC_FUNCTIONS |-> N({"ABS", "ACOS", "ASIN", "ATAN", "ATAN2", "CEILING", "COS", "COT", "FLOOR", "LOG", "MOD", "SIGN",
                            "SIN", "SQRT", "TAN", "PI", "RAND", "LOG10"}),
   CONVERT_FUNCTIONS |-> N({"CAST", "CONVERT"}),
   STRING_FUNCTIONS  |-> N({"CONCAT", "LTRIM", "LENGTH", "LCASE", "RTRIM", "SUBSTRING", "UCASE", "ASCII", "CHAR"}),
   TIMEDATE_FUNCTIONS |-> N({"NOW", "CURDATE", "DAYOFMONTH", "DAYOFWEEK", "DAYOFYEAR", "MONTH", "YEAR", "CURTIME", "HOUR",
                             "MINUTE", "SECOND", "CURRENT_DATE", "CURRENT_TIME", "CURRENT_TIMESTAMP", "EXTRACT"}),
   SYSTEM_FUNCTIONS |-> N({"USER", "DBNAME"})]

\* The types a value of each type is converted to, an interval and wide texts to none.
Wholes  == {"INTEGER", "TINYINT", "SMALLINT", "BIGINT"}
Exact   == {"DECIMAL", "NUMERIC"}
Approx  == {"FLOAT", "DOUBLE"}
Binary  == Wholes \cup Exact \cup Approx \cup {"BIT", "CHAR"}
Numeric == Binary \cup {"REAL"}
Instant == (Numeric \ {"TINYINT", "SMALLINT", "BIT"}) \cup {"TIMESTAMP", "BINARY"}
ConvertItems1 ==
  [CONVERT_BIGINT |-> N(Binary \ {"TINYINT", "BIGINT"}), CONVERT_LONGVARBINARY |-> N(Binary), CONVERT_BINARY |-> N(Binary),
   CONVERT_LONGVARCHAR |-> N(Binary), CONVERT_BIT |-> N({}), CONVERT_NUMERIC |-> N(Binary),
   CONVERT_CHAR |-> N(Numeric \cup {"DATE", "TIMESTAMP", "VARCHAR", "VARBINARY"}), CONVERT_REAL |-> N(Numeric),
   CONVERT_DATE |-> N(Instant \cup {"DATE"}), CONVERT_SMALLINT |-> N(Numeric), CONVERT_DECIMAL |-> N(Numeric)]
ConvertItems2 ==
  [CONVERT_TIME |-> N(Instant \cup {"TIME"}), CONVERT_DOUBLE |-> N(Numeric),
   CONVERT_TIMESTAMP |-> N((Instant \ {"INTEGER", "REAL", "FLOAT"}) \cup {"DATE", "TIME"}),
   CONVERT_FLOAT |-> N(Numeric), CONVERT_TINYINT |-> N(Numeric), CONVERT_INTEGER |-> N(Numeric),
   CONVERT_VARBINARY |-> N(Binary), CONVERT_VARCHAR |-> N(Numeric \cup {"VARCHAR", "TIME", "DATE", "TIMESTAMP"}),
   CONVERT_WCHAR |-> N({}), CONVERT_WLONGVARCHAR |-> N({}), CONVERT_WVARCHAR |-> N({})]
Sql92Items ==
  [DM_VER |-> U(0),
   FETCH_DIRECTION |-> N({"NEXT", "FIRST", "LAST", "PRIOR", "ABSOLUTE", "RELATIVE", "BOOKMARK"}),
   POS_OPERATIONS |-> N({"POSITION"}), LOCK_TYPES |-> N({}), SCROLL_CONCURRENCY |-> N({"READ_ONLY"}),
   ODBC_SQL_CONFORMANCE |-> S(0), STATIC_SENSITIVITY |-> N({"UPDATES"}),
   SQL92_DATETIME_FUNCTIONS |-> N({"CURRENT_DATE", "CURRENT_TIME", "CURRENT_TIMESTAMP"})]

ConvertTypes == DOMAIN ConvertItems1 \cup DOMAIN ConvertItems2
InfoTypes == DOMAIN CursorItems \cup DOMAIN ServerItems \cup DOMAIN FunctionItems \cup ConvertTypes \cup DOMAIN Sql92Items
InfoItem(t) ==
  CASE t \in DOMAIN CursorItems   -> CursorItems[t]
    [] t \in DOMAIN ServerItems   -> ServerItems[t]
    [] t \in DOMAIN FunctionItems -> FunctionItems[t]
    [] t \in DOMAIN ConvertItems1 -> ConvertItems1[t]
    [] t \in DOMAIN ConvertItems2 -> ConvertItems2[t]
    [] OTHER                      -> Sql92Items[t]

-----------------------------------------------------------------------------
(* SQLGetInfo *)
YesNo(b) == IF b THEN "Y" ELSE "N"
Across(event) ==
  CASE event \in Usage.cursors    -> "PRESERVE"
    [] event \in Usage.statements -> "CLOSE"
    [] OTHER                      -> "DELETE"
OfCatalog(a) ==
  LET g == Grammar(a)
      n == Naming(a)
  IN  [CURSOR_COMMIT_BEHAVIOR |-> Across("commit"), CURSOR_ROLLBACK_BEHAVIOR |-> Across("rollback"),
       IDENTIFIER_QUOTE_CHAR |-> n.quote, DATABASE_NAME |-> a.database,
       CATALOG_LOCATION |-> IF g.catalogAtStart THEN "START" ELSE "END",
       CORRELATION_NAME |-> IF g.correlation THEN "ANY" ELSE "NONE", COLUMN_ALIAS |-> YesNo(g.aliases),
       CATALOG_NAME |-> YesNo(g.catalogTerm # ""), CATALOG_TERM |-> g.catalogTerm,
       CATALOG_NAME_SEPARATOR |-> g.catalogSeparator, CATALOG_USAGE |-> Usage.catalogs, SCHEMA_USAGE |-> Usage.schemas,
       DATA_SOURCE_NAME |-> a.dsn, DATA_SOURCE_READ_ONLY |-> YesNo(n.readOnly),
       DEFAULT_TXN_ISOLATION |-> DefaultTransactionIsolation, DESCRIBE_PARAMETER |-> "Y", USER_NAME |-> a.account]
\* The highest of the levels that are met.
Highest(levels, order, t) ==
  LET met == {k \in 1 .. Len(order) : order[k] \in levels}
  IN  IF met = {} THEN InfoItem(t).value ELSE order[CHOOSE k \in met : \A j \in met : j <= k]
OfGrammar(a) ==
  LET g == Grammar(a)
  IN  [SCHEMA_TERM |-> g.schemaTerm, SQL_CONFORMANCE |-> Highest(g.ansi, <<"ENTRY", "INTERMEDIATE", "FULL">>, "SQL_CONFORMANCE"),
       ODBC_SQL_CONFORMANCE |-> Highest(g.odbc, <<"MINIMUM", "CORE", "EXTENDED">>, "ODBC_SQL_CONFORMANCE"),
       SPECIAL_CHARACTERS |-> Naming(a).extra, LIKE_ESCAPE_CLAUSE |-> YesNo(g.likeEscape), TXN_ISOLATION_OPTION |-> TxnLevels,
       MAX_DRIVER_CONNECTIONS |-> Limits.connections, MAX_COLUMN_NAME_LEN |-> Limits.columnName,
       MAX_TABLE_NAME_LEN |-> Limits.tableName, MAX_CURSOR_NAME_LEN |-> Limits.cursorName,
       MAX_USER_NAME_LEN |-> Limits.userName, MAX_COLUMNS_IN_INDEX |-> Limits.columnsInIndex,
       MAX_COLUMNS_IN_TABLE |-> Limits.columnsInTable, MAX_INDEX_SIZE |-> Limits.index,
       MAX_SCHEMA_NAME_LEN |-> Limits.schemaName, MAX_CATALOG_NAME_LEN |-> Limits.catalogName,
       MAX_ROW_SIZE |-> Limits.row, MAX_ROW_SIZE_INCLUDES_LONG |-> YesNo(Limits.rowIncludesBlobs),
       MAX_TABLES_IN_SELECT |-> Limits.tablesInSelect]
Case(upper, lower, mixed) ==
  CASE upper -> "UPPER" [] lower -> "LOWER" [] mixed -> "MIXED" [] OTHER -> "SENSITIVE"
OfNames(a) ==
  LET g == Grammar(a)
      n == Naming(a)
  IN  [GROUP_BY |-> IF g.groupBy THEN "CONTAINS_SELECT" ELSE "NOT_SUPPORTED",
       SEARCH_PATTERN_ESCAPE |-> IF g.likeEscape THEN n.searchEscape ELSE "", PROCEDURES |-> YesNo(Usage.procedures),
       MAX_PROCEDURE_NAME_LEN |-> Limits.procedureName, SUBQUERIES |-> Usage.subqueries, UNIONS |-> Usage.unions,
       EXPRESSIONS_IN_ORDERBY |-> YesNo(g.orderBy), ORDER_BY_COLUMNS_IN_SELECT |-> YesNo(g.orderByUnrelated),
       IDENTIFIER_CASE |-> Case(n.upper, n.lower, n.mixed),
       QUOTED_IDENTIFIER_CASE |-> Case(n.quotedUpper, n.quotedLower, n.quotedMixed),
       NON_NULLABLE_COLUMNS |-> IF g.nonNullable THEN "NON_NULL" ELSE 0, NULL_COLLATION |-> n.nulls,
       PROCEDURE_TERM |-> g.procedureTerm]

InfoValue(a, t) ==
  CASE t \in DOMAIN OfCatalog(a) -> OfCatalog(a)[t]
    [] t \in DOMAIN OfGrammar(a) -> OfGrammar(a)[t]
    [] t \in DOMAIN OfNames(a)   -> OfNames(a)[t]
    [] OTHER                     -> InfoItem(t).value
\* A number takes the room the caller has when that is two bytes, else its own.
GetInfo(a, t, room) ==
  CASE t \notin InfoTypes -> [state |-> "HY096"]
    [] ~a.connected /\ t \notin {"ODBC_VER", "DRIVER_ODBC_VER"} -> [state |-> "08003"]
    [] OTHER ->
         [state |-> "", value |-> IF a.connected THEN InfoValue(a, t) ELSE InfoItem(t).value,
          bytes |-> CASE InfoItem(t).is = "string" -> 0
                      [] InfoItem(t).is = "short" \/ (InfoItem(t).is = "long" /\ room = 2) -> 2
                      [] OTHER -> 4]

\* Whether names in mixed case are quoted in a statement (getNativeSql), auto: as the
\* application asked for.
AutoQuotes(a, auto) == Naming(a).quote # " " /\ a.dialect >= 3 /\ auto
RemovesSchemas(a)   == a.schemas = 1
=============================================================================
