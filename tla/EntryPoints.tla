------------------------------ MODULE EntryPoints ------------------------------
(***************************************************************************)
(* The exported ODBC functions (Main.cpp, MainUnicode.cpp).  Each of them  *)
(* declares a guard (or none), forwards to a method of its handle's object *)
(* and returns.  What matters of one of them to the others is its class:   *)
(* the guard, and what the method does to connections and to the           *)
(* environment's list of connections.  A function that chooses its guard   *)
(* by the type of its handle has several classes.                          *)
(***************************************************************************)
EXTENDS Functions

Guarded(guard, role) == [guard |-> guard, role |-> role]

\* The guards: GUARD, GUARD_ENV, none, and those that lock a connection
\* (GUARD_HDBC, GUARD_HSTMT, GUARD_HDESC, GUARD_HTYPE).
OnDll(role) == Guarded("dll", role)
OnEnv(role) == Guarded("env", role)
OnDbc(role) == Guarded("dbc", role)
Bare(role)  == Guarded("none", role)
Work        == {OnDbc("work")}     \* a call on a connection or below it
Connecting  == {OnDbc("connect")}
EnvRead     == {OnEnv("env")}
ByType      == {OnDbc("work"), Bare("env")}    \* GUARD_HTYPE, SQLError
EndsTran    == {OnDbc("work"), OnEnv("endTran")}

Ansi1 == [
  SQLAllocConnect |-> {OnEnv("list")},  SQLAllocEnv  |-> {OnDll("env")},
  SQLAllocStmt    |-> Work,             SQLBindCol   |-> Work,
  SQLCancel       |-> {Bare("cancel")}, SQLColAttributes |-> Work,
  SQLConnect      |-> Connecting,       SQLDescribeCol   |-> Work,
  SQLDisconnect   |-> {OnEnv("disconnect")}]

Ansi2 == [
  SQLError         |-> ByType, SQLExecDirect |-> Work, SQLExecute |-> Work,
  SQLFetch         |-> Work,   SQLFreeConnect |-> {OnDbc("free")},
  SQLFreeEnv       |-> {Bare("env")},  SQLFreeStmt |-> Work,
  SQLGetCursorName |-> Work,   SQLNumResultCols |-> Work, SQLPrepare |-> Work,
  SQLRowCount      |-> Work,   SQLSetCursorName |-> Work]

Ansi3 == [
  SQLSetParam   |-> Work, SQLTransact |-> EndsTran, SQLColumns |-> Work,
  SQLDriverConnect |-> Connecting, SQLGetConnectOption |-> Work,
  SQLGetData    |-> Work, SQLGetFunctions |-> Work, SQLGetInfo |-> Work,
  SQLGetStmtOption |-> Work]

Ansi4 == [
  SQLGetTypeInfo |-> Work, SQLParamData |-> Work, SQLPutData |-> Work,
  SQLSetConnectOption |-> Work, SQLSetStmtOption |-> Work,
  SQLSpecialColumns |-> Work, SQLStatistics |-> Work, SQLTables |-> Work,
  SQLBrowseConnect |-> Connecting, SQLDataSources |-> EnvRead,
  SQLDescribeParam |-> Work]

Ansi5 == [
  SQLExtendedFetch |-> Work, SQLForeignKeys |-> Work, SQLMoreResults |-> Work,
  SQLNativeSql |-> Work, SQLNumParams |-> Work, SQLParamOptions |-> Work,
  SQLPrimaryKeys |-> Work, SQLProcedureColumns |-> Work, SQLProcedures |-> Work,
  SQLSetPos |-> Work, SQLSetScrollOptions |-> Work]

Ansi6 == [
  SQLTablePrivileges |-> Work, SQLColumnPrivileges |-> Work, SQLDrivers |-> EnvRead,
  SQLBindParameter |-> Work,
  SQLAllocHandle |-> {OnDll("env"), OnEnv("list"), OnDbc("work")},
  SQLBindParam |-> Work, SQLCloseCursor |-> Work, SQLColAttribute |-> Work]

\* SQLCopyDesc locks the connection of its source only; the driver manager
\* lets it copy between connections, which is a second call on the target.
Ansi7 == [
  SQLCopyDesc |-> Work, SQLEndTran |-> EndsTran, SQLFetchScroll |-> Work,
  SQLFreeHandle |-> {OnDll("env"), OnEnv("free"), OnDbc("work")},
  SQLGetConnectAttr |-> Work, SQLGetDescField |-> Work, SQLGetDescRec |-> Work,
  SQLGetDiagField |-> ByType]

Ansi8 == [
  SQLGetDiagRec |-> ByType, SQLGetEnvAttr |-> {Bare("env")}, SQLGetStmtAttr |-> Work,
  SQLSetConnectAttr |-> Work, SQLSetDescField |-> Work, SQLSetDescRec |-> Work,
  SQLSetEnvAttr |-> {Bare("env")}, SQLSetStmtAttr |-> Work, SQLBulkOperations |-> Work]

Wide1 == [
  SQLColAttributesW |-> Work, SQLConnectW |-> Connecting, SQLDescribeColW |-> Work,
  SQLErrorW |-> ByType, SQLExecDirectW |-> Work, SQLGetCursorNameW |-> Work]

Wide2 == [
  SQLPrepareW |-> Work, SQLSetCursorNameW |-> Work, SQLColumnsW |-> Work,
  SQLDriverConnectW |-> Connecting, SQLGetConnectOptionW |-> Work]

Wide3 == [
  SQLGetInfoW |-> Work, SQLGetTypeInfoW |-> Work, SQLSetConnectOptionW |-> Work,
  SQLSpecialColumnsW |-> Work, SQLStatisticsW |-> Work]

Wide4 == [
  SQLTablesW |-> Work, SQLBrowseConnectW |-> Connecting, SQLDataSourcesW |-> EnvRead,
  SQLForeignKeysW |-> Work, SQLNativeSqlW |-> Work, SQLPrimaryKeysW |-> Work]

Wide5 == [
  SQLProcedureColumnsW |-> Work, SQLProceduresW |-> Work, SQLTablePrivilegesW |-> Work,
  SQLColumnPrivilegesW |-> Work, SQLDriversW |-> EnvRead, SQLColAttributeW |-> Work]

\* SQLGetConnectAttrW without its GUARD_HDBC.
BugWide6 == [
  SQLGetConnectAttrW |-> {Bare("work")}, SQLGetDescFieldW |-> Work,
  SQLGetDescRecW |-> Work, SQLGetDiagFieldW |-> ByType]

Wide6 == [
  SQLGetConnectAttrW |-> Work, SQLGetDescFieldW |-> Work, SQLGetDescRecW |-> Work,
  SQLGetDiagFieldW |-> ByType]

\* SQLErrorW converts its texts before it takes the guard and after it left it.
Wide7 == [
  SQLGetDiagRecW |-> ByType, SQLGetStmtAttrW |-> Work, SQLSetConnectAttrW |-> Work,
  SQLSetDescFieldW |-> Work, SQLSetStmtAttrW |-> Work]

\* Every class some exported function has.
Exported ==
  UNION UNION {Range(Ansi1), Range(Ansi2), Range(Ansi3), Range(Ansi4), Range(Ansi5),
               Range(Ansi6), Range(Ansi7), Range(Ansi8), Range(Wide1), Range(Wide2),
               Range(Wide3), Range(Wide4), Range(Wide5), Range(Wide6), Range(Wide7)}
=============================================================================
