------------------------------- MODULE Settings -------------------------------
(***************************************************************************)
(* What an application sets before it works and what the driver says of    *)
(* itself, one case after the other: connection strings, data sources and  *)
(* files, attributes of a connection, SQLGetInfo and SQLGetFunctions.      *)
(***************************************************************************)
EXTENDS Texts, FiniteSets

G == INSTANCE Announced
E == INSTANCE EntryPoints
K == INSTANCE ConnectString

Connections ==
  [connected : BOOLEAN, dialect : {1, 3}, quoted : BOOLEAN, sensitive : BOOLEAN, schemas : 0..2,
   database : {"db"}, dsn : {"source"}, account : {"user"}]
InfoCases == [kind : {"info"}, a : Connections, room : {2, 4}]
Ask ==
  /\ Pending("info")
  /\ Result([t \in G!InfoTypes \cup {"none"} |-> G!GetInfo(item.a, t, item.room)])

-----------------------------------------------------------------------------
(* A data source, a file, a file that names the data source.               *)
DataSources ==
  [n \in {<<"source">>} |->
     [UID |-> <<"scott">>, PWD |-> <<"#", "tiger">>, DBNAME |-> <<"emp">>, CHARSET |-> <<"UTF8">>, READONLY |-> <<"Y">>,
      DIALECT3 |-> <<"3">>, SENSITIVE |-> <<"Y">>, COMPATBIND |-> <<"N">>, WIRECOMPRESSION |-> <<"Y">>,
      SETCOMPATBIND |-> <<"int128">>]]
FileProfile ==
  [UID |-> <<"sysdba">>, DBNAME |-> <<"dept">>, ROLE |-> <<"clerk">>, QUOTED |-> <<"N">>, DIALECT3 |-> <<"1">>,
   READONLY |-> <<"N">>, AUTOQUOTED |-> <<"Y">>, DSN |-> << >>]
Files == [n \in {<<"file">>, <<"both">>} |->
            IF n = <<"file">> THEN FileProfile ELSE [FileProfile EXCEPT !.DSN = <<"source">>]]
Saved == <<"saved">>

Pair(k, v) == K!Pair(k, v)
Sayings ==
  {Pair("UID", <<"u">>), Pair("UID", <<"v">>), Pair("UID", << >>), Pair("PWD", <<"p", ";", "=">>), Pair("PWD", <<"#", "q">>),
   Pair("DBNAME", <<"b">>), Pair("CREATE_DB", <<"c">>), Pair("READONLY", <<"Y">>), Pair("READONLY", <<"N">>),
   Pair("DIALECT3", <<"1">>), Pair("DIALECT3", <<"3">>), Pair("SENSITIVE", <<"N">>), Pair("AUTOQUOTED", <<"Y">>),
   Pair("COMPATBIND", <<"Y">>), Pair("COMPATBIND", <<"N">>), Pair("SETCOMPATBIND", <<"int64">>), Pair("ROLE", <<"r">>),
   Pair("WIRECOMPRESSION", <<"N">>), Pair("TIMEOUT", <<"9">>), Pair("ODBC", <<"x">>), Pair("OTHER", <<"x">>)}
Few == {s \in Sayings : s.name \in {"UID", "DBNAME", "CREATE_DB", "READONLY", "SENSITIVE"}}
Places == {Pair("DSN", <<"source">>), Pair("DSN", <<"missing">>), Pair("FILEDSN", <<"file">>), Pair("FILEDSN", <<"both">>)}
Said ==
       {<<p, x, y>> : p \in Places, x \in Sayings, y \in Sayings} \cup {<<x, p, y>> : p \in Places, x \in Few, y \in Few}
  \cup {<<x, y, p>> : p \in Places, x \in Few, y \in Few} \cup {<<x, y>> : x \in Sayings, y \in Sayings}
  \cup {<<p, x, q>> : p \in Places, q \in Places, x \in Few} \cup {<< >>}
\* The string: a value in braces if it must be, or each; one blank or an empty keyword between.
RECURSIVE Written(_, _)
Written(said, braces) ==
  IF said = << >> THEN << >>
  ELSE LET v == said[1].value
           text == IF braces \/ \E i \in DOMAIN v : v[i] = ";" THEN <<"{">> \o v \o <<"}">> ELSE v
       IN  <<said[1].name, "=">> \o text \o (IF braces THEN <<";", ";">> ELSE <<";">>) \o Written(Tail(said), braces)
OpenCases ==
  {[kind |-> "open", said |-> s, text |-> Written(s \o <<Pair("SAVEDSN", Saved)>>, b), files |-> Files, was |-> << >>] :
     s \in Said, b \in BOOLEAN}
Open ==
  /\ Pending("open")
  /\ Result(K!DriverConnect(K!Fresh, item.text, [dsns |-> DataSources, files |-> item.files]))
\* Another handle is connected with the string that was returned, or with the file saved.
Reopen ==
  /\ Done("open") /\ item.was = << >>
  /\ \E how \in {"string", "file"} :
       item' = [kind |-> "open", said |-> item.said, was |-> <<how, item.result.o.connection[1]>>,
                text |-> IF how = "string" THEN item.result.out ELSE <<"FILEDSN", "=">> \o Saved \o <<";">>,
                files |-> [n \in DOMAIN item.files \cup {Saved} |->
                             IF n = Saved THEN item.result.saved ELSE item.files[n]]]

\* SQLConnect, and SQLBrowseConnect answer by answer.
PlainCases == [kind : {"plain"}, dsn : {<<"source">>, <<"missing">>}, uid : {<< >>, <<"u">>}, pwd : {<< >>, <<"p">>}]
PlainConnect ==
  /\ Pending("plain")
  /\ Result(K!SQLConnect(K!Fresh, item.dsn, item.uid, item.pwd, [dsns |-> DataSources, files |-> Files]))
BrowseBound == 3   \* bound: answers to SQLBrowseConnect
BrowseCase == [kind |-> "browse", o |-> K!Fresh, said |-> << >>, left |-> BrowseBound]
Answers ==
  {<<Pair("DSN", <<"source">>)>>, <<Pair("DBNAME", <<"b">>)>>, <<Pair("UID", <<"u">>), Pair("DBNAME", <<"b">>)>>}
  \cup [1..1 -> {Pair("UID", <<"u">>), Pair("ROLE", <<"r">>), Pair("PWD", <<"p">>)}]
  \cup {<<Pair("UID", <<"v">>), Pair("PWD", <<"p">>), Pair("ROLE", <<"r">>)>>}
Answer ==
  /\ item.kind = "browse" /\ item.left > 0 /\ item.o.connection = << >>
  /\ \E a \in Answers :
       item' = [item EXCEPT !.o = K!BrowseConnect(@, Written(a, FALSE), [dsns |-> DataSources, files |-> Files]).o,
                            !.said = @ \o a, !.left = @ - 1]

\* A handle's attributes are set before and after it is connected, and connected again.
SettingValues == [AUTOCOMMIT |-> BOOLEAN, TXN_ISOLATION |-> G!TxnLevels, ACCESS_MODE |-> {"READ_ONLY", "READ_WRITE"}]
SessionBound == 4  \* bound: attributes set, connects and disconnects in one case
SessionCase == [kind |-> "session", o |-> K!Fresh, want |-> K!Attributes, left |-> SessionBound]
Session(o, want) == item' = [item EXCEPT !.o = o, !.want = want, !.left = @ - 1]
SetAttribute ==
  /\ item.kind = "session" /\ item.left > 0
  /\ \E a \in DOMAIN SettingValues : \E v \in SettingValues[a] :
       Session(K!SetConnectAttr(item.o, a, v), [item.want EXCEPT ![a] = v])
ConnectAgain ==
  /\ item.kind = "session" /\ item.left > 0
  /\ Session(IF item.o.connection = << >> THEN K!Connected(item.o) ELSE K!Disconnect(item.o), item.want)

SettingInit == TextInit \/ item \in InfoCases \cup OpenCases \cup PlainCases \cup {BrowseCase, SessionCase}
SettingNext == TextNext \/ Ask \/ Open \/ Reopen \/ PlainConnect \/ Answer \/ SetAttribute \/ ConnectAgain
SettingSpec == SettingInit /\ [][SettingNext]_item

-----------------------------------------------------------------------------
\* The names the server knows itself.
Native == {"ABS", "ACOS", "ASIN", "ATAN", "ATAN2", "CAST", "CEILING", "COS", "COT", "EXTRACT", "FLOOR", "LOG", "LOG10", "MOD",
           "PI", "RAND", "SIGN", "SIN", "SQRT", "TAN", "LOWER", "UPPER", "ASCII_VAL", "ASCII_CHAR", "POSITION", "COALESCE"}
Serves(f) ==
  IF f \in DOMAIN Q!Renamed THEN Q!Renamed[f] \in Native
  ELSE f \in Native \cup DOMAIN Q!Replaced \cup DOMAIN Q!Bracketed \cup Q!Tokenized \cup {"CONVERT"}
Castable(type) ==
  {"SQL_" \o type, "SQL_TYPE_" \o type} \cap DOMAIN Q!CastType # {}
\* How much a transaction is kept apart from others, as the server's isolations are.
Strength == [read_committed |-> 1, concurrency |-> 2, consistency |-> 3]
Asked   == [READ_UNCOMMITTED |-> 1, READ_COMMITTED |-> 1, REPEATABLE_READ |-> 2, SERIALIZABLE |-> 3]
FunctionNames == UNION {DOMAIN E!Ansi1, DOMAIN E!Ansi2, DOMAIN E!Ansi3, DOMAIN E!Ansi4, DOMAIN E!Ansi5, DOMAIN E!Ansi6,
                        DOMAIN E!Ansi7, DOMAIN E!Ansi8}

\* What the driver announces it does, whatever the dialect and the options of the
\* connection: functions are translated into ones the server has (but LENGTH and
\* DBNAME, see the README), conversions to types CONVERT knows, levels of isolation
\* are given in full, concurrencies are accepted by SQLSetScrollOptions, functions
\* are exported; names are put in quotes just when quotes are announced as the mark
\* of a name, and schemas taken away when they are announced (OdbcConnection.cpp
\* 80-193, 1159-1567, InfoItems.h, IscDatabaseMetaData.cpp 286-962).
InfoTrue ==
  Done("info") =>
    LET a == item.a
        r == item.result
    IN  /\ G!SupportedFunctions \subseteq FunctionNames
        /\ \A t \in DOMAIN r : r[t].state = "" => (a.connected \/ t \in {"ODBC_VER", "DRIVER_ODBC_VER"})
        /\ a.connected =>
             /\ \A t \in {"NUMERIC_FUNCTIONS", "STRING_FUNCTIONS", "TIMEDATE_FUNCTIONS", "SYSTEM_FUNCTIONS",
                          "CONVERT_FUNCTIONS", "SQL92_DATETIME_FUNCTIONS"} :
                  \A f \in r[t].value \ {"LENGTH", "DBNAME"} : Serves(f)
             /\ \A t \in G!ConvertTypes : \A type \in r[t].value : Castable(type)
             /\ \A l \in r.TXN_ISOLATION_OPTION.value :
                  Strength[P!FromAttributes(l, FALSE, FALSE).isolation] >= Asked[l]
             /\ r.DEFAULT_TXN_ISOLATION.value = K!Attributes["TXN_ISOLATION"]
             /\ A!Announced("STATIC") =
                  {IF c = "READ_ONLY_CONCURRENCY" THEN "READ_ONLY" ELSE "VALUES" :
                     c \in r.STATIC_CURSOR_ATTRIBUTES2.value \cap {"READ_ONLY_CONCURRENCY", "OPT_VALUES_CONCURRENCY"}}
             /\ A!Announced("DYNAMIC") = {"READ_ONLY"}
             /\ G!AutoQuotes(a, TRUE) => r.IDENTIFIER_QUOTE_CHAR.value = "\"" /\ a.quoted
             /\ (r.IDENTIFIER_QUOTE_CHAR.value = "\"") = (a.dialect = 3 /\ a.quoted)
             /\ (r.IDENTIFIER_QUOTE_CHAR.value = "\"") = (r.QUOTED_IDENTIFIER_CASE.value = "SENSITIVE")
             /\ G!RemovesSchemas(a) => r.SCHEMA_TERM.value # ""
             /\ r.CATALOG_NAME.value = "Y" <=> r.CATALOG_TERM.value # ""

-----------------------------------------------------------------------------
\* The last thing said of some keywords, and what their places say.
LastOf(said, names) ==
  LET hits == {i \in DOMAIN said : said[i].name \in names}
  IN  IF hits = {} THEN << >> ELSE said[CHOOSE i \in hits : \A j \in hits : j <= i].value
Profiles(said) ==
  LET d == LastOf(said, {"DSN"})
      f == LastOf(said, {"FILEDSN"})
  IN  CASE d # << >> -> <<K!Stored(DataSources, d)>>
        [] f # << >> -> <<Files[f], K!Stored(DataSources, Files[f].DSN)>>
        [] OTHER     -> << >>
OptionMeant(said, x) ==
  LET own  == LastOf(said, IF x = "DBNAME" THEN {"DBNAME", "CREATE_DB"} ELSE {x})
      p    == Profiles(said)
      told == {i \in DOMAIN p : K!Read(p[i], x) # << >>}
      v    == CASE own # << >> -> own
                [] told # {}   -> K!Read(p[CHOOSE i \in told : \A j \in told : i <= j], x)
                [] OTHER       -> << >>
  IN  IF x = "PWD" THEN K!Decode(v) ELSE v
SwitchMeant(said, f) ==
  LET p == Profiles(said)
      moved == IF \E i \in DOMAIN said : said[i].name = f THEN LastOf(said, {f}) = K!Moves(f)
               ELSE \E i \in DOMAIN p : K!Read(p[i], f) = K!Moves(f)
  IN  IF moved THEN ~K!Default(f) ELSE K!Default(f)
Contrary(said, f) ==
  Cardinality({said[i].value : i \in {j \in DOMAIN said : said[j].name = f}}) > 1
\* What a file says of these is not read from it.
FileLoses == {"SAFETHREAD", "SENSITIVE", "AUTOQUOTED"}
AsSaid(c, said) ==
  /\ \A f \in K!Switches :
       \/ Contrary(said, f)
       \/ f \in FileLoses /\ LastOf(said, {"DSN"}) = << >> /\ LastOf(said, {"FILEDSN"}) # << >>
       \/ c.on[f] = SwitchMeant(said, f)
  /\ \A x \in DOMAIN c.text :
       c.text[x] = IF x = "SETCOMPATBIND" /\ ~c.on["COMPATBIND"] THEN << >> ELSE OptionMeant(said, x)
  /\ c.timeout = LastOf(said, {"TIMEOUT"})
  /\ (c.access = "CREATE_DB") = (LastOf(said, {"CREATE_DB"}) # << >>)
\* What the string that is returned can tell again: no switches, no other texts, no
\* value that needs braces, no file that names a data source (the string names that
\* instead, and the file is not read again).
Returns(said) ==
  /\ LastOf(said, {"DSN"}) = << >> => LastOf(said, {"FILEDSN"}) # <<"both">>
  /\ \A i \in DOMAIN said :
       /\ said[i].name \in {"DSN", "FILEDSN", "UID", "PWD", "DBNAME", "ROLE", "ODBC"}
       /\ \A k \in DOMAIN said[i].value : said[i].value[k] # ";"
Unnamed(c) == [c EXCEPT !.dsn = << >>, !.timeout = << >>, !.access = "OPEN", !.on = [f \in K!Switches \ FileLoses |-> @[f]]]

\* In whatever order a connection string names its options, with braces or without,
\* the database is opened with the last text said of each, else with what the data
\* source says, else the file and then the file's data source, and a switch with what
\* was said of it alone; the string that is returned opens it the same again, and so
\* does the file that is saved.  SQLConnect and SQLBrowseConnect, whatever the
\* order of the answers, come to the same.  An attribute acts the same
\* whether set before or after the connection is made (OdbcConnection.cpp 386-996,
\* 1614-1753, 1818-2187).
AsConnected ==
  /\ Done("open") /\ item.was = << >> => AsSaid(item.result.o.connection[1], item.said)
  /\ Done("open") /\ item.was # << >> =>
       LET again == item.result.o.connection[1]
       IN  /\ item.was[1] = "string" /\ Returns(item.said) => again = item.was[2]
           /\ item.was[1] = "file" => Unnamed(again) = Unnamed(item.was[2])
  /\ Done("plain") =>
       AsSaid(item.result.o.connection[1], <<Pair("DSN", item.dsn), Pair("UID", item.uid), Pair("PWD", item.pwd)>>)
  /\ item.kind = "browse" /\ item.o.connection # << >> => AsSaid(item.o.connection[1], item.said)
  /\ item.kind = "session" =>
       /\ \A a \in DOMAIN item.want : K!GetConnectAttr(item.o, a) = item.want[a]
       /\ item.o.connection # << >> =>
            /\ item.o.connection[1].auto = item.want["AUTOCOMMIT"]
            /\ item.o.connection[1].isolation = item.want["TXN_ISOLATION"]
=============================================================================
