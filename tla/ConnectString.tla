---------------------------- MODULE ConnectString ----------------------------
(***************************************************************************)
(* What a connection is opened with: attributes set on the handle, the     *)
(* connection string, the data source or file it names, defaults           *)
(* (OdbcConnection.cpp 299-489, 490-996, 1614-2187).  A text is a sequence *)
(* of tokens: words, "=", ";", "{" and "}"; a keyword is the option it     *)
(* stands for, however it is spelt.                                        *)
(***************************************************************************)
EXTENDS Integers, Sequences

From(s, i) == SubSeq(s, i, Len(s))
At(s, i)   == IF i \in 1 .. Len(s) THEN s[i] ELSE ""
Until(s, p, stops) ==
  LET hits == {i \in p .. Len(s) : s[i] \in stops}
  IN  IF hits = {} THEN Len(s) + 1 ELSE CHOOSE i \in hits : \A j \in hits : i <= j

\* Options with a text, and switches with the value that moves each from its default.
TextOptions == {"DESCRIPTION", "DBNAME", "CLIENT", "UID", "PWD", "ROLE", "CHARSET", "JDBC_DRIVER", "USESCHEMA",
                "LOCKTIMEOUT", "SETCOMPATBIND"}
Switches    == {"READONLY", "NOWAIT", "DIALECT3", "QUOTED", "SENSITIVE", "AUTOQUOTED", "SAFETHREAD", "COMPATBIND",
                "WIRECOMPRESSION"}
Default(f) == f \in {"DIALECT3", "QUOTED", "SAFETHREAD", "COMPATBIND"}
Moves(f)   == CASE f = "DIALECT3" -> <<"1">> [] Default(f) -> <<"N">> [] OTHER -> <<"Y">>

Attributes == [AUTOCOMMIT |-> TRUE, TXN_ISOLATION |-> "READ_COMMITTED", ASYNC_ENABLE |-> FALSE,
               ACCESS_MODE |-> "READ_WRITE", ODBC_CURSORS |-> "DRIVER"]
Fresh == [text |-> [x \in TextOptions |-> << >>], on |-> [f \in Switches |-> Default(f)], said |-> {},
          dsn |-> << >>, filedsn |-> << >>, savedsn |-> << >>, access |-> "OPEN", page |-> << >>, timeout |-> << >>,
          attr |-> Attributes, connection |-> << >>, driver |-> << >>, level |-> 0, full |-> FALSE]
DriverName == <<"Driver">>

\* The stored password; no password is as long as one that is encoded.
Encode(v) == <<"#">> \o v
Decode(v) == IF At(v, 1) = "#" THEN Tail(v) ELSE v

-----------------------------------------------------------------------------
(* Reading the string.                                                     *)
Pair(name, value) == [name |-> name, value |-> value]
RECURSIVE Pairs(_, _)
\* braces: whether a value may stand in braces.
Pairs(s, braces) ==
  LET n == Until(s, 1, {"=", ";"})
      name == SubSeq(s, 1, n - 1)
      braced == braces /\ At(s, n + 1) = "{"
      v == IF braced THEN n + 2 ELSE n + 1
      e == Until(s, v, {IF braced THEN "}" ELSE ";"})
      next == IF braced THEN Until(s, e + 1, {";"}) ELSE e
  IN  CASE s = << >>        -> << >>
        [] n = 1            -> Pairs(From(s, 2), braces)
        [] At(s, n) # "="   -> <<Pair(name[1], << >>)>> \o Pairs(From(s, n + 1), braces)
        [] OTHER            -> <<Pair(name[1], SubSeq(s, v, e - 1))>> \o Pairs(From(s, next + 1), braces)

BugSwitch(o, f, v) == [o EXCEPT !.on[f] = IF v = Moves(f) THEN ~Default(f) ELSE @]
\* A switch is only ever moved; of compression, only a default is asked for.
Switch(o, f, v) ==
  [o EXCEPT !.on[f] = IF v = Moves(f) /\ f # "WIRECOMPRESSION" THEN ~Default(f) ELSE @, !.said = @ \cup {f}]
Keyword(o, k, v) ==
  CASE k = "DSN"     -> [o EXCEPT !.dsn = v]
    [] k = "FILEDSN" -> [o EXCEPT !.filedsn = v]
    [] k = "SAVEDSN" -> [o EXCEPT !.savedsn = v]
    [] k = "DRIVER"  -> [o EXCEPT !.driver = v]
    [] k = "PWD"     -> [o EXCEPT !.text[k] = Decode(v)]
    [] k \in TextOptions -> [o EXCEPT !.text[k] = v]
    [] k \in {"CREATE_DB", "DROP_DB"} -> [o EXCEPT !.text["DBNAME"] = v, !.access = k]
    [] k = "PAGE_SIZE" -> [o EXCEPT !.page = v]
    [] k = "TIMEOUT"   -> [o EXCEPT !.timeout = v]
    [] k \in Switches  -> Switch(o, k, v)
    [] OTHER           -> o
Known == TextOptions \cup Switches \cup {"DSN", "FILEDSN", "SAVEDSN", "CREATE_DB", "DROP_DB", "PAGE_SIZE", "TIMEOUT",
                                         "DRIVER", "ODBC"}
RECURSIVE Keywords(_, _)
Keywords(o, pairs) ==
  IF pairs = << >> THEN o ELSE Keywords(Keyword(o, pairs[1].name, pairs[1].value), Tail(pairs))

-----------------------------------------------------------------------------
(* A data source and a file are functions from some of the options to      *)
(* values; what is not stored in them reads as empty.                      *)
Read(profile, k) == IF k \in DOMAIN profile THEN profile[k] ELSE << >>
Fill(o, profile, switches) ==
  [o EXCEPT !.text = [x \in TextOptions |->
                        CASE @[x] # << >> -> @[x]
                          [] x = "PWD"    -> Decode(Read(profile, x))
                          [] OTHER        -> Read(profile, x)],
            !.on = [f \in Switches |->
                      IF f \in switches \ o.said /\ Read(profile, f) = Moves(f) THEN ~Default(f) ELSE @[f]]]
Stored(store, name) == IF name \in DOMAIN store THEN store[name] ELSE << >>
\* Three switches of a file are looked for in the data source, which has no name yet.
ExpandFile(o, file, dsns) ==
  LET d == Read(file, "DSN")
      p == [Fill(o, file, Switches \ {"SAFETHREAD", "SENSITIVE", "AUTOQUOTED"}) EXCEPT !.dsn = d]
  IN  IF d = << >> THEN p ELSE Fill(p, Stored(dsns, d), Switches)
WithDriver(o) == [o EXCEPT !.text["JDBC_DRIVER"] = IF @ = << >> THEN <<"IscDbc">> ELSE @]
ExpandConnectParameters(o, reg) ==
  WithDriver(CASE o.dsn # << >>     -> Fill(o, Stored(reg.dsns, o.dsn), Switches)
               [] o.filedsn # << >> -> ExpandFile(o, Stored(reg.files, o.filedsn), reg.dsns)
               [] OTHER             -> o)
YesNo(b) == IF b THEN <<"Y">> ELSE <<"N">>
SaveConnectParameters(o) ==
  [k \in TextOptions \cup Switches |->
     CASE k = "PWD"        -> Encode(o.text[k])
       [] k \in TextOptions -> o.text[k]
       [] k = "DIALECT3"   -> IF o.on[k] THEN <<"3">> ELSE <<"1">>
       [] OTHER            -> YesNo(o.on[k])]

\* What the database is opened with, and the transactions of the connection.
Connect(o) ==
  [text |-> [x \in TextOptions \ {"DESCRIPTION", "JDBC_DRIVER"} |->
               IF x = "SETCOMPATBIND" /\ ~o.on["COMPATBIND"] THEN << >> ELSE o.text[x]],
   on |-> o.on, access |-> o.access, dsn |-> o.dsn, page |-> o.page, timeout |-> o.timeout,
   auto |-> o.attr["AUTOCOMMIT"], isolation |-> o.attr["TXN_ISOLATION"]]
Connected(o) == [o EXCEPT !.connection = <<Connect(o)>>]

\* The string that is returned.
Put(k, v) == IF v = << >> THEN << >> ELSE <<";", k, "=">> \o v
Returned(o) ==
  (IF o.dsn = << >> THEN << >> ELSE <<"DSN", "=">> \o o.dsn \o <<";">>) \o <<"DRIVER", "=">> \o o.driver
  \o Put("DBNAME", o.text["DBNAME"]) \o Put("CHARSET", o.text["CHARSET"]) \o (IF o.text["PWD"] = << >> THEN << >> ELSE Put("PWD", Encode(o.text["PWD"])))
  \o Put("UID", o.text["UID"]) \o Put("ROLE", o.text["ROLE"]) \o Put("CLIENT", o.text["CLIENT"])
  \o Put("FILEDSN", o.filedsn) \o <<";">>

DriverConnect(o, s, reg) ==
  LET pairs == Pairs(s, TRUE)
      p == ExpandConnectParameters(Keywords([o EXCEPT !.driver = DriverName], pairs), reg)
  IN  IF o.connection # << >> THEN [state |-> "08002", o |-> o]
      ELSE [o |-> [Connected(p) EXCEPT !.level = 0], out |-> Returned(p),
            state |-> IF \E i \in DOMAIN pairs : pairs[i].name \notin Known THEN "01S00" ELSE "",
            saved |-> IF p.savedsn = << >> THEN << >> ELSE SaveConnectParameters(p)]
SQLConnect(o, dsn, uid, pwd, reg) ==
  LET p == [o EXCEPT !.dsn = dsn, !.text["UID"] = uid, !.text["PWD"] = pwd, !.text["ROLE"] = << >>,
                     !.text["CHARSET"] = << >>]
  IN  IF o.connection # << >> THEN [state |-> "08002", o |-> o]
      ELSE [state |-> "", o |-> [Connected(ExpandConnectParameters(p, reg)) EXCEPT !.level = 0]]

\* SQLBrowseConnect: the data source, then the user, then the database; a new data
\* source ends the reading of the string.
RECURSIVE Browse(_, _)
Browse(o, pairs) ==
  LET k == pairs[1].name
      v == pairs[1].value
  IN  CASE pairs = << >>                       -> o
        [] k = "DSN" /\ v # o.dsn              -> [o EXCEPT !.dsn = v, !.level = 1]
        [] k = "DRIVER" /\ v # DriverName      -> [o EXCEPT !.level = 1]
        [] k = "JDBC_DRIVER" /\ v # o.text[k]  -> [o EXCEPT !.text[k] = v, !.level = 1]
        [] k = "DBNAME"                        -> Browse([o EXCEPT !.text[k] = v, !.level = 3, !.full = TRUE], Tail(pairs))
        [] k \in {"UID", "PWD", "ROLE", "CHARSET"} -> Browse([o EXCEPT !.text[k] = v, !.level = 2], Tail(pairs))
        [] OTHER                               -> Browse(o, Tail(pairs))
Asks(o) ==
  CASE o.level = 1 -> {"ROLE", "CHARSET", "UID", "PWD"} [] o.level = 2 -> {"DBNAME"} [] OTHER -> {}
BrowseConnect(o, s, reg) ==
  LET b == Browse([o EXCEPT !.level = 0, !.full = FALSE], Pairs(s, FALSE))
      p == IF b.level = 1 THEN ExpandConnectParameters(b, reg) ELSE b
  IN  CASE o.level = 0 /\ o.connection # << >> -> [state |-> "08002", o |-> o, asks |-> {}]
        [] p.full -> [state |-> "", o |-> Connected(p), asks |-> {}]
        [] OTHER -> [state |-> "need data", o |-> p, asks |-> Asks(p)]

-----------------------------------------------------------------------------
(* Attributes.  The connection has its own copy of some.                   *)
SetConnectAttr(o, a, v) ==
  LET p == [o EXCEPT !.attr[a] = v]
  IN  CASE o.connection = << >>   -> p
        [] a = "AUTOCOMMIT"       -> [p EXCEPT !.connection[1].auto = v]
        [] a = "TXN_ISOLATION"    -> [p EXCEPT !.connection[1].isolation = v]
        [] OTHER                  -> p
GetConnectAttr(o, a) ==
  IF a = "TXN_ISOLATION" /\ o.connection # << >> THEN o.connection[1].isolation ELSE o.attr[a]
Disconnect(o) == [o EXCEPT !.connection = << >>]
=============================================================================
