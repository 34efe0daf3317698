-------------------------------- MODULE Texts --------------------------------
(***************************************************************************)
(* Texts an application hands to the driver, one case after the other: a   *)
(* statement on its way to the server, the parameters of a transaction and *)
(* the names they are kept under.                                          *)
(***************************************************************************)
EXTENDS Values

Q == INSTANCE SqlText
P == INSTANCE TransactionText

SqlCases ==
       {[kind |-> "sql", s |-> x, quoting |-> q, schemas |-> FALSE] : x \in Q!Selects \cup Q!Joins, q \in BOOLEAN}
  \cup {[kind |-> "sql", s |-> x, quoting |-> q, schemas |-> h] :
          x \in Q!Unions \cup Q!Calls \cup Q!Queries, q \in BOOLEAN, h \in BOOLEAN}
Rewrite ==
  /\ Pending("sql")
  /\ LET text == Q!Text(item.s)
         r == Q!GetNativeSql(text, item.quoting, item.schemas)
     IN  Result([text |-> text, out |-> r.text, status |-> r.status])

-----------------------------------------------------------------------------
(* The clauses of SET TRANSACTION, in any order.                           *)
Access == [none |-> << >>, read |-> <<"READ", "ONLY">>, write |-> <<"READ", "WRITE">>]
Isolation ==
  [none |-> << >>, snapshot |-> <<"SNAPSHOT">>, serializable |-> <<"ISOLATION", "LEVEL", "SERIALIZABLE">>,
   stable |-> <<"ISOLATION", "SNAPSHOT", "TABLE", "STABILITY">>, repeatable |-> <<"REPEATABLE", "READ">>,
   committed |-> <<"ISOLATION", "LEVEL", "READ", "COMMITTED">>, version |-> <<"READ", "COMMITTED", "RECORD_VERSION">>,
   noversion |-> <<"READ", "UNCOMMITTED", "NO", "RECORD_VERSION">>]
Wait == [none |-> << >>, wait |-> <<"WAIT">>, nowait |-> <<"NO", "WAIT">>, timeout |-> <<"WAIT", "LOCK", "TIMEOUT", "5">>]
Extra == [none |-> << >>, auto |-> <<"AUTOCOMMIT">>, undo |-> <<"NO_AUTO_UNDO">>]
\* Groups of tables with one lock each.
Reserved ==
  [none |-> << >>,
   one  |-> << <<<<"T">>, "", FALSE>> >>,
   two  |-> << <<<<"T", "U">>, "PROTECTED", TRUE>> >>,
   many |-> << <<<<"T", "U">>, "SHARED", FALSE>>, <<<<"V">>, "", TRUE>>, <<<<"W", "X">>, "EXCLUSIVE", FALSE>> >>]
Orders == {<<1, 2, 3, 4>>, <<2, 1, 3, 4>>, <<3, 2, 1, 4>>, <<4, 3, 2, 1>>, <<2, 4, 1, 3>>, <<1, 4, 2, 3>>, <<4, 2, 3, 1>>}
ClauseCases ==
  [kind : {"clauses"}, access : DOMAIN Access, isolation : DOMAIN Isolation, wait : DOMAIN Wait, extra : DOMAIN Extra,
   locks : DOMAIN Reserved, order : Orders]

RECURSIVE Listed(_)
Listed(t) == IF Len(t) = 1 THEN t ELSE <<t[1], ",">> \o Listed(Tail(t))
Group(g) == Listed(g[1]) \o (IF g[2] = "" THEN << >> ELSE <<"FOR", g[2]>>) \o (IF g[3] THEN <<"WRITE">> ELSE << >>)
RECURSIVE Groups(_)
Groups(g) == IF Len(g) = 1 THEN Group(g[1]) ELSE Group(g[1]) \o <<",">> \o Groups(Tail(g))
ClauseText(i) ==
  LET c == <<Access[i.access], Isolation[i.isolation], Wait[i.wait], Extra[i.extra]>>
  IN  c[i.order[1]] \o c[i.order[2]] \o c[i.order[3]] \o c[i.order[4]]
      \o (IF i.locks = "none" THEN << >> ELSE <<"RESERVING">> \o Groups(Reserved[i.locks]))
ReadClauses ==
  /\ Pending("clauses")
  /\ Result(P!BuildParamTransaction(P!Fresh, ClauseText(item), FALSE))

\* What the clauses mean.
Locks(i) ==
  LET Level(g) == CASE g[2] # "" -> g[2] [] i.isolation \in {"stable", "repeatable"} -> "PROTECTED" [] OTHER -> "SHARED"
  IN  UNION {{[table |-> g[1][k], level |-> Level(g), write |-> g[3]] : k \in DOMAIN g[1]} : g \in {Reserved[i.locks][j] : j \in DOMAIN Reserved[i.locks]}}
SaidBy(i) ==
  [access |-> IF i.access = "read" THEN "read" ELSE "write",
   isolation |-> CASE i.isolation \in {"stable", "repeatable"} -> "consistency"
                   [] i.isolation \in {"committed", "version", "noversion"} -> "read_committed"
                   [] OTHER -> "concurrency",
   wait |-> i.wait # "nowait", timeout |-> IF i.wait = "timeout" THEN 5 ELSE 0,
   version |-> CASE i.isolation = "noversion" -> "no_rec_version"
                 [] i.isolation \in {"committed", "version"} -> "rec_version" [] OTHER -> "",
   undo |-> i.extra # "undo", locks |-> Locks(i)]
Conflict(i) == i.access = "read" /\ \E l \in Locks(i) : l.write
\* A number is the last thing that is read.
TimeoutLast(i) == i.wait = "timeout" => i.order[4] = 3 /\ i.locks = "none"

-----------------------------------------------------------------------------
(* Names, all with USING or all without, with one of two sets of clauses.  *)
Named(u) == IF u THEN {<<"X", "USING", "U">>, <<"Y", "USING", "U">>, <<"X", "USING", "V">>} ELSE {<<"X">>, <<"Y">>, <<"Z">>}
Kept == [a |-> <<"READ", "ONLY">>, b |-> <<"NO", "WAIT">>]
\* `named': what was last said under each name, `last' of the statement's next transaction.
NameCases == {[kind |-> "names", using |-> u, w |-> P!Fresh, named |-> [n \in Named(u) |-> "none"], last |-> "none"] : u \in BOOLEAN}
NameText(n, o) == <<"NAME", n[1]>> \o Kept[o] \o Tail(n)
Says(n, o) ==
  {[text |-> NameText(n, o), declare |-> TRUE, under |-> TRUE, last |-> "none"],
   [text |-> NameText(n, o), declare |-> FALSE, under |-> TRUE, last |-> o],
   [text |-> <<"LOCAL">> \o Kept[o], declare |-> FALSE, under |-> FALSE, last |-> o],
   [text |-> <<"LOCAL">> \o Kept[o], declare |-> TRUE, under |-> FALSE, last |-> "none"],
   [text |-> Kept[o], declare |-> FALSE, under |-> FALSE, last |-> o],
   [text |-> <<"NAME">> \o n, declare |-> FALSE, under |-> FALSE, last |-> item.named[n]],
   [text |-> <<"LOCAL", "NAME">> \o n, declare |-> FALSE, under |-> FALSE, last |-> item.named[n]]}
SetParameters ==
  /\ item.kind = "names"
  /\ \E n \in DOMAIN item.named, o \in DOMAIN Kept : \E say \in Says(n, o) :
       LET r == P!BuildParamTransaction(item.w, say.text, say.declare)
       IN  /\ r.ret # 0
           /\ item' = [item EXCEPT !.w = r.w, !.named[n] = IF say.under THEN o ELSE @, !.last = say.last]
Switch ==
  /\ item.kind = "names"
  /\ \E local \in BOOLEAN : item' = [item EXCEPT !.w = P!SwitchTransaction(@, local), !.last = "none"]

TextInit == Init \/ item \in SqlCases \cup ClauseCases \cup NameCases
TextNext == Next \/ Rewrite \/ ReadClauses \/ SetParameters \/ Switch
TextSpec == TextInit /\ [][TextNext]_item

-----------------------------------------------------------------------------
\* Whatever escapes are inside one another, and whatever braces, commas and brackets
\* stand in literals and names between them, the server is sent the statement that was
\* meant: functions by their native form, calls with the inputs alone, tables
\* without schemas, names in mixed case quoted; and the driver says it
\* changed the text just when it did (IscConnection.cpp 385-536, 1032-1811,
\* SupportFunctions.cpp).
TextAsMeant ==
  Done("sql") /\ Q!Promised(item.s, item.schemas) =>
    LET r == item.result
        sent == IF r.status > 0 THEN r.out ELSE r.text
    IN  /\ sent = Q!Server(item.s, item.quoting, item.schemas)
        /\ ~item.schemas => (r.status > 0) = (r.out # r.text)

\* The clauses of a transaction say the same in any order, a lock holds for the
\* tables of its group and no others, and a name keeps what was last said under it,
\* whatever is said under other names; the statement's next transaction starts
\* with what was said last (IscConnection.cpp 553-1011, EnvShare.cpp 184-207).
TransactionAsSaid ==
  /\ Done("clauses") /\ TimeoutLast(item) =>
       LET r == item.result
           t == r.w.conn.tpb
       IN  IF Conflict(item) THEN r.ret = 0
           ELSE /\ [t EXCEPT !.locks = {t.locks[k] : k \in DOMAIN t.locks}] = SaidBy(item)
                /\ r.w.conn.auto = (item.extra = "auto")
  /\ item.kind = "names" =>
       /\ item.last # "none" =>
            P!StartTransaction(item.w, "") = P!Tpb(P!Clauses(P!Begin(Kept[item.last])))
       /\ \A n \in DOMAIN item.named :
            LET r == P!BuildParamTransaction(item.w, <<"NAME">> \o n, FALSE)
            IN  IF item.named[n] = "none" THEN r.ret = 0
                ELSE r.w.conn.tpb = P!Tpb(P!Clauses(P!Begin(Kept[item.named[n]])))
=============================================================================
