------------------------------ MODULE SqlText ------------------------------
(***************************************************************************)
(* Statements as trees, with two readings of each: the text an application *)
(* writes by the rules of ODBC and the text the server is meant to get.    *)
(* The definition NativeSql is checked against.                            *)
(***************************************************************************)
EXTENDS NativeSql

Quoted(w) == <<"\"", w, "\"">>
Word(w) == [is |-> "word", w |-> w]
Raw(t)  == [is |-> "raw", t |-> t]         \* a literal or a quoted name
Fn(f, a) == [is |-> "fn", f |-> f, args |-> a]
Convert(e, t) == [is |-> "fn", f |-> "CONVERT", args |-> <<e>>, type |-> t]
Mark(f, t) == [is |-> "mark", f |-> f, t |-> t]

RECURSIVE Joined(_)
Joined(a) == IF Len(a) <= 1 THEN Seqs!FlattenSeq(a) ELSE a[1] \o <<",">> \o Joined(Tail(a))
Braced(t) == <<"{">> \o t \o <<"}">>

RECURSIVE Written(_)
Written(e) ==
  LET a == Joined([i \in DOMAIN e.args |-> Written(e.args[i])])
  IN  CASE e.is = "word" -> <<e.w>>
        [] e.is = "raw"  -> e.t
        [] e.is = "mark" -> Braced(<<e.f>> \o e.t)
        [] e.f \in {"CURRENT_DATE", "USER"} -> Braced(<<"FN", e.f>>)
        [] e.f = "CONVERT" -> Braced(<<"FN">> \o Call(e.f, a \o <<",", e.type>>))
        [] OTHER           -> Braced(<<"FN">> \o Call(e.f, a))

\* As the server is to read it; q: names in mixed case are quoted.
RECURSIVE Meant(_, _)
Meant(e, q) ==
  LET a == [i \in DOMAIN e.args |-> Meant(e.args[i], q)]
  IN  CASE e.is = "word" -> IF q /\ e.w \in Mixed THEN Quoted(e.w) ELSE <<e.w>>
        [] e.is = "raw"  -> e.t
        [] e.is = "mark" -> IF e.f = "ESCAPE" THEN <<e.f>> \o e.t ELSE e.t
        [] e.f \in DOMAIN Renamed   -> Call(Renamed[e.f], Joined(a))
        [] e.f \in DOMAIN Replaced  -> Replaced[e.f]
        [] e.f \in DOMAIN Bracketed -> Bracketed[e.f] \o a[1] \o <<")">>
        [] e.f = "CONVERT"          -> Call("CAST", a[1] \o <<"AS">> \o CastType[e.type])
        [] e.f \in Tokenized        -> Shaped(e.f, a)
        [] OTHER                    -> Call(e.f, Joined(a))

\* What the driver is known not to read: a comma within the value of CONVERT, and
\* commas, brackets or single quotes within a double-quoted name of a call that is
\* taken apart.
RECURSIVE Readable(_)
Readable(e) ==
  e.is = "fn" =>
    /\ \A i \in DOMAIN e.args : Readable(e.args[i])
    /\ e.f = "CONVERT" => Find(Meant(e.args[1], FALSE), ",") = 0
    /\ e.f \in Tokenized =>
         \A i \in DOMAIN e.args :
           LET t == Meant(e.args[i], FALSE)
           IN  \A j \in DOMAIN t : Open(t)[j] = "\"" => t[j] \notin {",", "(", ")", "'"}

-----------------------------------------------------------------------------
(* Statements *)
Atoms == {Word("A"), Word("Name"), Raw(<<"'", "}", ",", "{", "'">>), Raw(<<"'", ")", "\"", "'">>),
          Raw(<<"\"", "}", "'", "\"">>)}
Few   == {Word("Name"), Raw(<<"'", "}", ",", "{", "'">>)}
Arity(f) == CASE f \in {"CONCAT", "LOCATE", "IFNULL", "MOD", "DIFFERENCE", "REPEAT"} -> 2
              [] f = "INSERT"    -> 4
              [] f = "SUBSTRING" -> 3
              [] f \in DOMAIN Replaced -> 0
              [] OTHER           -> 1
Names == (DOMAIN Renamed \cup DOMAIN Replaced \cup DOMAIN Bracketed \cup Tokenized \cup {"ABS", "MOD", "LENGTH"})
Some  == {"UCASE", "USER", "DAYOFWEEK", "CONCAT", "INSERT", "RTRIM", "SUBSTRING", "ABS"}
Casts(S) == {Convert(e, t) : e \in S, t \in DOMAIN CastType}
Apply(F, S) == UNION {{Fn(f, a) : a \in [1 .. Arity(f) -> S]} : f \in F}
Flat   == Apply(Names, Few) \cup Apply(Names \ {"INSERT", "SUBSTRING"}, Atoms) \cup Casts(Few)
Inner  == {Fn("UCASE", <<Word("Name")>>), Fn("CONCAT", <<Word("A"), Raw(<<"'", "}", "'">>)>>), Fn("USER", << >>),
           Fn("SUBSTRING", <<Word("A"), Word("1"), Word("2")>>), Mark("D", <<"'", "2024", "'">>)}
Nested == Apply(Some \ {"INSERT", "SUBSTRING"}, Inner \cup {Word("A")}) \cup Casts(Inner)
          \cup {Fn("INSERT", <<i, Word("1"), Word("2"), j>>) : i \in Inner, j \in Inner}
          \cup {Fn("SUBSTRING", <<i, j, k>>) : i \in Inner, j \in {Word("1")} \cup Inner, k \in {Word("2")}}
Deep   == {Fn("CONCAT", <<Fn("LTRIM", <<i>>), Convert(j, "SQL_CHAR")>>) : i \in Inner, j \in Inner}

\* A select list and its condition; an outer join; a union in brackets.
Selects == {[st |-> "select", e |-> e, b |-> b] : e \in Flat \cup Nested \cup Deep, b \in {Word("Name"), Raw(<<"\"", "Name", "\"">>)}}
Joins   == {[st |-> "join", e |-> e] : e \in Inner \cup Atoms}
Unions  == {[st |-> "union", a |-> a, b |-> b, brackets |-> x] : a \in Atoms, b \in Atoms, x \in BOOLEAN}

\* A call and its parameters, some left out.
Missing    == Raw(<< >>)
Bracketing == Raw(<<"'", ",", "}", ")", "'">>)
Given == {Missing, Word("?"), Word("A"), Bracketing}
Calls == {[st |-> "call", p |-> p, args |-> a, bare |-> r, quoted |-> q, schema |-> FALSE] :
            p \in DOMAIN Procedures, a \in UNION {[1 .. n -> Given] : n \in 0 .. 3}, r \in BOOLEAN, q \in BOOLEAN}
         \cup {[st |-> "call", p |-> "P2", args |-> <<i, Word("?")>>, bare |-> TRUE, quoted |-> FALSE, schema |-> FALSE] : i \in Inner}
         \cup {[st |-> "call", p |-> "P1", args |-> <<Word("A"), Word("?")>>, bare |-> r, quoted |-> q, schema |-> TRUE] : r \in BOOLEAN, q \in BOOLEAN}

\* Tables with or without a schema, columns with or without either.
Tables  == [schema : {"", "S", "R"}, name : {"T", "U"}]
Columns(t) == {<<"A">>, <<t.name, ".", "A">>} \cup (IF t.schema = "" THEN {} ELSE {<<t.schema, ".", t.name, ".", "A">>})
Queries == UNION {UNION {[st : {"query"}, verb : {"SELECT", "UPDATE", "INSERT", "JOIN"}, t : {t}, u : {u}, c : Columns(t), d : Columns(u)] :
                    u \in {w \in Tables : w.name = "U"}} : t \in {v \in Tables : v.name = "T"}}

Table(t) == IF t.schema = "" THEN <<t.name>> ELSE <<t.schema, ".", t.name>>
Half == <<"1", ".", "2">>
Query(verb, t, u, c, d) ==
  CASE verb = "SELECT" -> <<"SELECT">> \o c \o <<",">> \o d \o <<"FROM">> \o t \o <<",">> \o u \o <<"WHERE">> \o c \o <<"=">> \o Half
    [] verb = "JOIN"   -> <<"SELECT">> \o c \o <<"FROM">> \o t \o <<"JOIN">> \o u \o <<"ON">> \o c \o <<"=">> \o d
    [] verb = "UPDATE" -> <<"UPDATE">> \o t \o <<"SET", "A", "=">> \o Half \o <<"WHERE">> \o c \o <<"=", "?">>
    [] OTHER           -> <<"INSERT", "INTO">> \o t \o <<"(", "A", ")", "SELECT">> \o d \o <<"FROM">> \o u
Bracket(t, on) == IF on THEN <<"(">> \o t \o <<")">> ELSE t
Like == <<"FROM", "T", "WHERE", "A", "LIKE", "'", "{", "'">>

Text(x) ==
  CASE x.st = "select" -> <<"SELECT">> \o Written(x.e) \o <<",">> \o Written(x.b) \o Like \o Braced(<<"ESCAPE", "'", "}", "'">>)
    [] x.st = "join"   -> <<"SELECT", "A", "FROM">> \o Braced(<<"OJ", "T", "JOIN", "U", "ON", "A", "=">> \o Written(x.e))
    [] x.st = "union"  -> Bracket(<<"SELECT">> \o Written(x.a), x.brackets) \o <<"UNION">>
                          \o Bracket(<<"SELECT">> \o Written(x.b), x.brackets)
    [] x.st = "query"  -> Query(x.verb, Table(x.t), Table(x.u), x.c, x.d)
    [] OTHER -> Braced((IF x.bare THEN << >> ELSE <<"?", "=">>) \o <<"CALL">>
                       \o (IF x.schema THEN <<"S", ".">> ELSE << >>) \o (IF x.quoted THEN Quoted(x.p) ELSE <<x.p>>)
                       \o (IF x.args = << >> THEN << >> ELSE Bracket(Joined([i \in DOMAIN x.args |-> Written(x.args[i])]), TRUE)))

\* The parameters the server gets: the inputs, a marker for each left out.
Inputs(x) == [i \in 1 .. (IF Len(x.args) < Procedures[x.p].in THEN Len(x.args) ELSE Procedures[x.p].in) |->
                IF x.args[i] = Missing THEN Word("?") ELSE x.args[i]]
Server(x, q, schemas) ==
  LET E(e) == Meant(e, q)
      Name(c) == <<c[Len(c)]>>
      Short(t, c) == IF schemas /\ Len(c) = 5 THEN SubSeq(c, 3, 5) ELSE c
      Plain(t) == IF schemas THEN <<t.name>> ELSE Table(t)
  IN  CASE x.st = "select" -> <<"SELECT">> \o E(x.e) \o <<",">> \o E(x.b) \o Like \o <<"ESCAPE", "'", "}", "'">>
        [] x.st = "join"   -> <<"SELECT", "A", "FROM", "T", "JOIN", "U", "ON", "A", "=">> \o E(x.e)
        [] x.st = "union"  -> <<"SELECT">> \o E(x.a) \o <<"UNION", "SELECT">> \o E(x.b)
        [] x.st = "query"  -> Query(x.verb, Plain(x.t), Plain(x.u), Short(x.t, x.c), Short(x.u, x.d))
        [] OTHER -> (IF Procedures[x.p].select THEN <<"SELECT", "*", "FROM">> ELSE <<"EXECUTE", "PROCEDURE">>)
                    \o (IF x.schema /\ ~schemas THEN <<"S", ".">> ELSE << >>)
                    \o (IF x.quoted THEN Quoted(x.p) ELSE <<x.p>>)
                    \o (IF Inputs(x) = << >> THEN << >> ELSE Bracket(Joined([i \in DOMAIN Inputs(x) |-> E(Inputs(x)[i])]), TRUE))

\* The statements of which the rewriting is promised.
Promised(x, schemas) ==
  CASE x.st = "select" -> Readable(x.e)
    [] x.st = "call"   ->
         /\ \A i \in DOMAIN x.args : x.args[i] = Missing =>
              i < Len(x.args) /\ (i > 1 => x.args[i - 1] \notin {Missing, Bracketing})
         /\ \A i \in DOMAIN x.args : i > Procedures[x.p].in => x.args[i] # Bracketing
         /\ x.schema => schemas
    [] OTHER           -> TRUE

Statements == Selects \cup Joins \cup Unions \cup Calls \cup Queries
=============================================================================
