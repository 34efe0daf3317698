----------------------------- MODULE NativeSql -----------------------------
(***************************************************************************)
(* The text of a statement on its way to the server: schemas removed,      *)
(* identifiers quoted, brackets around unions and the escapes of ODBC      *)
(* rewritten (IscConnection.cpp 385-536, 1032-1811, SupportFunctions.cpp). *)
(* A text is a sequence of tokens: words in one case, punctuation, quotes. *)
(* Blanks are left out.                                                    *)
(***************************************************************************)
EXTENDS Integers, Sequences, FiniteSets
Seqs == INSTANCE SequencesExt

Quotes == {"'", "\""}
Punct  == Quotes \cup {"{", "}", "(", ")", ",", ".", "=", "?", "*", "||", "+"}
Mixed  == {"Name", "Total"}          \* words with both small and capital letters
IsWord(t) == t \notin Punct

\* The quote that is open at each place of a text, scanned from its start.
Quote(q, t) == IF q = "" /\ t \in Quotes THEN t ELSE IF q = t THEN "" ELSE q
RECURSIVE OpenFrom(_, _)
OpenFrom(s, o) == IF Len(o) > Len(s) THEN o ELSE OpenFrom(s, Append(o, Quote(o[Len(o)], s[Len(o)])))
Open(s) == OpenFrom(s, <<"">>)
BugBare(s, t) == {i \in 1 .. Len(s) : s[i] = t}
\* The places outside quotes with token t.
Bare(s, t) == LET o == Open(s) IN {i \in 1 .. Len(s) : s[i] = t /\ o[i] = ""}
First(S) == IF S = {} THEN 0 ELSE CHOOSE i \in S : \A j \in S : i <= j
Last(S)  == IF S = {} THEN 0 ELSE CHOOSE i \in S : \A j \in S : i >= j
Before(s, i) == SubSeq(s, 1, i - 1)
From(s, i)   == SubSeq(s, i, Len(s))
Find(s, t)   == First({i \in 1 .. Len(s) : s[i] = t})
At(s, i)     == IF i \in 1 .. Len(s) THEN s[i] ELSE ""

-----------------------------------------------------------------------------
(* SupportFunctions: what {fn f(...)} becomes *)
Renamed == [ASCII |-> "ASCII_VAL", CHAR |-> "ASCII_CHAR", LCASE |-> "LOWER", UCASE |-> "UPPER",
            LOCATE |-> "POSITION", IFNULL |-> "COALESCE", DIFFERENCE |-> "NOT_IMPLEMENTED",
            REPEAT |-> "NOT_IMPLEMENTED", SOUNDEX |-> "NOT_IMPLEMENTED"]
Cast(t)     == <<"CAST", "(", "'", "NOW", "'", "AS", t, ")">>
Replaced == [CURRENT_DATE |-> <<"CURRENT_DATE">>, CURRENT_TIME |-> <<"CURRENT_TIME">>,
             CURRENT_TIMESTAMP |-> <<"CURRENT_TIMESTAMP">>, USER |-> <<"CURRENT_USER">>,
             CURDATE |-> Cast("DATE"), CURTIME |-> Cast("TIME"), NOW |-> Cast("TIMESTAMP")]
Extract(part) == <<"EXTRACT", "(", part, "FROM">>
Bracketed == [DAYOFMONTH |-> Extract("DAY"), DAYOFWEEK |-> <<"1", "+">> \o Extract("WEEKDAY"),
              DAYOFYEAR |-> Extract("YEARDAY"), HOUR |-> Extract("HOUR"), MINUTE |-> Extract("MINUTE"),
              MONTH |-> Extract("MONTH"), SECOND |-> Extract("SECOND"), YEAR |-> Extract("YEAR")]
Tokenized == {"CONCAT", "INSERT", "LTRIM", "RTRIM", "SPACE", "SUBSTRING"}
CastType ==
  [SQL_BIT |-> <<"CHAR", "CHARACTER", "SET", "OCTETS">>, SQL_TINYINT |-> <<"CHAR", "CHARACTER", "SET", "OCTETS">>,
   SQL_CHAR |-> <<"CHAR">>, SQL_REAL |-> <<"FLOAT">>, SQL_DATE |-> <<"DATE">>, SQL_TYPE_DATE |-> <<"DATE">>,
   SQL_FLOAT |-> <<"DOUBLE", "PRECISION">>, SQL_DOUBLE |-> <<"DOUBLE", "PRECISION">>,
   SQL_BIGINT |-> <<"BIGINT">>, SQL_DECIMAL |-> <<"BIGINT">>, SQL_NUMERIC |-> <<"BIGINT">>,
   SQL_BINARY |-> <<"BLOB">>, SQL_VARBINARY |-> <<"BLOB">>, SQL_LONGVARBINARY |-> <<"BLOB">>,
   SQL_INTEGER |-> <<"INTEGER">>, SQL_VARCHAR |-> <<"VARCHAR">>, SQL_SMALLINT |-> <<"SMALLINT">>,
   SQL_TYPE_TIME |-> <<"TIME">>, SQL_TIMESTAMP |-> <<"TIMESTAMP">>, SQL_TYPE_TIMESTAMP |-> <<"TIMESTAMP">>,
   SQL_LONGVARCHAR |-> <<"BLOB", "SUB_TYPE", "1">>]

\* The parameters between the first bracket and its own closing one; only the
\* single quote is known, the other kind of identifier is not.  x: the parameters
\* so far, how many brackets are open, whether a quote is.
RECURSIVE TokensFrom(_, _, _)
TokensFrom(s, p, x) ==
  LET t == s[p]
      n == Len(x.args)
      y == [x EXCEPT !.args[n] = Append(@, t)]
  IN  CASE p > Len(s)                -> [ok |-> FALSE, args |-> << >>, end |-> 0]
        [] t = "'"                   -> TokensFrom(s, p + 1, [y EXCEPT !.quoted = ~@])
        [] x.quoted                  -> TokensFrom(s, p + 1, y)
        [] t = "("                   -> TokensFrom(s, p + 1, [y EXCEPT !.depth = @ + 1])
        [] t = ")" /\ x.depth = 1    -> [ok |-> TRUE, args |-> x.args, end |-> p]
        [] t = ")"                   -> TokensFrom(s, p + 1, [y EXCEPT !.depth = @ - 1])
        [] t = "," /\ x.depth = 1    -> TokensFrom(s, p + 1, [x EXCEPT !.args = Append(@, << >>)])
        [] OTHER                     -> TokensFrom(s, p + 1, y)
Tokenize(s) == TokensFrom(s, Find(s, "(") + 1, [args |-> << << >> >>, depth |-> 1, quoted |-> FALSE])
Call(f, body) == <<f, "(">> \o body \o <<")">>
Shaped(f, a) ==
  CASE f = "CONCAT" /\ Len(a) = 2    -> a[1] \o <<"||">> \o a[2]
    [] f = "INSERT" /\ Len(a) = 4    -> Call("OVERLAY", a[1] \o <<"PLACING">> \o a[4] \o <<"FROM">> \o a[2] \o <<"FOR">> \o a[3])
    [] f = "LTRIM" /\ Len(a) = 1     -> Call("TRIM", <<"LEADING", "FROM">> \o a[1])
    [] f = "RTRIM" /\ Len(a) = 1     -> Call("TRIM", <<"TRAILING", "FROM">> \o a[1])
    [] f = "SPACE" /\ Len(a) = 1     -> Call("RPAD", <<"'", "'", ",">> \o a[1])
    [] f = "SUBSTRING" /\ Len(a) = 2 -> Call(f, a[1] \o <<"FROM">> \o a[2])
    [] f = "SUBSTRING" /\ Len(a) = 3 -> Call(f, a[1] \o <<"FROM">> \o a[2] \o <<"FOR">> \o a[3])
    [] OTHER                         -> << >>

\* {fn CONVERT(value, type)}: the value ends at the first comma.
Converted(s) ==
  LET b == Find(s, "(")
      v == First({i \in b + 1 .. Len(s) : s[i] = ","})
      e == First({i \in v + 1 .. Len(s) : s[i] = ")"})
  IN  IF b = 0 \/ v = 0 \/ e = 0 \/ At(s, v + 1) \notin DOMAIN CastType THEN [out |-> << >>, rest |-> s]
      ELSE [out |-> Call("CAST", SubSeq(s, b + 1, v - 1) \o <<"AS">> \o CastType[s[v + 1]]), rest |-> From(s, e + 1)]

\* What is written of the call that begins s, and what is left of s.
TranslateNativeFunction(s) ==
  LET f == At(s, 1)
      t == IF Find(s, "(") = 0 THEN [ok |-> FALSE, args |-> << >>, end |-> 0] ELSE Tokenize(s)
      e == First({i \in 1 .. Len(s) : s[i] \in {")", "}"}})
  IN  CASE f \in DOMAIN Renamed -> [out |-> <<Renamed[f]>>, rest |-> From(s, 2)]
        [] f \in DOMAIN Replaced /\ e > 0 -> [out |-> Replaced[f], rest |-> From(s, IF s[e] = ")" THEN e + 1 ELSE e)]
        [] f \in DOMAIN Bracketed /\ Find(s, "(") > 0 -> [out |-> Bracketed[f], rest |-> From(s, Find(s, "(") + 1)]
        [] f = "CONVERT" -> Converted(s)
        [] f \in Tokenized /\ t.ok /\ Shaped(f, t.args) # << >> -> [out |-> Shaped(f, t.args), rest |-> From(s, t.end + 1)]
        [] OTHER -> [out |-> << >>, rest |-> s]

-----------------------------------------------------------------------------
(* {call p(...)}: the parameters p has no input for are taken away, a      *)
(* missing one between others becomes a marker.                            *)
Ins(s, i, t) == Before(s, i) \o <<t>> \o From(s, i)
Scan(s, p, i, after) == [s |-> s, p |-> p, i |-> i, after |-> after, done |-> FALSE, ret |-> 2]
RECURSIVE Params(_, _)
Params(x, n) ==
  LET s == x.s
      p == x.p
      q == First({j \in p + 1 .. Len(s) : s[j] = "'"})
      c == First({j \in p .. Len(s) : s[j] \in {",", ")"}})
      Stop(at, count) == [x EXCEPT !.p = at, !.i = count, !.done = TRUE]
  IN  IF x.done \/ p > Len(s) \/ x.i >= n THEN x
      ELSE CASE s[p] = ")"             -> [x EXCEPT !.done = TRUE, !.ret = 0]
             [] s[p] = "," /\ x.after  -> Params(Scan(s, p + 1, x.i, FALSE), n)
             [] s[p] = "," /\ ~x.after -> Params(Scan(Ins(s, p, "?"), p + 2, x.i + 1, FALSE), n)
             [] s[p] = "'" /\ (q = 0 \/ q = Len(s)) -> Stop(p + 1, x.i)
             [] s[p] = "'" /\ s[q + 1] # "," -> Stop(q + 1, x.i + 1)
             [] s[p] = "'"             -> Params(Scan(s, q + 2, x.i + 1, TRUE), n)
             [] c = 0                  -> Stop(p, x.i)
             [] s[c] = ")"             -> Stop(c, x.i + 1)
             [] OTHER                  -> Params(Scan(s, c + 1, x.i + 1, FALSE), n)

\* The text after the name of the procedure, and 1 when outputs were taken away;
\* -1 when it cannot be read.
BuildParamProcedure(s, n) ==
  LET x == Params(Scan(s, 2, 0, FALSE), n)
      c == First({j \in x.p .. Len(x.s) : x.s[j] = ")"})
  IN  CASE At(s, 1) = "}"               -> [s |-> s, ret |-> 0]
        [] At(s, 1) # "("               -> [s |-> s, ret |-> -1]
        [] n = 0 -> IF Find(s, ")") = 0 THEN [s |-> s, ret |-> -1] ELSE [s |-> From(s, Find(s, ")") + 1), ret |-> 0]
        [] x.ret = 0                    -> [s |-> x.s, ret |-> 0]
        [] At(x.s, x.p - 1) = "," /\ c > 0 -> [s |-> Before(x.s, x.p - 1) \o From(x.s, c), ret |-> 1]
        [] At(x.s, x.p) = ")"           -> [s |-> x.s, ret |-> 0]
        [] OTHER                        -> [s |-> s, ret |-> -1]

\* The catalog's answer about procedures.
Procedures == [P0 |-> [in |-> 0, select |-> FALSE], P1 |-> [in |-> 1, select |-> FALSE],
               P2 |-> [in |-> 2, select |-> TRUE]]
Unread == [ok |-> FALSE, out |-> << >>, rest |-> << >>, status |-> 0]
Executed(p, written, r) ==
  IF r.ret = -1 THEN Unread
  ELSE [ok |-> TRUE, rest |-> r.s, status |-> IF r.ret = 1 THEN 2 ELSE 1,
        out |-> (IF p.select THEN <<"SELECT", "*", "FROM">> ELSE <<"EXECUTE", "PROCEDURE">>) \o written]
\* The name is n tokens long.
CallNamed(s, name, n) ==
  IF name \notin DOMAIN Procedures THEN Unread
  ELSE Executed(Procedures[name], Before(s, n + 1), BuildParamProcedure(From(s, n + 1), Procedures[name].in))
CallOf(s) == IF At(s, 1) \in Quotes THEN CallNamed(s, At(s, 2), 3) ELSE CallNamed(s, At(s, 1), 1)
Unqualified(s, schemas) == IF schemas /\ At(s, 2) = "." THEN From(s, 3) ELSE s
\* b is what follows the opening brace.
TranslateCall(b, schemas) ==
  CASE At(b, 1) = "CALL"                                        -> CallOf(Unqualified(From(b, 2), schemas))
    [] At(b, 1) = "?" /\ At(b, 2) = "=" /\ At(b, 3) = "CALL"    -> CallOf(Unqualified(From(b, 4), schemas))
    [] OTHER                                                    -> Unread

Is(f) == [ok |-> TRUE, out |-> f.out, rest |-> f.rest, status |-> 1]
TranslateEscape(b, schemas) ==
  CASE At(b, 1) \in {"?", "CALL"}          -> TranslateCall(b, schemas)
    [] At(b, 1) \in {"OJ", "TS", "D", "T"} -> Is([out |-> << >>, rest |-> From(b, 2)])
    [] At(b, 1) = "ESCAPE"                 -> Is([out |-> << >>, rest |-> b])
    [] OTHER                               -> Is(TranslateNativeFunction(From(b, 2)))

\* From the last escape of the text to its first: each is inside those before it.
PlaceBefore(s, back) == IF back = {} THEN 0 ELSE Len(s) + 1 - First(back)
LastBrace(s) == PlaceBefore(s, Bare(Seqs!Reverse(s), "{"))
RECURSIVE Escapes(_, _, _, _), Put(_, _, _, _, _, _)
Escapes(s, p, status, schemas) ==
  IF p = 0 THEN [text |-> s, status |-> status]
  ELSE LET e == TranslateEscape(From(s, p + 1), schemas)
       IN  Put(s, p, e, First(Bare(e.rest, "}")), status, schemas)
\* e is what the escape at p becomes, z its closing brace.  An escape that cannot
\* be read stays as it was; of a call the code may have moved the parameters
\* before it gives up (1557-1653): nothing is said of the text then.
Put(s, p, e, z, status, schemas) ==
  IF ~e.ok \/ z = 0 THEN [text |-> s, status |-> status]
  ELSE Escapes(Before(s, p) \o e.out \o Before(e.rest, z) \o From(e.rest, z + 1), LastBrace(Before(s, p)), e.status,
               schemas)

-----------------------------------------------------------------------------
(* The first pass: identifiers in mixed case are quoted, brackets around   *)
(* the parts of a union are taken away.                                    *)
Pass(x, t, quoting) ==
  LET y == [x EXCEPT !.out = Append(@, t), !.ended = FALSE]
  IN  CASE x.quote # ""                      -> [y EXCEPT !.quote = Quote(@, t)]
        [] t = "UNION" /\ x.ended            -> [y EXCEPT !.brackets = TRUE]
        [] t \in Quotes                      -> [y EXCEPT !.quote = t]
        [] t \in Mixed /\ quoting            -> [y EXCEPT !.out = x.out \o <<"\"", t, "\"">>, !.changes = @ + 1]
        [] t = "{" \/ ~x.brackets \/ (IsWord(t) /\ quoting) -> y
        [] ~x.open /\ t = "("                -> [x EXCEPT !.open = TRUE, !.changes = @ + 1]
        [] ~x.open                           -> [y EXCEPT !.brackets = FALSE]
        [] t = ")"                           -> [x EXCEPT !.open = FALSE, !.brackets = FALSE, !.ended = TRUE,
                                                          !.changes = @ + 1]
        [] OTHER                             -> y
RECURSIVE PassFrom(_, _, _, _)
PassFrom(s, p, x, quoting) == IF p > Len(s) THEN x ELSE PassFrom(s, p + 1, Pass(x, s[p], quoting), quoting)
FirstPass(s, quoting) ==
  PassFrom(s, 1, [out |-> << >>, quote |-> "", brackets |-> At(s, 1) = "(", open |-> FALSE, ended |-> FALSE,
                  changes |-> 0], quoting)

(* Schemas: a name before a table after FROM, INSERT or UPDATE is one, and *)
(* then everywhere.                                                        *)
Digits == {"1", "2"}
\* The places of the name that ends just before place i, and of the one that begins at i.
NameBefore(s, i) == IF At(s, i - 1) \in Quotes THEN IF At(s, i - 3) = s[i - 1] THEN i - 3 ELSE 0 ELSE i - 1
NameAfter(s, i)  == IF At(s, i) \in Quotes THEN i + 3 ELSE i + 1

\* The qualifiers of the text: where each begins, its length, whether it is a
\* table's, whether it goes in any case.
RECURSIVE Nodes(_, _, _)
Nodes(s, p, tables) ==
  LET b == NameBefore(s, p)
      n == NameAfter(s, p + 1)
      longer == At(s, n) = "."
      end == IF longer /\ tables THEN n ELSE p
      stop == IF longer THEN NameAfter(s, n + 1) ELSE n
      node == [from |-> b, length |-> end - b, table |-> tables, gone |-> longer \/ tables]
  IN  CASE p > Len(s) -> [ok |-> TRUE, nodes |-> << >>]
        [] Open(s)[p] # "" -> Nodes(s, p + 1, tables)
        [] s[p] \in {"SELECT", "SET", "VALUES", "WHERE", "ON"} -> Nodes(s, p + 1, FALSE)
        [] s[p] \in {"INSERT", "UPDATE", "FROM"} -> Nodes(s, p + 1, TRUE)
        [] s[p] # "." \/ At(s, p - 1) \in Digits -> Nodes(s, p + 1, tables)
        [] b = 0 -> [Nodes(s, p + 1, tables) EXCEPT !.ok = FALSE]
        [] OTHER -> LET r == Nodes(s, stop, tables) IN [r EXCEPT !.nodes = <<node>> \o @]
NameOf(s, n) == SubSeq(s, n.from, n.from + n.length - 1)
Gone(s, nodes) ==
  {k \in DOMAIN nodes : \/ nodes[k].gone
                        \/ \E j \in DOMAIN nodes : nodes[j].table /\ NameOf(s, nodes[j]) = NameOf(s, nodes[k])}
RemoveSchema(s) ==
  LET r == Nodes(s, 1, FALSE)
      away == UNION {r.nodes[k].from .. (r.nodes[k].from + r.nodes[k].length) : k \in Gone(s, r.nodes)}
      tables == \E k \in DOMAIN r.nodes : r.nodes[k].table
  IN  CASE At(s, 1) \in {"SET", "DROP", "DECLARE"} \/ ~r.ok -> [text |-> s, status |-> 0]
        [] ~tables -> [text |-> s, status |-> 1]
        [] OTHER   -> [text |-> Seqs!FlattenSeq([i \in DOMAIN s |-> IF i \in away THEN << >> ELSE <<s[i]>>]), status |-> 1]

\* A column of type TINYINT is replaced in the text, but not said to be.
Octets == <<"CHAR", "CHARACTER", "SET", "OCTETS">>
WithOctets(s) == Seqs!FlattenSeq([i \in DOMAIN s |-> IF i > 1 /\ s[i] = "TINYINT" THEN Octets ELSE <<s[i]>>])
\* Statements the driver executes itself.
Command(s) ==
  CASE At(s, 1) = "COMMIT"                               -> -1
    [] At(s, 1) = "ROLLBACK"                             -> -2
    [] At(s, 1) = "CREATE" /\ At(s, 2) = "DATABASE"      -> -3
    [] OTHER                                             -> 0

Finished(x, status, p, schemas) ==
  CASE x.quote # ""        -> [text |-> x.out, status |-> status]
    [] p > 0               -> Escapes(x.out, p, status, schemas)
    [] Command(x.out) # 0  -> [text |-> x.out, status |-> Command(x.out)]
    [] At(x.out, 1) \in {"CREATE", "ALTER"} -> [text |-> WithOctets(x.out), status |-> status]
    [] OTHER               -> [text |-> x.out, status |-> status]
Rewritten(x, status, schemas) == Finished(x, status + x.changes, Last(Bare(x.out, "{")), schemas)
Schemaless(s, schemas) == IF schemas THEN RemoveSchema(s) ELSE [text |-> s, status |-> 0]
GetNativeSql(s, quoting, schemas) ==
  LET a == Schemaless(s, schemas) IN Rewritten(FirstPass(a.text, quoting), a.status, schemas)
\* SQLPrepare sends the rewritten text if it was rewritten, SQLNativeSql returns it.
Sent(s, quoting, schemas) ==
  LET r == GetNativeSql(s, quoting, schemas) IN IF r.status > 0 THEN r.text ELSE s

=============================================================================
