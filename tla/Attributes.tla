----------------------------- MODULE Attributes -----------------------------
(***************************************************************************)
(* Attributes of a statement and fields of its descriptors: what an        *)
(* application sets in one place and reads in another.  The cursor's       *)
(* attributes move each other; the attributes about buffers are fields of  *)
(* the descriptors the statement is attached to                            *)
(* (OdbcStatement.cpp, OdbcDesc.cpp).                                      *)
(***************************************************************************)
EXTENDS Integers

(* The cursor *)
Concurrencies == {"READ_ONLY", "LOCK", "ROWVER", "VALUES"}
CursorTypes   == {"FORWARD_ONLY", "KEYSET_DRIVEN", "DYNAMIC", "STATIC"}
Sensitivities == {"UNSPECIFIED", "INSENSITIVE", "SENSITIVE"}

FreshCursor == [type |-> "FORWARD_ONLY", scrollable |-> FALSE, sensitivity |-> "INSENSITIVE",
                concurrency |-> "READ_ONLY"]

SetConcurrency(c, v) ==
  [c EXCEPT !.concurrency = v, !.sensitivity = IF v = "READ_ONLY" THEN "INSENSITIVE" ELSE "UNSPECIFIED"]
SetCursorType(c, v) ==
  LET writes == c.concurrency # "READ_ONLY"
  IN  [c EXCEPT !.type = v, !.scrollable = v # "FORWARD_ONLY",
                !.sensitivity = CASE writes /\ v = "DYNAMIC"                  -> "SENSITIVE"
                                  [] writes /\ v \in {"KEYSET_DRIVEN", "STATIC"} -> "UNSPECIFIED"
                                  [] ~writes /\ v = "STATIC"                  -> "INSENSITIVE"
                                  [] OTHER                                    -> @]
SetScrollable(c, v) == [c EXCEPT !.scrollable = v, !.type = IF v THEN "STATIC" ELSE "FORWARD_ONLY"]
SetSensitivity(c, v) ==
  [c EXCEPT !.sensitivity = v,
            !.concurrency = IF v = "SENSITIVE" THEN "ROWVER" ELSE "READ_ONLY",
            !.type = IF v = "UNSPECIFIED" THEN "FORWARD_ONLY" ELSE "STATIC"]

\* The cursor can be moved freely: its rows are kept in the driver.
IsStaticCursor(c) == c.type # "FORWARD_ONLY" /\ c.scrollable

\* The concurrencies SQLGetInfo announces for a type of cursor.
Announced(type) == IF type = "DYNAMIC" THEN {"READ_ONLY"} ELSE {"READ_ONLY", "VALUES"}

\* SQLSetScrollOptions: `keyset' is a type of cursor or a number of rows.
ScrollType(keyset, rowset) ==
  IF keyset \in CursorTypes \X {0} THEN keyset[1] ELSE "KEYSET_DRIVEN"
SetScrollOptions(c, concurrency, keyset, rowset) ==
  LET type  == ScrollType(keyset, rowset)
      named == keyset \in CursorTypes \X {0}
  IN  IF (~named /\ keyset[2] <= rowset) \/ concurrency \notin Announced(type)
        THEN [ok |-> FALSE, cursor |-> c, rows |-> 0]
        ELSE [ok |-> TRUE, cursor |-> SetConcurrency(SetCursorType(c, type), concurrency),
              rows |-> IF named THEN rowset ELSE keyset[2]]

-----------------------------------------------------------------------------
(* Descriptors: the four of a statement and one of the application.        *)
App == {"ARD", "APD", "X"}
Imp == {"IRD", "IPD"}
All == App \cup Imp

HeadFields == {"COUNT", "ALLOC_TYPE", "ARRAY_SIZE", "ARRAY_STATUS_PTR", "BIND_OFFSET_PTR",
               "BIND_TYPE", "ROWS_PROCESSED_PTR"}
Described  == {"TYPE", "CONCISE_TYPE", "DATETIME_INTERVAL_CODE", "DATETIME_INTERVAL_PRECISION",
               "LENGTH", "NUM_PREC_RADIX", "OCTET_LENGTH", "PRECISION", "SCALE"}
Buffer     == {"OCTET_LENGTH_PTR", "INDICATOR_PTR", "DATA_PTR"}
OfColumns  == {"AUTO_UNIQUE_VALUE", "BASE_COLUMN_NAME", "BASE_TABLE_NAME", "CATALOG_NAME",
               "DISPLAY_SIZE", "LABEL", "LITERAL_PREFIX", "LITERAL_SUFFIX", "LOCAL_TYPE_NAME",
               "SCHEMA_NAME", "SEARCHABLE", "TABLE_NAME", "UPDATABLE"}
OfBoth     == {"CASE_SENSITIVE", "FIXED_PREC_SCALE", "NAME", "NULLABLE", "TYPE_NAME", "UNSIGNED",
               "UNNAMED"}
RecordFields == Described \cup Buffer \cup OfColumns \cup OfBoth \cup {"PARAMETER_TYPE"}

Readable(f) ==
  CASE f \in {"COUNT", "ALLOC_TYPE", "ARRAY_STATUS_PTR"} \cup Described        -> All
    [] f \in {"ARRAY_SIZE", "BIND_OFFSET_PTR", "BIND_TYPE"} \cup Buffer         -> App
    [] f \in {"ROWS_PROCESSED_PTR"} \cup OfBoth                                 -> Imp
    [] f \in OfColumns                                                          -> {"IRD"}
    [] OTHER                                                                    -> {"IPD"}
Settable(f) ==
  CASE f \in {"COUNT", "DATA_PTR"} \cup Described                               -> App \cup {"IPD"}
    [] f \in {"ARRAY_SIZE", "BIND_OFFSET_PTR", "BIND_TYPE", "OCTET_LENGTH_PTR", "INDICATOR_PTR"} -> App
    [] f = "ARRAY_STATUS_PTR"                                                   -> All
    [] f = "ROWS_PROCESSED_PTR"                                                 -> Imp
    [] f \in {"NAME", "PARAMETER_TYPE", "UNNAMED"}                              -> {"IPD"}
    [] OTHER                                                                    -> {}

\* Values are tokens: 0 is the empty field, Default the type of a buffer nobody
\* has described, Column what the metadata of a column says.
Default == 99
Column  == 98
Records == 0 .. 2
FreshRecord == [f \in RecordFields |-> IF f \in {"TYPE", "CONCISE_TYPE"} THEN Default ELSE 0]
FreshHead   == [f \in HeadFields \ {"COUNT"} |-> IF f = "ARRAY_SIZE" THEN 1 ELSE 0]
FreshDesc(d) == [defined |-> d # "IRD", count |-> 0, head |-> FreshHead, made |-> {}, told |-> {},
                 rec |-> [r \in Records |-> FreshRecord]]

Own == {"RETRIEVE_DATA", "MAX_ROWS", "MAX_LENGTH", "ENABLE_AUTO_IPD", "FETCH_BOOKMARK_PTR", "NOSCAN",
        "USE_BOOKMARKS"}
FreshStatement == [desc |-> [d \in All |-> FreshDesc(d)], ard |-> "ARD", apd |-> "APD",
                   own |-> [a \in Own |-> 0]]

Answer(state, v) == [state |-> state, value |-> v]
Wrong  == Answer("HY091", 0)
Beyond == Answer("HY021", 0)

GetDescField(s, d, r, f) ==
  LET D == s.desc[d]
  IN  IF ~D.defined THEN Wrong
      ELSE IF r > D.count THEN Beyond
      ELSE IF (f \notin HeadFields /\ r = 0 /\ d = "IPD") \/ d \notin Readable(f) THEN Wrong
      ELSE Answer("", IF f = "COUNT" THEN D.count ELSE IF f \in HeadFields THEN D.head[f] ELSE D.rec[r][f])

\* A record is made, and counted, when it is asked for.
Made(s, d, r) == [s EXCEPT !.desc[d].count = IF r > @ THEN r ELSE @, !.desc[d].made = @ \cup {r}]
\* Reading makes the record as well.
Look(s, d, r) == IF s.desc[d].defined /\ r <= s.desc[d].count THEN Made(s, d, r) ELSE s
Both(rec, v) == [rec EXCEPT !["TYPE"] = v, !["CONCISE_TYPE"] = v]
WithField(rec, f, v) ==
  CASE f \in {"TYPE", "CONCISE_TYPE"} -> Both(rec, v)
    [] f = "OCTET_LENGTH" -> [rec EXCEPT ![f] = v, !["LENGTH"] = IF @ = 0 THEN v ELSE @]
    [] OTHER -> [rec EXCEPT ![f] = v]

Set(state, s) == [state |-> state, s |-> s]
SetDescField(s, d, r, f, v) ==
  LET t == IF r = 0 THEN s ELSE Made(s, d, r)
  IN  IF d \notin Settable(f) THEN Set("HY091", t)
      ELSE IF f = "COUNT" THEN Set("", [t EXCEPT !.desc[d].count = v])
      ELSE IF f \in HeadFields THEN Set("", [t EXCEPT !.desc[d].head[f] = v])
      ELSE IF r = 0 \/ (f = "DATA_PTR" /\ d = "IPD") THEN Set("", t)
      ELSE Set("", [t EXCEPT !.desc[d].rec[r] = WithField(@, f, v)])

RecFields == {"TYPE", "DATETIME_INTERVAL_CODE", "OCTET_LENGTH", "PRECISION", "SCALE"}
GetDescRec(s, d, r) == [f \in RecFields \cup {"NAME", "NULLABLE"} |->
  LET D == s.desc[d]
  IN  IF ~D.defined THEN Wrong
      ELSE IF r > D.count THEN Beyond
      ELSE IF r = 0 /\ d = "IPD" THEN Wrong ELSE Answer("", D.rec[r][f])]
SetDescRec(s, d, r, v) ==
  IF d = "IRD" THEN Set("HY091", s)
  ELSE IF r > s.desc[d].count THEN Set("HY021", s)
  ELSE Set("", [Made(s, d, r) EXCEPT !.desc[d].rec[r] =
                  [f \in RecordFields |-> IF f \in RecFields \cup Buffer THEN v ELSE @[f]]])

CopyRecord(from, to) ==
  [f \in RecordFields |->
     IF f = "CONCISE_TYPE" /\ from["TYPE"] # Default /\ from[f] = Default THEN from["TYPE"]
     ELSE IF f = "OCTET_LENGTH_PTR" /\ from[f] = 0 THEN from["INDICATOR_PTR"]
     ELSE IF f \in Described \cup Buffer \cup {"AUTO_UNIQUE_VALUE", "CASE_SENSITIVE", "DISPLAY_SIZE",
               "FIXED_PREC_SCALE", "NULLABLE", "SEARCHABLE", "UNSIGNED", "UPDATABLE", "UNNAMED"} THEN from[f]
     ELSE to[f]]
CopyDesc(s, from, to) ==
  LET F == s.desc[from]
  IN  IF to = "IRD" THEN Set("HY016", s)
      ELSE IF from = "IRD" /\ ~F.defined THEN Set("HY007", s)
      ELSE Set("", [s EXCEPT !.desc[to].count = F.count, !.desc[to].made = 0 .. F.count,
                                      !.desc[to].head = [F.head EXCEPT !["ALLOC_TYPE"] = s.desc[to].head["ALLOC_TYPE"]],
                                      !.desc[to].rec = [r \in Records |->
                                         IF r <= F.count THEN CopyRecord(F.rec[r], FreshRecord) ELSE FreshRecord]])

-----------------------------------------------------------------------------
(* Attributes of the statement that are fields of its descriptors *)
HeaderOf ==
  [PARAM_BIND_TYPE |-> <<"apd", "BIND_TYPE">>, PARAM_BIND_OFFSET_PTR |-> <<"apd", "BIND_OFFSET_PTR">>,
   PARAMSET_SIZE |-> <<"apd", "ARRAY_SIZE">>, PARAM_OPERATION_PTR |-> <<"apd", "ARRAY_STATUS_PTR">>,
   PARAMS_PROCESSED_PTR |-> <<"ipd", "ROWS_PROCESSED_PTR">>, PARAM_STATUS_PTR |-> <<"ipd", "ARRAY_STATUS_PTR">>,
   ROW_BIND_TYPE |-> <<"ard", "BIND_TYPE">>, ROW_BIND_OFFSET_PTR |-> <<"ard", "BIND_OFFSET_PTR">>,
   ROW_ARRAY_SIZE |-> <<"ard", "ARRAY_SIZE">>, KEYSET_SIZE |-> <<"ard", "ARRAY_SIZE">>,
   ROWSET_SIZE |-> <<"ard", "ARRAY_SIZE">>, ROW_OPERATION_PTR |-> <<"ard", "ARRAY_STATUS_PTR">>,
   ROWS_FETCHED_PTR |-> <<"ird", "ROWS_PROCESSED_PTR">>, ROW_STATUS_PTR |-> <<"ird", "ARRAY_STATUS_PTR">>]
HeaderAttributes == DOMAIN HeaderOf
Unread == {"PARAM_BIND_OFFSET_PTR", "PARAM_OPERATION_PTR", "PARAMS_PROCESSED_PTR", "PARAM_STATUS_PTR",
           "ROW_BIND_OFFSET_PTR", "KEYSET_SIZE", "ROW_OPERATION_PTR", "ROWS_FETCHED_PTR"}

Attached(s, side) ==
  CASE side = "ard" -> s.ard [] side = "apd" -> s.apd [] side = "ird" -> "IRD" [] OTHER -> "IPD"

BugHeaderStmtAttr(s, a, v) == [s EXCEPT !.desc["ARD"].head[HeaderOf[a][2]] = v]
SetHeaderAttr(s, a, v) == [s EXCEPT !.desc[Attached(s, HeaderOf[a][1])].head[HeaderOf[a][2]] = v]
SetStmtAttr(s, a, v) ==
  CASE a \in HeaderAttributes -> Set("", SetHeaderAttr(s, a, v))
    [] a \in Own              -> Set("", [s EXCEPT !.own[a] = v])
    [] a = "ASYNC_ENABLE" \/ a = "QUERY_TIMEOUT" -> Set("", s)
    [] OTHER                  -> Set("HYC00", s)
GetStmtAttr(s, a) ==
  CASE a \in HeaderAttributes \ Unread -> Answer("", s.desc[Attached(s, HeaderOf[a][1])].head[HeaderOf[a][2]])
    [] a \in Own                       -> Answer("", s.own[a])
    [] a \in {"ASYNC_ENABLE", "QUERY_TIMEOUT"} -> Answer("", 0)
    [] OTHER                           -> Answer("HYC00", 0)

\* SQL_ATTR_APP_ROW_DESC, SQL_ATTR_APP_PARAM_DESC: any descriptor the driver
\* allocated itself, and none, put back the statement's own.
AttachRow(s, d)   == IF d = "X" THEN Set("", [s EXCEPT !.ard = d]) ELSE Set("HY017", [s EXCEPT !.ard = "ARD"])
AttachParam(s, d) == IF d = "X" THEN Set("", [s EXCEPT !.apd = d]) ELSE Set("HY017", [s EXCEPT !.apd = "APD"])

\* What the metadata says, put into the records that have been made and that
\* nobody has defined.
Tell(D, R) == [D EXCEPT !.rec = [r \in Records |-> IF r \in R THEN [f \in RecordFields |-> Column] ELSE @[r]],
                        !.told = @ \cup R]
\* A text is prepared: the parameters' records are told of them, the row
\* descriptor is made anew, its header with it, with a record for the last column.
Prepare(s, columns, params) ==
  LET t == Made(s, "IPD", params)
  IN  [t EXCEPT !.desc["IPD"] = Tell([@ EXCEPT !.count = params], @.made \cap (1 .. params)),
                !.desc["IRD"] = [FreshDesc("IRD") EXCEPT !.defined = columns > 0, !.count = columns,
                                   !.made = {columns}, !.head["BIND_TYPE"] = s.desc["IRD"].head["BIND_TYPE"]]]
\* It is executed, and has a result.
Execute(s) ==
  [s EXCEPT !.desc["IRD"] = Tell(@, (@.made \ @.told) \cap (1 .. @.count)), !.desc["IRD"].defined = TRUE]

-----------------------------------------------------------------------------
(* One call of the application, with a new value *)
New == 7
Call(op, d, r, f) == [op |-> op, d |-> d, r |-> r, f |-> f]
Calls(Fields) ==
       {Call("field", d, r, f) : d \in All, r \in Records, f \in Fields}
  \cup {Call("rec", d, r, "none") : d \in All, r \in Records}
  \cup {Call("attribute", "none", 0, a) :
            a \in HeaderAttributes \cup Own \cup {"ASYNC_ENABLE", "ROW_NUMBER"}}
  \cup {Call(op, d, 0, "none") : op \in {"row", "param"}, d \in All}
  \cup {Call("copy", d, 0, e) : d \in All, e \in All}
Steps == {Call("prepare", "none", n, "none") : n \in {0, 2}}
         \cup {Call("execute", "none", 0, "none"), Call("look", "IRD", 1, "none")}
         \cup {Call("row", "X", 0, "none"), Call("param", "X", 0, "none"), Call("field", "X", 1, "OCTET_LENGTH"),
               Call("field", "IPD", 1, "NAME"), Call("copy", "IRD", 0, "X")}

Apply(s, c) ==
  CASE c.op = "field"     -> SetDescField(s, c.d, c.r, c.f, New)
    [] c.op = "rec"       -> SetDescRec(s, c.d, c.r, New)
    [] c.op = "attribute" -> SetStmtAttr(s, c.f, New)
    [] c.op = "row"       -> AttachRow(s, c.d)
    [] c.op = "param"     -> AttachParam(s, c.d)
    [] c.op = "copy"      -> IF c.d = c.f THEN Set("", s) ELSE CopyDesc(s, c.d, c.f)
    [] c.op = "look"      -> Set("", Look(s, c.d, c.r))
    [] c.op = "prepare"   -> Set("", Prepare(s, c.r, 1))
    [] OTHER              -> Set("", IF s.desc["IRD"].defined THEN Execute(s) ELSE s)

=============================================================================
