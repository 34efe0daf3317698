-------------------------- MODULE TransactionText --------------------------
(***************************************************************************)
(* SET TRANSACTION and DECLARE TRANSACTION: the parameters of a            *)
(* transaction as an application writes them, the connection, statement or *)
(* name they are kept under, and what the next transaction is started with *)
(* (IscConnection.cpp 538-1011, IscStatement.cpp 209-415, EnvShare.cpp     *)
(* 184-207, ListParamTransaction.h, Mlist.h).                              *)
(***************************************************************************)
EXTENDS Integers, Sequences

At(s, i)   == IF i \in 1 .. Len(s) THEN s[i] ELSE ""
From(s, i) == SubSeq(s, i, Len(s))
Has(s, w)  == SubSeq(s, 1, IF Len(w) < Len(s) THEN Len(w) ELSE Len(s)) = w

\* What has been read: `rest' is what follows.
Begin(s) == [rest |-> s, ok |-> TRUE, ro |-> FALSE, con |-> FALSE, rc |-> FALSE, norv |-> FALSE, nw |-> FALSE,
             auto |-> FALSE, noundo |-> FALSE, timeout |-> 0, locks |-> << >>]
Skip(x, n) == [x EXCEPT !.rest = From(@, n + 1)]
Bad(x)     == [x EXCEPT !.ok = FALSE]

Committed(x) ==
  LET y == [Skip(x, 2) EXCEPT !.rc = TRUE]
      s == y.rest
  IN  CASE Has(s, <<"NO", "RECORD_VERSION">>) -> [Skip(y, 2) EXCEPT !.norv = TRUE]
        [] Has(s, <<"NO", "WAIT">>)           -> [Skip(y, 2) EXCEPT !.nw = TRUE]
        [] Has(s, <<"NO">>)                   -> Bad(y)
        [] Has(s, <<"RECORD_VERSION">>)       -> Skip(y, 1)
        [] OTHER                              -> y
\* An access mode or an isolation; the state itself when there is none.
ParamTransactionModes(x, isolation) ==
  LET s == x.rest
  IN  CASE At(s, 1) = "READ" /\ At(s, 2) \in {"ONLY", "WRITE"} /\ isolation -> Bad(x)
        [] Has(s, <<"READ", "ONLY">>)  -> [Skip(x, 2) EXCEPT !.ro = TRUE]
        [] Has(s, <<"READ", "WRITE">>) -> Skip(x, 2)
        [] At(s, 1) = "READ" /\ At(s, 2) \in {"COMMITTED", "UNCOMMITTED"} -> Committed(x)
        [] Has(s, <<"SNAPSHOT", "TABLE", "STABILITY">>) -> [Skip(x, 3) EXCEPT !.con = TRUE]
        [] Has(s, <<"SNAPSHOT", "TABLE">>)   -> [Skip(x, 2) EXCEPT !.con = TRUE]
        [] At(s, 1) \in {"SNAPSHOT", "SERIALIZABLE"} -> Skip(x, 1)
        [] Has(s, <<"REPEATABLE", "READ">>)  -> [Skip(x, 2) EXCEPT !.con = TRUE]
        [] At(s, 1) \in {"READ", "REPEATABLE"} -> Bad(x)
        [] OTHER                             -> x

\* One clause; after a number the blank is not skipped, and nothing that follows is read.
Clause(x) ==
  LET s == x.rest
      i == ParamTransactionModes(Skip(x, IF At(s, 2) = "LEVEL" THEN 2 ELSE 1), TRUE)
      m == ParamTransactionModes(x, FALSE)
  IN  CASE At(s, 1) = "ISOLATION" -> IF i.rest = From(s, IF At(s, 2) = "LEVEL" THEN 3 ELSE 2) THEN Bad(i) ELSE i
        [] m # x                     -> m
        [] Has(s, <<"NO", "WAIT">>)  -> [Skip(x, 2) EXCEPT !.nw = TRUE]
        [] At(s, 1) \in {"NO", "RECORD_VERSION"} -> Bad(x)
        [] Has(s, <<"WAIT", "LOCK">>) -> IF At(s, 3) = "TIMEOUT" THEN [x EXCEPT !.timeout = 5, !.rest = << >>] ELSE Bad(x)
        [] Has(s, <<"WAIT">>)         -> Skip(x, 1)
        [] Has(s, <<"AUTOCOMMIT">>)   -> [Skip(x, 1) EXCEPT !.auto = TRUE]
        [] Has(s, <<"NO_AUTO_UNDO">>) -> [Skip(x, 1) EXCEPT !.noundo = TRUE]
        [] OTHER                      -> x
RECURSIVE Clauses(_)
Clauses(x) == LET y == Clause(x) IN IF y = x \/ ~y.ok THEN y ELSE Clauses(y)

-----------------------------------------------------------------------------
(* RESERVING tables: the lock said after some tables holds for all of them *)
(* since the last one said.                                                *)
Words(s) == IF At(s, 1) = "FOR" THEN From(s, 2) ELSE s
Lock(x, names) ==
  LET s == Words(x.rest)
      level == CASE At(s, 1) \in {"PROTECTED", "EXCLUSIVE", "SHARED"} -> s[1]
                 [] x.con -> "PROTECTED"
                 [] OTHER -> "SHARED"
      t == IF At(s, 1) \in {"PROTECTED", "EXCLUSIVE", "SHARED"} THEN From(s, 2) ELSE s
      write == At(t, 1) = "WRITE"
      y == [x EXCEPT !.rest = IF At(t, 1) \in {"READ", "WRITE"} THEN From(t, 2) ELSE t,
                     !.locks = @ \o [k \in DOMAIN names |-> [table |-> names[k], level |-> level, write |-> write]]]
  IN  IF write /\ x.ro THEN Bad(y) ELSE y
RECURSIVE ParseReservingTable(_, _)
ParseReservingTable(x, names) ==
  LET more == Append(names, At(x.rest, 1))
      after == Skip(x, 1)
      y == Lock(after, more)
  IN  CASE At(after.rest, 1) = "," -> ParseReservingTable(Skip(after, 1), more)
        [] y.ok /\ At(y.rest, 1) = "," -> ParseReservingTable(Skip(y, 1), << >>)
        [] OTHER                    -> y

\* The parameter block that is sent to the server, versions: the server knows time-outs.
Tpb(x) ==
  [access    |-> IF x.ro THEN "read" ELSE "write",
   isolation |-> IF x.con THEN "consistency" ELSE IF x.rc THEN "read_committed" ELSE "concurrency",
   wait      |-> ~x.nw, timeout |-> IF x.nw THEN 0 ELSE x.timeout,
   version   |-> IF ~x.rc THEN "" ELSE IF x.norv THEN "no_rec_version" ELSE "rec_version",
   undo      |-> ~x.noundo, locks |-> x.locks]
None == [auto |-> FALSE, tpb |-> Tpb(Begin(<<"none">>)), name |-> 0, using |-> 0, none |-> TRUE]
Node(x, name, using) == [auto |-> x.auto, tpb |-> Tpb(x), name |-> name, using |-> using, none |-> FALSE]

-----------------------------------------------------------------------------
(* Named parameters: a sorted list of the environment.                     *)
Names  == [X |-> 1, Y |-> 2, Z |-> 3]
Unique == [U |-> 1, V |-> 2]
BugCompare(a, b) == a.name - b.name
Compare(a, b) == IF a.using # 0 /\ a.using # b.using THEN a.using - b.using ELSE a.name - b.name
\* Halving: `at' is the place, or where it would be.
RECURSIVE Halve(_, _, _, _)
Halve(list, key, l, u) ==
  LET i == (l + u) \div 2
      c == Compare(key, list[i])
  IN  CASE u < l -> [hit |-> FALSE, at |-> l]
        [] c < 0 -> Halve(list, key, l, i - 1)
        [] c > 0 -> Halve(list, key, i + 1, u)
        [] OTHER -> [hit |-> TRUE, at |-> i]
Search(list, key) == Halve(list, key, 1, Len(list))
SearchAndInsert(list, node) ==
  LET r == Search(list, node)
  IN  IF r.hit THEN [list EXCEPT ![r.at] = node]
      ELSE SubSeq(list, 1, r.at - 1) \o <<node>> \o SubSeq(list, r.at, Len(list))

\* The connection's parameters, a statement's own, whether the statement's next
\* transaction is its own, the list.
Fresh == [conn |-> None, stmt |-> None, local |-> FALSE, named |-> << >>]
SetActiveLocal(w, node) == [w EXCEPT !.stmt = node, !.local = TRUE]
DeclareLocal(w, node)   == [w EXCEPT !.stmt = node, !.local = FALSE]
DelActiveLocal(w)       == [w EXCEPT !.stmt = None, !.local = FALSE]
SwitchTransaction(w, local) == [w EXCEPT !.local = local /\ ~w.stmt.none]

\* What a text is about before its clauses: whose parameters, under which name.
\* After USING the blank is not skipped either: only the end of the text is seen.
Owner(s)   == [local |-> At(s, 1) = "LOCAL", rest |-> IF At(s, 1) = "LOCAL" THEN From(s, 2) ELSE s]
Titled(o)  == [local |-> o.local, isNamed |-> At(o.rest, 1) = "NAME",
               name |-> IF At(o.rest, 1) = "NAME" THEN Names[o.rest[2]] ELSE 0,
               rest |-> IF At(o.rest, 1) = "NAME" THEN From(o.rest, 3) ELSE o.rest]
Distinct(t) ==
  LET first == t.isNamed /\ At(t.rest, 1) = "USING"
  IN  [local |-> t.local, isNamed |-> t.isNamed, name |-> t.name,
       using |-> IF first THEN Unique[t.rest[2]] ELSE 0,
       found |-> t.rest = << >> \/ (first /\ Len(t.rest) = 2) \/ (~first /\ At(t.rest, 1) = "GO"),
       rest |-> IF first THEN << >> ELSE t.rest]
Heading(s) == Distinct(Titled(Owner(s)))
Reserving(x) == IF x.ok /\ At(x.rest, 1) = "RESERVING" THEN ParseReservingTable(Skip(x, 1), << >>) ELSE x

Refused(w) == [w |-> w, ret |-> 0]
\* A name that is already known.
Recall(w, h, declare, at) ==
  CASE declare \/ ~at.hit -> Refused(w)
    [] h.local            -> [w |-> SetActiveLocal(w, w.named[at.at]), ret |-> -4]
    [] OTHER              -> [w |-> DelActiveLocal([w EXCEPT !.conn = w.named[at.at]]), ret |-> -5]
Keep(w, h, declare, node) ==
  LET listed == [w EXCEPT !.named = SearchAndInsert(@, node)]
  IN  CASE declare /\ h.isNamed  -> [w |-> DelActiveLocal(listed), ret |-> -6]
        [] declare /\ ~h.local   -> Refused(w)
        [] declare               -> [w |-> DeclareLocal(w, node), ret |-> -7]
        [] h.local               -> [w |-> SetActiveLocal(w, node), ret |-> -4]
        [] h.isNamed             -> [w |-> DelActiveLocal([listed EXCEPT !.conn = node]), ret |-> -6]
        [] OTHER                 -> [w |-> DelActiveLocal([w EXCEPT !.conn = node]), ret |-> -5]
KeepRead(w, h, declare, y) ==
  IF ~y.ok THEN Refused(w)
  ELSE Keep(w, h, declare, Node(y, h.name, IF At(y.rest, 1) = "USING" THEN Unique[y.rest[2]] ELSE h.using))
Build(w, h, declare) ==
  IF h.isNamed /\ h.found THEN Recall(w, h, declare, Search(w.named, [name |-> h.name, using |-> h.using]))
  ELSE KeepRead(w, h, declare, Reserving(Clauses(Begin(h.rest))))
BuildParamTransaction(w, s, declare) == Build(w, Heading(s), declare)

\* Without parameters of its own a transaction follows the attributes.
FromAttributes(isolation, ro, nw) ==
  [access |-> IF ro THEN "read" ELSE "write", wait |-> ~nw, timeout |-> 0, undo |-> TRUE, locks |-> << >>,
   isolation |-> CASE isolation = "SERIALIZABLE" -> "consistency" [] isolation = "REPEATABLE_READ" -> "concurrency"
                   [] OTHER -> "read_committed",
   version |-> CASE isolation \in {"SERIALIZABLE", "REPEATABLE_READ"} -> ""
                 [] isolation = "READ_UNCOMMITTED" -> "no_rec_version" [] OTHER -> "rec_version"]
StartTransaction(w, isolation) ==
  LET node == IF w.local THEN w.stmt ELSE w.conn
  IN  IF node.none THEN FromAttributes(isolation, FALSE, FALSE) ELSE node.tpb

=============================================================================
