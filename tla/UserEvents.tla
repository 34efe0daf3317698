----------------------------- MODULE UserEvents -----------------------------
(***************************************************************************)
(* User events: the block of names and counts that is queued at the server *)
(* (IscUserEvents.cpp), the counts kept for the application                *)
(* (ParametersEvents.cpp) and the three attributes of a connection it      *)
(* drives them with (OdbcConnection.cpp 461-484, 2189-2262).  The server   *)
(* answers a block once, as soon as an event was posted that the block's   *)
(* counts do not include, with the block and the present counts; the       *)
(* application's callback is given that answer.                            *)
(***************************************************************************)
EXTENDS Integers, Sequences

\* A count in four bytes, the least first; the runs stay below 32768, the upper two are zero.
Bytes(n) == <<n % 256, n \div 256, 0, 0>>
Block(names, counts) ==
  LET Entry(k) == <<names[k]>> \o [i \in 1 .. names[k] |-> 65] \o Bytes(counts[k])
      upTo[k \in 0 .. Len(names)] == IF k = 0 THEN <<1>> ELSE upTo[k - 1] \o Entry(k)
  IN  upTo[Len(names)]
\* A char has a sign.
Signed(byte) == IF byte > 127 THEN byte - 256 ELSE byte
VaxInteger(block, p) == Signed(block[p]) + 256 * Signed(block[p + 1])

\* names: the lengths of the names; params: the counts, -1 for ~0; info: the
\* application's own array; word: the bytes of an unsigned long.
Fresh == [count |-> -1, changed |-> FALSE]
NoEvents(names, word) ==
  [names |-> names, word |-> word, block |-> << >>, params |-> << >>, info |-> << >>, queued |-> << >>,
   there |-> FALSE, open |-> TRUE, ret |-> "ok"]
InitUserEvents(e) ==
  LET fresh == [k \in DOMAIN e.names |-> Fresh]
  IN  CASE ~e.open             -> [e EXCEPT !.ret = "error"]
        [] e.open /\ e.there   -> [e EXCEPT !.info = fresh, !.ret = "info"]
        [] OTHER -> [e EXCEPT !.info = fresh, !.params = fresh, !.there = TRUE, !.ret = "ok",
                        !.block = Block(e.names, [k \in DOMAIN e.names |-> 0])]

\* The k-th event, whose entry begins at p in the block and in the answer; as many
\* bytes are passed as a word has.
BugCounted(param, more) == IF more # 0 THEN [count |-> more, changed |-> TRUE] ELSE [param EXCEPT !.changed = FALSE]
Counted(param, more) ==
  IF more # 0 THEN [count |-> param.count + more, changed |-> param.changed \/ param.count + more # 0]
  ELSE [param EXCEPT !.changed = FALSE]
RECURSIVE EventCounts(_, _, _, _)
EventCounts(e, answer, k, p) ==
  LET q == p + (IF p \in DOMAIN e.block THEN e.block[p] ELSE 0) + 1
  IN  CASE k > Len(e.names) -> e
        [] k <= Len(e.names) /\ q + 3 > Len(answer) -> [e EXCEPT !.ret = "crash"]
        [] OTHER ->
             EventCounts([e EXCEPT !.params[k] = Counted(@, VaxInteger(answer, q) - VaxInteger(e.block, q)),
                                   !.block = [i \in DOMAIN @ |-> IF i \in q .. q + e.word - 1 THEN answer[i] ELSE @[i]]],
                         answer, k + 1, q + e.word)

\* Counts are brought up to date in the callback, the block queued when the application
\* likes.  After SQLDisconnect what this needs is freed, and still pointed at.
UpdateResultEvents(e, answer) ==
  LET u == EventCounts([e EXCEPT !.ret = "ok"], answer, 1, 2)
  IN  CASE ~e.open \/ ~e.there -> [e EXCEPT !.ret = "error"]
        [] u.ret = "crash"     -> u
        [] OTHER               -> [u EXCEPT !.info = u.params]
RequeueEvents(e) ==
  CASE ~e.there            -> [e EXCEPT !.ret = "error"]
    [] e.there /\ ~e.open  -> [e EXCEPT !.ret = "crash"]
    [] OTHER               -> [e EXCEPT !.queued = Append(@, e.block), !.ret = "ok"]
Disconnect(e)    == [e EXCEPT !.open = FALSE, !.queued = << >>]
\* SQLFreeHandle releases the events a second time.
FreeConnect(e)   == IF e.there THEN [e EXCEPT !.ret = "crash"] ELSE e

-----------------------------------------------------------------------------
\* The server: an answer counts each event's posts from one.
CountIn(e, block, k) ==
  LET at[i \in 1 .. k] == IF i = 1 THEN 2 + e.names[1] + 1 ELSE at[i - 1] + 4 + e.names[i] + 1
  IN  block[at[k]] + 256 * block[at[k] + 1]
Answers(e, posts, block) == \E k \in DOMAIN e.names : CountIn(e, block, k) <= posts[k]
Answer(e, posts) == Block(e.names, [k \in DOMAIN e.names |-> posts[k] + 1])
=============================================================================
