------------------------------- MODULE EnvShare -------------------------------
(***************************************************************************)
(* One environment handle, its connection handles and the "common          *)
(* connection" they may form (SQLSetConnectAttr attribute 4000): a list of *)
(* connections that work in one two-phase transaction, which               *)
(* SQLEndTran(SQL_HANDLE_ENV) ends (OdbcEnv.cpp, OdbcConnection.cpp,       *)
(* IscDbc/EnvShare.cpp).                                                   *)
(*                                                                         *)
(* As in IscTransaction, a call is a step and an operator maps a world to  *)
(* the set of worlds the C++ method can leave it in.  A statement is       *)
(* reduced to Execute: it starts the transaction and changes data in it.   *)
(***************************************************************************)
EXTENDS Naturals, Sequences, SequencesExt

CONSTANTS Dbc,       \* the connection handles (OdbcConnection)
          Isc,       \* addresses of IscConnection objects, reused when freed
          Tx,        \* addresses of transaction interfaces, reused when freed
          None,      \* NULL
          MaxShare,  \* MAX_COUNT_DBC_SHARE
          Faults     \* the requests that the server may refuse

ASSUME ConstantsAssumption ==
  /\ None \notin Isc \cup Tx
  /\ MaxShare \in Nat \ {0}
  /\ Faults \subseteq {"connect", "start", "execute", "commit", "rollback"}

VARIABLES listed,      \* OdbcEnv::connections
          hasShare,    \* OdbcEnv::envShare is set
          dbc,         \* the OdbcConnections
          isc,         \* the IscConnections with their Attachments
          connections, \* EnvShare::connections
          shared,      \* EnvShare::transactionHandle
          open,        \* the transactions active at the server
          work,        \* those of them with uncommitted changes
          ret          \* result of the last call

vars == <<listed, hasShare, dbc, isc, connections, shared, open, work, ret>>

DbcInfo == [alloc: BOOLEAN, connection: Isc \cup {None}, autoCommit: BOOLEAN]

\* handle, pending and auto are the connection's transactionInfo; att is the
\* attachment's transactionHandle, "for two phase".
IscInfo == [alive: BOOLEAN, shareConnected: BOOLEAN, handle: Tx \cup {None},
            pending: BOOLEAN, auto: BOOLEAN, att: Tx \cup {None}]

NoDbc == [alloc |-> FALSE, connection |-> None, autoCommit |-> TRUE]

Fresh == [alive |-> FALSE, shareConnected |-> FALSE, handle |-> None,
          pending |-> FALSE, auto |-> TRUE, att |-> None]

Now == [isc |-> isc, connections |-> connections, shared |-> shared,
        open |-> open, work |-> work, ret |-> "ok"]

Throw(w) == [w EXCEPT !.ret = "error"]

Crash(w) == [w EXCEPT !.ret = "crash"]

Then(W, F(_)) == {w \in W : w.ret # "ok"}
                   \cup UNION {F(w) : w \in {v \in W : v.ret = "ok"}}

Refused(request, W) == IF request \in Faults THEN {Throw(w) : w \in W} ELSE {}

-----------------------------------------------------------------------------
\* The connection's own transaction (see IscTransaction).

Ended(w, t) == [w EXCEPT !.open = @ \ {t}, !.work = @ \ {t}]

NoPending(w, c) == [w EXCEPT !.isc[c].pending = FALSE]

Dropped(w, c) == [Ended(w, w.isc[c].handle) EXCEPT !.isc[c].handle = None]

Rollback(w, c) ==
  IF w.isc[c].handle = None
  THEN {NoPending(w, c)}
  ELSE {NoPending(Dropped(w, c), c)} \cup Refused("rollback", {Dropped(w, c)})

BugCommit(w, c) ==
  IF w.isc[c].shareConnected /\ w.shared # None
  THEN {NoPending([Ended(w, w.shared) EXCEPT !.shared = None], c)}
  ELSE {NoPending(Dropped(w, c), c)}

Commit(w, c) ==
  IF w.isc[c].handle = None
  THEN {NoPending(w, c)}
  ELSE {NoPending(Dropped(w, c), c)} \cup Refused("commit", Rollback(w, c))

End(w, c, op) == IF op = "commit" THEN Commit(w, c) ELSE Rollback(w, c)

-----------------------------------------------------------------------------
\* EnvShare.

Members(w) == Range(w.connections)

\* connections[0] is used for its client library before anything is tried.
HeadFreed(w) == ~w.isc[Head(w.connections)].alive

BugAddConnection(w, c) ==
  IF Len(w.connections) >= MaxShare
  THEN [w EXCEPT !.isc[c].shareConnected = FALSE]
  ELSE [w EXCEPT !.isc[c].shareConnected = TRUE,
                 !.connections = Append(@, c)]

\* A full list refuses its own members too.
AddConnection(w, c) ==
  IF Len(w.connections) >= MaxShare
  THEN [w EXCEPT !.isc[c].shareConnected = FALSE]
  ELSE [w EXCEPT !.isc[c].shareConnected = TRUE,
                 !.connections = IF c \in Range(@) THEN @ ELSE Append(@, c)]

BugRemoveConnection(w, c) ==
  [w EXCEPT !.isc[c].shareConnected = FALSE,
            !.connections = [n \in DOMAIN @ |-> IF @[n] = c THEN None ELSE @[n]]]

RemoveConnection(w, c) ==
  [w EXCEPT !.isc[c].shareConnected = FALSE,
            !.connections = IF c \in Range(@) THEN RemoveFirst(@, c) ELSE @]

Joined(w, t) ==
  [w EXCEPT !.shared = t,
            !.open = @ \cup {t},
            !.isc = [c \in Isc |-> IF c \in Members(w)
                                   THEN [w.isc[c] EXCEPT !.att = t]
                                   ELSE w.isc[c]]]

EnvStartTransaction(w) ==
  IF w.shared # None \/ w.connections = <<>>
  THEN {w}
  ELSE IF \E c \in Members(w) : ~w.isc[c].alive
  THEN {Crash(w)}
  ELSE {Joined(w, t) : t \in Tx \ w.open} \cup Refused("start", {w})

BugEnvEnded(w) == NoPending(Ended(w, w.shared), Head(w.connections))

\* The pending flag of the first connection stands for all of them, and the
\* attachments keep the address of the transaction.
EnvEnded(w) ==
  [Ended(w, w.shared) EXCEPT !.shared = None,
                             !.isc[Head(w.connections)].pending = FALSE]

EnvLost(w) == [Ended(w, w.shared) EXCEPT !.shared = None]

EnvRollback(w) ==
  IF w.shared = None THEN {w}
  ELSE IF HeadFreed(w) THEN {Crash(w)}
  ELSE {EnvEnded(w)} \cup Refused("rollback", {EnvLost(w)})

EnvCommit(w) ==
  IF w.shared = None THEN {w}
  ELSE IF HeadFreed(w) THEN {Crash(w)}
  ELSE {EnvEnded(w)} \cup Refused("commit", EnvRollback(w))

-----------------------------------------------------------------------------
\* IscConnection.

Start(w, c) ==
  {[w EXCEPT !.open = @ \cup {t},
             !.isc[c].handle = t,
             !.isc[c].pending = @ \/ ~w.isc[c].auto] : t \in Tx \ w.open}
    \cup Refused("start", {w})

StartTransaction(w, c) ==
  IF w.isc[c].shareConnected
  THEN IF w.isc[c].att # None
       THEN {w}
       ELSE Then(EnvStartTransaction(w),
                 LAMBDA v : {[v EXCEPT !.isc[c].pending = TRUE]})
  ELSE IF w.isc[c].handle # None THEN {w} ELSE Start(w, c)

\* The transaction a statement runs in, as startTransaction returns it.
Handle(w, c) ==
  IF w.isc[c].shareConnected THEN w.isc[c].att ELSE w.isc[c].handle

\* A null transaction is refused at prepare; an ended one is a freed object.
ExecuteIn(w, c) ==
  LET t == Handle(w, c)
  IN  IF t = None
      THEN {Throw(w)}
      ELSE IF t \notin w.open
      THEN {Crash(w)}
      ELSE LET v == [w EXCEPT !.work = @ \cup {t}]
           IN  (IF v.isc[c].auto THEN Commit(v, c) ELSE {v})
                 \cup Refused("execute", IF w.isc[c].auto THEN Rollback(w, c)
                                                          ELSE {w})

BugClose(w, c) == [Ended(w, w.isc[c].handle) EXCEPT !.isc[c] = Fresh]

\* The destructor of the connection and of its attachment: a transaction of
\* its own that is still active is rolled back by the server.
Close(w, c) ==
  LET v == IF w.isc[c].shareConnected THEN RemoveConnection(w, c) ELSE w
  IN  [Ended(v, v.isc[c].handle) EXCEPT !.isc[c] = Fresh]

-----------------------------------------------------------------------------
\* The ODBC calls.

Usable == ret # "crash"

Connection(d) == dbc[d].connection

Connected(d) == Usable /\ Connection(d) # None

Set(w) ==
  /\ isc' = w.isc
  /\ connections' = w.connections
  /\ shared' = w.shared
  /\ open' = w.open
  /\ work' = w.work
  /\ ret' = w.ret

Do(W) == (\E w \in W : Set(w)) /\ UNCHANGED <<listed, hasShare, dbc>>

AllocConnect(d) ==
  /\ Usable
  /\ ~dbc[d].alloc
  /\ dbc' = [dbc EXCEPT ![d].alloc = TRUE]
  /\ listed' = listed \cup {d}
  /\ Set(Now)
  /\ UNCHANGED hasShare

\* connectionClosed: only a handle that was never disconnected is listed.
ConnectionClosed(d) ==
  /\ listed' = listed \ {d}
  /\ hasShare' = (hasShare /\ listed' # {})

FreeConnect(d) ==
  /\ Usable
  /\ dbc[d].alloc
  /\ Connection(d) = None
  /\ dbc' = [dbc EXCEPT ![d] = NoDbc]
  /\ ConnectionClosed(d)
  /\ Set(Now)

Connect(d) ==
  /\ Usable
  /\ dbc[d].alloc
  /\ Connection(d) = None
  /\ \E c \in Isc :
       /\ ~isc[c].alive
       /\ dbc' = [dbc EXCEPT ![d].connection = c]
       /\ Set([Now EXCEPT !.isc[c].alive = TRUE,
                          !.isc[c].auto = dbc[d].autoCommit])
  /\ hasShare' = TRUE
  /\ UNCHANGED listed

\* rollbackPartialConnect forgets the common connection of everyone.
ConnectRefused(d) ==
  /\ Usable
  /\ "connect" \in Faults
  /\ dbc[d].alloc
  /\ Connection(d) = None
  /\ hasShare' = FALSE
  /\ Set(Throw(Now))
  /\ UNCHANGED <<listed, dbc>>

\* When the commit fails the object is neither closed nor deleted.
Disconnect(d) ==
  LET c == Connection(d)
  IN  /\ Connected(d)
      /\ ~isc[c].pending
      /\ dbc' = [dbc EXCEPT ![d].connection = None]
      /\ \E w \in Commit(Now, c) :
           IF w.ret = "ok"
           THEN Set(Close(w, c)) /\ ConnectionClosed(d)
           ELSE Set([w EXCEPT !.ret = "ok"]) /\ UNCHANGED <<listed, hasShare>>

Execute(d) ==
  LET c == Connection(d)
  IN  /\ Connected(d)
      /\ Do(Then(StartTransaction(Now, c), LAMBDA v : ExecuteIn(v, c)))

EndTranDbc(d, op) == Connected(d) /\ Do(End(Now, Connection(d), op))

SetAutoCommit(d, b) ==
  LET c == Connection(d)
      Ends == Connected(d) /\ ~isc[c].auto /\ b /\ isc[c].pending
      Auto(w) == IF c = None THEN w ELSE [w EXCEPT !.isc[c].auto = b]
  IN  /\ Usable
      /\ dbc[d].alloc
      /\ dbc' = [dbc EXCEPT ![d].autoCommit = b]
      /\ \E w \in IF Ends THEN Commit(Now, c) ELSE {Now} :
           Set(IF w.ret = "ok" THEN Auto(w) ELSE Crash(w))
      /\ UNCHANGED <<listed, hasShare>>

\* Attribute 4000.
ShareOn(d)  == Connected(d) /\ Do({AddConnection(Now, Connection(d))})
ShareOff(d) == Connected(d) /\ Do({RemoveConnection(Now, Connection(d))})

\* One connection after the other; the worst result is reported.  Each end is
\* about its own connection's transaction, so that they are put together.
EndEach(op) ==
  LET C == {Connection(d) : d \in listed} \ {None}
      Together(f) ==
        [Now EXCEPT
          !.isc  = [c \in Isc |-> IF c \in C THEN f[c].isc[c] ELSE isc[c]],
          !.open = {t \in open : \A c \in C : t \in f[c].open},
          !.work = {t \in work : \A c \in C : t \in f[c].work},
          !.ret  = IF \A c \in C : f[c].ret = "ok" THEN "ok" ELSE "error"]
      Ends == {f \in [C -> UNION {End(Now, c, op) : c \in C}] :
                 \A c \in C : f[c] \in End(Now, c, op)}
  IN  {Together(f) : f \in Ends}

BugEndTranEnv(op) ==
  /\ Usable
  /\ Do(IF ~hasShare THEN {Crash(Now)}
        ELSE IF connections = <<>> THEN {Now}
        ELSE IF op = "commit" THEN EnvCommit(Now) ELSE EnvRollback(Now))

\* The common connection is used without a test for NULL.
EndTranEnv(op) ==
  /\ Usable
  /\ Do(IF ~hasShare THEN {Crash(Now)}
        ELSE IF connections = <<>> THEN EndEach(op)
        ELSE IF op = "commit" THEN EnvCommit(Now) ELSE EnvRollback(Now))

Init ==
  /\ listed = {}
  /\ hasShare = FALSE
  /\ dbc = [d \in Dbc |-> NoDbc]
  /\ isc = [c \in Isc |-> Fresh]
  /\ connections = <<>>
  /\ shared = None
  /\ open = {}
  /\ work = {}
  /\ ret = "ok"

Ops == {"commit", "rollback"}

DbcCall(d) ==
  \/ AllocConnect(d)
  \/ FreeConnect(d)
  \/ Connect(d)
  \/ ConnectRefused(d)
  \/ Disconnect(d)
  \/ Execute(d)
  \/ \E op \in Ops : EndTranDbc(d, op)
  \/ \E b \in BOOLEAN : SetAutoCommit(d, b)
  \/ ShareOn(d)
  \/ ShareOff(d)

Next == (\E d \in Dbc : DbcCall(d)) \/ (\E op \in Ops : EndTranEnv(op))

Spec == Init /\ [][Next]_vars

-----------------------------------------------------------------------------
\* Properties.

\* Every object has the fields and the values its C++ class can hold.
TypeOK ==
  /\ listed \subseteq Dbc
  /\ hasShare \in BOOLEAN
  /\ dbc \in [Dbc -> DbcInfo]
  /\ isc \in [Isc -> IscInfo]
  /\ connections \in Seq(Isc)
  /\ shared \in Tx \cup {None}
  /\ open \subseteq Tx
  /\ work \subseteq Tx
  /\ ret \in {"ok", "error", "crash"}

\* EnvShare::connections fits its array and names a connection once, and a
\* connection that works in the common transaction is in it, so that closing
\* the connection takes it out: it never holds the address of a deleted one.
\* (True as long as the list is not full: a full list clears shareConnected of
\* a member that joins again, and closing then does not take it out.)
ShareList ==
  /\ Len(connections) <= MaxShare
  /\ IsInjective(connections)
  /\ \A c \in Isc : isc[c].shareConnected => c \in Range(connections)
  /\ \A c \in Range(connections) : isc[c].alive

\* The transaction that SQLEndTran will end, common or a connection's own, is
\* active at the server, and nobody else's.
HandlesOpen ==
  /\ shared # None => shared \in open
  /\ \A c \in Isc : isc[c].handle # None =>
       /\ isc[c].handle \in open \ {shared}
       /\ \A e \in Isc \ {c} : isc[e].handle # isc[c].handle

\* Two-phase commit: the common transaction ends for all its connections at
\* once, by SQLEndTran on the environment; ending the transaction of one
\* connection, its autocommit or its disconnect does not touch it.
SharedEndsAsOne ==
  [][(shared # None /\ ~\E op \in Ops : EndTranEnv(op))
       => shared' = shared /\ shared \in open' /\ (shared \in work => shared \in work')]_vars

\* Without a common connection SQLEndTran on the environment that reports
\* success has ended the work of every connection in the list.
EnvEndsListed ==
  [][\A op \in Ops :
       (EndTranEnv(op) /\ connections = <<>> /\ ret' = "ok")
       => \A d \in listed : Connection(d) # None
            => isc[Connection(d)].handle \notin work']_vars
=============================================================================
