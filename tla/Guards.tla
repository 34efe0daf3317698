-------------------------------- MODULE Guards --------------------------------
(***************************************************************************)
(* The thread guards of the driver: every exported function (EntryPoints)  *)
(* declares an object whose constructor takes a lock and whose destructor  *)
(* releases it.  Here a call is three steps of its thread: the             *)
(* constructor's condition, the lock, and - after the body - the           *)
(* destructor.  Unlike in the other models calls overlap.                  *)
(*                                                                         *)
(* A connection's lock is a mutex of its attachment: it exists from        *)
(* SQLConnect to SQLDisconnect, so the condition reads `connected', and the *)
(* destructor reads it again.                                              *)
(***************************************************************************)
EXTENDS EntryPoints, FiniteSets

CONSTANTS
  Thread, Dbc,
  None,            \* no thread, no connection
  Level,           \* DRIVER_LOCKED_LEVEL: "none", "env" or "connect"
  Careful          \* the application closes a connection only when it is done with it

ASSUME GuardConstants ==
  /\ Level \in {"none", "env", "connect"}
  /\ Careful \in BOOLEAN
  /\ None \notin Thread /\ None \notin Dbc /\ Dbc # {}
  /\ Dbc \cap {"dll", "env", "list", "none"} = {}

VARIABLES
  connected,   \* OdbcConnection::connected
  safeThread,  \* OdbcConnection::safeThread
  owner,       \* the thread that holds a mutex, or None
  call         \* what each thread is doing
vars == <<connected, safeThread, owner, call>>

Lock == {"dll", "env"} \cup Dbc
Call == [pc : {"idle", "wait", "in", "out", "crash"}, class : Exported, dbc : Dbc,
         held : Lock \cup {"none"},   \* what the guard object remembers to release
         early : BOOLEAN]             \* history: the call began before its connection was
                                      \* open, or the connection has SAFETHREAD=N

Idle == [pc |-> "idle", class |-> Bare("env"), dbc |-> CHOOSE d \in Dbc : TRUE,
         held |-> "none", early |-> FALSE]
Init ==
  /\ connected = [d \in Dbc |-> FALSE]
  /\ safeThread = [d \in Dbc |-> TRUE]
  /\ owner = [l \in Lock |-> None]
  /\ call = [t \in Thread |-> Idle]

-----------------------------------------------------------------------------
(* What the body of a call works on: its connection, the environment's list. *)
Touches(class, d) ==
  CASE class.role \in {"work", "connect", "cancel"} -> {d}
    [] class.role \in {"disconnect", "free"}        -> {d, "list"}
    [] class.role = "list"                          -> {"list"}
    [] class.role = "endTran"                       -> Dbc \cup {"list"}
    [] OTHER                                        -> {}

(* The lock a guard's constructor takes; SafeConnectThread takes none      *)
(* before SQLConnect and for a connection with SAFETHREAD=N.               *)
LockOf(class, d) ==
  CASE class.guard = "none" \/ Level = "none"    -> "none"
    [] class.guard # "none" /\ Level = "env"     -> "dll"
    [] class.guard \in {"dll", "env"} /\ Level = "connect" -> class.guard
    [] class.guard = "dbc" /\ Level = "connect"  -> IF safeThread[d] /\ connected[d] THEN d ELSE "none"

(* What the application sees to.  A careful one disconnects or frees a      *)
(* connection only when no other call on that connection is under way, and  *)
(* makes none until that has returned.  Every other overlap happens: calls  *)
(* beside SQLConnect, beside SQLCancel, beside calls on the environment.    *)
OnHandle == {"work", "connect", "cancel", "disconnect", "free"}
Closing  == {"disconnect", "free"}

Busy == {t \in Thread : call[t].pc \in {"wait", "in", "out"}}
Allowed(class, d) ==
  Careful => \A u \in Busy :
    LET c == call[u]
    IN  (c.dbc = d /\ {class.role, c.class.role} \subseteq OnHandle)
          => {class.role, c.class.role} \cap Closing = {}

Early(class, d) == class.guard = "dbc" /\ ~(connected[d] /\ safeThread[d])

(* The guard's constructor, up to the lock.  (What the driver manager      *)
(* refuses: freeing a connected handle.)                                   *)
Enter(t) ==
  /\ call[t].pc = "idle"
  /\ \E class \in Exported, d \in Dbc :
       /\ class.role \in {"list", "env", "endTran"} => d = Idle.dbc   \* not theirs
       /\ class.role = "free" => ~connected[d]
       /\ Allowed(class, d)
       /\ LET l == LockOf(class, d)
          IN  call' = [call EXCEPT ![t] = [pc |-> IF l = "none" THEN "in" ELSE "wait",
                                           class |-> class, dbc |-> d, held |-> l,
                                           early |-> Early(class, d)]]
  /\ UNCHANGED <<connected, safeThread, owner>>

(* lock(); OdbcConnection::Lock goes through `connection', which is NULL   *)
(* if the connection was closed since the condition was read.              *)
Acquire(t) ==
  /\ call[t].pc = "wait"
  /\ LET l == call[t].held
     IN  IF l \in Dbc /\ ~connected[l]
           THEN /\ call' = [call EXCEPT ![t].pc = "crash"]
                /\ UNCHANGED owner
           ELSE /\ owner[l] = None
                /\ owner' = [owner EXCEPT ![l] = t]
                /\ call' = [call EXCEPT ![t].pc = "in"]
  /\ UNCHANGED <<connected, safeThread>>

(* The body.  SQLConnect reads SAFETHREAD and may fail; SQLDisconnect may  *)
(* be refused, and otherwise deletes the attachment with its mutex.        *)
Connect(t, d) ==
  /\ ~connected[d]
  /\ \E safe \in BOOLEAN : safeThread' = [safeThread EXCEPT ![d] = @ /\ safe]
  /\ \/ connected' = [connected EXCEPT ![d] = TRUE]
     \/ UNCHANGED connected
  /\ UNCHANGED owner
Disconnect(t, d) ==
  /\ connected[d]
  /\ connected' = [connected EXCEPT ![d] = FALSE]
  /\ owner' = [owner EXCEPT ![d] = None]
  /\ UNCHANGED safeThread
Other(t, d) ==
  /\ call[t].class.role = "connect" => connected[d]
  /\ UNCHANGED <<connected, safeThread, owner>>

Body(t) ==
  /\ call[t].pc = "in"
  /\ LET d == call[t].dbc
     IN  \/ call[t].class.role = "connect" /\ Connect(t, d)
         \/ call[t].class.role = "disconnect" /\ Disconnect(t, d)
         \/ Other(t, d)
  /\ call' = [call EXCEPT ![t].pc = "out"]

BugLeave(t) ==              \* a destructor that forgets whether it took the lock
  /\ call[t].pc = "out"
  /\ LET l == IF call[t].class.guard = "dbc" /\ Level = "connect" THEN call[t].dbc
                                                                 ELSE call[t].held
     IN  owner' = IF l = "none" \/ (l \in Dbc /\ ~connected[l]) THEN owner
                  ELSE [owner EXCEPT ![l] = None]
  /\ call' = [call EXCEPT ![t] = Idle]
  /\ UNCHANGED <<connected, safeThread>>

BugLeave2(t) ==             \* the destructor's condition inverted
  /\ call[t].pc = "out"
  /\ LET l == call[t].held
     IN  owner' = IF l = "none" \/ (l \in Dbc /\ connected[l]) THEN owner
                  ELSE [owner EXCEPT ![l] = None]
  /\ call' = [call EXCEPT ![t] = Idle]
  /\ UNCHANGED <<connected, safeThread>>

(* The guard's destructor: SafeConnectThread releases only if the          *)
(* connection is (still, or again) connected.                              *)
Leave(t) ==
  /\ call[t].pc = "out"
  /\ LET l == call[t].held
     IN  owner' = IF l = "none" \/ (l \in Dbc /\ ~connected[l]) THEN owner
                  ELSE [owner EXCEPT ![l] = None]
  /\ call' = [call EXCEPT ![t] = Idle]
  /\ UNCHANGED <<connected, safeThread>>

Next == \E t \in Thread : Enter(t) \/ Acquire(t) \/ Body(t) \/ Leave(t)
Spec == Init /\ [][Next]_vars

\* A call that has its lock returns; a mutex is not kept from a waiter for ever.
FairSpec == Spec /\ \A t \in Thread : WF_vars(Body(t)) /\ WF_vars(Leave(t)) /\ SF_vars(Acquire(t))

-----------------------------------------------------------------------------
TypeOK ==
  /\ connected \in [Dbc -> BOOLEAN]
  /\ safeThread \in [Dbc -> BOOLEAN]
  /\ owner \in [Lock -> Thread \cup {None}]
  /\ call \in [Thread -> Call]

Inside(t) == call[t].pc \in {"in", "out"}
Works(t)  == Touches(call[t].class, call[t].dbc)

\* The overlaps the driver is built with.  SQLCancel takes no guard
\* (Main.cpp 210-215).  SQLEndTran on the environment takes the environment's
\* lock and works on connections (1056-1060), SQLFreeConnect its connection's
\* and works on the environment's list (347-354).  And a call that began before
\* its connection was open is not kept from the calls after SQLConnect, nor is
\* any call with SAFETHREAD=N (OdbcConnection.h 170-176).
BuiltIn(b, c) ==
  \/ b.class.role = "cancel"
  \/ /\ Level = "connect"
     /\ \/ b.class.role = "endTran" /\ c.class.guard = "dbc"
        \/ b.class = OnDbc("free") /\ "list" \in Touches(c.class, c.dbc)
        \/ b.early /\ c.class.guard = "dbc" /\ b.dbc = c.dbc

\* No other two calls work on the same connection, or on the list of
\* connections, at once, whatever the threads do: connects under running calls
\* and calls of all exported functions included (Main.h 42-72).
NoOtherRace ==
  Level # "none" =>
    \A t, u \in Thread :
      (t # u /\ Inside(t) /\ Inside(u) /\ Works(t) \cap Works(u) # {})
        => BuiltIn(call[t], call[u]) \/ BuiltIn(call[u], call[t])

\* A mutex is held exactly by the thread whose guard will release it, although
\* `connected' has changed under the guards of calls that began before
\* SQLConnect: their destructors run with the flag TRUE (OdbcConnection.h
\* 180-183) and must not release a mutex they did not take.  No
\* mutex is left locked, and no thread locks through a closed connection.
LocksBalanced ==
  /\ \A l \in Lock : owner[l] # None =>
       /\ call[owner[l]].held = l /\ Inside(owner[l])
       /\ l \in Dbc => connected[l]
  /\ \A t \in Thread : Inside(t) /\ call[t].held # "none" => owner[call[t].held] = t
  /\ \A t \in Thread : call[t].pc # "crash"

\* Every call returns: no thread waits for a lock whose owner has gone.
CallsReturn == \A t \in Thread : call[t].pc = "wait" ~> call[t].pc = "idle"
=============================================================================
