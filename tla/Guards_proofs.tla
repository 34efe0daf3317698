----------------------------- MODULE Guards_proofs -----------------------------
(***************************************************************************)
(* The guards leave the overlaps Guards names and no others, and keep each *)
(* mutex in the hands of the thread that will release it, for any number   *)
(* of threads and connections and for each lock level, if the application  *)
(* closes a connection only when it is done with it (Careful).             *)
(***************************************************************************)
EXTENDS Guards, TLAPS

Classes ==
  {OnDll("env"), OnEnv("list"), OnDbc("work"), Bare("cancel"), OnDbc("connect"), OnEnv("disconnect"),
   Bare("env"), OnEnv("env"), OnDbc("free"), OnEnv("endTran"), OnEnv("free")}

\* The functions of every table are of eleven classes.
LEMMA TablesClasses ==
  /\ UNION Range(Ansi1) \subseteq Classes
  /\ UNION Range(Ansi2) \subseteq Classes
  /\ UNION Range(Ansi3) \subseteq Classes
  /\ UNION Range(Ansi4) \subseteq Classes
  /\ UNION Range(Ansi5) \subseteq Classes
  /\ UNION Range(Ansi6) \subseteq Classes
  /\ UNION Range(Ansi7) \subseteq Classes
  /\ UNION Range(Ansi8) \subseteq Classes
  /\ UNION Range(Wide1) \subseteq Classes
  /\ UNION Range(Wide2) \subseteq Classes
  /\ UNION Range(Wide3) \subseteq Classes
  /\ UNION Range(Wide4) \subseteq Classes
  /\ UNION Range(Wide5) \subseteq Classes
  /\ UNION Range(Wide6) \subseteq Classes
  /\ UNION Range(Wide7) \subseteq Classes
<1>1. UNION Range(Ansi1) \subseteq Classes
  BY SMTT(30) DEF Range, Ansi1, Classes, Work, Connecting, EnvRead, ByType, EndsTran, OnDll, OnEnv, OnDbc, Bare, Guarded
<1>2. UNION Range(Ansi2) \subseteq Classes
  BY SMTT(30) DEF Range, Ansi2, Classes, Work, Connecting, EnvRead, ByType, EndsTran, OnDll, OnEnv, OnDbc, Bare, Guarded
<1>3. UNION Range(Ansi3) \subseteq Classes
  BY SMTT(30) DEF Range, Ansi3, Classes, Work, Connecting, EnvRead, ByType, EndsTran, OnDll, OnEnv, OnDbc, Bare, Guarded
<1>4. UNION Range(Ansi4) \subseteq Classes
  BY SMTT(30) DEF Range, Ansi4, Classes, Work, Connecting, EnvRead, ByType, EndsTran, OnDll, OnEnv, OnDbc, Bare, Guarded
<1>5. UNION Range(Ansi5) \subseteq Classes
  BY SMTT(30) DEF Range, Ansi5, Classes, Work, Connecting, EnvRead, ByType, EndsTran, OnDll, OnEnv, OnDbc, Bare, Guarded
<1>6. UNION Range(Ansi6) \subseteq Classes
  BY SMTT(30) DEF Range, Ansi6, Classes, Work, Connecting, EnvRead, ByType, EndsTran, OnDll, OnEnv, OnDbc, Bare, Guarded
<1>7. UNION Range(Ansi7) \subseteq Classes
  BY SMTT(30) DEF Range, Ansi7, Classes, Work, Connecting, EnvRead, ByType, EndsTran, OnDll, OnEnv, OnDbc, Bare, Guarded
<1>8. UNION Range(Ansi8) \subseteq Classes
  BY SMTT(30) DEF Range, Ansi8, Classes, Work, Connecting, EnvRead, ByType, EndsTran, OnDll, OnEnv, OnDbc, Bare, Guarded
<1>9. UNION Range(Wide1) \subseteq Classes
  BY SMTT(30) DEF Range, Wide1, Classes, Work, Connecting, EnvRead, ByType, EndsTran, OnDll, OnEnv, OnDbc, Bare, Guarded
<1>10. UNION Range(Wide2) \subseteq Classes
  BY SMTT(30) DEF Range, Wide2, Classes, Work, Connecting, EnvRead, ByType, EndsTran, OnDll, OnEnv, OnDbc, Bare, Guarded
<1>11. UNION Range(Wide3) \subseteq Classes
  BY SMTT(30) DEF Range, Wide3, Classes, Work, Connecting, EnvRead, ByType, EndsTran, OnDll, OnEnv, OnDbc, Bare, Guarded
<1>12. UNION Range(Wide4) \subseteq Classes
  BY SMTT(30) DEF Range, Wide4, Classes, Work, Connecting, EnvRead, ByType, EndsTran, OnDll, OnEnv, OnDbc, Bare, Guarded
<1>13. UNION Range(Wide5) \subseteq Classes
  BY SMTT(30) DEF Range, Wide5, Classes, Work, Connecting, EnvRead, ByType, EndsTran, OnDll, OnEnv, OnDbc, Bare, Guarded
<1>14. UNION Range(Wide6) \subseteq Classes
  BY SMTT(30) DEF Range, Wide6, Classes, Work, Connecting, EnvRead, ByType, EndsTran, OnDll, OnEnv, OnDbc, Bare, Guarded
<1>15. UNION Range(Wide7) \subseteq Classes
  BY SMTT(30) DEF Range, Wide7, Classes, Work, Connecting, EnvRead, ByType, EndsTran, OnDll, OnEnv, OnDbc, Bare, Guarded
<1> QED BY <1>1, <1>2, <1>3, <1>4, <1>5, <1>6, <1>7, <1>8, <1>9, <1>10, <1>11, <1>12, <1>13, <1>14, <1>15

\* An exported function has one of these classes; one of them has the idle call's.
LEMMA ExportedClasses == Exported \subseteq Classes /\ Bare("env") \in Exported
<1>1. Exported \subseteq Classes
  BY TablesClasses DEF Exported
<1>2. Bare("env") \in Ansi2["SQLFreeEnv"] /\ Ansi2["SQLFreeEnv"] \in Range(Ansi2)
  BY DEF Ansi2, Range
<1>3. UNION Range(Ansi2) \subseteq Exported
  BY DEF Exported
<1> QED BY <1>1, <1>2, <1>3

-----------------------------------------------------------------------------
\* What the proofs need to know of a class: which lock its guard takes goes with
\* what its body works on.
LEMMA ClassWork ==
  ASSUME NEW class \in Exported, NEW d \in Dbc
  PROVE  /\ class.guard \in {"dll", "env", "dbc", "none"}
         /\ class.guard = "dll" => Touches(class, d) = {}
         /\ class.guard = "none" => class.role = "cancel" \/ Touches(class, d) = {}
         /\ class.guard = "env" =>
              \/ class.role = "endTran"
              \/ class.role \in Closing /\ Touches(class, d) = {d, "list"}
              \/ Touches(class, d) \subseteq {"list"}
         /\ class.guard = "dbc" =>
              \/ class = OnDbc("free") /\ Touches(class, d) = {d, "list"}
              \/ class.role \in {"work", "connect"} /\ Touches(class, d) = {d}
         /\ class.role = "disconnect" => class.guard = "env"
         /\ class.guard = "dbc" => class.role \in OnHandle
<1>1. class \in Classes
  BY ExportedClasses
<1>2. CASE class \in {OnDll("env"), OnEnv("list"), OnDbc("work"), Bare("cancel"), OnDbc("connect")}
  BY <1>2, SMTT(30) DEF OnDll, OnEnv, OnDbc, Bare, Guarded, Touches, Closing, OnHandle
<1>3. CASE class \in {OnEnv("disconnect"), Bare("env"), OnEnv("env"), OnDbc("free"), OnEnv("endTran"), OnEnv("free")}
  BY <1>3, SMTT(30) DEF OnDll, OnEnv, OnDbc, Bare, Guarded, Touches, Closing, OnHandle
<1> QED BY <1>1, <1>2, <1>3 DEF Classes

\* The lock of a call is the one its class and the level ask for; a call under a
\* connection's guard has it unless it began early.
Fits(c) ==
  \/ c.held = "none" /\ c.pc # "wait"
       /\ (c.class.guard = "none" \/ Level = "none"
            \/ (Level = "connect" /\ c.class.guard = "dbc" /\ c.early))
  \/ c.held = "dll" /\ c.class.guard # "none" /\ Level = "env"
  \/ c.held = c.class.guard /\ Level = "connect" /\ c.class.guard \in {"dll", "env"}
  \/ c.held = c.dbc /\ Level = "connect" /\ c.class.guard = "dbc" /\ ~c.early
Active(c)  == c.pc \in {"wait", "in", "out"}
Within(c)  == c.pc \in {"in", "out"}
Clash(b, c) == b.dbc = c.dbc /\ {b.class.role, c.class.role} \subseteq OnHandle
                 /\ {b.class.role, c.class.role} \cap Closing # {}

HeldFits   == \A t \in Thread : Active(call[t]) => Fits(call[t])
Alive      == \A t \in Thread : call[t].pc # "crash" /\ (Active(call[t]) /\ call[t].held \in Dbc => connected[call[t].held])
Owning     == \A t \in Thread : Within(call[t]) /\ call[t].held # "none" => owner[call[t].held] = t
Owned      == \A l \in Lock : owner[l] # None => call[owner[l]].held = l /\ Within(call[owner[l]])
Spared     == \A t, u \in Thread : t # u /\ Active(call[t]) /\ Active(call[u]) => ~Clash(call[t], call[u])
IInv == TypeOK /\ HeldFits /\ Alive /\ Owning /\ Owned /\ Spared

LEMMA InitInv == Init => IInv
<1> SUFFICES ASSUME Init PROVE IInv OBVIOUS
<1>1. Idle \in Call /\ Idle.pc = "idle"
  BY GuardConstants, ExportedClasses DEF Idle, Call
<1>2. TypeOK
  BY <1>1 DEF Init, TypeOK, Lock
<1> QED BY <1>1, <1>2 DEF Init, IInv, HeldFits, Alive, Owning, Owned, Spared, Active, Within

\* The lock chosen for a class fits it.
LEMMA LockFits ==
  ASSUME TypeOK, NEW class \in Exported, NEW d \in Dbc
  PROVE  /\ LockOf(class, d) \in Lock \cup {"none"}
         /\ LockOf(class, d) \in Dbc => connected[LockOf(class, d)]
         /\ \A c \in Call : /\ c.class = class /\ c.dbc = d /\ c.held = LockOf(class, d)
                            /\ c.early = Early(class, d) /\ (c.pc = "wait" => c.held # "none")
                            => Fits(c)
<1>1. class.guard \in {"dll", "env", "dbc", "none"}
  BY ClassWork
<1>2. CASE class.guard = "none" \/ Level = "none"
  BY <1>2, GuardConstants DEF LockOf, Lock, Fits
<1>3. CASE class.guard # "none" /\ Level = "env"
  BY <1>3, GuardConstants DEF LockOf, Lock, Fits
<1>4. CASE class.guard \in {"dll", "env"} /\ Level = "connect"
  BY <1>4, GuardConstants DEF LockOf, Lock, Fits
<1>5. CASE class.guard = "dbc" /\ Level = "connect"
  <2>1. connected[d] \in BOOLEAN /\ safeThread[d] \in BOOLEAN
    BY DEF TypeOK
  <2>2. LockOf(class, d) = IF safeThread[d] /\ connected[d] THEN d ELSE "none"
    BY <1>5 DEF LockOf
  <2>3. Early(class, d) = ~(connected[d] /\ safeThread[d])
    BY <1>5 DEF Early
  <2>4. CASE safeThread[d] /\ connected[d]
    BY <1>5, <2>2, <2>3, <2>4, GuardConstants DEF Lock, Fits
  <2>5. CASE ~(safeThread[d] /\ connected[d])
    BY <1>5, <2>2, <2>3, <2>5, GuardConstants DEF Lock, Fits
  <2> QED BY <2>4, <2>5
<1> QED BY <1>1, <1>2, <1>3, <1>4, <1>5, GuardConstants

LEMMA EnterInv == ASSUME Careful, IInv, NEW t \in Thread, Enter(t) PROVE IInv'
<1> USE DEF IInv
<1>1. PICK class \in Exported, d \in Dbc :
        /\ Allowed(class, d)
        /\ LET l == LockOf(class, d)
           IN  call' = [call EXCEPT ![t] = [pc |-> IF l = "none" THEN "in" ELSE "wait", class |-> class, dbc |-> d,
                                            held |-> l, early |-> Early(class, d)]]
  BY DEF Enter
<1> DEFINE l == LockOf(class, d)
           new == [pc |-> IF l = "none" THEN "in" ELSE "wait", class |-> class, dbc |-> d, held |-> l,
                   early |-> Early(class, d)]
<1>2. l \in Lock \cup {"none"} /\ (l \in Dbc => connected[l]) /\ call[t].pc = "idle" /\ Early(class, d) \in BOOLEAN
  BY LockFits DEF Enter, Early
<1>3. new \in Call /\ Active(new) /\ (Within(new) <=> l = "none")
  BY <1>2 DEF Call, Active, Within
<1>12. Fits(new)
  BY <1>3, LockFits
<1>4. call' = [call EXCEPT ![t] = new] /\ UNCHANGED <<connected, safeThread, owner>>
  BY <1>1 DEF Enter
<1>10. \A u \in Thread \ {t} : Active(call[u]) => ~Clash(new, call[u]) /\ ~Clash(call[u], new)
  <2> SUFFICES ASSUME NEW u \in Thread \ {t}, Active(call[u]) PROVE ~Clash(new, call[u]) /\ ~Clash(call[u], new)
    OBVIOUS
  <2>1. u \in Busy
    BY DEF Busy, Active
  <2>2. (call[u].dbc = d /\ {class.role, call[u].class.role} \subseteq OnHandle)
          => {class.role, call[u].class.role} \cap Closing = {}
    BY <1>1, <2>1 DEF Allowed
  <2>3. new.dbc = d /\ new.class = class
    OBVIOUS
  <2> HIDE DEF new
  <2> QED BY <2>2, <2>3 DEF Clash
<1> HIDE DEF l, new
<1>5. TypeOK'
  BY <1>3, <1>4 DEF TypeOK
<1>6. call'[t] = new /\ \A u \in Thread \ {t} : call'[u] = call[u]
  BY <1>4 DEF TypeOK
<1>7. HeldFits' /\ Alive'
  BY <1>2, <1>3, <1>4, <1>6, <1>12 DEF HeldFits, Alive, Active, new
<1>8. Owning'
  BY <1>3, <1>4, <1>6 DEF Owning, Within, new
<1>9. Owned'
  BY <1>2, <1>4, <1>6, GuardConstants DEF Owned, Within, TypeOK
<1>11. Spared'
  BY <1>6, <1>10 DEF Spared
<1> QED BY <1>5, <1>7, <1>8, <1>9, <1>11

\* A call that waits holds nothing yet, and what it waits for is there.
LEMMA AcquireInv == ASSUME IInv, NEW t \in Thread, Acquire(t) PROVE IInv'
<1> USE DEF IInv
<1> DEFINE l == call[t].held
<1>1. call[t] \in Call /\ call[t].pc = "wait" /\ Fits(call[t]) /\ l \in Lock /\ ~(l \in Dbc /\ ~connected[l])
  BY GuardConstants DEF Acquire, TypeOK, HeldFits, Alive, Active, Fits, Call, Lock
<1>2. owner[l] = None /\ owner' = [owner EXCEPT ![l] = t] /\ call' = [call EXCEPT ![t].pc = "in"]
      /\ UNCHANGED <<connected, safeThread>>
  BY <1>1 DEF Acquire
<1>0. l # "none"
  BY <1>1, GuardConstants DEF Lock
<1> HIDE DEF l
<1>3. TypeOK'
  BY <1>1, <1>2 DEF TypeOK, Call
<1>4. /\ \A u \in Thread \ {t} : call'[u] = call[u]
      /\ call'[t].pc = "in" /\ call'[t].held = l /\ call'[t].class = call[t].class /\ call'[t].dbc = call[t].dbc
      /\ call'[t].early = call[t].early
  BY <1>2 DEF TypeOK, Call, l
<1>5. \A u \in Thread : /\ Active(call'[u]) = Active(call[u])
                        /\ \A v \in Thread : Clash(call'[u], call'[v]) = Clash(call[u], call[v])
  BY <1>1, <1>4 DEF Active, Clash
<1>6. Fits(call'[t])
  BY <1>0, <1>1, <1>4 DEF Fits, l
<1>10. HeldFits' /\ Alive'
  BY <1>1, <1>2, <1>4, <1>5, <1>6 DEF HeldFits, Alive, Active, l
<1>7. Owning'
  BY <1>1, <1>2, <1>4, GuardConstants DEF Owning, Within, TypeOK, Call
<1>8. Owned'
  BY <1>1, <1>2, <1>4, GuardConstants DEF Owned, Within, TypeOK
<1>9. Spared'
  BY <1>5 DEF Spared
<1> QED BY <1>3, <1>7, <1>8, <1>9, <1>10

\* SQLDisconnect has the connection to itself, so no call holds its mutex; when
\* SQLConnect opens it, no call in progress has to do with the new mutex.
LEMMA BodyInv == ASSUME IInv, NEW t \in Thread, Body(t) PROVE IInv'
<1> USE DEF IInv
<1> DEFINE d == call[t].dbc
<1>1. call[t] \in Call /\ call[t].pc = "in" /\ d \in Dbc /\ call' = [call EXCEPT ![t].pc = "out"]
  BY DEF Body, TypeOK, Call
<1>2. /\ \A u \in Thread \ {t} : call'[u] = call[u]
      /\ call'[t].pc = "out" /\ call'[t].held = call[t].held /\ call'[t].class = call[t].class /\ call'[t].dbc = d
      /\ call'[t].early = call[t].early
  BY <1>1 DEF TypeOK, Call
<1>3. call' \in [Thread -> Call]
  BY <1>1 DEF TypeOK, Call
<1>4. \A u \in Thread : /\ Active(call'[u]) = Active(call[u]) /\ Within(call'[u]) = Within(call[u])
                        /\ call'[u].held = call[u].held
                        /\ \A v \in Thread : Clash(call'[u], call'[v]) = Clash(call[u], call[v])
  BY <1>1, <1>2 DEF Active, Within, Clash
<1>8. Fits(call[t])
  BY <1>1 DEF HeldFits, Active
<1>5. Spared' /\ HeldFits'
  <2>1. Fits(call'[t])
    BY <1>1, <1>2, <1>8 DEF Fits
  <2> QED BY <1>2, <1>4, <2>1 DEF Spared, HeldFits
<1>6. CASE /\ connected' \in [Dbc -> BOOLEAN] /\ \A x \in Dbc : connected[x] => connected'[x]
           /\ safeThread' \in [Dbc -> BOOLEAN] /\ owner' = owner
  <2>1. TypeOK' /\ Owning' /\ Owned'
    BY <1>3, <1>4, <1>6, GuardConstants DEF TypeOK, Owning, Owned
  <2>2. Alive'
    BY <1>2, <1>4, <1>6 DEF Alive
  <2> QED BY <1>5, <2>1, <2>2
<1>7. CASE call[t].class.role = "disconnect" /\ Disconnect(t, d)
  <2>1. call[t].class.guard = "env"
    BY <1>1, <1>7, ClassWork DEF Call
  <2>2. "disconnect" \in OnHandle /\ "disconnect" \in Closing
    BY DEF OnHandle, Closing
  <2>3. \A u \in Thread : Active(call[u]) => call[u].held # d
    <3> SUFFICES ASSUME NEW u \in Thread, Active(call[u]), call[u].held = d PROVE FALSE OBVIOUS
    <3>1. call[u] \in Call /\ Fits(call[u])
      BY DEF TypeOK, HeldFits
    <3>2. call[u].class.guard = "dbc" /\ call[u].dbc = d
      BY <1>1, <3>1, GuardConstants DEF Fits
    <3>3. u # t
      BY <2>1, <3>2
    <3>4. call[u].class.role \in OnHandle
      BY <3>1, <3>2, ClassWork DEF Call
    <3>5. Clash(call[t], call[u])
      BY <1>7, <2>2, <3>2, <3>4 DEF Clash
    <3> QED BY <1>1, <3>3, <3>5 DEF Spared, Active
  <2>4. connected' = [connected EXCEPT ![d] = FALSE] /\ owner' = [owner EXCEPT ![d] = None] /\ UNCHANGED safeThread
    BY <1>7 DEF Disconnect
  <2>5. TypeOK'
    BY <1>1, <1>3, <2>4 DEF TypeOK, Lock
  <2>6. Alive'
    BY <1>1, <1>2, <1>4, <2>3, <2>4 DEF Alive, TypeOK
  <2>7. Owning'
    BY <1>1, <1>4, <2>3, <2>4 DEF Owning, TypeOK, Active, Within
  <2>8. Owned'
    BY <1>1, <1>4, <2>4, GuardConstants DEF Owned, TypeOK, Lock
  <2> QED BY <1>5, <2>5, <2>6, <2>7, <2>8
<1> QED BY <1>1, <1>6, <1>7 DEF Body, Connect, Other, TypeOK

\* The destructor finds its connection connected, and so gives the mutex back.
LEMMA LeaveInv == ASSUME IInv, NEW t \in Thread, Leave(t) PROVE IInv'
<1> USE DEF IInv
<1> DEFINE l == call[t].held
<1>1. call[t] \in Call /\ call[t].pc = "out" /\ l \in Lock \cup {"none"} /\ (l \in Dbc => connected[l])
  BY DEF Leave, TypeOK, Call, Alive, Active
<1>2. Idle \in Call /\ Idle.pc = "idle"
  BY GuardConstants, ExportedClasses DEF Idle, Call
<1>3. /\ owner' = IF l = "none" THEN owner ELSE [owner EXCEPT ![l] = None]
      /\ call' = [call EXCEPT ![t] = Idle] /\ UNCHANGED <<connected, safeThread>>
  BY <1>1 DEF Leave
<1>4. TypeOK'
  BY <1>1, <1>2, <1>3 DEF TypeOK
<1>5. call'[t] = Idle /\ \A u \in Thread \ {t} : call'[u] = call[u]
  BY <1>3 DEF TypeOK
<1> HIDE DEF l
<1>6. HeldFits' /\ Alive' /\ Spared'
  BY <1>2, <1>3, <1>5 DEF HeldFits, Alive, Spared, Active
<1>7. \A u \in Thread \ {t} : Within(call[u]) /\ call[u].held # "none" => call[u].held # l
  BY <1>1 DEF Owning, Within, l
<1>8. Owning'
  BY <1>1, <1>2, <1>3, <1>5, <1>7 DEF Owning, Within, TypeOK, Call
<1>9. Owned'
  <2> SUFFICES ASSUME NEW x \in Lock, owner'[x] # None
               PROVE  call'[owner'[x]].held = x /\ Within(call'[owner'[x]])
    BY DEF Owned
  <2>1. x # l /\ owner'[x] = owner[x] /\ owner[x] \in Thread
    BY <1>1, <1>3, GuardConstants DEF TypeOK, Lock
  <2>2. call[owner[x]].held = x /\ Within(call[owner[x]])
    BY <2>1 DEF Owned
  <2>3. owner[x] # t
    BY <2>1, <2>2 DEF l
  <2> QED BY <1>5, <2>1, <2>2, <2>3
<1> QED BY <1>4, <1>6, <1>8, <1>9

LEMMA NextInv == ASSUME Careful PROVE IInv /\ [Next]_vars => IInv'
<1> SUFFICES ASSUME IInv, [Next]_vars PROVE IInv' OBVIOUS
<1>1. CASE UNCHANGED vars
  <2> USE <1>1 DEF vars, IInv
  <2>1. TypeOK' /\ HeldFits'
    BY DEF TypeOK, HeldFits
  <2>2. Alive' /\ Owning' /\ Owned'
    BY DEF Alive, Owning, Owned, Active, Within
  <2>3. Spared'
    BY DEF Spared, Active, Clash
  <2> QED BY <2>1, <2>2, <2>3
<1>2. CASE Next
  BY <1>2, EnterInv, AcquireInv, BodyInv, LeaveInv DEF Next
<1> QED BY <1>1, <1>2

\* Two calls inside on the same thing hold different locks only in the ways the
\* driver is built with; with the same lock they cannot both be inside.
LEMMA ApartInv == IInv => NoOtherRace
<1> SUFFICES ASSUME IInv, Level # "none", NEW t \in Thread, NEW u \in Thread, t # u, Inside(t), Inside(u),
                    NEW x \in Works(t) \cap Works(u),
                    ~BuiltIn(call[t], call[u]), ~BuiltIn(call[u], call[t])
             PROVE  FALSE
  BY DEF NoOtherRace
<1> USE DEF IInv
<1> DEFINE b == call[t]
           c == call[u]
<1>1. /\ b \in Call /\ c \in Call /\ Active(b) /\ Active(c) /\ Within(b) /\ Within(c)
      /\ Fits(b) /\ Fits(c) /\ ~Clash(b, c)
  BY DEF TypeOK, HeldFits, Active, Within, Inside, Spared
<1>2. b.held = "none" \/ b.held # c.held
  BY <1>1 DEF Owning
<1>3. /\ x \in Touches(b.class, b.dbc) /\ x \in Touches(c.class, c.dbc)
      /\ ~BuiltIn(b, c) /\ ~BuiltIn(c, b)
  BY DEF Works
<1> HIDE DEF b, c
<1>4. b.class \in Exported /\ c.class \in Exported /\ b.dbc \in Dbc /\ c.dbc \in Dbc
  BY <1>1 DEF Call
<1>5. b.class.guard \in {"env", "dbc"} /\ c.class.guard \in {"env", "dbc"}
  BY <1>3, <1>4, ClassWork DEF BuiltIn
<1>6. Level = "connect"
  BY <1>1, <1>2, <1>5, GuardConstants DEF Fits
<1>7. "list" \notin Dbc
  BY GuardConstants
<1>8. CASE b.class.guard = "env" /\ c.class.guard = "env"
  BY <1>1, <1>2, <1>6, <1>8, GuardConstants DEF Fits
<1>9. CASE b.class.guard = "env" /\ c.class.guard = "dbc"
  <2>1. b.class.role # "endTran" /\ (c.class = OnDbc("free") => x # "list")
    BY <1>3, <1>6, <1>9 DEF BuiltIn
  <2>2. x = c.dbc
    BY <1>3, <1>4, <1>6, <1>9, <2>1, ClassWork DEF BuiltIn
  <2>3. b.class.role \in Closing /\ x = b.dbc
    BY <1>3, <1>4, <1>7, <1>9, <2>1, <2>2, ClassWork
  <2>4. c.class.role \in OnHandle /\ b.class.role \in OnHandle
    BY <1>4, <1>9, <2>3, ClassWork DEF Closing, OnHandle
  <2> QED BY <1>1, <2>2, <2>3, <2>4 DEF Clash
<1>10. CASE b.class.guard = "dbc" /\ c.class.guard = "env"
  <2>1. c.class.role # "endTran" /\ (b.class = OnDbc("free") => x # "list")
    BY <1>3, <1>6, <1>10 DEF BuiltIn
  <2>2. x = b.dbc
    BY <1>3, <1>4, <1>6, <1>10, <2>1, ClassWork DEF BuiltIn
  <2>3. c.class.role \in Closing /\ x = c.dbc
    BY <1>3, <1>4, <1>7, <1>10, <2>1, <2>2, ClassWork
  <2>4. b.class.role \in OnHandle /\ c.class.role \in OnHandle
    BY <1>4, <1>10, <2>3, ClassWork DEF Closing, OnHandle
  <2> QED BY <1>1, <2>2, <2>3, <2>4 DEF Clash
<1>11. CASE b.class.guard = "dbc" /\ c.class.guard = "dbc"
  <2>1. x # "list"
    BY <1>3, <1>4, <1>6, <1>7, <1>11, ClassWork DEF BuiltIn
  <2>2. b.dbc = c.dbc
    BY <1>3, <1>4, <1>11, <2>1, ClassWork
  <2>3. ~b.early /\ ~c.early
    BY <1>3, <1>6, <1>11, <2>2 DEF BuiltIn
  <2>4. ASSUME NEW a, Fits(a), a.class.guard = "dbc", ~a.early PROVE a.held = a.dbc
    BY <1>6, <2>4 DEF Fits
  <2>5. b.held = b.dbc /\ c.held = c.dbc
    BY <1>1, <1>11, <2>3, <2>4
  <2>6. b.dbc # "none"
    BY <1>4, GuardConstants
  <2> QED BY <1>2, <2>2, <2>5, <2>6
<1> QED BY <1>5, <1>8, <1>9, <1>10, <1>11

LEMMA BalancedInv == IInv => LocksBalanced
  BY GuardConstants DEF IInv, LocksBalanced, Owned, Owning, Alive, Active, Within, Inside, TypeOK, Call

\* For an application that closes a connection only when it is done with it, any
\* number of threads and connections and every lock level: of the calls inside
\* at the same time only those BuiltIn names work on the same connection or on
\* the list of connections (Main.h 42-72, OdbcConnection.h 166-185).
THEOREM CallsApart == ASSUME Careful PROVE Spec => []NoOtherRace
<1>1. Init => IInv
  BY InitInv
<1>2. IInv /\ [Next]_vars => IInv'
  BY NextInv
<1>3. IInv => NoOtherRace
  BY ApartInv
<1> QED BY <1>1, <1>2, <1>3, PTL DEF Spec

\* For the same, a mutex is held exactly by a call that is inside and will release
\* it, although SQLConnect sets `connected' under the guards of calls that began
\* before it, and no call locks through a closed connection.
THEOREM GuardsBalanced == ASSUME Careful PROVE Spec => []LocksBalanced
<1>1. Init => IInv
  BY InitInv
<1>2. IInv /\ [Next]_vars => IInv'
  BY NextInv
<1>3. IInv => LocksBalanced
  BY BalancedInv
<1> QED BY <1>1, <1>2, <1>3, PTL DEF Spec
=============================================================================
