-------------------------- MODULE Descriptors_proofs --------------------------
(* What the descriptors and the lists of Descriptors.tla keep up, for every   *)
(* set of statements, of explicit descriptors and of texts, and any number    *)
(* of columns.                                                                *)
(*                                                                            *)
(* TransfersAsBound speaks of one call, and is not inductive: whether a fetch *)
(* moves what is bound depends on what every call before it did to the list,  *)
(* to the marks and to the conversions.  The invariant IInv says of a side    *)
(* that only its statement has touched (SideOk) that                          *)
(*   - nothing is in the list that the attached descriptor does not ask for,  *)
(*     nor the record of another descriptor, nor a deleted one;               *)
(*   - what it asks for is in the list with the conversion of the present     *)
(*     types, or waits for the look the next transfer begins with;            *)
(* and of every statement (Agree) that the descriptors of the driver have     *)
(* types and counts of the present statement or none.                         *)
(*                                                                            *)
(* A call is a chain of operations on the state taken as a value.  Each has a *)
(* lemma that says what it changes, and a Quiet fact: the sides it does not   *)
(* name keep what they had, unless the ghost gives them up.  QuietTwice       *)
(* chains those facts and QuietSound carries them to all other statements, so *)
(* that a call is left with what it does to its own.                          *)
EXTENDS Descriptors, TLAPS

-----------------------------------------------------------------------------
\* The types of the state.

SqlNames == SqlTypes \cup {"unknown", "beyond"}
TypeNames == CTypes \cup {"default", "long", "char"}
Convs == {NoConv} \cup (SqlNames \X TypeNames)

AppRecord == [defined : BOOLEAN, prepared : BOOLEAN, type : TypeNames,
              conv : Convs]
AppDesc == [live : BOOLEAN, count : 0 .. MaxCol, rec : [Cols -> AppRecord]]
ImpRecord == [sql : SqlNames, conv : Convs]
ImpDesc == [defined : BOOLEAN, count : 0 .. MaxCol, rec : [Cols -> ImpRecord]]
Bound == [col : Cols, app : AppDescs, dead : BOOLEAN]
Statement ==
  [live : BOOLEAN, prep : Shapes \cup {NoShape},
   open : AllShapes \cup {NoShape}, numberColumns : Nat, fetching : BOOLEAN,
   cur : [row : AppDescs, param : AppDescs], ird : ImpDesc, ipd : ImpDesc,
   bind : [row : SUBSET Bound, param : SUBSET Bound],
   clean : [row : BOOLEAN, param : BOOLEAN]]
World == [app : [AppDescs -> AppDesc], st : [Stmts -> Statement]]

-----------------------------------------------------------------------------
\* The inductive invariant.

\* The statement has columns (parameters) to speak of.
Described(w, s, x) ==
  w.st[s].prep # NoShape \/ (x = "row" /\ w.st[s].open # NoShape)

DueCols(w, s, x) ==
  LET d == w.st[s].cur[x]
  IN {c \in DOMAIN MetaData(w, s, x) :
        c <= w.app[d].count /\ w.app[d].rec[c].defined}

Entry(c, d) == [col |-> c, app |-> d, dead |-> FALSE]

Conv(w, s, x, c) ==
  IF x = "row" THEN w.st[s].ird.rec[c].conv
  ELSE w.app[w.st[s].cur.param].rec[c].conv

\* The column is in the list with the conversion of the present types.
InList(w, s, x, c) ==
  LET d == w.st[s].cur[x]
  IN /\ Entry(c, d) \in w.st[s].bind[x]
     /\ Conv(w, s, x, c) = <<MetaData(w, s, x)[c], w.app[d].rec[c].type>>

\* The next transfer begins with a look at what waits.
Looks(w, s, x) == x = "param" \/ ~w.st[s].fetching \/ w.st[s].open = NoShape

SideOk(w, s, x) ==
  LET d == w.st[s].cur[x]
  IN /\ x = "row" => w.st[s].ird.count = Len(Columns(w, s))
     /\ \A e \in w.st[s].bind[x] : e.col \in DueCols(w, s, x) /\ e = Entry(e.col, d)
     /\ \A c \in DueCols(w, s, x) :
          InList(w, s, x, c) \/ (Waits(w, d, c) /\ Looks(w, s, x))

ImpRec(r, x) == IF x = "row" THEN r.ird.rec ELSE r.ipd.rec
SqlAgrees(w, s, x) ==
  \A c \in DOMAIN MetaData(w, s, x) :
    ImpRec(w.st[s], x)[c].sql \in {"unknown", MetaData(w, s, x)[c]}

Agree(w, s) ==
  LET r == w.st[s]
  IN /\ r.prep # NoShape /\ r.open # NoShape => r.open = r.prep
     /\ r.prep # NoShape \/ r.open # NoShape =>
          r.live /\ r.numberColumns = Len(Columns(w, s))
     /\ r.open # NoShape /\ Columns(w, s) # <<>> => r.ird.defined
     /\ \A x \in Sides : SqlAgrees(w, s, x)
     /\ r.live => \A x \in Sides : w.app[r.cur[x]].live

Good(w, s, x) ==
  w.st[s].clean[x] /\ Described(w, s, x) => SideOk(w, s, x)

Sound(w) ==
  /\ w \in World
  /\ \A s \in Stmts : Agree(w, s)
  /\ \A s \in Stmts, x \in Sides : Good(w, s, x)

IInv == Sound(Now)

-----------------------------------------------------------------------------
\* What a call leaves alone.

\* Nothing but the list and the ghost has changed of a statement.
Kept(a, b) ==
  /\ b.live = a.live /\ b.prep = a.prep /\ b.open = a.open
  /\ b.numberColumns = a.numberColumns /\ b.fetching = a.fetching
  /\ b.cur = a.cur /\ b.ird = a.ird /\ b.ipd = a.ipd

\* A descriptor may be cleared of the mark that its records are in a list.
Benign(a, b) ==
  /\ b.count = a.count
  /\ \A c \in Cols : /\ b.rec[c].defined = a.rec[c].defined
                     /\ b.rec[c].type = a.rec[c].type
                     /\ b.rec[c].conv = a.rec[c].conv
                     /\ b.rec[c].prepared => a.rec[c].prepared

SameSide(a, b, x) ==
  /\ b.cur[x] = a.cur[x] /\ b.bind[x] = a.bind[x] /\ b.prep = a.prep
  /\ x = "row" => /\ b.open = a.open /\ b.fetching = a.fetching
                  /\ b.ird.count = a.ird.count
                  /\ \A c \in Cols : b.ird.rec[c].conv = a.ird.rec[c].conv

\* A side that is still clean in v is as it was in w.
Undisturbed(w, v, t, x) ==
  v.st[t].clean[x] =>
    /\ w.st[t].clean[x]
    /\ SameSide(w.st[t], v.st[t], x)
    /\ Benign(w.app[w.st[t].cur[x]], v.app[w.st[t].cur[x]])

LEMMA BenignTwice ==
  ASSUME NEW a, NEW b, NEW c, Benign(a, b), Benign(b, c)
  PROVE  Benign(a, c)
BY Zenon DEF Benign

LEMMA TypesOfWorld ==
  ASSUME NEW w \in World, NEW t \in Stmts, NEW x \in Sides
  PROVE  /\ w.st[t] \in Statement /\ w.st[t].cur[x] \in AppDescs
         /\ w.st[t].bind[x] \subseteq Bound /\ w.st[t].clean[x] \in BOOLEAN
         /\ w.app[w.st[t].cur[x]] \in AppDesc
BY DEF World, Statement, Sides

LEMMA TypesOfShape ==
  ASSUME NEW w \in World, NEW t \in Stmts
  PROVE  /\ Columns(w, t) \in Seq(SqlTypes)
         /\ Parameters(w, t) \in Seq(SqlTypes)
         /\ Len(Columns(w, t)) <= MaxCol /\ Len(Parameters(w, t)) <= MaxCol
         /\ DOMAIN Columns(w, t) = 1 .. Len(Columns(w, t))
         /\ DOMAIN Parameters(w, t) = 1 .. Len(Parameters(w, t))
         /\ DOMAIN Columns(w, t) \subseteq Cols
         /\ DOMAIN Parameters(w, t) \subseteq Cols
<1>1. /\ w.st[t].open \in AllShapes \cup {NoShape}
      /\ w.st[t].prep \in AllShapes \cup {NoShape}
  BY DEF World, Statement, AllShapes
<1>2. \A h \in AllShapes : /\ h.row \in Seq(SqlTypes)
                           /\ h.param \in Seq(SqlTypes)
                           /\ Len(h.row) <= MaxCol /\ Len(h.param) <= MaxCol
  BY DescriptorsAssumption DEF Sides
<1>3. <<>> \in Seq(SqlTypes) /\ Len(<<>>) <= MaxCol
  BY DescriptorsAssumption
<1>4. /\ Columns(w, t) \in Seq(SqlTypes)
      /\ Len(Columns(w, t)) <= MaxCol
  BY <1>1, <1>2, <1>3 DEF Columns
<1>5. /\ Parameters(w, t) \in Seq(SqlTypes)
      /\ Len(Parameters(w, t)) <= MaxCol
  BY <1>1, <1>2, <1>3, Zenon DEF Parameters
<1> QED BY <1>4, <1>5, DescriptorsAssumption DEF Cols

\* What of a side decides whether its list is right.
Alike(w, v, s, x) ==
  /\ v.st[s].cur[x] = w.st[s].cur[x] /\ v.st[s].bind[x] = w.st[s].bind[x]
  /\ MetaData(v, s, x) = MetaData(w, s, x)
  /\ x = "row" => /\ v.st[s].ird.count = w.st[s].ird.count
                  /\ \A c \in Cols : v.st[s].ird.rec[c].conv = w.st[s].ird.rec[c].conv
  /\ Benign(w.app[w.st[s].cur[x]], v.app[w.st[s].cur[x]])
  /\ Looks(w, s, x) => Looks(v, s, x)

LEMMA AlikeOk ==
  ASSUME NEW w \in World, NEW v, NEW t \in Stmts, NEW x \in Sides,
         Alike(w, v, t, x), SideOk(w, t, x)
  PROVE  SideOk(v, t, x)
<1> DEFINE d == w.st[t].cur[x]
<1>1. /\ MetaData(v, t, x) = MetaData(w, t, x)
      /\ v.st[t].cur[x] = d /\ v.st[t].bind[x] = w.st[t].bind[x]
      /\ Benign(w.app[d], v.app[d]) /\ (Looks(w, t, x) => Looks(v, t, x))
      /\ x = "row" => /\ v.st[t].ird.count = w.st[t].ird.count
                      /\ \A c \in Cols : v.st[t].ird.rec[c].conv = w.st[t].ird.rec[c].conv
  BY DEF Alike
<1>2. DOMAIN MetaData(w, t, x) \subseteq Cols
  BY TypesOfShape DEF MetaData
<1>3. DueCols(v, t, x) = DueCols(w, t, x)
  <2>1. /\ v.app[d].count = w.app[d].count
        /\ \A c \in Cols : v.app[d].rec[c].defined = w.app[d].rec[c].defined
    BY <1>1, Zenon DEF Benign
  <2>2. v.st[t].cur[x] = d /\ MetaData(v, t, x) = MetaData(w, t, x)
    BY <1>1
  <2> QED BY <1>2, <2>1, <2>2, Zenon DEF DueCols
<1>4. ASSUME NEW c \in Cols PROVE Conv(v, t, x, c) = Conv(w, t, x, c)
  <2>1. CASE x = "row"
    BY <1>1, <2>1 DEF Conv
  <2>2. CASE x = "param"
    BY <1>1, <2>2, Zenon DEF Conv, Benign
  <2> QED BY <2>1, <2>2, Zenon DEF Sides
<1>5. ASSUME NEW c \in DueCols(w, t, x)
      PROVE  InList(v, t, x, c) \/ (Waits(v, d, c) /\ Looks(v, t, x))
  <2>1. c \in Cols
    BY <1>2 DEF DueCols
  <2>2. CASE InList(w, t, x, c)
    BY <1>1, <1>4, <2>1, <2>2, Zenon DEF InList, Benign
  <2>3. CASE Waits(w, d, c) /\ Looks(w, t, x)
    BY <1>1, <2>1, <2>3, Zenon DEF Waits, Benign
  <2> QED BY <2>2, <2>3 DEF SideOk
<1>6. x = "row" => v.st[t].ird.count = Len(Columns(v, t))
  BY <1>1, Zenon DEF SideOk, MetaData
<1>7. \A e \in v.st[t].bind[x] : e.col \in DueCols(v, t, x) /\ e = Entry(e.col, d)
  BY <1>1, <1>3 DEF SideOk
<1> QED BY <1>1, <1>3, <1>5, <1>6, <1>7, Zenon DEF SideOk

LEMMA UndisturbedGood ==
  ASSUME NEW w \in World, NEW v \in World, NEW t \in Stmts, NEW x \in Sides,
         Good(w, t, x), Undisturbed(w, v, t, x)
  PROVE  Good(v, t, x)
<1> SUFFICES ASSUME v.st[t].clean[x], Described(v, t, x)
             PROVE  SideOk(v, t, x)
  BY Zenon DEF Good
<1>1. /\ SameSide(w.st[t], v.st[t], x)
      /\ Benign(w.app[w.st[t].cur[x]], v.app[w.st[t].cur[x]])
      /\ SideOk(w, t, x)
  BY Zenon DEF Undisturbed, Good, Described, SameSide
<1>2. MetaData(v, t, x) = MetaData(w, t, x)
  BY <1>1, Zenon DEF SameSide, MetaData, Columns, Parameters
<1>3. Alike(w, v, t, x)
  BY <1>1, <1>2, Zenon DEF Alike, SameSide, Looks, Sides
<1> QED BY <1>1, <1>3, AlikeOk

\* Of the world v after w, for a call of statement s that works on the sides X.
Quiet(w, v, s, X) ==
  /\ v \in World
  /\ \A d \in AppDescs : v.app[d].live = w.app[d].live
  /\ \A t \in Stmts \ {s} : Kept(w.st[t], v.st[t])
  /\ \A t \in Stmts, x \in Sides : <<t, x>> \notin X => Undisturbed(w, v, t, x)

LEMMA UndisturbedTwice ==
  ASSUME NEW w \in World, NEW v \in World, NEW u \in World,
         NEW t \in Stmts, NEW x \in Sides,
         Undisturbed(w, v, t, x), Undisturbed(v, u, t, x)
  PROVE  Undisturbed(w, u, t, x)
<1> SUFFICES ASSUME u.st[t].clean[x]
             PROVE  /\ w.st[t].clean[x]
                    /\ SameSide(w.st[t], u.st[t], x)
                    /\ Benign(w.app[w.st[t].cur[x]], u.app[w.st[t].cur[x]])
  BY Zenon DEF Undisturbed
<1>1. /\ w.st[t].clean[x] /\ SameSide(w.st[t], v.st[t], x)
      /\ SameSide(v.st[t], u.st[t], x)
      /\ Benign(w.app[w.st[t].cur[x]], v.app[w.st[t].cur[x]])
      /\ Benign(v.app[v.st[t].cur[x]], u.app[v.st[t].cur[x]])
  BY DEF Undisturbed
<1>2. v.st[t].cur[x] = w.st[t].cur[x]
  BY <1>1, Zenon DEF SameSide
<1>3. SameSide(w.st[t], u.st[t], x)
  BY <1>1, Zenon DEF SameSide
<1>4. Benign(w.app[w.st[t].cur[x]], u.app[w.st[t].cur[x]])
  BY <1>1, <1>2, BenignTwice
<1> QED BY <1>1, <1>3, <1>4, Zenon

LEMMA QuietTwice ==
  ASSUME NEW w \in World, NEW v, NEW u, NEW s, NEW X,
         Quiet(w, v, s, X), Quiet(v, u, s, X)
  PROVE  Quiet(w, u, s, X)
<1>1. \A t \in Stmts \ {s} : Kept(w.st[t], u.st[t])
  BY DEF Quiet, Kept
<1>2. \A t \in Stmts, x \in Sides : <<t, x>> \notin X => Undisturbed(w, u, t, x)
  BY UndisturbedTwice DEF Quiet
<1> QED BY <1>1, <1>2 DEF Quiet

-----------------------------------------------------------------------------
\* The operations of OdbcDesc and of the ghost.

\* Only the ghost of the sides Z changes.
Spoiled(w, v, Z) ==
  /\ v \in World /\ v.app = w.app
  /\ \A t \in Stmts : Kept(w.st[t], v.st[t]) /\ v.st[t].bind = w.st[t].bind
  /\ \A t \in Stmts, x \in Sides :
       v.st[t].clean[x] <=> w.st[t].clean[x] /\ <<t, x>> \notin Z

LEMMA SpoilIs ==
  ASSUME NEW w \in World, NEW Z
  PROVE  Spoiled(w, Spoil(w, Z), Z)
<1> DEFINE K(t, x) == w.st[t].clean[x] /\ <<t, x>> \notin Z
           r(t) == [w.st[t] EXCEPT !.clean = [row |-> K(t, "row"), param |-> K(t, "param")]]
           f == [t \in Stmts |-> r(t)]
           v == [w EXCEPT !.st = f]
<1>1. \A t \in Stmts, x \in Sides : K(t, x) \in BOOLEAN
  BY DEF World, Statement, Sides
<1>2. Spoil(w, Z) = v
  BY DEF Spoil
<1> HIDE DEF K
<1>3. ASSUME NEW t \in Stmts
      PROVE  /\ r(t) \in Statement /\ Kept(w.st[t], r(t)) /\ r(t).bind = w.st[t].bind
             /\ r(t).clean["row"] = K(t, "row") /\ r(t).clean["param"] = K(t, "param")
  BY <1>1, TypesOfWorld DEF Statement, Kept, Sides
<1> HIDE DEF r
<1>4. v \in World /\ v.app = w.app /\ \A t \in Stmts : v.st[t] = r(t)
  BY <1>3 DEF World
<1> HIDE DEF v
<1>5. \A t \in Stmts, x \in Sides : v.st[t].clean[x] = K(t, x)
  BY <1>3, <1>4 DEF Sides
<1>6. \A t \in Stmts : Kept(w.st[t], v.st[t]) /\ v.st[t].bind = w.st[t].bind
  BY <1>3, <1>4
<1>7. Spoiled(w, v, Z)
  BY <1>4, <1>5, <1>6 DEF Spoiled, K
<1> QED BY <1>2, <1>7

LEMMA BenignSelf ==
  ASSUME NEW a, NEW b, a = b
  PROVE  Benign(a, b)
BY DEF Benign

LEMMA SpoilQuiet ==
  ASSUME NEW w \in World, NEW Z, NEW s, NEW X
  PROVE  Quiet(w, Spoil(w, Z), s, X)
<1> DEFINE v == Spoil(w, Z)
<1>1. Spoiled(w, v, Z)
  BY SpoilIs
<1> HIDE DEF v
<1>2. ASSUME NEW t \in Stmts, NEW x \in Sides
      PROVE  Undisturbed(w, v, t, x)
  <2>1. SameSide(w.st[t], v.st[t], x)
    BY <1>1 DEF Spoiled, SameSide, Kept
  <2>2. Benign(w.app[w.st[t].cur[x]], v.app[w.st[t].cur[x]])
    BY <1>1, BenignSelf DEF Spoiled
  <2> QED BY <1>1, <2>1, <2>2 DEF Spoiled, Undisturbed
<1>3. Quiet(w, v, s, X)
  BY <1>1, <1>2 DEF Quiet, Spoiled
<1> QED BY <1>3 DEF v

OneStmt(w, v, s, r) ==
  /\ v \in World /\ v.app = w.app /\ v.st[s] = r
  /\ \A t \in Stmts \ {s} : v.st[t] = w.st[t]

LEMMA SetStmtIs ==
  ASSUME NEW w \in World, NEW s \in Stmts, NEW r \in Statement
  PROVE  OneStmt(w, SetStmt(w, s, r), s, r)
BY DEF SetStmt, World, OneStmt

\* A step within one statement.
LEMMA OwnQuiet ==
  ASSUME NEW w \in World, NEW s \in Stmts, NEW r \in Statement, NEW X,
         \A x \in Sides : <<s, x>> \notin X /\ r.clean[x] =>
            w.st[s].clean[x] /\ SameSide(w.st[s], r, x)
  PROVE  Quiet(w, SetStmt(w, s, r), s, X)
<1> DEFINE v == SetStmt(w, s, r)
<1>1. /\ v \in World /\ v.app = w.app /\ v.st[s] = r
      /\ \A t \in Stmts \ {s} : v.st[t] = w.st[t]
  BY SetStmtIs DEF OneStmt
<1> HIDE DEF v
<1>2. \A t \in Stmts \ {s} : Kept(w.st[t], v.st[t])
  BY <1>1 DEF Kept
<1>3. ASSUME NEW t \in Stmts, NEW x \in Sides, <<t, x>> \notin X, v.st[t].clean[x]
      PROVE  w.st[t].clean[x] /\ SameSide(w.st[t], v.st[t], x)
  <2>1. CASE t = s
    BY <1>1, <1>3, <2>1
  <2>2. CASE t # s
    BY <1>1, <1>3, <2>2 DEF SameSide
  <2> QED BY <2>1, <2>2
<1>4. \A t \in Stmts, x \in Sides : <<t, x>> \notin X => Undisturbed(w, v, t, x)
  BY <1>1, <1>3, BenignSelf DEF Undisturbed
<1>5. Quiet(w, v, s, X)
  BY <1>1, <1>2, <1>4 DEF Quiet
<1> QED BY <1>5 DEF v

OneDesc(w, v, d, a) ==
  /\ v \in World /\ v.st = w.st /\ v.app[d] = a
  /\ \A e \in AppDescs \ {d} : v.app[e] = w.app[e]

SetDesc(w, d, a) == [w EXCEPT !.app[d] = a]

LEMMA SetDescIs ==
  ASSUME NEW w \in World, NEW d \in AppDescs, NEW a \in AppDesc
  PROVE  OneDesc(w, SetDesc(w, d, a), d, a)
BY DEF World, OneDesc, SetDesc

\* A step within one descriptor.
LEMMA DescQuiet ==
  ASSUME NEW w \in World, NEW d \in AppDescs, NEW a \in AppDesc,
         a.live = w.app[d].live, NEW s, NEW X,
         \A t \in Stmts, x \in Sides :
           <<t, x>> \notin X /\ w.st[t].clean[x] /\ w.st[t].cur[x] = d
             => Benign(w.app[d], a)
  PROVE  Quiet(w, SetDesc(w, d, a), s, X)
<1> DEFINE v == SetDesc(w, d, a)
<1>1. /\ v \in World /\ v.st = w.st /\ v.app[d] = a
      /\ \A e \in AppDescs \ {d} : v.app[e] = w.app[e]
  BY SetDescIs DEF OneDesc
<1> HIDE DEF v
<1>2. \A t \in Stmts : Kept(w.st[t], v.st[t])
  BY <1>1 DEF Kept
<1>3. ASSUME NEW t \in Stmts, NEW x \in Sides, <<t, x>> \notin X, w.st[t].clean[x]
      PROVE  Benign(w.app[w.st[t].cur[x]], v.app[w.st[t].cur[x]])
  <2>1. w.st[t].cur[x] \in AppDescs
    BY TypesOfWorld
  <2>2. CASE w.st[t].cur[x] = d
    BY <1>1, <1>3, <2>2
  <2>3. CASE w.st[t].cur[x] # d
    BY <1>1, <2>1, <2>3, BenignSelf
  <2> QED BY <2>2, <2>3
<1>4. \A t \in Stmts, x \in Sides : <<t, x>> \notin X => Undisturbed(w, v, t, x)
  BY <1>1, <1>3 DEF Undisturbed, SameSide
<1>5. Quiet(w, v, s, X)
  BY <1>1, <1>2, <1>4 DEF Quiet
<1> QED BY <1>5 DEF v

\* Nobody but Z counts on the descriptor d.
Alone(w, Z, d) ==
  \A t \in Stmts, x \in Sides :
    <<t, x>> \notin Z /\ w.st[t].clean[x] => <<t, x>> \notin UsesDesc(w, d)

LEMMA Uses ==
  ASSUME NEW w, NEW d, NEW t \in Stmts, NEW x \in Sides, <<t, x>> \notin UsesDesc(w, d)
  PROVE  w.st[t].cur[x] # d /\ \A e \in w.st[t].bind[x] : e.app # d
BY DEF UsesDesc

LEMMA SpoiledAlone ==
  ASSUME NEW w \in World, NEW d, NEW Z
  PROVE  Alone(Spoil(w, UsesDesc(w, d) \ Z), Z, d)
<1> DEFINE Y == UsesDesc(w, d) \ Z
           v == Spoil(w, Y)
<1> HIDE DEF Y
<1>1. \A t \in Stmts, x \in Sides :
        /\ v.st[t].cur[x] = w.st[t].cur[x] /\ v.st[t].bind[x] = w.st[t].bind[x]
        /\ v.st[t].clean[x] => <<t, x>> \notin Y
  <2>1. Spoiled(w, v, Y)
    BY SpoilIs
  <2> HIDE DEF v
  <2> QED BY <2>1, Zenon DEF Spoiled, Kept
<1> HIDE DEF v
<1>2. UsesDesc(v, d) = UsesDesc(w, d)
  BY <1>1 DEF UsesDesc
<1>3. Alone(v, Z, d)
  BY <1>1, <1>2 DEF Alone, Y
<1> QED BY <1>3 DEF v, Y

\* The records of a descriptor nobody else counts on may be changed...
LEMMA AloneQuiet ==
  ASSUME NEW w \in World, NEW d \in AppDescs, NEW a \in AppDesc,
         a.live = w.app[d].live, NEW s, NEW X, Alone(w, X, d)
  PROVE  Quiet(w, SetDesc(w, d, a), s, X)
BY DescQuiet, Uses DEF Alone

Freed(B, d) == {[e EXCEPT !.dead = e.dead \/ e.app = d] : e \in B}

LEMMA FreedIs ==
  ASSUME NEW B \in SUBSET Bound, NEW d
  PROVE  /\ Freed(B, d) \subseteq Bound
         /\ (\A e \in B : e.app # d) => Freed(B, d) = B
<1> DEFINE D(e) == e.dead \/ e.app = d
<1>1. \A e \in Bound : D(e) \in BOOLEAN /\ (e.app # d => D(e) = e.dead)
  BY DEF Bound
<1>2. Freed(B, d) = {[e EXCEPT !.dead = D(e)] : e \in B}
  BY DEF Freed
<1> HIDE DEF D
<1>3. \A e \in Bound : /\ [e EXCEPT !.dead = D(e)] \in Bound
                       /\ e.app # d => [e EXCEPT !.dead = D(e)] = e
  BY <1>1 DEF Bound
<1>4. (\A e \in B : e.app # d) => Freed(B, d) = B
  <2> SUFFICES ASSUME \A e \in B : e.app # d PROVE Freed(B, d) = B
    OBVIOUS
  <2>1. \A e \in B : [e EXCEPT !.dead = D(e)] = e
    BY <1>3
  <2> QED BY <1>2, <2>1
<1> QED BY <1>2, <1>3, <1>4

Removed(w, v, d) ==
  /\ v \in World
  /\ v.app[d] = [FreshApp EXCEPT !.live = w.app[d].live]
  /\ v.app[d].live = w.app[d].live
  /\ \A e \in AppDescs \ {d} : v.app[e] = w.app[e]
  /\ \A t \in Stmts : Kept(w.st[t], v.st[t]) /\ v.st[t].clean = w.st[t].clean
  /\ \A t \in Stmts, x \in Sides : v.st[t].bind[x] = Freed(w.st[t].bind[x], d)

LEMMA RemoveRecordsIs ==
  ASSUME NEW w \in World, NEW d \in AppDescs
  PROVE  Removed(w, RemoveRecords(w, d), d)
<1> DEFINE a == [FreshApp EXCEPT !.live = w.app[d].live]
           g == [w.app EXCEPT ![d] = a]
           r(t) == [w.st[t] EXCEPT !.bind = [row |-> Freed(w.st[t].bind.row, d),
                                             param |-> Freed(w.st[t].bind.param, d)]]
           f == [t \in Stmts |-> r(t)]
<1>1. RemoveRecords(w, d) = [app |-> g, st |-> f]
  BY DEF RemoveRecords, Freed
<1>2. a \in AppDesc /\ a.live = w.app[d].live
  <2>1. FreshRecord \in AppRecord
    BY DEF FreshRecord, AppRecord, Convs, TypeNames
  <2>2. w.app[d].live \in BOOLEAN
    BY DEF World, AppDesc
  <2>3. FreshApp \in AppDesc
    BY <2>1, DescriptorsAssumption DEF FreshApp, AppDesc
  <2> QED BY <2>2, <2>3 DEF AppDesc
<1> HIDE DEF a
<1>3. g \in [AppDescs -> AppDesc] /\ g[d] = a /\ \A e \in AppDescs \ {d} : g[e] = w.app[e]
  BY <1>2 DEF World
<1> HIDE DEF g
<1>4. ASSUME NEW t \in Stmts
      PROVE  /\ r(t) \in Statement /\ Kept(w.st[t], r(t)) /\ r(t).clean = w.st[t].clean
             /\ \A x \in Sides : r(t).bind[x] = Freed(w.st[t].bind[x], d)
  BY FreedIs, TypesOfWorld DEF Statement, Kept, Sides
<1> HIDE DEF r
<1>5. f \in [Stmts -> Statement] /\ \A t \in Stmts : f[t] = r(t)
  BY <1>4
<1> HIDE DEF f
<1> DEFINE v == [app |-> g, st |-> f]
<1>6. v \in World /\ v.app = g /\ v.st = f
  BY <1>3, <1>5 DEF World
<1> HIDE DEF v
<1>7. RemoveRecords(w, d) = v /\ [FreshApp EXCEPT !.live = w.app[d].live] = a
  BY <1>1 DEF a, v
<1>8. /\ v.app[d] = a /\ v.app[d].live = w.app[d].live
      /\ \A e \in AppDescs \ {d} : v.app[e] = w.app[e]
  BY <1>2, <1>3, <1>6
<1>9. /\ \A t \in Stmts : /\ Kept(w.st[t], v.st[t]) /\ v.st[t].clean = w.st[t].clean
      /\ \A t \in Stmts, x \in Sides : v.st[t].bind[x] = Freed(w.st[t].bind[x], d)
  BY <1>4, <1>5, <1>6
<1>10. Removed(w, v, d)
  BY <1>6, <1>7, <1>8, <1>9 DEF Removed
<1> QED BY <1>7, <1>10

\* ... and removed.
LEMMA RemoveRecordsQuiet ==
  ASSUME NEW w \in World, NEW d \in AppDescs, NEW s, NEW X, Alone(w, X, d)
  PROVE  Quiet(w, RemoveRecords(w, d), s, X)
<1> DEFINE v == RemoveRecords(w, d)
<1>1. /\ v \in World /\ v.app[d].live = w.app[d].live
      /\ \A e \in AppDescs \ {d} : v.app[e] = w.app[e]
      /\ \A t \in Stmts : Kept(w.st[t], v.st[t]) /\ v.st[t].clean = w.st[t].clean
      /\ \A t \in Stmts, x \in Sides : v.st[t].bind[x] = Freed(w.st[t].bind[x], d)
  BY RemoveRecordsIs DEF Removed
<1> HIDE DEF v
<1>2. ASSUME NEW t \in Stmts, NEW x \in Sides, <<t, x>> \notin X, v.st[t].clean[x]
      PROVE  /\ w.st[t].clean[x] /\ SameSide(w.st[t], v.st[t], x)
             /\ Benign(w.app[w.st[t].cur[x]], v.app[w.st[t].cur[x]])
  <2>1. w.st[t].clean[x] /\ <<t, x>> \notin UsesDesc(w, d)
    BY <1>1, <1>2 DEF Alone
  <2>2. w.st[t].cur[x] # d /\ v.st[t].bind[x] = w.st[t].bind[x]
    <3>1. w.st[t].cur[x] # d /\ \A e \in w.st[t].bind[x] : e.app # d
      BY <2>1, Uses
    <3>2. Freed(w.st[t].bind[x], d) = w.st[t].bind[x]
      BY <3>1, FreedIs, TypesOfWorld
    <3> QED BY <1>1, <3>1, <3>2
  <2>3. SameSide(w.st[t], v.st[t], x)
    BY <1>1, <2>2 DEF SameSide, Kept
  <2>4. v.app[w.st[t].cur[x]] = w.app[w.st[t].cur[x]]
    BY <1>1, <2>2, TypesOfWorld
  <2> QED BY <2>1, <2>3, <2>4, BenignSelf
<1>3. \A t \in Stmts, x \in Sides : <<t, x>> \notin X => Undisturbed(w, v, t, x)
  BY <1>2 DEF Undisturbed
<1>4. Quiet(w, v, s, X)
  BY <1>1, <1>3 DEF Quiet
<1> QED BY <1>4 DEF v

-----------------------------------------------------------------------------
\* Putting records in a list.

\* A step of a statement in a descriptor that others use is told to them.
Written(w, v, s, x, r, d, a) ==
  /\ v \in World /\ v.app[d] = a
  /\ \A e \in AppDescs \ {d} : v.app[e] = w.app[e]
  /\ Kept(r, v.st[s]) /\ v.st[s].bind = r.bind
  /\ v.st[s].clean[x] <=> w.st[s].clean[x]
  /\ Quiet(w, v, s, {<<s, x>>})

LEMMA KeptSide ==
  ASSUME NEW a, NEW b, NEW e, NEW y, SameSide(a, b, y), Kept(b, e), e.bind = b.bind
  PROVE  SameSide(a, e, y)
BY DEF SameSide, Kept

LEMMA WrittenQuiet ==
  ASSUME NEW w \in World, NEW s \in Stmts, NEW x \in Sides,
         NEW r \in Statement, NEW d \in AppDescs, NEW a \in AppDesc,
         a.live = w.app[d].live, r.clean = w.st[s].clean, r.cur = w.st[s].cur,
         \A y \in Sides \ {x} : SameSide(w.st[s], r, y),
         NEW u, u = SetDesc(SetStmt(w, s, r), d, a),
         NEW v, v = SpoilOthers(u, s, x, d)
  PROVE  Written(w, v, s, x, r, d, a)
<1> DEFINE m == SetStmt(w, s, r)
           Z == UsesDesc(u, d) \ {<<s, x>>}
<1>1. OneStmt(w, m, s, r)
  BY SetStmtIs
<1>2. u = SetDesc(m, d, a) /\ v = Spoil(u, Z) /\ <<s, x>> \notin Z
  BY DEF SpoilOthers
<1> HIDE DEF m
<1>3. OneDesc(m, u, d, a)
  BY <1>1, <1>2, SetDescIs DEF OneStmt
<1>4. /\ u \in World /\ u.st[s] = r /\ \A t \in Stmts \ {s} : u.st[t] = w.st[t]
      /\ u.app[d] = a /\ \A e \in AppDescs \ {d} : u.app[e] = w.app[e]
  BY <1>1, <1>3 DEF OneStmt, OneDesc
<1>5. Alone(v, {<<s, x>>}, d)
  BY <1>2, <1>4, SpoiledAlone
<1> HIDE DEF Z
<1>6. Spoiled(u, v, Z)
  BY <1>2, <1>4, SpoilIs
<1>7. /\ v \in World /\ v.app = u.app
      /\ \A t \in Stmts : Kept(u.st[t], v.st[t]) /\ v.st[t].bind = u.st[t].bind
      /\ \A t \in Stmts, y \in Sides : v.st[t].clean[y] => u.st[t].clean[y]
  BY <1>6 DEF Spoiled
<1>9. v.st[s].clean[x] <=> w.st[s].clean[x]
  BY <1>2, <1>4, <1>6 DEF Spoiled
<1>10. ASSUME NEW t \in Stmts, NEW y \in Sides, <<t, y>> # <<s, x>>, v.st[t].clean[y]
       PROVE  /\ w.st[t].clean[y] /\ SameSide(w.st[t], v.st[t], y)
              /\ Benign(w.app[w.st[t].cur[y]], v.app[w.st[t].cur[y]])
  <2>1. w.st[t].clean[y] /\ SameSide(w.st[t], u.st[t], y)
    <3>1. CASE t = s
      BY <1>4, <1>7, <1>10, <3>1
    <3>2. CASE t # s
      BY <1>4, <1>7, <1>10, <3>2 DEF SameSide
    <3> QED BY <3>1, <3>2
  <2>2. SameSide(w.st[t], v.st[t], y)
    <3>1. Kept(u.st[t], v.st[t]) /\ v.st[t].bind = u.st[t].bind
      BY <1>7
    <3> QED BY <2>1, <3>1, KeptSide
  <2>3. v.st[t].cur[y] # d
    <3>1. <<t, y>> \notin UsesDesc(v, d)
      BY <1>5, <1>10 DEF Alone
    <3> QED BY <3>1, Uses
  <2>4. v.app[w.st[t].cur[y]] = w.app[w.st[t].cur[y]]
    <3>1. w.st[t].cur[y] \in AppDescs \ {d}
      BY <2>2, <2>3, TypesOfWorld DEF SameSide
    <3> QED BY <1>4, <1>7, <3>1
  <2> QED BY <2>1, <2>2, <2>4, BenignSelf
<1>11. \A t \in Stmts, y \in Sides : <<t, y>> \notin {<<s, x>>} => Undisturbed(w, v, t, y)
  BY <1>10 DEF Undisturbed
<1>12. \A t \in Stmts \ {s} : Kept(w.st[t], v.st[t])
  BY <1>4, <1>7
<1>13. \A e \in AppDescs : v.app[e].live = w.app[e].live
  BY <1>4, <1>7
<1>14. Quiet(w, v, s, {<<s, x>>})
  BY <1>7, <1>11, <1>12, <1>13 DEF Quiet
<1>15. Kept(r, v.st[s]) /\ v.st[s].bind = r.bind
  BY <1>4, <1>7
<1>16. v.app[d] = a /\ \A e \in AppDescs \ {d} : v.app[e] = w.app[e]
  BY <1>4, <1>7, Zenon
<1> QED BY <1>7, <1>9, <1>14, <1>15, <1>16 DEF Written

SqlOf(w, s, x, c) ==
  Known(ImpRec(w.st[s], x)[c], MetaData(w, s, x), c)
TypeFor(w, s, x, c) == Chosen(w.app[w.st[s].cur[x]].rec[c], SqlOf(w, s, x, c))

LEMMA NamesOf ==
  ASSUME NEW w \in World, NEW s \in Stmts, NEW x \in Sides, NEW c \in Cols
  PROVE  SqlOf(w, s, x, c) \in SqlNames /\ TypeFor(w, s, x, c) \in TypeNames
<1>1. SqlType(MetaData(w, s, x), c) \in SqlNames
  BY TypesOfShape DEF SqlType, MetaData, SqlNames
<1>2. w.st[s].ird.rec[c].sql \in SqlNames /\ w.st[s].ipd.rec[c].sql \in SqlNames
  BY DEF World, Statement, ImpDesc, ImpRecord
<1>3. SqlOf(w, s, x, c) \in SqlNames
  BY <1>1, <1>2, Zenon DEF SqlOf, ImpRec, Known
<1>4. w.app[w.st[s].cur[x]].rec[c].type \in TypeNames
  <2>1. w.app[w.st[s].cur[x]].rec[c] \in AppRecord
    BY TypesOfWorld DEF AppDesc
  <2> QED BY <2>1 DEF AppRecord
<1> QED BY <1>3, <1>4 DEF TypeFor, Chosen, DefaultType, TypeNames

\* What binding the records C of one side of s does to it.
Binding(w, v, s, x, C) ==
  LET d == w.st[s].cur[x]
  IN /\ v \in World /\ Quiet(w, v, s, {<<s, x>>})
     /\ v.st[s].clean[x] <=> w.st[s].clean[x]
     /\ v.st[s].live = w.st[s].live /\ v.st[s].prep = w.st[s].prep
     /\ v.st[s].open = w.st[s].open /\ v.st[s].cur = w.st[s].cur
     /\ v.st[s].numberColumns = w.st[s].numberColumns
     /\ v.st[s].fetching = w.st[s].fetching
     /\ v.st[s].ird.count = w.st[s].ird.count
     /\ v.st[s].ird.defined = w.st[s].ird.defined
     /\ \A y \in Sides : v.st[s].bind[y] =
          IF y = x THEN AddBind(w.st[s].bind[x], C, d) ELSE w.st[s].bind[y]
     /\ v.app[d].count = w.app[d].count
     /\ \A c \in Cols : v.app[d].rec[c].defined = w.app[d].rec[c].defined
     /\ \A c \in Cols \ C : v.app[d].rec[c] = w.app[d].rec[c]
     /\ \A c \in C : /\ v.app[d].rec[c].type = TypeFor(w, s, x, c)
                     /\ v.app[d].rec[c].prepared
     /\ IF x = "row"
        THEN /\ v.st[s].ipd = w.st[s].ipd
             /\ \A c \in Cols \ C : v.st[s].ird.rec[c] = w.st[s].ird.rec[c]
             /\ \A c \in C : v.st[s].ird.rec[c].sql = SqlOf(w, s, x, c)
        ELSE /\ v.st[s].ird = w.st[s].ird
             /\ \A c \in Cols \ C : v.st[s].ipd.rec[c] = w.st[s].ipd.rec[c]
             /\ \A c \in C : v.st[s].ipd.rec[c].sql = SqlOf(w, s, x, c)
     /\ \A c \in C : Conv(v, s, x, c) = <<SqlOf(w, s, x, c), TypeFor(w, s, x, c)>>

LEMMA AddBindIs ==
  ASSUME NEW B \in SUBSET Bound, NEW C \in SUBSET Cols, NEW d \in AppDescs
  PROVE  AddBind(B, C, d) \subseteq Bound
<1>1. \A c \in C : [col |-> c, app |-> d, dead |-> FALSE] \in Bound
  BY DEF Bound
<1> QED BY <1>1 DEF AddBind

LEMMA BindOutputIs ==
  ASSUME NEW w \in World, NEW s \in Stmts, NEW C \in SUBSET Cols, C # {}
  PROVE  Binding(w, BindOutputColumns(w, s, C), s, "row", C)
<1> DEFINE x == "row"
           d == w.st[s].cur[x]
           S(c) == SqlOf(w, s, x, c)
           T(c) == TypeFor(w, s, x, c)
           f == [c \in Cols |-> IF c \in C THEN [sql |-> S(c), conv |-> <<S(c), T(c)>>]
                                ELSE w.st[s].ird.rec[c]]
           g == [c \in Cols |-> IF c \in C
                                THEN [w.app[d].rec[c] EXCEPT !.type = T(c), !.prepared = TRUE]
                                ELSE w.app[d].rec[c]]
           B == AddBind(w.st[s].bind.row, C, d)
           a == [w.app[d] EXCEPT !.rec = g]
           r == [w.st[s] EXCEPT !.ird = [w.st[s].ird EXCEPT !.rec = f],
                                !.bind = [row |-> B, param |-> w.st[s].bind.param]]
           u == SetDesc(SetStmt(w, s, r), d, a)
           v == BindOutputColumns(w, s, C)
<1>1. v = SpoilOthers(u, s, x, d)
  BY DEF BindOutputColumns, SqlOf, ImpRec, TypeFor, MetaData, World, SetStmt, SetDesc
<1>2. /\ d \in AppDescs /\ w.st[s] \in Statement /\ w.app[d] \in AppDesc
      /\ w.st[s].bind.row \subseteq Bound /\ w.st[s].bind.param \subseteq Bound
  BY TypesOfWorld DEF Sides
<1>3. \A c \in Cols : S(c) \in SqlNames /\ T(c) \in TypeNames
  BY NamesOf DEF Sides
<1> HIDE DEF S, T, v
<1>4. ASSUME NEW c \in Cols
      PROVE  /\ f[c] \in ImpRecord /\ g[c] \in AppRecord
             /\ g[c].defined = w.app[d].rec[c].defined
             /\ c \in C => /\ f[c].sql = S(c) /\ f[c].conv = <<S(c), T(c)>>
                           /\ g[c].type = T(c) /\ g[c].prepared
             /\ c \notin C => f[c] = w.st[s].ird.rec[c] /\ g[c] = w.app[d].rec[c]
  <2>1. w.st[s].ird.rec[c] \in ImpRecord /\ w.app[d].rec[c] \in AppRecord
    BY <1>2, Zenon DEF Statement, ImpDesc, AppDesc
  <2>2. CASE c \in C
    <3>1. <<S(c), T(c)>> \in Convs
      BY <1>3 DEF Convs
    <3>2. f[c] = [sql |-> S(c), conv |-> <<S(c), T(c)>>]
      BY <2>2
    <3>3. g[c] = [w.app[d].rec[c] EXCEPT !.type = T(c), !.prepared = TRUE]
      BY <2>2
    <3> HIDE DEF f, g
    <3>4. f[c] \in ImpRecord /\ f[c].sql = S(c) /\ f[c].conv = <<S(c), T(c)>>
      BY <1>3, <3>1, <3>2 DEF ImpRecord
    <3>5. /\ g[c] \in AppRecord /\ g[c].type = T(c) /\ g[c].prepared
          /\ g[c].defined = w.app[d].rec[c].defined
      BY <1>3, <2>1, <3>3, Zenon DEF AppRecord
    <3> QED BY <2>2, <3>4, <3>5
  <2>3. CASE c \notin C
    <3>1. f[c] = w.st[s].ird.rec[c] /\ g[c] = w.app[d].rec[c]
      BY <2>3
    <3> HIDE DEF f, g
    <3> QED BY <2>1, <2>3, <3>1, Zenon
  <2> QED BY <2>2, <2>3, Zenon
<1>5. f \in [Cols -> ImpRecord] /\ g \in [Cols -> AppRecord]
  BY <1>4, Zenon
<1>7. B \subseteq Bound
  BY <1>2, AddBindIs, Zenon
<1> HIDE DEF f, g, B
<1>8. a \in AppDesc /\ a.live = w.app[d].live /\ a.count = w.app[d].count /\ a.rec = g
  BY <1>2, <1>5 DEF AppDesc
<1>9. /\ r \in Statement /\ r.clean = w.st[s].clean /\ r.cur = w.st[s].cur
      /\ r.live = w.st[s].live /\ r.prep = w.st[s].prep /\ r.open = w.st[s].open
      /\ r.numberColumns = w.st[s].numberColumns /\ r.fetching = w.st[s].fetching
      /\ r.ird.count = w.st[s].ird.count /\ r.ird.defined = w.st[s].ird.defined
      /\ r.ird.rec = f /\ r.ipd = w.st[s].ipd
      /\ r.bind.row = B /\ r.bind.param = w.st[s].bind.param
  BY <1>2, <1>5, <1>7 DEF Statement, ImpDesc
<1> HIDE DEF a, r
<1>10. \A y \in Sides \ {x} : SameSide(w.st[s], r, y)
  BY <1>9 DEF SameSide, Sides
<1> HIDE DEF u
<1>11. Written(w, v, s, x, r, d, a)
  BY <1>1, <1>2, <1>8, <1>9, <1>10, WrittenQuiet, Zenon DEF Sides, u
<1> HIDE DEF v
<1>17. v.st[s].ird.rec = f /\ v.st[s].cur = w.st[s].cur
  BY <1>9, <1>11, Zenon DEF Kept, Written
<1>12. \A c \in C : Conv(v, s, x, c) = <<S(c), T(c)>>
  <2> SUFFICES ASSUME NEW c \in C PROVE v.st[s].ird.rec[c].conv = <<S(c), T(c)>>
    BY DEF Conv
  <2> QED BY <1>4, <1>17
<1>13. \A y \in Sides : v.st[s].bind[y] = IF y = x THEN B ELSE w.st[s].bind[y]
  BY <1>9, <1>11 DEF Sides, Written
<1>14. /\ \A c \in Cols : v.app[d].rec[c].defined = w.app[d].rec[c].defined
       /\ \A c \in Cols \ C : v.app[d].rec[c] = w.app[d].rec[c]
       /\ \A c \in C : v.app[d].rec[c].type = T(c) /\ v.app[d].rec[c].prepared
       /\ v.app[d].count = w.app[d].count
  BY <1>4, <1>8, <1>11, Zenon DEF Written
<1>15. /\ \A c \in Cols \ C : v.st[s].ird.rec[c] = w.st[s].ird.rec[c]
       /\ \A c \in C : v.st[s].ird.rec[c].sql = S(c)
  BY <1>4, <1>17
<1>16. Binding(w, v, s, x, C)
  BY <1>9, <1>11, <1>12, <1>13, <1>14, <1>15, Zenon DEF Binding, Kept, Written, S, T, B
<1> QED BY <1>16 DEF v

LEMMA BindInputIs ==
  ASSUME NEW w \in World, NEW s \in Stmts, NEW C \in SUBSET Cols, C # {}
  PROVE  Binding(w, BindInputParams(w, s, C), s, "param", C)
<1> DEFINE x == "param"
           d == w.st[s].cur[x]
           S(c) == SqlOf(w, s, x, c)
           T(c) == TypeFor(w, s, x, c)
           f == [c \in Cols |-> IF c \in C THEN [w.st[s].ipd.rec[c] EXCEPT !.sql = S(c)]
                                ELSE w.st[s].ipd.rec[c]]
           g == [c \in Cols |-> IF c \in C
                                THEN [w.app[d].rec[c] EXCEPT !.type = T(c), !.prepared = TRUE,
                                                             !.conv = <<S(c), T(c)>>]
                                ELSE w.app[d].rec[c]]
           B == AddBind(w.st[s].bind.param, C, d)
           a == [w.app[d] EXCEPT !.rec = g]
           r == [w.st[s] EXCEPT !.ipd = [w.st[s].ipd EXCEPT !.rec = f],
                                !.bind = [row |-> w.st[s].bind.row, param |-> B]]
           u == SetDesc(SetStmt(w, s, r), d, a)
           v == BindInputParams(w, s, C)
<1>1. v = SpoilOthers(u, s, x, d)
  BY Zenon DEF BindInputParams, SqlOf, ImpRec, TypeFor, MetaData, World, SetStmt, SetDesc
<1>2. /\ d \in AppDescs /\ w.st[s] \in Statement /\ w.app[d] \in AppDesc
      /\ w.st[s].bind.row \subseteq Bound /\ w.st[s].bind.param \subseteq Bound
  BY TypesOfWorld DEF Sides
<1>3. \A c \in Cols : S(c) \in SqlNames /\ T(c) \in TypeNames
  BY NamesOf DEF Sides
<1> HIDE DEF S, T, v
<1>4. ASSUME NEW c \in Cols
      PROVE  /\ f[c] \in ImpRecord /\ g[c] \in AppRecord
             /\ g[c].defined = w.app[d].rec[c].defined
             /\ c \in C => /\ f[c].sql = S(c) /\ g[c].conv = <<S(c), T(c)>>
                           /\ g[c].type = T(c) /\ g[c].prepared
             /\ c \notin C => f[c] = w.st[s].ipd.rec[c] /\ g[c] = w.app[d].rec[c]
  <2>1. w.st[s].ipd.rec[c] \in ImpRecord /\ w.app[d].rec[c] \in AppRecord
    BY <1>2, Zenon DEF Statement, ImpDesc, AppDesc
  <2>2. CASE c \in C
    <3>1. <<S(c), T(c)>> \in Convs
      BY <1>3 DEF Convs
    <3>2. f[c] = [w.st[s].ipd.rec[c] EXCEPT !.sql = S(c)]
      BY <2>2
    <3>3. g[c] = [w.app[d].rec[c] EXCEPT !.type = T(c), !.prepared = TRUE,
                                         !.conv = <<S(c), T(c)>>]
      BY <2>2, Zenon
    <3> HIDE DEF f, g
    <3>4. f[c] \in ImpRecord /\ f[c].sql = S(c)
      BY <1>3, <2>1, <3>2 DEF ImpRecord
    <3>5. /\ g[c] \in AppRecord /\ g[c].type = T(c) /\ g[c].prepared
          /\ g[c].defined = w.app[d].rec[c].defined /\ g[c].conv = <<S(c), T(c)>>
      BY <1>3, <2>1, <3>1, <3>3, Zenon DEF AppRecord
    <3> QED BY <2>2, <3>4, <3>5
  <2>3. CASE c \notin C
    <3>1. f[c] = w.st[s].ipd.rec[c] /\ g[c] = w.app[d].rec[c]
      BY <2>3
    <3> HIDE DEF f, g
    <3> QED BY <2>1, <2>3, <3>1, Zenon
  <2> QED BY <2>2, <2>3, Zenon
<1>5. f \in [Cols -> ImpRecord] /\ g \in [Cols -> AppRecord]
  BY <1>4, Zenon
<1>7. B \subseteq Bound
  BY <1>2, AddBindIs, Zenon
<1> HIDE DEF f, g, B
<1>8. a \in AppDesc /\ a.live = w.app[d].live /\ a.count = w.app[d].count /\ a.rec = g
  BY <1>2, <1>5 DEF AppDesc
<1>9. /\ r \in Statement /\ r.clean = w.st[s].clean /\ r.cur = w.st[s].cur
      /\ r.live = w.st[s].live /\ r.prep = w.st[s].prep /\ r.open = w.st[s].open
      /\ r.numberColumns = w.st[s].numberColumns /\ r.fetching = w.st[s].fetching
      /\ r.ird = w.st[s].ird /\ r.ipd.rec = f
      /\ r.bind.param = B /\ r.bind.row = w.st[s].bind.row
  BY <1>2, <1>5, <1>7 DEF Statement, ImpDesc
<1> HIDE DEF a, r
<1>10. \A y \in Sides \ {x} : SameSide(w.st[s], r, y)
  BY <1>9 DEF SameSide, Sides
<1> HIDE DEF u
<1>11. Written(w, v, s, x, r, d, a)
  BY <1>1, <1>2, <1>8, <1>9, <1>10, WrittenQuiet, Zenon DEF Sides, u
<1> HIDE DEF v
<1>17. v.st[s].ipd.rec = f /\ v.st[s].cur = w.st[s].cur
  BY <1>9, <1>11 DEF Kept, Written
<1>14. /\ \A c \in Cols : v.app[d].rec[c].defined = w.app[d].rec[c].defined
       /\ \A c \in Cols \ C : v.app[d].rec[c] = w.app[d].rec[c]
       /\ \A c \in C : v.app[d].rec[c].type = T(c) /\ v.app[d].rec[c].prepared
       /\ v.app[d].count = w.app[d].count
  BY <1>4, <1>8, <1>11, Zenon DEF Written
<1>12. \A c \in C : Conv(v, s, x, c) = <<S(c), T(c)>>
  <2> SUFFICES ASSUME NEW c \in C PROVE v.app[d].rec[c].conv = <<S(c), T(c)>>
    BY <1>17, Zenon DEF Conv
  <2> QED BY <1>4, <1>8, <1>11, Zenon DEF Written
<1>13. \A y \in Sides : v.st[s].bind[y] = IF y = x THEN B ELSE w.st[s].bind[y]
  BY <1>9, <1>11, Zenon DEF Sides, Written
<1>15. /\ \A c \in Cols \ C : v.st[s].ipd.rec[c] = w.st[s].ipd.rec[c]
       /\ \A c \in C : v.st[s].ipd.rec[c].sql = S(c)
  BY <1>4, <1>17
<1>16. Binding(w, v, s, x, C)
  BY <1>9, <1>11, <1>12, <1>13, <1>14, <1>15, Zenon DEF Binding, Kept, Written, S, T, B
<1> QED BY <1>16 DEF v

-----------------------------------------------------------------------------
\* What becomes of the list.

\* As SideOk, for all but the columns C.
SideBut(w, s, x, C) ==
  LET d == w.st[s].cur[x]
  IN /\ x = "row" => w.st[s].ird.count = Len(Columns(w, s))
     /\ \A e \in w.st[s].bind[x] : e.col \in DueCols(w, s, x) /\ e = Entry(e.col, d)
     /\ \A c \in DueCols(w, s, x) \ C :
          InList(w, s, x, c) \/ (Waits(w, d, c) /\ Looks(w, s, x))

AllIn(w, s, x, C) == \A c \in DueCols(w, s, x) \ C : InList(w, s, x, c)

LEMMA SideButNone ==
  ASSUME NEW w, NEW s, NEW x, SideBut(w, s, x, {})
  PROVE  SideOk(w, s, x)
BY DEF SideBut, SideOk

LEMMA DueColsIn ==
  ASSUME NEW w \in World, NEW s \in Stmts, NEW x \in Sides
  PROVE  /\ DueCols(w, s, x) \subseteq DOMAIN MetaData(w, s, x)
         /\ DOMAIN MetaData(w, s, x) \subseteq Cols
BY TypesOfShape DEF DueCols, MetaData

LEMMA BindingMeta ==
  ASSUME NEW w \in World, NEW v, NEW s \in Stmts, NEW x \in Sides,
         NEW C \in SUBSET Cols, Binding(w, v, s, x, C)
  PROVE  /\ \A y \in Sides : MetaData(v, s, y) = MetaData(w, s, y)
         /\ DueCols(v, s, x) = DueCols(w, s, x)
<1>1. /\ v.st[s].open = w.st[s].open /\ v.st[s].prep = w.st[s].prep
      /\ v.st[s].cur = w.st[s].cur
      /\ v.app[w.st[s].cur[x]].count = w.app[w.st[s].cur[x]].count
      /\ \A c \in Cols : v.app[w.st[s].cur[x]].rec[c].defined
                           = w.app[w.st[s].cur[x]].rec[c].defined
  BY Zenon DEF Binding
<1>2. \A y \in Sides : MetaData(v, s, y) = MetaData(w, s, y)
  BY <1>1, Zenon DEF MetaData, Columns, Parameters
<1>3. DOMAIN MetaData(w, s, x) \subseteq Cols
  BY DueColsIn
<1> QED BY <1>1, <1>2, <1>3, Zenon DEF DueCols

LEMMA BindingIn ==
  ASSUME NEW w \in World, NEW v, NEW s \in Stmts, NEW x \in Sides,
         NEW C \in SUBSET Cols, Binding(w, v, s, x, C), SqlAgrees(w, s, x),
         NEW c \in DueCols(w, s, x)
  PROVE  /\ c \in C \/ InList(w, s, x, c) => InList(v, s, x, c)
         /\ c \notin C /\ Waits(w, w.st[s].cur[x], c) => Waits(v, w.st[s].cur[x], c)
<1> DEFINE d == w.st[s].cur[x]
<1>1. c \in DOMAIN MetaData(w, s, x) /\ c \in Cols
  BY DueColsIn
<1>2. MetaData(v, s, x) = MetaData(w, s, x) /\ v.st[s].cur = w.st[s].cur
  <2>1. MetaData(v, s, x) = MetaData(w, s, x)
    BY BindingMeta
  <2> QED BY <2>1, Zenon DEF Binding
<1>3. v.st[s].bind[x] = AddBind(w.st[s].bind[x], C, d)
  BY Zenon DEF Binding
<1>4. CASE c \in C
  <2>1. SqlOf(w, s, x, c) = MetaData(w, s, x)[c]
    BY <1>1, Zenon DEF SqlOf, Known, SqlType, SqlAgrees
  <2>2. Conv(v, s, x, c) = <<MetaData(v, s, x)[c], v.app[d].rec[c].type>>
    <3>1. Conv(v, s, x, c) = <<SqlOf(w, s, x, c), TypeFor(w, s, x, c)>>
      BY <1>4, Zenon DEF Binding
    <3>2. v.app[d].rec[c].type = TypeFor(w, s, x, c)
      BY <1>4, Zenon DEF Binding
    <3> QED BY <1>2, <2>1, <3>1, <3>2
  <2>3. Entry(c, d) \in v.st[s].bind[x]
    BY <1>3, <1>4 DEF AddBind, Entry
  <2> QED BY <1>2, <1>4, <2>2, <2>3 DEF InList
<1>5. CASE c \notin C
  <2>1. v.app[d].rec[c] = w.app[d].rec[c]
    BY <1>1, <1>5, Zenon DEF Binding
  <2>2. Conv(v, s, x, c) = Conv(w, s, x, c)
    <3>1. CASE x = "row"
      <4>1. v.st[s].ird.rec[c] = w.st[s].ird.rec[c]
        BY <1>1, <1>5, <3>1, Zenon DEF Binding
      <4> QED BY <3>1, <4>1 DEF Conv
    <3>2. CASE x = "param"
      BY <1>2, <2>1, <3>2, Zenon DEF Conv
    <3> QED BY <3>1, <3>2 DEF Sides
  <2>3. Entry(c, d) \in w.st[s].bind[x] => Entry(c, d) \in v.st[s].bind[x]
    BY <1>3, <1>5 DEF AddBind, Entry
  <2>4. InList(w, s, x, c) => InList(v, s, x, c)
    BY <1>2, <2>1, <2>2, <2>3 DEF InList
  <2> QED BY <1>5, <2>1, <2>4, Zenon DEF Waits
<1> QED BY <1>4, <1>5

LEMMA BindingSide ==
  ASSUME NEW w \in World, NEW v, NEW s \in Stmts, NEW x \in Sides,
         NEW C \in SUBSET Cols, Binding(w, v, s, x, C), SqlAgrees(w, s, x),
         SideBut(w, s, x, C), C \subseteq DueCols(w, s, x)
  PROVE  SideOk(v, s, x) /\ (AllIn(w, s, x, C) => AllIn(v, s, x, {}))
<1> DEFINE d == w.st[s].cur[x]
<1>1. /\ MetaData(v, s, x) = MetaData(w, s, x) /\ v.st[s].cur = w.st[s].cur
      /\ DueCols(v, s, x) = DueCols(w, s, x)
  <2>1. /\ MetaData(v, s, x) = MetaData(w, s, x)
        /\ DueCols(v, s, x) = DueCols(w, s, x)
    BY BindingMeta
  <2> QED BY <2>1, Zenon DEF Binding
<1>2. x = "row" => v.st[s].ird.count = Len(Columns(v, s))
  <2> SUFFICES ASSUME x = "row" PROVE v.st[s].ird.count = Len(Columns(v, s))
    OBVIOUS
  <2>1. Columns(v, s) = Columns(w, s)
    BY <1>1 DEF MetaData
  <2>2. v.st[s].ird.count = w.st[s].ird.count
    BY Zenon DEF Binding
  <2> QED BY <2>1, <2>2 DEF SideBut
<1>3. \A e \in v.st[s].bind[x] : e.col \in DueCols(v, s, x) /\ e = Entry(e.col, d)
  <2>1. v.st[s].bind[x] = AddBind(w.st[s].bind[x], C, d)
    BY Zenon DEF Binding
  <2> QED BY <1>1, <2>1 DEF AddBind, Entry, SideBut
<1>4. Looks(w, s, x) => Looks(v, s, x)
  BY Zenon DEF Binding, Looks
<1>5. ASSUME NEW c \in DueCols(v, s, x)
      PROVE  InList(v, s, x, c) \/ (Waits(v, d, c) /\ Looks(v, s, x))
  BY <1>1, <1>4, BindingIn DEF SideBut
<1>6. AllIn(w, s, x, C) => AllIn(v, s, x, {})
  BY <1>1, BindingIn DEF AllIn
<1>7. SideOk(v, s, x)
  BY <1>1, <1>2, <1>3, <1>5 DEF SideOk
<1> QED BY <1>6, <1>7

LEMMA BindingAgree ==
  ASSUME NEW w \in World, NEW v, NEW s \in Stmts, NEW x \in Sides,
         NEW C \in SUBSET Cols, Binding(w, v, s, x, C)
  PROVE  /\ \A y \in Sides : SqlAgrees(w, s, y) => SqlAgrees(v, s, y)
         /\ Agree(w, s) => Agree(v, s)
<1>1. ASSUME NEW y \in Sides, SqlAgrees(w, s, y) PROVE SqlAgrees(v, s, y)
  <2> SUFFICES ASSUME NEW c \in DOMAIN MetaData(w, s, y)
               PROVE  ImpRec(v.st[s], y)[c].sql \in {"unknown", MetaData(w, s, y)[c]}
    BY BindingMeta DEF SqlAgrees
  <2>1. ImpRec(w.st[s], y)[c].sql \in {"unknown", MetaData(w, s, y)[c]} /\ c \in Cols
    BY <1>1, DueColsIn DEF SqlAgrees
  <2>2. CASE y = x /\ c \in C
    <3>1. SqlOf(w, s, y, c) \in {"unknown", MetaData(w, s, y)[c]}
      BY <2>1 DEF SqlOf, Known, SqlType
    <3>2. ImpRec(v.st[s], y)[c].sql = SqlOf(w, s, y, c)
      BY <2>2, Zenon DEF Binding, ImpRec
    <3> QED BY <3>1, <3>2
  <2>3. CASE ~(y = x /\ c \in C)
    <3>1. ImpRec(v.st[s], y)[c] = ImpRec(w.st[s], y)[c]
      <4>1. CASE y = x
        BY <2>1, <2>3, <4>1, Zenon DEF Binding, ImpRec, Sides
      <4>2. CASE y # x
        <5>1. x = "row" => v.st[s].ipd = w.st[s].ipd
          BY Zenon DEF Binding
        <5>2. x = "param" => v.st[s].ird = w.st[s].ird
          BY Zenon DEF Binding
        <5>3. (x = "row" /\ y = "param") \/ (x = "param" /\ y = "row")
          BY <4>2 DEF Sides
        <5> QED BY <5>1, <5>2, <5>3 DEF ImpRec
      <4> QED BY <4>1, <4>2
    <3> QED BY <2>1, <3>1
  <2> QED BY <2>2, <2>3
<1>2. ASSUME Agree(w, s) PROVE Agree(v, s)
  <2>1. Columns(v, s) = Columns(w, s)
    BY Zenon DEF Binding, Columns
  <2>2. \A y \in Sides : v.app[v.st[s].cur[y]].live = w.app[w.st[s].cur[y]].live
    <3>1. v.st[s].cur = w.st[s].cur /\ \A d \in AppDescs : v.app[d].live = w.app[d].live
      BY Zenon DEF Binding, Quiet
    <3> QED BY <3>1, TypesOfWorld
  <2>3. \A y \in Sides : SqlAgrees(v, s, y)
    BY <1>1, <1>2, Zenon DEF Agree
  <2> QED BY <1>2, <2>1, <2>2, <2>3, Zenon DEF Agree, Binding
<1> QED BY <1>1, <1>2

-----------------------------------------------------------------------------
\* From what a call does to its own statement to the whole.

\* The other statements are as they were as far as they are in use.
Elsewhere(w, v, s) ==
  \A t \in Stmts \ {s} :
    /\ Kept(w.st[t], v.st[t])
    /\ w.st[t].live => \A x \in Sides : /\ Good(w, t, x) => Good(v, t, x)
                                        /\ v.app[v.st[t].cur[x]].live

LEMMA KeptAgree ==
  ASSUME NEW w, NEW v, NEW t, Kept(w.st[t], v.st[t]), Agree(w, t),
         w.st[t].live => \A x \in Sides : v.app[v.st[t].cur[x]].live
  PROVE  Agree(v, t)
<1>1. /\ Columns(v, t) = Columns(w, t) /\ Parameters(v, t) = Parameters(w, t)
      /\ v.st[t].ird = w.st[t].ird /\ v.st[t].ipd = w.st[t].ipd
  BY Zenon DEF Kept, Columns, Parameters
<1>2. \A x \in Sides : SqlAgrees(v, t, x)
  BY <1>1 DEF Agree, SqlAgrees, MetaData, ImpRec
<1> QED BY <1>1, <1>2 DEF Agree, Kept

LEMMA ElsewhereSound ==
  ASSUME NEW w, NEW v \in World, NEW s, Sound(w), Elsewhere(w, v, s),
         s \in Stmts => Agree(v, s) /\ \A x \in Sides : Good(v, s, x)
  PROVE  Sound(v)
<1>1. ASSUME NEW t \in Stmts, t # s
      PROVE  Agree(v, t) /\ \A x \in Sides : Good(v, t, x)
  <2>1. Kept(w.st[t], v.st[t]) /\ Agree(w, t) /\ \A x \in Sides : Good(w, t, x)
    BY <1>1 DEF Elsewhere, Sound
  <2>2. w.st[t].live => \A x \in Sides : /\ Good(w, t, x) => Good(v, t, x)
                                         /\ v.app[v.st[t].cur[x]].live
    BY <1>1 DEF Elsewhere
  <2>3. Agree(v, t)
    BY <2>1, <2>2, KeptAgree, Zenon
  <2>4. \A x \in Sides : Described(v, t, x) => w.st[t].live
    BY <2>1 DEF Kept, Agree, Described
  <2> QED BY <2>1, <2>2, <2>3, <2>4 DEF Good
<1> QED BY <1>1 DEF Sound

LEMMA QuietElsewhere ==
  ASSUME NEW w, NEW v, NEW s, NEW X, Sound(w), Quiet(w, v, s, X),
         X \subseteq {s} \X Sides
  PROVE  Elsewhere(w, v, s)
<1> SUFFICES ASSUME NEW t \in Stmts \ {s}
             PROVE  /\ Kept(w.st[t], v.st[t])
                    /\ w.st[t].live => \A x \in Sides : /\ Good(w, t, x) => Good(v, t, x)
                                                        /\ v.app[v.st[t].cur[x]].live
  BY DEF Elsewhere
<1>1. Kept(w.st[t], v.st[t]) /\ \A d \in AppDescs : v.app[d].live = w.app[d].live
  BY DEF Quiet
<1>2. \A x \in Sides : Undisturbed(w, v, t, x)
  <2>1. \A x \in Sides : <<t, x>> \notin X
    OBVIOUS
  <2> QED BY <2>1 DEF Quiet
<1>3. \A x \in Sides : Good(w, t, x) => Good(v, t, x)
  BY <1>2, UndisturbedGood DEF Sound, Quiet
<1>4. w.st[t].live => \A x \in Sides : w.app[w.st[t].cur[x]].live
  BY Zenon DEF Sound, Agree
<1>5. w.st[t].live => \A x \in Sides : v.app[v.st[t].cur[x]].live
  <2>1. \A x \in Sides : w.st[t].cur[x] \in AppDescs
    BY TypesOfWorld DEF Sound
  <2>2. v.st[t].cur = w.st[t].cur
    BY <1>1 DEF Kept
  <2> QED BY <1>1, <1>4, <2>1, <2>2
<1> QED BY <1>1, <1>3, <1>5

LEMMA QuietSound ==
  ASSUME NEW w, NEW v, NEW s \in Stmts, NEW X, Sound(w), Quiet(w, v, s, X),
         X \subseteq {s} \X Sides, Agree(v, s),
         \A x \in Sides : <<s, x>> \in X => Good(v, s, x)
  PROVE  Sound(v)
<1>1. v \in World
  BY DEF Quiet
<1>2. \A x \in Sides : <<s, x>> \notin X => Good(v, s, x)
  BY <1>1, UndisturbedGood DEF Sound, Quiet
<1> QED BY <1>1, <1>2, QuietElsewhere, ElsewhereSound

LEMMA QuietMore ==
  ASSUME NEW w, NEW v, NEW s, NEW X, NEW Y, Quiet(w, v, s, X), X \subseteq Y
  PROVE  Quiet(w, v, s, Y)
BY DEF Quiet

LEMMA QuietSelf ==
  ASSUME NEW w \in World, NEW s, NEW X
  PROVE  Quiet(w, w, s, X)
BY BenignSelf DEF Quiet, Kept, Undisturbed, SameSide

-----------------------------------------------------------------------------
\* Binding what waits.

RowWaits(w, s) ==
  LET d == w.st[s].cur.row
  IN {c \in Cols : /\ c <= w.st[s].ird.count /\ c <= w.app[d].count
                   /\ Waits(w, d, c)}
ParamWaits(w, s) ==
  LET d == w.st[s].cur.param
  IN {p \in Cols \cap DOMAIN Parameters(w, s) :
        p <= w.app[d].count /\ Waits(w, d, p)}
Waiting(w, s, x) == IF x = "row" THEN RowWaits(w, s) ELSE ParamWaits(w, s)
Rebind(w, s, x) == IF x = "row" THEN RebindColumn(w, s) ELSE RebindParam(w, s)

LEMMA RebindIs ==
  ASSUME NEW w \in World, NEW s \in Stmts, NEW x \in Sides
  PROVE  /\ Waiting(w, s, x) \in SUBSET Cols
         /\ IF Waiting(w, s, x) = {} THEN Rebind(w, s, x) = w
            ELSE Binding(w, Rebind(w, s, x), s, x, Waiting(w, s, x))
<1>1. Waiting(w, s, x) \in SUBSET Cols
  BY DEF Waiting, RowWaits, ParamWaits
<1>2. CASE x = "row"
  <2>1. Rebind(w, s, x) = BindOutputColumns(w, s, RowWaits(w, s))
    BY <1>2 DEF Rebind, RebindColumn, RowWaits
  <2>2. CASE RowWaits(w, s) = {}
    <3>1. Rebind(w, s, x) = w
      BY <2>1, <2>2 DEF BindOutputColumns
    <3> QED BY <1>2, <2>2, <3>1 DEF Waiting
  <2>3. CASE RowWaits(w, s) # {}
    BY <1>1, <1>2, <2>1, <2>3, BindOutputIs DEF Waiting
  <2> QED BY <2>2, <2>3
<1>3. CASE x = "param"
  <2>1. Rebind(w, s, x) = BindInputParams(w, s, ParamWaits(w, s))
    BY <1>3 DEF Rebind, RebindParam, ParamWaits
  <2>2. CASE ParamWaits(w, s) = {}
    <3>1. Rebind(w, s, x) = w
      BY <2>1, <2>2 DEF BindInputParams
    <3> QED BY <1>3, <2>2, <3>1 DEF Waiting
  <2>3. CASE ParamWaits(w, s) # {}
    BY <1>1, <1>3, <2>1, <2>3, BindInputIs DEF Waiting
  <2> QED BY <2>2, <2>3
<1> QED BY <1>1, <1>2, <1>3 DEF Sides

\* The row descriptor counts the columns.
Counted(w, s, x) == x = "row" => w.st[s].ird.count = Len(Columns(w, s))

LEMMA WaitingDue ==
  ASSUME NEW w \in World, NEW s \in Stmts, NEW x \in Sides, Counted(w, s, x)
  PROVE  Waiting(w, s, x) = {c \in DueCols(w, s, x) : Waits(w, w.st[s].cur[x], c)}
<1>1. CASE x = "row"
  <2>1. DOMAIN Columns(w, s) = {c \in Cols : c <= w.st[s].ird.count}
    <3>1. /\ DOMAIN Columns(w, s) = 1 .. Len(Columns(w, s))
          /\ Len(Columns(w, s)) \in Nat /\ Len(Columns(w, s)) <= MaxCol
      BY TypesOfShape
    <3>2. w.st[s].ird.count = Len(Columns(w, s))
      BY <1>1 DEF Counted
    <3> QED BY <3>1, <3>2, DescriptorsAssumption DEF Cols
  <2> QED BY <1>1, <2>1, Zenon DEF Waiting, RowWaits, DueCols, MetaData, Waits
<1>2. CASE x = "param"
  BY <1>2, TypesOfShape, Zenon DEF Waiting, ParamWaits, DueCols, MetaData, Waits
<1> QED BY <1>1, <1>2 DEF Sides

\* After a look at what waits everything that is due is in the list.
LEMMA RebindAll ==
  ASSUME NEW w \in World, NEW s \in Stmts, NEW x \in Sides, SqlAgrees(w, s, x),
         SideBut(w, s, x, Waiting(w, s, x)), AllIn(w, s, x, Waiting(w, s, x))
  PROVE  SideOk(Rebind(w, s, x), s, x) /\ AllIn(Rebind(w, s, x), s, x, {})
<1>1. Waiting(w, s, x) \subseteq DueCols(w, s, x)
  BY WaitingDue DEF Counted, SideBut
<1>2. CASE Waiting(w, s, x) = {}
  BY <1>2, RebindIs, SideButNone
<1>3. CASE Waiting(w, s, x) # {}
  BY <1>1, <1>3, RebindIs, BindingSide
<1> QED BY <1>2, <1>3

\* What a look leaves alone in its statement.
Rebound(w, v, s, x) ==
  /\ v \in World /\ Quiet(w, v, s, {<<s, x>>})
  /\ v.st[s].clean[x] <=> w.st[s].clean[x]
  /\ v.st[s].live = w.st[s].live /\ v.st[s].prep = w.st[s].prep
  /\ v.st[s].open = w.st[s].open /\ v.st[s].cur = w.st[s].cur
  /\ v.st[s].numberColumns = w.st[s].numberColumns
  /\ v.st[s].fetching = w.st[s].fetching
  /\ v.st[s].ird.defined = w.st[s].ird.defined
  /\ \A y \in Sides : SqlAgrees(w, s, y) => SqlAgrees(v, s, y)
  /\ Agree(w, s) => Agree(v, s)

LEMMA RebindKeeps ==
  ASSUME NEW w \in World, NEW s \in Stmts, NEW x \in Sides
  PROVE  Rebound(w, Rebind(w, s, x), s, x)
<1> DEFINE v == Rebind(w, s, x)
           C == Waiting(w, s, x)
<1>0. C \in SUBSET Cols /\ IF C = {} THEN v = w ELSE Binding(w, v, s, x, C)
  BY RebindIs
<1> HIDE DEF v, C
<1>1. CASE C = {}
  <2>1. v = w
    BY <1>0, <1>1
  <2> QED BY <2>1, QuietSelf DEF Rebound, v
<1>2. CASE C # {}
  <2>1. Binding(w, v, s, x, C)
    BY <1>0, <1>2
  <2>2. /\ \A y \in Sides : SqlAgrees(w, s, y) => SqlAgrees(v, s, y)
        /\ Agree(w, s) => Agree(v, s)
    BY <1>0, <2>1, BindingAgree
  <2>3. Rebound(w, v, s, x)
    BY <2>1, <2>2, Zenon DEF Binding, Rebound
  <2> QED BY <2>3 DEF v
<1> QED BY <1>1, <1>2

-----------------------------------------------------------------------------
\* Results and columns.

LEMMA ClearDefinedIs ==
  ASSUME NEW imp \in ImpDesc
  PROVE  /\ ClearDefined(imp) \in ImpDesc /\ ClearDefined(imp).count = imp.count
         /\ \A c \in Cols : /\ ClearDefined(imp).rec[c].conv = imp.rec[c].conv
                            /\ ClearDefined(imp).rec[c].sql = "unknown"
<1> DEFINE g(c) == [imp.rec[c] EXCEPT !.sql = "unknown"]
           f == [c \in Cols |-> g(c)]
<1>1. ASSUME NEW c \in Cols
      PROVE  g(c) \in ImpRecord /\ g(c).conv = imp.rec[c].conv /\ g(c).sql = "unknown"
  BY DEF ImpDesc, ImpRecord, SqlNames
<1> HIDE DEF g
<1>2. /\ f \in [Cols -> ImpRecord]
      /\ \A c \in Cols : f[c].conv = imp.rec[c].conv /\ f[c].sql = "unknown"
  BY <1>1
<1>3. ClearDefined(imp) = [imp EXCEPT !.defined = FALSE, !.rec = f]
  BY DEF ClearDefined, f, g
<1> HIDE DEF f
<1> QED BY <1>2, <1>3 DEF ImpDesc

ReleasedResult(w, v, s) ==
  /\ v \in World /\ v.app = w.app /\ Quiet(w, v, s, {<<s, "row">>})
  /\ v.st[s].live = w.st[s].live /\ v.st[s].prep = w.st[s].prep
  /\ v.st[s].open = NoShape /\ v.st[s].cur = w.st[s].cur
  /\ v.st[s].numberColumns = w.st[s].numberColumns
  /\ v.st[s].fetching = w.st[s].fetching
  /\ v.st[s].bind = w.st[s].bind /\ v.st[s].clean = w.st[s].clean
  /\ v.st[s].ird.count = w.st[s].ird.count
  /\ \A c \in Cols :
       /\ v.st[s].ird.rec[c].conv = w.st[s].ird.rec[c].conv
       /\ v.st[s].ird.rec[c].sql \in {"unknown", w.st[s].ird.rec[c].sql}
       /\ v.st[s].ipd.rec[c].sql \in {"unknown", w.st[s].ipd.rec[c].sql}

LEMMA ReleaseResultSetIs ==
  ASSUME NEW w \in World, NEW s \in Stmts
  PROVE  ReleasedResult(w, ReleaseResultSet(w, s), s)
<1>1. CASE w.st[s].open = NoShape
  <2>1. ReleaseResultSet(w, s) = w
    BY <1>1 DEF ReleaseResultSet
  <2> QED BY <1>1, <2>1, QuietSelf DEF ReleasedResult
<1>2. CASE w.st[s].open # NoShape
  <2> DEFINE i == ClearDefined(w.st[s].ird)
             j == ClearDefined(w.st[s].ipd)
             r == [w.st[s] EXCEPT !.open = NoShape, !.ird = i, !.ipd = j]
             v == SetStmt(w, s, r)
  <2>1. w.st[s] \in Statement /\ w.st[s].ird \in ImpDesc /\ w.st[s].ipd \in ImpDesc
    BY DEF World, Statement
  <2>2. i \in ImpDesc /\ j \in ImpDesc /\ i.count = w.st[s].ird.count
    BY <2>1, ClearDefinedIs
  <2>3. \A c \in Cols : /\ i.rec[c].conv = w.st[s].ird.rec[c].conv
                        /\ i.rec[c].sql = "unknown" /\ j.rec[c].sql = "unknown"
    BY <2>1, ClearDefinedIs
  <2>4. ReleaseResultSet(w, s) = v
    BY <1>2 DEF ReleaseResultSet
  <2> HIDE DEF i, j
  <2>5. /\ r \in Statement
        /\ r.live = w.st[s].live /\ r.prep = w.st[s].prep /\ r.open = NoShape
        /\ r.cur = w.st[s].cur /\ r.numberColumns = w.st[s].numberColumns
        /\ r.fetching = w.st[s].fetching /\ r.bind = w.st[s].bind
        /\ r.clean = w.st[s].clean /\ r.ird = i /\ r.ipd = j
    BY <2>1, <2>2 DEF Statement
  <2> HIDE DEF r
  <2>6. SameSide(w.st[s], r, "param")
    BY <2>5 DEF SameSide
  <2>7. Quiet(w, v, s, {<<s, "row">>})
    BY <2>5, <2>6, OwnQuiet DEF Sides
  <2>8. v \in World /\ v.app = w.app /\ v.st[s] = r
    BY <2>5, SetStmtIs DEF OneStmt
  <2> HIDE DEF v
  <2>9. ReleasedResult(w, v, s)
    BY <2>2, <2>3, <2>5, <2>7, <2>8, Zenon DEF ReleasedResult
  <2> QED BY <2>4, <2>9
<1> QED BY <1>1, <1>2

LEMMA SqlFewer ==
  ASSUME NEW w \in World, NEW v, NEW s \in Stmts, NEW x \in Sides,
         SqlAgrees(w, s, x), MetaData(v, s, x) = MetaData(w, s, x),
         \A c \in Cols : ImpRec(v.st[s], x)[c].sql
                           \in {"unknown", ImpRec(w.st[s], x)[c].sql}
  PROVE  SqlAgrees(v, s, x)
BY DueColsIn DEF SqlAgrees

LEMMA ReleasedResultSound ==
  ASSUME NEW w, NEW v, NEW s \in Stmts, Sound(w), ReleasedResult(w, v, s)
  PROVE  /\ Sound(v)
         /\ w.st[s].prep # NoShape => \A x \in Sides : MetaData(v, s, x) = MetaData(w, s, x)
<1>0. /\ w \in World /\ Agree(w, s) /\ Good(w, s, "row")
      /\ v.st[s].prep = w.st[s].prep /\ v.st[s].open = NoShape
  BY Zenon DEF Sound, Sides, ReleasedResult
<1>1. Parameters(v, s) = Parameters(w, s)
  BY <1>0 DEF Parameters
<1>2. w.st[s].prep # NoShape => Columns(v, s) = Columns(w, s)
  BY <1>0 DEF Columns, Agree
<1>3. w.st[s].prep = NoShape => Columns(v, s) = <<>>
  BY <1>0 DEF Columns
<1>4. ASSUME w.st[s].prep # NoShape
      PROVE  \A x \in Sides : MetaData(v, s, x) = MetaData(w, s, x)
  BY <1>1, <1>2, <1>4 DEF MetaData
<1>5. \A x \in Sides : SqlAgrees(v, s, x)
  <2> SUFFICES ASSUME NEW x \in Sides PROVE SqlAgrees(v, s, x)
    OBVIOUS
  <2>1. \A c \in Cols : ImpRec(v.st[s], x)[c].sql
                           \in {"unknown", ImpRec(w.st[s], x)[c].sql}
    BY Zenon DEF ReleasedResult, ImpRec
  <2>2. SqlAgrees(w, s, x)
    BY <1>0 DEF Agree
  <2>3. CASE MetaData(v, s, x) = MetaData(w, s, x)
    BY <1>0, <2>1, <2>2, <2>3, SqlFewer
  <2>4. CASE MetaData(v, s, x) # MetaData(w, s, x)
    <3>1. MetaData(v, s, x) = <<>>
      BY <1>1, <1>3, <1>4, <2>4, Zenon DEF MetaData
    <3> QED BY <3>1 DEF SqlAgrees
  <2> QED BY <2>3, <2>4
<1>6. Agree(v, s)
  <2>1. \A x \in Sides : v.app[v.st[s].cur[x]].live = w.app[w.st[s].cur[x]].live
    BY Zenon DEF ReleasedResult
  <2>2. v.st[s].live = w.st[s].live /\ v.st[s].numberColumns = w.st[s].numberColumns
    BY Zenon DEF ReleasedResult
  <2> QED BY <1>0, <1>2, <1>5, <2>1, <2>2 DEF Agree
<1>7. Good(v, s, "row")
  <2> SUFFICES ASSUME v.st[s].clean.row, Described(v, s, "row")
               PROVE  SideOk(v, s, "row")
    BY DEF Good
  <2>1. w.st[s].prep # NoShape
    BY <1>0 DEF Described
  <2>2. SideOk(w, s, "row")
    BY <1>0, <2>1, Zenon DEF Good, Described, ReleasedResult
  <2>3. Benign(w.app[w.st[s].cur.row], v.app[w.st[s].cur.row])
    BY BenignSelf, Zenon DEF ReleasedResult
  <2>4. MetaData(v, s, "row") = MetaData(w, s, "row")
    BY <1>4, <2>1 DEF Sides
  <2>5. Alike(w, v, s, "row")
    BY <1>0, <2>3, <2>4, Zenon DEF Alike, ReleasedResult, Looks
  <2> QED BY <1>0, <2>2, <2>5, AlikeOk DEF Sides
<1>8. Sound(v)
  <2>1. Quiet(w, v, s, {<<s, "row">>})
    BY Zenon DEF ReleasedResult
  <2>3. {<<s, "row">>} \subseteq {s} \X Sides
    BY DEF Sides
  <2>2. \A x \in Sides : <<s, x>> \in {<<s, "row">>} => Good(v, s, x)
    BY <1>7, Zenon
  <2> QED BY <1>6, <2>1, <2>2, <2>3, QuietSound
<1> QED BY <1>4, <1>8

Released(w, v, s) ==
  /\ v \in World /\ v.app = w.app /\ Quiet(w, v, s, {s} \X Sides)
  /\ v.st[s].live = w.st[s].live /\ v.st[s].cur = w.st[s].cur
  /\ v.st[s].prep = NoShape /\ v.st[s].open = NoShape

LEMMA NoShapeAgree ==
  ASSUME NEW w, NEW v, NEW s \in Stmts, Agree(w, s),
         v.st[s].prep = NoShape, v.st[s].open = NoShape,
         v.st[s].live => w.st[s].live,
         \A x \in Sides : v.app[v.st[s].cur[x]].live = w.app[w.st[s].cur[x]].live
  PROVE  Agree(v, s) /\ \A x \in Sides : Good(v, s, x)
<1>1. \A x \in Sides : MetaData(v, s, x) = <<>>
  BY DEF MetaData, Columns, Parameters
<1>2. \A x \in Sides : SqlAgrees(v, s, x)
  BY <1>1 DEF SqlAgrees
<1> QED BY <1>2 DEF Agree, Good, Described

LEMMA ReleaseStatementIs ==
  ASSUME NEW w \in World, NEW s \in Stmts
  PROVE  /\ Released(w, ReleaseStatement(w, s), s)
         /\ Sound(w) => Sound(ReleaseStatement(w, s))
<1> DEFINE m == ReleaseResultSet(w, s)
           r == [m.st[s] EXCEPT !.prep = NoShape, !.numberColumns = 0]
           v == SetStmt(m, s, r)
<1>1. ReleasedResult(w, m, s)
  BY ReleaseResultSetIs
<1>2. ReleaseStatement(w, s) = v
  BY DEF ReleaseStatement
<1> HIDE DEF m
<1>3. m \in World /\ m.st[s] \in Statement
  BY <1>1, Zenon DEF ReleasedResult, World
<1>4. /\ r \in Statement /\ r.live = m.st[s].live /\ r.prep = NoShape
      /\ r.open = m.st[s].open /\ r.cur = m.st[s].cur
  BY <1>3, Zenon DEF Statement
<1> HIDE DEF r
<1>5. Quiet(m, v, s, {s} \X Sides) /\ OneStmt(m, v, s, r)
  BY <1>3, <1>4, OwnQuiet, SetStmtIs
<1> HIDE DEF v
<1>6. Quiet(w, m, s, {s} \X Sides)
  <2>1. Quiet(w, m, s, {<<s, "row">>})
    BY <1>1, Zenon DEF ReleasedResult
  <2> QED BY <2>1, QuietMore DEF Sides
<1>7. Released(w, v, s)
  BY <1>1, <1>4, <1>5, <1>6, QuietTwice, Zenon DEF Released, ReleasedResult, OneStmt
<1>8. ASSUME Sound(w) PROVE Sound(v)
  <2>1. Agree(v, s) /\ \A x \in Sides : Good(v, s, x)
    BY <1>7, <1>8, NoShapeAgree DEF Released, Sound
  <2> QED BY <1>7, <1>8, <2>1, QuietSound, Zenon DEF Released
<1> QED BY <1>2, <1>7, <1>8

\* No record of the descriptor is marked any more.
Cleared(w, v, d) ==
  /\ v \in World /\ v.st = w.st /\ \A s, X : Quiet(w, v, s, X)
  /\ v.app[d].count = w.app[d].count
  /\ \A c \in Cols : v.app[d].rec[c].defined = w.app[d].rec[c].defined
  /\ \A c \in Cols : ~v.app[d].rec[c].prepared

LEMMA ClearPreparedIs ==
  ASSUME NEW w \in World, NEW d \in AppDescs
  PROVE  Cleared(w, ClearPrepared(w, d), d)
<1> DEFINE g(c) == [w.app[d].rec[c] EXCEPT !.prepared = FALSE]
           f == [c \in Cols |-> g(c)]
           a == [w.app[d] EXCEPT !.rec = f]
           v == SetDesc(w, d, a)
<1>0. w.app[d] \in AppDesc
  BY DEF World
<1>1. ASSUME NEW c \in Cols
      PROVE  /\ g(c) \in AppRecord /\ ~g(c).prepared
             /\ g(c).defined = w.app[d].rec[c].defined
             /\ g(c).type = w.app[d].rec[c].type /\ g(c).conv = w.app[d].rec[c].conv
  BY <1>0 DEF AppDesc, AppRecord
<1>2. ClearPrepared(w, d) = v
  BY DEF ClearPrepared, Unprepared, SetDesc
<1> HIDE DEF g
<1>3. /\ f \in [Cols -> AppRecord]
      /\ \A c \in Cols : /\ ~f[c].prepared
                         /\ f[c].defined = w.app[d].rec[c].defined
                         /\ f[c].type = w.app[d].rec[c].type
                         /\ f[c].conv = w.app[d].rec[c].conv
  BY <1>1
<1> HIDE DEF f
<1>4. /\ a \in AppDesc /\ a.live = w.app[d].live /\ a.count = w.app[d].count
      /\ a.rec = f
  BY <1>0, <1>3 DEF AppDesc
<1> HIDE DEF a
<1>5. Benign(w.app[d], a)
  BY <1>3, <1>4 DEF Benign
<1>6. ASSUME NEW s, NEW X PROVE Quiet(w, v, s, X)
  BY <1>4, <1>5, DescQuiet
<1>7. OneDesc(w, v, d, a)
  BY <1>4, SetDescIs
<1> HIDE DEF v
<1>8. Cleared(w, v, d)
  BY <1>3, <1>4, <1>6, <1>7 DEF Cleared, OneDesc
<1> QED BY <1>2, <1>8

\* The list of a side is empty and everything that is due waits.
Fresh(w, s, x) ==
  /\ Counted(w, s, x) /\ w.st[s].bind[x] = {}
  /\ \A c \in Cols : ~w.app[w.st[s].cur[x]].rec[c].prepared

LEMMA FreshRebind ==
  ASSUME NEW w \in World, NEW s \in Stmts, NEW x \in Sides, SqlAgrees(w, s, x),
         Fresh(w, s, x)
  PROVE  SideOk(Rebind(w, s, x), s, x) /\ AllIn(Rebind(w, s, x), s, x, {})
<1>1. DueCols(w, s, x) \subseteq Waiting(w, s, x)
  <2>1. \A c \in DueCols(w, s, x) : c \in Cols /\ Waits(w, w.st[s].cur[x], c)
    BY DueColsIn, Zenon DEF Fresh, Waits, DueCols
  <2> QED BY <2>1, WaitingDue DEF Fresh
<1>2. SideBut(w, s, x, Waiting(w, s, x)) /\ AllIn(w, s, x, Waiting(w, s, x))
  BY <1>1 DEF SideBut, AllIn, Fresh, Counted
<1> QED BY <1>2, RebindAll, Zenon

\* What sqlPrepare and a catalog call do to the columns.
ColumnsSet(w, v, s) ==
  /\ v \in World /\ Quiet(w, v, s, {<<s, "row">>})
  /\ v.st[s].live = w.st[s].live /\ v.st[s].prep = w.st[s].prep
  /\ v.st[s].open = w.st[s].open /\ v.st[s].cur = w.st[s].cur
  /\ v.st[s].numberColumns = w.st[s].numberColumns
  /\ v.st[s].ird.defined = (Len(Columns(w, s)) > 0)
  /\ SqlAgrees(v, s, "row") /\ (SqlAgrees(w, s, "param") => SqlAgrees(v, s, "param"))
  /\ SideOk(v, s, "row")
  /\ v.st[s].fetching = w.st[s].fetching
  /\ AllIn(v, s, "row", {})

LEMMA FreshImpDescIs ==
  ASSUME NEW b \in BOOLEAN
  PROVE  /\ FreshImpDesc(b) \in ImpDesc /\ FreshImpDesc(b).defined = b
         /\ \A c \in Cols : FreshImpDesc(b).rec[c].sql = "unknown"
<1>1. FreshImp \in ImpRecord /\ FreshImp.sql = "unknown"
  BY DEF FreshImp, ImpRecord, SqlNames, Convs
<1> HIDE DEF FreshImp
<1> QED BY <1>1, DescriptorsAssumption DEF FreshImpDesc, ImpDesc

LEMMA NewColumnsIs ==
  ASSUME NEW w \in World, NEW s \in Stmts
  PROVE  ColumnsSet(w, NewColumns(w, s), s)
<1> DEFINE n == Len(Columns(w, s))
           b == n > 0
           i == [FreshImpDesc(b) EXCEPT !.count = n]
           m == RemoveAll(w, s, "row")
           r == [w.st[s] EXCEPT !.ird = i, !.bind = [row |-> {}, param |-> w.st[s].bind.param]]
           y == SetStmt(w, s, r)
           d == w.st[s].cur.row
           u == ClearPrepared(y, d)
           v == Rebind(u, s, "row")
<1>1. w.st[s] \in Statement /\ d \in AppDescs /\ w.st[s].bind.param \subseteq Bound
  BY DEF World, Statement
<1>2. /\ n \in 0 .. MaxCol /\ b \in BOOLEAN
  BY TypesOfShape, DescriptorsAssumption
<1>3. NewColumns(w, s) = v
  <2> DEFINE e == [w.st[s] EXCEPT !.bind = [@ EXCEPT !["row"] = {}]]
  <2>1. e.bind = [row |-> {}, param |-> w.st[s].bind.param] /\ e \in Statement
        /\ e.open = w.st[s].open /\ e.prep = w.st[s].prep
    BY <1>1 DEF Statement
  <2>2. [e EXCEPT !.ird = i, !.bind = [row |-> {}, param |-> e.bind.param]] = r
    BY <1>1 DEF Statement
  <2>3. m = SetStmt(w, s, e)
    BY DEF RemoveAll
  <2> HIDE DEF e, i
  <2> HIDE DEF m
  <2>0. m = [w EXCEPT !.st[s] = e]
    BY <2>3 DEF SetStmt
  <2>4. m.st[s] = e /\ m.app = w.app
    BY <2>1, <2>3, SetStmtIs DEF OneStmt
  <2>5. Columns(m, s) = Columns(w, s)
    BY <2>1, <2>4 DEF Columns
  <2>6. {[z EXCEPT !.dead = TRUE] : z \in e.bind.row} = {}
    BY <2>1
  <2>7. SetDefaultIrd(m, s) = SetStmt(m, s, r)
    BY <2>2, <2>4, <2>5, <2>6 DEF SetDefaultIrd, i
  <2>8. SetStmt(m, s, r) = y
    BY <2>0 DEF SetStmt, World
  <2>9. y.st[s].cur.row = d
    BY <1>1 DEF SetStmt, World
  <2> HIDE DEF y
  <2> QED BY <2>7, <2>8, <2>9 DEF NewColumns, Rebind, m
<1>4. /\ i \in ImpDesc /\ i.count = n /\ i.defined = b
      /\ \A c \in Cols : i.rec[c].sql = "unknown"
  <2>1. /\ FreshImpDesc(b) \in ImpDesc /\ FreshImpDesc(b).defined = b
        /\ \A c \in Cols : FreshImpDesc(b).rec[c].sql = "unknown"
    BY <1>2, FreshImpDescIs
  <2> QED BY <1>2, <2>1 DEF ImpDesc
<1> HIDE DEF i
<1>5. /\ r \in Statement
      /\ r.live = w.st[s].live /\ r.prep = w.st[s].prep /\ r.open = w.st[s].open
      /\ r.cur = w.st[s].cur /\ r.numberColumns = w.st[s].numberColumns
      /\ r.fetching = w.st[s].fetching /\ r.ird = i /\ r.ipd = w.st[s].ipd
      /\ r.bind.row = {} /\ r.bind.param = w.st[s].bind.param
      /\ r.clean = w.st[s].clean
  BY <1>1, <1>4 DEF Statement
<1> HIDE DEF r, b
<1>6. SameSide(w.st[s], r, "param")
  BY <1>5 DEF SameSide
<1>7. Quiet(w, y, s, {<<s, "row">>}) /\ OneStmt(w, y, s, r)
  BY <1>5, <1>6, OwnQuiet, SetStmtIs, Zenon DEF Sides
<1> HIDE DEF y
<1>8. Cleared(y, u, d)
  BY <1>1, <1>7, ClearPreparedIs DEF OneStmt
<1>9. u \in World /\ u.st = y.st /\ u.st[s] = r /\ Quiet(y, u, s, {<<s, "row">>})
  BY <1>7, <1>8, Zenon DEF Cleared, OneStmt
<1> HIDE DEF u
<1>10. Columns(u, s) = Columns(w, s) /\ Parameters(u, s) = Parameters(w, s)
  BY <1>5, <1>9 DEF Columns, Parameters
<1>11. SqlAgrees(u, s, "row")
  <2>1. \A c \in DOMAIN MetaData(u, s, "row") : c \in Cols
    BY <1>9, DueColsIn DEF Sides
  <2> QED BY <1>4, <1>5, <1>9, <2>1 DEF SqlAgrees, ImpRec
<1>12. SqlAgrees(w, s, "param") => SqlAgrees(u, s, "param")
  BY <1>5, <1>9, <1>10 DEF SqlAgrees, MetaData, ImpRec
<1>13. Fresh(u, s, "row")
  BY <1>4, <1>5, <1>8, <1>9, <1>10, Zenon DEF Fresh, Counted, Cleared
<1>14. SideOk(v, s, "row") /\ AllIn(v, s, "row", {})
  BY <1>9, <1>11, <1>13, FreshRebind DEF Sides
<1>15. Rebound(u, v, s, "row")
  BY <1>9, RebindKeeps DEF Sides
<1> HIDE DEF v
<1>16. Quiet(w, v, s, {<<s, "row">>})
  <2>1. Quiet(u, v, s, {<<s, "row">>})
    BY <1>15 DEF Rebound
  <2> QED BY <1>7, <1>9, <2>1, QuietTwice
<1>17. SqlAgrees(v, s, "row") /\ (SqlAgrees(w, s, "param") => SqlAgrees(v, s, "param"))
  BY <1>11, <1>12, <1>15 DEF Rebound, Sides
<1>18. ColumnsSet(w, v, s)
  BY <1>4, <1>5, <1>9, <1>14, <1>15, <1>16, <1>17 DEF ColumnsSet, Rebound, b
<1> QED BY <1>3, <1>18

-----------------------------------------------------------------------------
\* A record is asked for: SQLBindCol, SQLBindParameter, SQLSetDescField.

LEMMA SpoilSound ==
  ASSUME NEW w, NEW Z, Sound(w)
  PROVE  Sound(Spoil(w, Z))
<1> DEFINE v == Spoil(w, Z)
<1>1. w \in World /\ Spoiled(w, v, Z)
  BY SpoilIs DEF Sound
<1>2. Quiet(w, v, NoStmt, {})
  BY <1>1, SpoilQuiet
<1> HIDE DEF v
<1>3. Elsewhere(w, v, NoStmt)
  BY <1>2, QuietElsewhere
<1>4. Sound(v)
  BY <1>1, <1>3, ElsewhereSound, DescriptorsAssumption DEF Spoiled
<1> QED BY <1>4 DEF v

\* The record c of d is q now, and no side that is still clean sees another one.
Touches(w, v, d, c, q) ==
  /\ v \in World
  /\ \A e \in AppDescs : v.app[e].live = w.app[e].live
  /\ \A e \in AppDescs \ {d} : v.app[e] = w.app[e]
  /\ v.app[d].count = Larger(w.app[d].count, c)
  /\ \A k \in Cols \ {c} : v.app[d].rec[k] = w.app[d].rec[k]
  /\ v.app[d].rec[c] = q
  /\ \A t \in Stmts : Kept(w.st[t], v.st[t]) /\ v.st[t].bind = w.st[t].bind
  /\ \A t \in Stmts, x \in Sides : v.st[t].clean[x] =>
       /\ w.st[t].clean[x]
       /\ w.st[t].cur[x] = d =>
            \A k \in Cols : w.app[d].count < k /\ k <= c => ~w.app[d].rec[k].defined

LEMMA RecordIs ==
  ASSUME NEW w \in World, NEW d \in AppDescs, NEW c \in Cols
  PROVE  GetDescRecord(w, d, c).app[d].rec = w.app[d].rec
<1> DEFINE shown == {k \in Cols : w.app[d].count < k /\ k <= c /\ w.app[d].rec[k].defined}
           m == IF shown = {} THEN w ELSE Spoil(w, UsesDesc(w, d))
<1>1. m \in World /\ m.app = w.app
  BY SpoilIs DEF Spoiled
<1>2. GetDescRecord(w, d, c) = [m EXCEPT !.app[d].count = Larger(@, c)]
  BY DEF GetDescRecord
<1> HIDE DEF m
<1> QED BY <1>1, <1>2 DEF World, AppDesc

LEMMA TouchIs ==
  ASSUME NEW w \in World, NEW d \in AppDescs, NEW c \in Cols, NEW q \in AppRecord
  PROVE  Touches(w, SetRecord(GetDescRecord(w, d, c), d, c, q), d, c, q)
<1> DEFINE shown == {k \in Cols : w.app[d].count < k /\ k <= c /\ w.app[d].rec[k].defined}
           Z == IF shown = {} THEN {} ELSE UsesDesc(w, d)
           m == IF shown = {} THEN w ELSE Spoil(w, UsesDesc(w, d))
           n == Larger(w.app[d].count, c)
           f == [w.app[d].rec EXCEPT ![c] = q]
           a == [[w.app[d] EXCEPT !.count = n] EXCEPT !.rec = f]
           u == GetDescRecord(w, d, c)
           v == SetRecord(u, d, c, q)
<1>1. /\ m \in World /\ m.app = w.app
      /\ \A t \in Stmts : Kept(w.st[t], m.st[t]) /\ m.st[t].bind = w.st[t].bind
      /\ \A t \in Stmts, x \in Sides :
           m.st[t].clean[x] <=> w.st[t].clean[x] /\ <<t, x>> \notin Z
  <2>1. CASE shown = {}
    <3>1. m = w /\ Z = {}
      BY <2>1, Zenon
    <3> QED BY <3>1 DEF Kept
  <2>2. CASE shown # {}
    <3>1. m = Spoil(w, UsesDesc(w, d)) /\ Z = UsesDesc(w, d)
      BY <2>2
    <3>2. Spoiled(w, m, Z)
      BY <3>1, SpoilIs
    <3> QED BY <3>2 DEF Spoiled
  <2> QED BY <2>1, <2>2, Zenon
<1>2. u = [m EXCEPT !.app[d].count = Larger(@, c)]
  BY DEF GetDescRecord
<1> HIDE DEF m, u, Z
<1>3. w.app[d] \in AppDesc
  BY DEF World
<1>4. n \in 0 .. MaxCol
  BY <1>3, DescriptorsAssumption DEF AppDesc, Larger, Cols
<1>5. f \in [Cols -> AppRecord] /\ f[c] = q /\ \A k \in Cols \ {c} : f[k] = w.app[d].rec[k]
  BY <1>3 DEF AppDesc
<1> HIDE DEF n, f
<1>6. /\ a \in AppDesc /\ a.count = n /\ a.rec = f /\ a.live = w.app[d].live
  BY <1>3, <1>4, <1>5 DEF AppDesc
<1>7. v = SetDesc(m, d, a)
  <2>1. u = [m EXCEPT !.app[d] = [w.app[d] EXCEPT !.count = n]]
    BY <1>1, <1>2 DEF n
  <2>2. u.app[d] = [w.app[d] EXCEPT !.count = n] /\ u.app[d].rec = w.app[d].rec
    BY <1>1, <1>3, <2>1 DEF World, AppDesc
  <2>3. v = [u EXCEPT !.app[d] = a]
    <3>1. v = [u EXCEPT !.app[d].rec[c] = q]
      BY DEF SetRecord
    <3> QED BY <2>2, <3>1 DEF f
  <2> HIDE DEF a
  <2>4. m.app \in [AppDescs -> AppDesc] /\ m = [app |-> m.app, st |-> m.st]
    BY <1>1 DEF World
  <2> DEFINE b == [w.app[d] EXCEPT !.count = n]
             g == [m.app EXCEPT ![d] = b]
  <2>5. u = [m EXCEPT !.app = g] /\ [g EXCEPT ![d] = a] = [m.app EXCEPT ![d] = a]
    BY <2>1, <2>4
  <2> HIDE DEF b, g
  <2>6. v = [m EXCEPT !.app = [g EXCEPT ![d] = a]]
    BY <2>3, <2>4, <2>5
  <2> QED BY <2>5, <2>6 DEF SetDesc
<1> HIDE DEF a, v
<1>8. OneDesc(m, v, d, a)
  BY <1>1, <1>6, <1>7, SetDescIs
<1>9. ASSUME NEW t \in Stmts, NEW x \in Sides, v.st[t].clean[x]
      PROVE  /\ w.st[t].clean[x]
             /\ w.st[t].cur[x] = d =>
                  \A k \in Cols : w.app[d].count < k /\ k <= c => ~w.app[d].rec[k].defined
  <2>1. w.st[t].clean[x] /\ <<t, x>> \notin Z
    BY <1>1, <1>8, <1>9 DEF OneDesc
  <2>2. w.st[t].cur[x] = d => <<t, x>> \in UsesDesc(w, d)
    BY DEF UsesDesc
  <2>3. w.st[t].cur[x] = d => shown = {}
    BY <2>1, <2>2 DEF Z
  <2> QED BY <2>1, <2>3
<1>10. Touches(w, v, d, c, q)
  BY <1>1, <1>5, <1>6, <1>8, <1>9 DEF Touches, OneDesc, n
<1> QED BY <1>10, Zenon DEF v, u

LEMMA TouchElse ==
  ASSUME NEW w \in World, NEW v, NEW d, NEW c, NEW q, NEW t \in Stmts, NEW x \in Sides,
         Touches(w, v, d, c, q), w.st[t].cur[x] # d
  PROVE  Undisturbed(w, v, t, x)
<1>1. /\ Kept(w.st[t], v.st[t]) /\ v.st[t].bind = w.st[t].bind
      /\ \A e \in AppDescs \ {d} : v.app[e] = w.app[e]
      /\ v.st[t].clean[x] => w.st[t].clean[x]
  BY DEF Touches
<1>2. SameSide(w.st[t], v.st[t], x)
  BY <1>1 DEF SameSide, Kept
<1>3. v.app[w.st[t].cur[x]] = w.app[w.st[t].cur[x]]
  BY <1>1, TypesOfWorld
<1> QED BY <1>1, <1>2, <1>3, BenignSelf DEF Undisturbed

\* All but the column c of the side is in order, and c waits if it is due.
LEMMA TouchSide ==
  ASSUME NEW w \in World, NEW v, NEW d \in AppDescs, NEW c \in Cols, NEW q \in AppRecord,
         NEW t \in Stmts, NEW x \in Sides,
         Touches(w, v, d, c, q), w.st[t].cur[x] = d, v.st[t].clean[x],
         w.app[d].rec[c].defined => q.defined, ~q.prepared, SideOk(w, t, x)
  PROVE  /\ SideBut(v, t, x, {c})
         /\ c \in DueCols(v, t, x) => Waits(v, d, c)
         /\ (c \in DueCols(v, t, x) => Looks(v, t, x)) => SideOk(v, t, x)
<1>1. /\ v.st[t].cur[x] = d /\ v.st[t].bind[x] = w.st[t].bind[x]
      /\ v.st[t].ird = w.st[t].ird /\ v.st[t].open = w.st[t].open
      /\ v.st[t].prep = w.st[t].prep /\ v.st[t].fetching = w.st[t].fetching
      /\ v.st[t].cur = w.st[t].cur
  BY DEF Touches, Kept
<1>2. /\ v.app[d].count = Larger(w.app[d].count, c) /\ v.app[d].rec[c] = q
      /\ \A k \in Cols \ {c} : v.app[d].rec[k] = w.app[d].rec[k]
      /\ \A k \in Cols : w.app[d].count < k /\ k <= c => ~w.app[d].rec[k].defined
  BY DEF Touches
<1>3. MetaData(v, t, x) = MetaData(w, t, x) /\ Columns(v, t) = Columns(w, t)
  BY <1>1 DEF MetaData, Columns, Parameters
<1>4. DOMAIN MetaData(w, t, x) \subseteq Cols
  BY DueColsIn
<1>5. w.app[d].count \in Nat /\ c \in Nat /\ \A k \in Cols : k \in Nat
  BY DescriptorsAssumption DEF World, AppDesc, Cols
<1>6. \A k \in Cols : /\ k <= w.app[d].count => k <= v.app[d].count
                      /\ k <= v.app[d].count => k <= w.app[d].count \/ (w.app[d].count < k /\ k <= c)
  BY <1>2, <1>5 DEF Larger
<1>7. /\ DueCols(w, t, x) \subseteq DueCols(v, t, x)
      /\ DueCols(v, t, x) \subseteq DueCols(w, t, x) \cup {c}
  <2>1. ASSUME NEW k \in DueCols(w, t, x) PROVE k \in DueCols(v, t, x)
    <3>1. k \in DOMAIN MetaData(w, t, x) /\ k \in Cols /\ k <= w.app[d].count
          /\ w.app[d].rec[k].defined
      BY <1>4 DEF DueCols
    <3>2. v.app[d].rec[k].defined
      BY <1>2, <3>1, Zenon
    <3> QED BY <1>1, <1>3, <1>6, <3>1, <3>2 DEF DueCols
  <2>2. ASSUME NEW k \in DueCols(v, t, x), k # c PROVE k \in DueCols(w, t, x)
    <3>1. k \in DOMAIN MetaData(w, t, x) /\ k \in Cols /\ k <= v.app[d].count
          /\ v.app[d].rec[k].defined
      BY <1>1, <1>3, <1>4 DEF DueCols
    <3>2. w.app[d].rec[k].defined
      BY <1>2, <2>2, <3>1
    <3>3. k <= w.app[d].count
      BY <1>2, <1>6, <3>1, <3>2
    <3> QED BY <3>1, <3>2, <3>3 DEF DueCols
  <2> QED BY <2>1, <2>2
<1>8. ASSUME NEW k \in DueCols(v, t, x) \ {c}
      PROVE  InList(v, t, x, k) \/ (Waits(v, d, k) /\ Looks(v, t, x))
  <2>1. k \in DueCols(w, t, x) /\ k \in Cols /\ v.app[d].rec[k] = w.app[d].rec[k]
    BY <1>2, <1>4, <1>7, Zenon DEF DueCols
  <2>2. Looks(w, t, x) => Looks(v, t, x)
    BY <1>1, Zenon DEF Looks
  <2>3. Conv(v, t, x, k) = Conv(w, t, x, k)
    <3>1. x = "param" => v.st[t].cur.param = d
      BY <1>1
    <3> QED BY <1>1, <2>1, <3>1 DEF Conv, Sides
  <2>4. InList(w, t, x, k) => InList(v, t, x, k)
    BY <1>1, <1>3, <2>1, <2>3 DEF InList
  <2> QED BY <2>1, <2>2, <2>4 DEF SideOk, Waits
<1>9. SideBut(v, t, x, {c})
  <2>1. x = "row" => v.st[t].ird.count = Len(Columns(v, t))
    BY <1>1, <1>3 DEF SideOk
  <2>2. \A e \in v.st[t].bind[x] : e.col \in DueCols(v, t, x) /\ e = Entry(e.col, d)
    BY <1>1, <1>7 DEF SideOk
  <2> QED BY <1>1, <1>8, <2>1, <2>2 DEF SideBut
<1>10. c \in DueCols(v, t, x) => Waits(v, d, c)
  BY <1>1, <1>2 DEF DueCols, Waits
<1>11. ASSUME c \in DueCols(v, t, x) => Looks(v, t, x)
       PROVE  SideOk(v, t, x)
  BY <1>1, <1>9, <1>10, <1>11 DEF SideBut, SideOk
<1> QED BY <1>9, <1>10, <1>11

LEMMA BecomesSound ==
  ASSUME NEW w, Sound(w), app' = w.app, st' = w.st
  PROVE  IInv'
<1>1. w = [app |-> w.app, st |-> w.st]
  BY DEF Sound, World
<1> QED BY <1>1 DEF IInv, Now

AsksOf(n, v, s, x, c) ==
  LET d == n.st[s].cur[x]
  IN /\ v \in World /\ Quiet(n, v, s, {<<s, x>>}) /\ Agree(v, s)
     /\ Kept(n.st[s], v.st[s])
     /\ v.app[d].rec[c].defined /\ c <= v.app[d].count
     /\ v.st[s].clean[x] /\ Described(v, s, x) =>
          /\ SideBut(v, s, x, {c})
          /\ (c \in DueCols(v, s, x) => Looks(v, s, x)) => SideOk(v, s, x)

\* SQLBindCol and SQLBindParameter, up to the point where they differ.
AskedFor(n, s, x, c, type) ==
  LET d == n.st[s].cur[x]
      w == GetDescRecord(SpoilOthers(n, s, x, d), d, c)
  IN SetRecord(w, d, c, Asked(w.app[d].rec[c], type))

LEMMA AskIs ==
  ASSUME NEW n, Sound(n), NEW s \in Stmts, NEW x \in Sides, NEW c \in Cols,
         NEW type \in CTypes
  PROVE  AsksOf(n, AskedFor(n, s, x, c, type), s, x, c)
<1> DEFINE d == n.st[s].cur[x]
           v == AskedFor(n, s, x, c, type)
           Z == UsesDesc(n, d) \ {<<s, x>>}
           m == Spoil(n, Z)
           q == Asked(m.app[d].rec[c], type)
<1>1. n \in World /\ d \in AppDescs
  BY TypesOfWorld DEF Sound
<1>2. /\ Spoiled(n, m, Z) /\ Sound(m) /\ Quiet(n, m, s, {<<s, x>>})
      /\ Alone(m, {<<s, x>>}, d)
  BY <1>1, SpoilIs, SpoilSound, SpoilQuiet, SpoiledAlone
<1>3. v = LET w == GetDescRecord(m, d, c)
           IN SetRecord(w, d, c, Asked(w.app[d].rec[c], type))
  BY Zenon DEF SpoilOthers, AskedFor
<1> HIDE DEF m, v
<1>4. m \in World /\ m.app[d].rec[c] \in AppRecord /\ m.st[s].cur[x] = d
  <2>1. m \in World /\ Kept(n.st[s], m.st[s])
    BY <1>2 DEF Spoiled
  <2>2. m.app[d] \in AppDesc /\ m.st[s].cur[x] = d
    BY <1>1, <2>1 DEF World, Kept
  <2> QED BY <2>1, <2>2 DEF AppDesc
<1>5. q \in AppRecord /\ q.defined /\ ~q.prepared
  BY <1>4, Zenon DEF Asked, AppRecord, TypeNames
<1>6. v = SetRecord(GetDescRecord(m, d, c), d, c, q)
  BY <1>1, <1>3, <1>4, RecordIs, Zenon
<1> HIDE DEF q
<1>7. Touches(m, v, d, c, q)
  BY <1>1, <1>4, <1>5, <1>6, TouchIs
<1>8. ASSUME NEW t \in Stmts, NEW y \in Sides, <<t, y>> \notin {<<s, x>>}
      PROVE  Undisturbed(m, v, t, y)
  <2>1. CASE v.st[t].clean[y]
    <3>1. m.st[t].clean[y]
      BY <1>7, <2>1, Zenon DEF Touches
    <3>2. m.st[t].cur[y] # d
      BY <1>2, <1>8, <3>1, Uses, Zenon DEF Alone
    <3> QED BY <1>4, <1>7, <3>2, TouchElse
  <2>2. CASE ~v.st[t].clean[y]
    BY <2>2 DEF Undisturbed
  <2> QED BY <2>1, <2>2
<1>9. Quiet(m, v, s, {<<s, x>>})
  BY <1>7, <1>8, Zenon DEF Quiet, Touches
<1>10. Quiet(n, v, s, {<<s, x>>})
  BY <1>1, <1>2, <1>9, QuietTwice
<1>11. Kept(m.st[s], v.st[s]) /\ Kept(n.st[s], m.st[s]) /\ v \in World
  BY <1>2, <1>7, Zenon DEF Touches, Spoiled
<1>12. Agree(v, s)
  <2>1. m.st[s].live => \A y \in Sides : v.app[v.st[s].cur[y]].live
    <3>1. m.st[s].live => \A y \in Sides : m.app[m.st[s].cur[y]].live
      BY <1>2 DEF Sound, Agree
    <3>2. \A e \in AppDescs : v.app[e].live = m.app[e].live
      BY <1>7, Zenon DEF Touches
    <3>3. v.st[s].cur = m.st[s].cur /\ \A y \in Sides : m.st[s].cur[y] \in AppDescs
      BY <1>4, <1>11, TypesOfWorld, Zenon DEF Kept
    <3> QED BY <3>1, <3>2, <3>3, Zenon
  <2>2. Agree(m, s)
    BY <1>2 DEF Sound
  <2> QED BY <1>11, <2>1, <2>2, KeptAgree
<1>13. v.app[d].rec[c].defined /\ c <= v.app[d].count
  <2>1. m.app[d].count \in Nat /\ c \in Nat
    <3>1. m.app[d] \in AppDesc
      BY <1>1, <1>4, Zenon DEF World
    <3>2. m.app[d].count \in 0 .. MaxCol
      BY <3>1 DEF AppDesc
    <3> QED BY <3>2 DEF Cols
  <2>2. v.app[d].rec[c] = q /\ v.app[d].count = Larger(m.app[d].count, c)
    BY <1>7, Zenon DEF Touches
  <2>3. c <= Larger(m.app[d].count, c)
    BY <2>1 DEF Larger
  <2>4. q.defined
    BY <1>5
  <2> QED BY <2>2, <2>3, <2>4, Zenon
<1>14. ASSUME v.st[s].clean[x], Described(v, s, x)
       PROVE  /\ SideBut(v, s, x, {c})
              /\ (c \in DueCols(v, s, x) => Looks(v, s, x)) => SideOk(v, s, x)
  <2>1. m.st[s].clean[x] /\ Described(m, s, x)
    <3>1. m.st[s].clean[x]
      BY <1>7, <1>14, Zenon DEF Touches
    <3> QED BY <1>11, <1>14, <3>1 DEF Kept, Described
  <2>2. SideOk(m, s, x)
    BY <1>2, <2>1 DEF Sound, Good
  <2> QED BY <1>1, <1>4, <1>5, <1>7, <1>14, <2>2, TouchSide, Zenon
<1>15. Kept(n.st[s], v.st[s])
  BY <1>11 DEF Kept
<1>16. AsksOf(n, v, s, x, c)
  BY <1>10, <1>11, <1>12, <1>13, <1>14, <1>15, Zenon DEF AsksOf
<1> QED BY <1>16 DEF v

LEMMA BindColSound ==
  ASSUME IInv, NEW s \in Stmts, NEW c \in Cols, NEW type \in CTypes, BindCol(s, c, type)
  PROVE  IInv'
<1> DEFINE n == Now
           d == n.st[s].cur.row
           v == AskedFor(n, s, "row", c, type)
           u == BindOutputColumns(v, s, {c})
           i == n.st[s].ird
<1>1. Sound(n) /\ n \in World
  BY DEF IInv, Sound
<1>2. AsksOf(n, v, s, "row", c)
  BY <1>1, AskIs DEF Sides
<1>3. IF i.defined /\ c <= i.count THEN app' = u.app /\ st' = u.st
      ELSE app' = v.app /\ st' = v.st
  BY Zenon DEF BindCol, Becomes, Now, AskedFor
<1> HIDE DEF n, v
<1>4. /\ v \in World /\ Agree(v, s) /\ v.st[s].ird = i /\ v.st[s].cur.row = d
      /\ Quiet(n, v, s, {<<s, "row">>})
  BY <1>2, Zenon DEF AsksOf, Kept
<1>5. Len(Columns(v, s)) \in Nat /\ c \in Nat /\ c >= 1
      /\ DOMAIN Columns(v, s) = 1 .. Len(Columns(v, s))
  BY <1>4, TypesOfShape, DescriptorsAssumption DEF Cols
<1>6. CASE ~(i.defined /\ c <= i.count)
  <2>1. ASSUME v.st[s].clean.row, Described(v, s, "row") PROVE SideOk(v, s, "row")
    <3>1. ASSUME c \in DueCols(v, s, "row") PROVE Looks(v, s, "row")
      <4>1. c \in DOMAIN Columns(v, s)
        BY <3>1 DEF DueCols, MetaData
      <4>2. i.count = Len(Columns(v, s))
        BY <1>2, <1>4, <2>1, Zenon DEF AsksOf, SideBut
      <4>3. ~i.defined /\ Columns(v, s) # <<>>
        BY <1>5, <1>6, <4>1, <4>2
      <4>4. v.st[s].open = NoShape
        BY <1>4, <4>3 DEF Agree
      <4> QED BY <4>4, Zenon DEF Looks
    <3> QED BY <1>2, <2>1, <3>1, Zenon DEF AsksOf
  <2>2. Good(v, s, "row")
    BY <2>1 DEF Good
  <2>3. Sound(v)
    <3>1. {<<s, "row">>} \subseteq {s} \X Sides
      BY DEF Sides
    <3> QED BY <1>1, <1>4, <2>2, <3>1, QuietSound
  <2> QED BY <1>3, <1>6, <2>3, BecomesSound
<1>7. CASE i.defined /\ c <= i.count
  <2>1. Binding(v, u, s, "row", {c})
    BY <1>4, BindOutputIs
  <2> HIDE DEF u
  <2>2. Agree(u, s)
    BY <1>4, <2>1, BindingAgree DEF Sides
  <2>3. ASSUME u.st[s].clean.row, Described(u, s, "row") PROVE SideOk(u, s, "row")
    <3>1. v.st[s].clean.row /\ Described(v, s, "row")
      BY <2>1, <2>3, Zenon DEF Binding, Described
    <3>2. SideBut(v, s, "row", {c})
      BY <1>2, <3>1, Zenon DEF AsksOf
    <3>3. c \in DueCols(v, s, "row")
      <4>1. c \in DOMAIN Columns(v, s)
        BY <1>4, <1>5, <1>7, <3>2 DEF SideBut
      <4> QED BY <1>2, <1>4, <4>1, Zenon DEF AsksOf, DueCols, MetaData
    <3>4. SqlAgrees(v, s, "row")
      BY <1>4 DEF Agree, Sides
    <3> QED BY <1>4, <2>1, <3>2, <3>3, <3>4, BindingSide DEF Sides
  <2>4. Good(u, s, "row")
    BY <2>3 DEF Good
  <2>5. Quiet(n, u, s, {<<s, "row">>})
    <3>1. Quiet(v, u, s, {<<s, "row">>})
      BY <2>1, Zenon DEF Binding
    <3> QED BY <1>1, <1>4, <3>1, QuietTwice
  <2>6. Sound(u)
    <3>1. {<<s, "row">>} \subseteq {s} \X Sides
      BY DEF Sides
    <3> QED BY <1>1, <2>2, <2>4, <2>5, <3>1, QuietSound
  <2> QED BY <1>3, <1>7, <2>6, BecomesSound
<1> QED BY <1>6, <1>7

LEMMA BindParameterSound ==
  ASSUME IInv, NEW s \in Stmts, NEW c \in Cols, NEW type \in CTypes,
         BindParameter(s, c, type)
  PROVE  IInv'
<1> DEFINE n == Now
           d == n.st[s].cur.param
           v == AskedFor(n, s, "param", c, type)
           imp == [n.st[s].ipd.rec[c] EXCEPT !.sql = "unknown"]
           r == [v.st[s] EXCEPT !.ipd.defined = FALSE, !.ipd.count = Larger(@, c),
                                !.ipd.rec[c] = imp]
           u == SetStmt(v, s, r)
<1>1. Sound(n) /\ n \in World
  BY DEF IInv, Sound
<1>2. AsksOf(n, v, s, "param", c)
  BY <1>1, AskIs DEF Sides
<1>3. app' = u.app /\ st' = u.st
  BY Zenon DEF BindParameter, Becomes, Now, AskedFor
<1>0. n.st[s].ipd.rec[c] \in ImpRecord
  BY <1>1 DEF World, Statement, ImpDesc
<1> HIDE DEF n, v
<1>4. imp \in ImpRecord /\ imp.sql = "unknown"
  BY <1>0 DEF ImpRecord, SqlNames
<1> HIDE DEF imp
<1>5. Sound(v)
  <2>1. v.st[s].clean.param /\ Described(v, s, "param") => SideOk(v, s, "param")
    BY <1>2, Zenon DEF AsksOf, Looks
  <2>2. Good(v, s, "param") /\ Agree(v, s) /\ Quiet(n, v, s, {<<s, "param">>})
    BY <1>2, <2>1, Zenon DEF Good, AsksOf
  <2>3. {<<s, "param">>} \subseteq {s} \X Sides
    BY DEF Sides
  <2> QED BY <1>1, <2>2, <2>3, QuietSound
<1>6. v.st[s] \in Statement /\ v.st[s].ipd \in ImpDesc /\ v.st[s].ipd.count \in 0 .. MaxCol
  BY <1>5 DEF Sound, World, Statement, ImpDesc
<1>7. Larger(v.st[s].ipd.count, c) \in 0 .. MaxCol
  BY <1>6, DescriptorsAssumption DEF Larger, Cols
<1>8. /\ r \in Statement /\ r.live = v.st[s].live /\ r.prep = v.st[s].prep
      /\ r.open = v.st[s].open /\ r.numberColumns = v.st[s].numberColumns
      /\ r.fetching = v.st[s].fetching /\ r.cur = v.st[s].cur /\ r.ird = v.st[s].ird
      /\ r.bind = v.st[s].bind /\ r.clean = v.st[s].clean
      /\ r.ipd.rec = [v.st[s].ipd.rec EXCEPT ![c] = imp]
  BY <1>4, <1>6, <1>7 DEF Statement, ImpDesc
<1> HIDE DEF r
<1>9. \A x \in Sides : SameSide(v.st[s], r, x)
  BY <1>8 DEF SameSide
<1>10. Quiet(v, u, s, {}) /\ OneStmt(v, u, s, r)
  BY <1>5, <1>8, <1>9, OwnQuiet, SetStmtIs DEF Sound
<1> HIDE DEF u
<1>11. Agree(u, s)
  <2>1. Columns(u, s) = Columns(v, s) /\ Parameters(u, s) = Parameters(v, s)
    BY <1>8, <1>10 DEF OneStmt, Columns, Parameters
  <2>2. Agree(v, s) /\ v \in World
    BY <1>5, Zenon DEF Sound
  <2>3. \A k \in Cols : u.st[s].ipd.rec[k].sql \in {"unknown", v.st[s].ipd.rec[k].sql}
    BY <1>4, <1>6, <1>8, <1>10 DEF OneStmt, ImpDesc
  <2>4. u.st[s].ird = v.st[s].ird
    BY <1>8, <1>10 DEF OneStmt
  <2>5. \A x \in Sides : SqlAgrees(u, s, x)
    <3> SUFFICES ASSUME NEW x \in Sides PROVE SqlAgrees(u, s, x)
      OBVIOUS
    <3>1. SqlAgrees(v, s, x) /\ MetaData(u, s, x) = MetaData(v, s, x)
      BY <2>1, <2>2 DEF Agree, MetaData
    <3>2. \A k \in Cols : ImpRec(u.st[s], x)[k].sql
                             \in {"unknown", ImpRec(v.st[s], x)[k].sql}
      BY <2>3, <2>4, Zenon DEF ImpRec
    <3> QED BY <2>2, <3>1, <3>2, SqlFewer
  <2>6. u.app = v.app
    BY <1>10 DEF OneStmt
  <2> QED BY <1>8, <1>10, <2>1, <2>2, <2>5, <2>6 DEF Agree, OneStmt
<1>12. Sound(u)
  BY <1>5, <1>10, <1>11, QuietSound
<1> QED BY <1>3, <1>12, BecomesSound

\* A record changed through its descriptor: what is due of it waits, and nobody
\* who would not look again has been left clean.
LEMMA TouchSound ==
  ASSUME NEW m, Sound(m), NEW v, NEW d \in AppDescs, NEW c \in Cols, NEW q \in AppRecord,
         Touches(m, v, d, c, q), m.app[d].rec[c].defined => q.defined,
         \A t \in Stmts, x \in Sides : m.st[t].clean[x] /\ m.st[t].cur[x] = d =>
            ~q.prepared /\ (x = "row" => ~m.st[t].fetching)
  PROVE  Sound(v)
<1>1. v \in World /\ m \in World
  BY DEF Touches, Sound
<1>2. ASSUME NEW t \in Stmts, NEW x \in Sides PROVE Good(v, t, x)
  <2> SUFFICES ASSUME v.st[t].clean[x], Described(v, t, x) PROVE SideOk(v, t, x)
    BY DEF Good
  <2>1. CASE m.st[t].cur[x] # d
    <3>1. Undisturbed(m, v, t, x) /\ Good(m, t, x)
      BY <1>1, <2>1, TouchElse DEF Sound
    <3>2. Good(v, t, x)
      BY <1>1, <3>1, UndisturbedGood
    <3> QED BY <3>2 DEF Good
  <2>2. CASE m.st[t].cur[x] = d
    <3>1. Kept(m.st[t], v.st[t]) /\ m.st[t].clean[x]
      BY DEF Touches
    <3>2. SideOk(m, t, x)
      BY <3>1 DEF Sound, Good, Kept, Described
    <3>3. ~q.prepared /\ (x = "row" => ~m.st[t].fetching)
      BY <2>2, <3>1
    <3>4. Looks(v, t, x)
      BY <3>1, <3>3 DEF Looks, Kept, Sides
    <3> QED BY <1>1, <2>2, <3>2, <3>3, <3>4, TouchSide
  <2> QED BY <2>1, <2>2
<1>3. ASSUME NEW t \in Stmts
      PROVE  /\ Kept(m.st[t], v.st[t])
             /\ m.st[t].live => \A x \in Sides : v.app[v.st[t].cur[x]].live
  <2>1. Kept(m.st[t], v.st[t]) /\ \A e \in AppDescs : v.app[e].live = m.app[e].live
    BY DEF Touches
  <2>2. m.st[t].live => \A x \in Sides : m.app[m.st[t].cur[x]].live
    BY DEF Sound, Agree
  <2>3. v.st[t].cur = m.st[t].cur /\ \A x \in Sides : m.st[t].cur[x] \in AppDescs
    BY <1>1, <2>1, TypesOfWorld DEF Kept
  <2> QED BY <2>1, <2>2, <2>3
<1>4. Elsewhere(m, v, NoStmt)
  BY <1>2, <1>3 DEF Elsewhere
<1> QED BY <1>1, <1>4, ElsewhereSound, DescriptorsAssumption

LEMMA DataPtrSound ==
  ASSUME IInv, NEW d \in AppDescs, NEW c \in Cols, SetDescFieldDataPtr(d, c)
  PROVE  IInv'
<1> DEFINE n == Now
           late == {z \in UsesDesc(n, d) : z[2] = "row" /\ n.st[z[1]].fetching}
           m == Spoil(n, late)
           q == [m.app[d].rec[c] EXCEPT !.defined = TRUE, !.prepared = FALSE]
           v == SetRecord(GetDescRecord(m, d, c), d, c, q)
<1>1. Sound(n) /\ n \in World
  BY DEF IInv, Sound
<1>2. Spoiled(n, m, late) /\ Sound(m)
  BY <1>1, SpoilIs, SpoilSound
<1>3. app' = v.app /\ st' = v.st
  <2> DEFINE w == GetDescRecord(m, d, c)
  <2>1. w.app[d].rec = m.app[d].rec
    BY <1>2, RecordIs DEF Sound
  <2>2. app' = SetDataPtr(w, d, c).app /\ st' = SetDataPtr(w, d, c).st
    BY DEF SetDescFieldDataPtr, Becomes, Now
  <2> HIDE DEF w, m
  <2>3. SetDataPtr(w, d, c) = SetRecord(w, d, c, q)
    BY <2>1 DEF SetDataPtr
  <2> QED BY <2>2, <2>3, Zenon DEF w
<1> HIDE DEF m, n
<1>4. m \in World /\ m.app[d] \in AppDesc
  BY <1>2 DEF Sound, World
<1>5. m.app[d].rec[c] \in AppRecord
  BY <1>4 DEF AppDesc
<1>6. q \in AppRecord /\ q.defined /\ ~q.prepared
  BY <1>5 DEF AppRecord
<1> HIDE DEF q
<1>7. Touches(m, v, d, c, q)
  BY <1>4, <1>6, TouchIs
<1>8. ASSUME NEW t \in Stmts, NEW x \in Sides, m.st[t].clean[x], m.st[t].cur[x] = d
      PROVE  x = "row" => ~m.st[t].fetching
  <2>1. <<t, x>> \notin late /\ Kept(n.st[t], m.st[t])
    BY <1>2, <1>8 DEF Spoiled
  <2>2. <<t, x>> \in UsesDesc(n, d)
    BY <1>8, <2>1 DEF UsesDesc, Kept
  <2> QED BY <2>1, <2>2 DEF Kept
<1> HIDE DEF v
<1>9. Sound(v)
  BY <1>2, <1>6, <1>7, <1>8, TouchSound
<1> QED BY <1>3, <1>9, BecomesSound

LEMMA TypeSound ==
  ASSUME IInv, NEW d \in AppDescs, NEW c \in Cols, NEW type \in CTypes,
         SetDescFieldType(d, c, type)
  PROVE  IInv'
<1> DEFINE n == Now
           late == {z \in UsesDesc(n, d) : \/ n.app[d].rec[c].prepared
                                           \/ z[2] = "row" /\ n.st[z[1]].fetching}
           m == Spoil(n, late)
           q == [m.app[d].rec[c] EXCEPT !.type = type]
           v == SetRecord(GetDescRecord(m, d, c), d, c, q)
<1>1. Sound(n) /\ n \in World
  BY DEF IInv, Sound
<1>2. Spoiled(n, m, late) /\ Sound(m)
  BY <1>1, SpoilIs, SpoilSound
<1>3. app' = v.app /\ st' = v.st
  <2> DEFINE w == GetDescRecord(m, d, c)
  <2>1. w.app[d].rec = m.app[d].rec
    BY <1>2, RecordIs, Zenon DEF Sound
  <2> DEFINE y == SetRecord(w, d, c, [w.app[d].rec[c] EXCEPT !.type = type])
  <2>2. app' = y.app /\ st' = y.st
    BY Zenon DEF SetDescFieldType, Becomes, Now
  <2> HIDE DEF w, m
  <2>3. y = SetRecord(w, d, c, q)
    BY <2>1
  <2> QED BY <2>2, <2>3 DEF w
<1> HIDE DEF m, n
<1>4. m \in World /\ m.app[d] \in AppDesc /\ m.app = n.app
  BY <1>2 DEF Sound, World, Spoiled
<1>5. m.app[d].rec[c] \in AppRecord
  BY <1>4 DEF AppDesc
<1>6. /\ q \in AppRecord /\ q.defined = m.app[d].rec[c].defined
      /\ q.prepared = n.app[d].rec[c].prepared
  BY <1>4, <1>5 DEF AppRecord, TypeNames
<1> HIDE DEF q
<1>7. Touches(m, v, d, c, q)
  BY <1>4, <1>6, TouchIs
<1>8. ASSUME NEW t \in Stmts, NEW x \in Sides, m.st[t].clean[x], m.st[t].cur[x] = d
      PROVE  ~q.prepared /\ (x = "row" => ~m.st[t].fetching)
  <2>1. <<t, x>> \notin late /\ Kept(n.st[t], m.st[t])
    BY <1>2, <1>8 DEF Spoiled
  <2>2. <<t, x>> \in UsesDesc(n, d)
    BY <1>8, <2>1 DEF UsesDesc, Kept
  <2> QED BY <1>6, <2>1, <2>2 DEF Kept
<1> HIDE DEF v
<1>9. Sound(v)
  BY <1>2, <1>6, <1>7, <1>8, TouchSound
<1> QED BY <1>3, <1>9, BecomesSound

-----------------------------------------------------------------------------
\* Removing what is bound.

LEMMA AloneStays ==
  ASSUME NEW w, NEW v, NEW X, NEW d, Alone(w, X, d),
         \A t \in Stmts, x \in Sides : <<t, x>> \notin X => Undisturbed(w, v, t, x)
  PROVE  Alone(v, X, d)
<1> SUFFICES ASSUME NEW t \in Stmts, NEW x \in Sides, <<t, x>> \notin X, v.st[t].clean[x]
             PROVE  <<t, x>> \notin UsesDesc(v, d)
  BY DEF Alone
<1>1. w.st[t].clean[x] /\ SameSide(w.st[t], v.st[t], x)
  BY DEF Undisturbed
<1>2. <<t, x>> \notin UsesDesc(w, d)
  BY <1>1 DEF Alone
<1> QED BY <1>1, <1>2 DEF UsesDesc, SameSide

Emptied(w, v, s, x) ==
  LET d == w.st[s].cur[x]
  IN /\ v \in World /\ Quiet(w, v, s, {<<s, x>>}) /\ Kept(w.st[s], v.st[s])
     /\ v.st[s].clean[x] => w.st[s].clean[x]
     /\ v.st[s].bind[x] = {} /\ v.app[d].count = 0
     /\ Alone(v, {<<s, x>>}, d)

Empty(w, s, x) ==
  LET d == w.st[s].cur[x]
  IN RemoveAll(RemoveRecords(SpoilOthers(w, s, x, d), d), s, x)

LEMMA EmptyIs ==
  ASSUME NEW w \in World, NEW s \in Stmts, NEW x \in Sides
  PROVE  Emptied(w, Empty(w, s, x), s, x)
<1> DEFINE d == w.st[s].cur[x]
           Z == UsesDesc(w, d) \ {<<s, x>>}
           m == Spoil(w, Z)
           k == RemoveRecords(m, d)
           B == [k.st[s].bind EXCEPT ![x] = {}]
           r == [k.st[s] EXCEPT !.bind = B]
           v == SetStmt(k, s, r)
<1>0. d \in AppDescs
  BY TypesOfWorld
<1>1. Spoiled(w, m, Z) /\ Quiet(w, m, s, {<<s, x>>}) /\ Alone(m, {<<s, x>>}, d)
  BY SpoilIs, SpoilQuiet, SpoiledAlone
<1>2. Empty(w, s, x) = v
  BY DEF Empty, SpoilOthers, RemoveAll
<1> HIDE DEF m
<1>3. m \in World
  BY <1>1 DEF Spoiled
<1>4. Removed(m, k, d) /\ Quiet(m, k, s, {<<s, x>>})
  BY <1>0, <1>1, <1>3, RemoveRecordsIs, RemoveRecordsQuiet
<1> HIDE DEF k
<1>5. k \in World /\ Kept(m.st[s], k.st[s]) /\ k.st[s].clean = m.st[s].clean /\ k.app[d].count = 0
  <2>1. [FreshApp EXCEPT !.live = m.app[d].live].count = 0
    BY DEF FreshApp
  <2> QED BY <1>4, <2>1 DEF Removed
<1>6. k.st[s] \in Statement
  BY <1>5 DEF World
<1>7. /\ B \in [row : SUBSET Bound, param : SUBSET Bound] /\ B[x] = {}
      /\ \A y \in Sides \ {x} : B[y] = k.st[s].bind[y]
  BY <1>6 DEF Statement, Sides
<1> HIDE DEF B
<1>8. /\ r \in Statement /\ r.bind = B /\ Kept(k.st[s], r) /\ r.clean = k.st[s].clean
  BY <1>6, <1>7 DEF Statement, Kept
<1> HIDE DEF r
<1>9. \A y \in Sides : <<s, y>> \notin {<<s, x>>} /\ r.clean[y] =>
         k.st[s].clean[y] /\ SameSide(k.st[s], r, y)
  BY <1>7, <1>8 DEF SameSide, Kept
<1>10. Quiet(k, v, s, {<<s, x>>}) /\ OneStmt(k, v, s, r)
  BY <1>5, <1>8, <1>9, OwnQuiet, SetStmtIs
<1> HIDE DEF v
<1>11. v \in World /\ v.st[s] = r /\ v.app = k.app
  BY <1>10 DEF OneStmt
<1>12. Quiet(w, v, s, {<<s, x>>})
  BY <1>1, <1>4, <1>10, QuietTwice, Zenon
<1>13. Kept(w.st[s], v.st[s]) /\ (v.st[s].clean[x] => w.st[s].clean[x])
  BY <1>1, <1>5, <1>8, <1>11 DEF Spoiled, Kept
<1>14. Alone(v, {<<s, x>>}, d)
  <2>1. Quiet(m, v, s, {<<s, x>>})
    BY <1>3, <1>4, <1>10, QuietTwice
  <2> QED BY <1>1, <2>1, AloneStays DEF Quiet
<1>15. Emptied(w, v, s, x)
  BY <1>5, <1>7, <1>8, <1>11, <1>12, <1>13, <1>14, Zenon DEF Emptied
<1> QED BY <1>2, <1>15

LEMMA EmptyOk ==
  ASSUME NEW w \in World, NEW s \in Stmts, NEW x \in Sides, Counted(w, s, x),
         w.st[s].bind[x] = {}, w.app[w.st[s].cur[x]].count = 0
  PROVE  SideOk(w, s, x)
<1>1. \A c \in DOMAIN MetaData(w, s, x) : ~(c <= 0)
  BY DueColsIn, DescriptorsAssumption DEF Cols
<1>2. DueCols(w, s, x) = {}
  BY <1>1 DEF DueCols
<1> QED BY <1>2 DEF SideOk, Counted

\* SQLFreeStmt(SQL_UNBIND), SQLFreeStmt(SQL_RESET_PARAMS).
Forget(w, s, x) ==
  IF x = "row" THEN ReleaseBindings(w, s) ELSE ReleaseParameters(w, s)

Forgot(w, v, s, x) ==
  /\ v \in World /\ Quiet(w, v, s, {<<s, x>>})
  /\ v.st[s].live = w.st[s].live /\ v.st[s].cur = w.st[s].cur
  /\ Alone(v, {<<s, x>>}, w.st[s].cur[x])
  /\ Sound(w) => Sound(v)

LEMMA ForgetIs ==
  ASSUME NEW w \in World, NEW s \in Stmts, NEW x \in Sides
  PROVE  Forgot(w, Forget(w, s, x), s, x)
<1> DEFINE e == Empty(w, s, x)
           d == w.st[s].cur[x]
           r == IF x = "row" THEN [e.st[s] EXCEPT !.fetching = FALSE]
                ELSE [e.st[s] EXCEPT !.ipd = [e.st[s].ipd EXCEPT !.defined = FALSE]]
           v == SetStmt(e, s, r)
<1>1. Emptied(w, e, s, x)
  BY EmptyIs
<1>2. Forget(w, s, x) = v
  <2>1. CASE x = "row"
    BY <2>1 DEF Forget, ReleaseBindings, SetFetching, Empty
  <2>2. CASE x = "param"
    BY <2>2 DEF Forget, ReleaseParameters, UnprepareIpd, Empty
  <2> QED BY <2>1, <2>2 DEF Sides
<1> HIDE DEF e
<1>3. e \in World /\ e.st[s] \in Statement /\ e.st[s].ipd \in ImpDesc
  BY <1>1 DEF Emptied, World, Statement
<1>4. /\ r \in Statement /\ r.live = e.st[s].live /\ r.prep = e.st[s].prep
      /\ r.open = e.st[s].open /\ r.numberColumns = e.st[s].numberColumns
      /\ r.cur = e.st[s].cur /\ r.ird = e.st[s].ird /\ r.bind = e.st[s].bind
      /\ r.clean = e.st[s].clean /\ r.ipd.rec = e.st[s].ipd.rec
      /\ x # "row" => r.fetching = e.st[s].fetching
  <2>1. CASE x = "row"
    BY <1>3, <2>1 DEF Statement
  <2>2. CASE x # "row"
    BY <1>3, <2>2 DEF Statement, ImpDesc
  <2> QED BY <2>1, <2>2
<1> HIDE DEF r
<1>5. \A y \in Sides : <<s, y>> \notin {<<s, x>>} /\ r.clean[y] =>
         e.st[s].clean[y] /\ SameSide(e.st[s], r, y)
  BY <1>4 DEF SameSide, Sides
<1>6. Quiet(e, v, s, {<<s, x>>}) /\ OneStmt(e, v, s, r)
  BY <1>3, <1>4, <1>5, OwnQuiet, SetStmtIs
<1> HIDE DEF v
<1>7. v \in World /\ v.st[s] = r /\ v.app = e.app /\ Kept(w.st[s], e.st[s])
  BY <1>1, <1>6 DEF OneStmt, Emptied
<1>8. Quiet(w, v, s, {<<s, x>>})
  BY <1>1, <1>6, QuietTwice DEF Emptied
<1>9. Alone(v, {<<s, x>>}, d)
  BY <1>1, <1>6, AloneStays DEF Emptied, Quiet
<1>10. ASSUME Sound(w) PROVE Sound(v)
  <2>1. \A y \in Sides : MetaData(v, s, y) = MetaData(w, s, y)
    BY <1>4, <1>7 DEF MetaData, Columns, Parameters, Kept
  <2>2. Columns(v, s) = Columns(w, s)
    BY <1>4, <1>7 DEF Columns, Kept
  <2>3. ImpRec(v.st[s], "row") = ImpRec(w.st[s], "row")
        /\ ImpRec(v.st[s], "param") = ImpRec(w.st[s], "param")
    BY <1>4, <1>7, Zenon DEF ImpRec, Kept
  <2>4. \A y \in Sides : SqlAgrees(v, s, y)
    BY <1>10, <2>1, <2>3 DEF Sound, Agree, SqlAgrees, Sides
  <2>5. w.st[s].live => \A y \in Sides : v.app[v.st[s].cur[y]].live
    <3>1. \A y \in Sides : w.st[s].cur[y] \in AppDescs
      BY TypesOfWorld
    <3>2. v.st[s].cur = w.st[s].cur /\ \A a \in AppDescs : v.app[a].live = w.app[a].live
      BY <1>4, <1>7, <1>8 DEF Kept, Quiet
    <3>3. w.st[s].live => \A y \in Sides : w.app[w.st[s].cur[y]].live
      BY <1>10, Zenon DEF Sound, Agree
    <3> QED BY <3>1, <3>2, <3>3
  <2>6. Agree(v, s)
    <3>1. Agree(w, s)
      BY <1>10 DEF Sound
    <3> QED BY <1>4, <1>7, <2>2, <2>4, <2>5, <3>1 DEF Agree, Kept
  <2>7. Good(v, s, x)
    <3> SUFFICES ASSUME v.st[s].clean[x], Described(v, s, x) PROVE SideOk(v, s, x)
      BY DEF Good
    <3>1. w.st[s].clean[x] /\ Described(w, s, x)
      BY <1>1, <1>4, <1>7 DEF Emptied, Described, Kept
    <3>2. SideOk(w, s, x)
      BY <1>10, <3>1 DEF Sound, Good
    <3>3. Counted(v, s, x)
      BY <1>4, <1>7, <2>2, <3>2, Zenon DEF SideOk, Counted, Kept
    <3>4. v.st[s].bind[x] = {} /\ v.app[v.st[s].cur[x]].count = 0
      BY <1>1, <1>4, <1>7 DEF Emptied, Kept
    <3> QED BY <1>7, <3>3, <3>4, EmptyOk
  <2>8. {<<s, x>>} \subseteq {s} \X Sides
    OBVIOUS
  <2> QED BY <1>8, <1>10, <2>6, <2>7, <2>8, QuietSound
<1>11. Forgot(w, v, s, x)
  BY <1>4, <1>7, <1>8, <1>9, <1>10 DEF Forgot, Kept
<1> QED BY <1>2, <1>11

LEMMA ForgetSound ==
  ASSUME IInv, NEW s \in Stmts, Unbind(s) \/ ResetParams(s)
  PROVE  IInv'
<1>1. Sound(Now) /\ Now \in World
  BY DEF IInv, Sound
<1>2. \A x \in Sides : Sound(Forget(Now, s, x))
  BY <1>1, ForgetIs DEF Forgot
<1>3. \/ app' = Forget(Now, s, "row").app /\ st' = Forget(Now, s, "row").st
      \/ app' = Forget(Now, s, "param").app /\ st' = Forget(Now, s, "param").st
  BY DEF Unbind, ResetParams, Becomes, Forget
<1> QED BY <1>2, <1>3, BecomesSound DEF Sides

\* What is left of a descriptor that is deleted.
Deleted(w, v, d, X) ==
  /\ v \in World /\ \A t \in Stmts : Kept(w.st[t], v.st[t])
  /\ \A e \in AppDescs \ {d} : v.app[e] = w.app[e]
  /\ \A t \in Stmts, x \in Sides : <<t, x>> \notin X => Undisturbed(w, v, t, x)

LEMMA DeleteIs ==
  ASSUME NEW w \in World, NEW d \in AppDescs, NEW X, Alone(w, X, d)
  PROVE  Deleted(w, Delete(w, d), d, X)
<1> DEFINE m == RemoveRecords(w, d)
           a == [FreshApp EXCEPT !.live = FALSE]
           v == SetDesc(m, d, a)
<1>1. Removed(w, m, d) /\ Quiet(w, m, NoStmt, X)
  BY RemoveRecordsIs, RemoveRecordsQuiet
<1>2. Delete(w, d) = v
  BY DEF Delete, SetDesc
<1> HIDE DEF m
<1>3. a \in AppDesc
  <2>1. FreshRecord \in AppRecord
    BY DEF FreshRecord, AppRecord, Convs, TypeNames
  <2>2. FreshApp \in AppDesc
    BY <2>1, DescriptorsAssumption DEF FreshApp, AppDesc
  <2> QED BY <2>2 DEF AppDesc
<1> HIDE DEF a
<1>4. m \in World /\ Alone(m, X, d)
  BY <1>1, AloneStays DEF Quiet
<1>5. OneDesc(m, v, d, a)
  BY <1>3, <1>4, SetDescIs
<1> HIDE DEF v
<1>6. ASSUME NEW t \in Stmts, NEW x \in Sides, <<t, x>> \notin X
      PROVE  Undisturbed(m, v, t, x)
  <2> SUFFICES ASSUME v.st[t].clean[x]
               PROVE  /\ m.st[t].clean[x] /\ SameSide(m.st[t], v.st[t], x)
                      /\ Benign(m.app[m.st[t].cur[x]], v.app[m.st[t].cur[x]])
    BY DEF Undisturbed
  <2>1. v.st[t] = m.st[t]
    BY <1>5 DEF OneDesc
  <2>2. m.st[t].cur[x] # d
    BY <1>4, <1>6, <2>1, Uses DEF Alone
  <2>3. v.app[m.st[t].cur[x]] = m.app[m.st[t].cur[x]]
    BY <1>4, <1>5, <2>2, TypesOfWorld DEF OneDesc
  <2> QED BY <2>1, <2>3, BenignSelf, Zenon DEF SameSide
<1>7. \A t \in Stmts, x \in Sides : <<t, x>> \notin X => Undisturbed(w, v, t, x)
  BY <1>1, <1>4, <1>5, <1>6, UndisturbedTwice DEF Quiet, OneDesc
<1>8. Deleted(w, v, d, X)
  BY <1>1, <1>5, <1>7 DEF Deleted, Removed, OneDesc
<1> QED BY <1>2, <1>8

-----------------------------------------------------------------------------
\* Handles.

LEMMA FreshAppIs ==
  ASSUME NEW b \in BOOLEAN
  PROVE  /\ [FreshApp EXCEPT !.live = b] \in AppDesc /\ FreshApp \in AppDesc
         /\ [FreshApp EXCEPT !.live = b].live = b /\ FreshApp.live = TRUE
         /\ FreshRecord \in AppRecord
<1>1. FreshRecord \in AppRecord
  BY DEF FreshRecord, AppRecord, Convs, TypeNames
<1>2. FreshApp \in AppDesc /\ FreshApp.live = TRUE
  BY <1>1, DescriptorsAssumption DEF FreshApp, AppDesc
<1> QED BY <1>1, <1>2 DEF AppDesc

LEMMA AllocStatementIs ==
  ASSUME NEW s \in Stmts
  PROVE  /\ AllocStatement(s) \in Statement
         /\ AllocStatement(s).prep = NoShape /\ AllocStatement(s).open = NoShape
         /\ \A x \in Sides : AllocStatement(s).cur[x] = <<s, x>> /\ <<s, x>> \in AppDescs
<1>1. FreshImpDesc(TRUE) \in ImpDesc /\ FreshImpDesc(FALSE) \in ImpDesc
  BY FreshImpDescIs
<1> HIDE DEF FreshImpDesc
<1>2. \A x \in Sides : <<s, x>> \in AppDescs
  BY DEF AppDescs
<1> DEFINE r == AllocStatement(s)
<1>3. /\ r.live = TRUE /\ r.prep = NoShape /\ r.open = NoShape /\ r.numberColumns = 0
      /\ r.fetching = FALSE /\ r.cur = [row |-> <<s, "row">>, param |-> <<s, "param">>]
      /\ r.bind = [row |-> {}, param |-> {}]
      /\ r.clean = [row |-> TRUE, param |-> TRUE]
  BY DEF AllocStatement
<1>4. r \in Statement
  BY <1>1, <1>2 DEF AllocStatement, Statement, Sides
<1> HIDE DEF r
<1>5. \A x \in Sides : r.cur[x] = <<s, x>>
  BY <1>3 DEF Sides
<1> QED BY <1>2, <1>3, <1>4, <1>5 DEF r

LEMMA DropSound ==
  ASSUME IInv, NEW s \in Stmts, Drop(s)
  PROVE  IInv'
<1> DEFINE n == Now
           e == n.st[s].cur.row
           d == n.st[s].cur.param
           a == Forget(n, s, "row")
           b == Forget(a, s, "param")
           c == ReleaseStatement(b, s)
           f == Delete(c, e)
           g == Delete(f, d)
           r == [AllocStatement(s) EXCEPT !.live = FALSE]
           v == SetStmt(g, s, r)
           X == {s} \X Sides
<1>0. app' = v.app /\ st' = v.st
  BY Zenon DEF Drop, Becomes, Now, Forget
<1>1. \A t \in Stmts \ {s}, x \in Sides :
        n.st[t].live => n.st[t].cur[x] # e /\ n.st[t].cur[x] # d
  BY DEF Drop, Now, Sides
<1>2. Sound(n) /\ n \in World
  BY DEF IInv, Sound
<1> HIDE DEF n
<1>3. Forgot(n, a, s, "row")
  BY <1>2, ForgetIs DEF Sides
<1> HIDE DEF a
<1>4. Forgot(a, b, s, "param")
  BY <1>3, ForgetIs DEF Forgot, Sides
<1> HIDE DEF b
<1>5. Released(b, c, s)
  BY <1>4, ReleaseStatementIs DEF Forgot
<1> HIDE DEF c
<1>6. c \in World /\ Quiet(n, c, s, X) /\ Alone(c, X, e) /\ Alone(c, X, d)
  <2>1. <<s, "row">> \in X /\ <<s, "param">> \in X
    BY DEF Sides
  <2>2. Quiet(n, a, s, {<<s, "row">>}) /\ Quiet(a, b, s, {<<s, "param">>}) /\ Quiet(b, c, s, X)
    BY <1>3, <1>4, <1>5 DEF Forgot, Released
  <2>3. Quiet(n, a, s, X) /\ Quiet(a, b, s, X)
    BY <2>1, <2>2, QuietMore
  <2>4. Quiet(a, c, s, X) /\ a \in World /\ b \in World /\ c \in World
    <3>1. a \in World /\ b \in World /\ c \in World
      BY <2>2 DEF Quiet
    <3> QED BY <2>2, <2>3, <3>1, QuietTwice
  <2>5. Quiet(n, c, s, X)
    BY <1>2, <2>3, <2>4, QuietTwice
  <2>6. Alone(a, X, e)
    <3>1. Alone(a, {<<s, "row">>}, e)
      BY <1>3 DEF Forgot
    <3> QED BY <2>1, <3>1 DEF Alone
  <2>7. Alone(b, X, d)
    <3>1. Alone(b, {<<s, "param">>}, d)
      BY <1>3, <1>4 DEF Forgot
    <3> QED BY <2>1, <3>1 DEF Alone
  <2>8. Alone(c, X, e) /\ Alone(c, X, d)
    BY <2>2, <2>4, <2>6, <2>7, AloneStays DEF Quiet
  <2> QED BY <2>4, <2>5, <2>8
<1>7. e \in AppDescs /\ d \in AppDescs
  BY <1>2, TypesOfWorld DEF Sides
<1>8. Deleted(c, f, e, X)
  BY <1>6, <1>7, DeleteIs
<1> HIDE DEF f
<1>9. f \in World /\ Alone(f, X, d)
  BY <1>6, <1>8, AloneStays DEF Deleted
<1>10. Deleted(f, g, d, X)
  BY <1>7, <1>9, DeleteIs
<1> HIDE DEF g
<1>11. /\ r \in Statement /\ ~r.live /\ r.prep = NoShape /\ r.open = NoShape
  BY AllocStatementIs DEF Statement
<1> HIDE DEF r
<1>12. g \in World /\ OneStmt(g, v, s, r)
  BY <1>10, <1>11, SetStmtIs DEF Deleted
<1> HIDE DEF v
<1>13. ASSUME NEW t \in Stmts \ {s}
       PROVE  /\ Kept(n.st[t], v.st[t])
              /\ \A x \in Sides : Good(n, t, x) => Good(v, t, x)
              /\ n.st[t].live => \A x \in Sides : v.app[v.st[t].cur[x]].live
  <2>0. \A x \in Sides : <<t, x>> \notin X
    OBVIOUS
  <2> HIDE DEF X
  <2>1. /\ Kept(n.st[t], c.st[t]) /\ Kept(c.st[t], f.st[t]) /\ Kept(f.st[t], g.st[t])
        /\ v.st[t] = g.st[t] /\ v.app = g.app /\ v \in World
    BY <1>6, <1>8, <1>10, <1>12 DEF Quiet, Deleted, OneStmt
  <2>2. Kept(n.st[t], v.st[t])
    BY <2>1, Zenon DEF Kept
  <2>3. ASSUME NEW x \in Sides PROVE Undisturbed(n, v, t, x)
    <3>1. Undisturbed(n, c, t, x) /\ Undisturbed(c, f, t, x) /\ Undisturbed(f, g, t, x)
      BY <1>6, <1>8, <1>10, <2>0 DEF Quiet, Deleted
    <3>2. Undisturbed(n, g, t, x)
      BY <1>2, <1>6, <1>9, <1>12, <3>1, UndisturbedTwice
    <3> QED BY <2>1, <3>2 DEF Undisturbed
  <2>4. \A x \in Sides : Good(n, t, x) => Good(v, t, x)
    BY <1>2, <2>1, <2>3, UndisturbedGood
  <2>5. ASSUME n.st[t].live, NEW x \in Sides PROVE v.app[v.st[t].cur[x]].live
    <3>1. n.st[t].cur[x] \in AppDescs \ {e, d} /\ v.st[t].cur[x] = n.st[t].cur[x]
      BY <1>1, <1>2, <2>2, <2>5, TypesOfWorld DEF Kept
    <3>2. n.app[n.st[t].cur[x]].live
      BY <1>2, <2>5 DEF Sound, Agree
    <3>3. \A y \in AppDescs \ {e, d} : v.app[y].live = n.app[y].live
      BY <1>6, <1>8, <1>10, <2>1 DEF Quiet, Deleted
    <3> QED BY <3>1, <3>2, <3>3, Zenon
  <2> QED BY <2>2, <2>4, <2>5
<1>14. Elsewhere(n, v, s)
  BY <1>13 DEF Elsewhere
<1>15. v \in World /\ v.st[s] = r
  BY <1>12 DEF OneStmt
<1>16. Agree(v, s) /\ \A x \in Sides : Good(v, s, x)
  <2>1. \A x \in Sides : MetaData(v, s, x) = <<>> /\ SqlAgrees(v, s, x)
    BY <1>11, <1>15 DEF MetaData, Columns, Parameters, SqlAgrees
  <2> QED BY <1>11, <1>15, <2>1 DEF Agree, Good, Described
<1>17. Sound(v)
  BY <1>2, <1>14, <1>15, <1>16, ElsewhereSound
<1> QED BY <1>0, <1>17, BecomesSound

LEMMA FreeDescSound ==
  ASSUME IInv, NEW d \in AppDescs, FreeDesc(d)
  PROVE  IInv'
<1> DEFINE n == Now
           Z == UsesDesc(n, d) \ {}
           m == Spoil(n, Z)
           v == Delete(m, d)
<1>1. Sound(n) /\ n \in World
  BY DEF IInv, Sound
<1>2. app' = v.app /\ st' = v.st
  <2>1. Z = UsesDesc(n, d)
    OBVIOUS
  <2> QED BY <2>1 DEF FreeDesc, Becomes
<1>3. \A t \in Stmts, x \in Sides : n.st[t].live => n.st[t].cur[x] # d
  BY DEF FreeDesc, Now
<1> HIDE DEF n
<1>4. Spoiled(n, m, Z) /\ Sound(m) /\ Alone(m, {}, d)
  BY <1>1, SpoilIs, SpoilSound, SpoiledAlone
<1> HIDE DEF m
<1>5. m \in World /\ Deleted(m, v, d, {})
  BY <1>4, DeleteIs, Zenon DEF Sound
<1> HIDE DEF v
<1>6. ASSUME NEW t \in Stmts
      PROVE  /\ Kept(m.st[t], v.st[t])
             /\ \A x \in Sides : Good(m, t, x) => Good(v, t, x)
             /\ m.st[t].live => \A x \in Sides : v.app[v.st[t].cur[x]].live
  <2>1. Kept(m.st[t], v.st[t]) /\ Kept(n.st[t], m.st[t])
    BY <1>4, <1>5 DEF Deleted, Spoiled
  <2>2. \A x \in Sides : Good(m, t, x) => Good(v, t, x)
    BY <1>5, UndisturbedGood DEF Deleted
  <2>3. ASSUME m.st[t].live, NEW x \in Sides PROVE v.app[v.st[t].cur[x]].live
    <3>1. m.st[t].cur[x] \in AppDescs \ {d} /\ v.st[t].cur[x] = m.st[t].cur[x]
      <4>1. m.st[t].cur[x] \in AppDescs
        BY <1>5, TypesOfWorld
      <4>2. /\ v.st[t].cur = m.st[t].cur /\ m.st[t].cur = n.st[t].cur
            /\ m.st[t].live = n.st[t].live
        BY <2>1 DEF Kept
      <4>3. m.st[t].cur[x] # d
        BY <1>3, <2>3, <4>2
      <4> QED BY <4>1, <4>2, <4>3
    <3>2. m.app[m.st[t].cur[x]].live
      BY <1>4, <2>3 DEF Sound, Agree
    <3> QED BY <1>5, <3>1, <3>2 DEF Deleted
  <2> QED BY <2>1, <2>2, <2>3
<1>7. Elsewhere(m, v, NoStmt) /\ v \in World
  BY <1>5, <1>6 DEF Elsewhere, Deleted
<1>8. Sound(v)
  BY <1>4, <1>7, ElsewhereSound, DescriptorsAssumption
<1> QED BY <1>2, <1>8, BecomesSound

\* A descriptor comes to life: no statement in use is attached to it.
LEMMA BornElsewhere ==
  ASSUME NEW n, Sound(n), NEW v, NEW s, NEW D,
         \A t \in Stmts \ {s} : v.st[t] = n.st[t],
         \A e \in AppDescs \ D : v.app[e] = n.app[e],
         \A e \in D : ~n.app[e].live
  PROVE  Elsewhere(n, v, s)
<1> SUFFICES ASSUME NEW t \in Stmts \ {s}
             PROVE  /\ Kept(n.st[t], v.st[t])
                    /\ n.st[t].live => \A x \in Sides : /\ Good(n, t, x) => Good(v, t, x)
                                                        /\ v.app[v.st[t].cur[x]].live
  BY DEF Elsewhere
<1>0. n \in World
  BY DEF Sound
<1>1. v.st[t] = n.st[t]
  OBVIOUS
<1>2. ASSUME n.st[t].live, NEW x \in Sides
      PROVE  /\ v.app[n.st[t].cur[x]] = n.app[n.st[t].cur[x]]
             /\ n.app[n.st[t].cur[x]].live
  <2>1. n.app[n.st[t].cur[x]].live
    BY <1>2 DEF Sound, Agree
  <2> QED BY <1>0, <2>1, TypesOfWorld
<1>3. ASSUME n.st[t].live, NEW x \in Sides, Good(n, t, x) PROVE Good(v, t, x)
  <2> SUFFICES ASSUME v.st[t].clean[x], Described(v, t, x) PROVE SideOk(v, t, x)
    BY DEF Good
  <2>1. SideOk(n, t, x)
    BY <1>1, <1>3 DEF Good, Described
  <2>2. MetaData(v, t, x) = MetaData(n, t, x)
    BY <1>1 DEF MetaData, Columns, Parameters
  <2>3. Benign(n.app[n.st[t].cur[x]], v.app[n.st[t].cur[x]])
    BY <1>2, <1>3, BenignSelf
  <2>4. Alike(n, v, t, x)
    BY <1>1, <2>2, <2>3 DEF Alike, Looks
  <2> QED BY <1>0, <2>1, <2>4, AlikeOk
<1> QED BY <1>1, <1>2, <1>3 DEF Kept

LEMMA AllocDescSound ==
  ASSUME IInv, NEW d \in AppDescs, AllocDesc(d)
  PROVE  IInv'
<1> DEFINE n == Now
           v == SetDesc(n, d, FreshApp)
<1>1. Sound(n) /\ n \in World
  BY DEF IInv, Sound
<1>2. app' = v.app /\ st' = v.st /\ ~n.app[d].live
  BY DEF AllocDesc, Becomes, SetDesc, Now
<1> HIDE DEF n
<1>3. OneDesc(n, v, d, FreshApp)
  BY <1>1, FreshAppIs, SetDescIs
<1> HIDE DEF v
<1>4. Elsewhere(n, v, NoStmt)
  <2> DEFINE D == {d}
  <2>1. /\ \A t \in Stmts \ {NoStmt} : v.st[t] = n.st[t]
        /\ \A a \in AppDescs \ D : v.app[a] = n.app[a]
        /\ \A a \in D : ~n.app[a].live
    BY <1>2, <1>3 DEF OneDesc
  <2> HIDE DEF D
  <2> QED BY <1>1, <2>1, BornElsewhere
<1>5. Sound(v)
  BY <1>1, <1>3, <1>4, ElsewhereSound, DescriptorsAssumption DEF OneDesc
<1> QED BY <1>2, <1>5, BecomesSound

LEMMA AllocateSound ==
  ASSUME IInv, NEW s \in Stmts, Allocate(s)
  PROVE  IInv'
<1> DEFINE n == Now
           e == <<s, "row">>
           d == <<s, "param">>
           m == SetDesc(n, e, FreshApp)
           k == SetDesc(m, d, FreshApp)
           r == AllocStatement(s)
           v == SetStmt(k, s, r)
<1>1. Sound(n) /\ n \in World
  BY DEF IInv, Sound
<1>2. app' = v.app /\ st' = v.st /\ ~n.app[e].live /\ ~n.app[d].live
  BY DEF Allocate, Becomes, SetDesc, Now, Sides
<1> HIDE DEF n
<1>3. e \in AppDescs /\ d \in AppDescs /\ FreshApp \in AppDesc /\ FreshApp.live
  BY AllocStatementIs, FreshAppIs DEF Sides
<1>4. OneDesc(n, m, e, FreshApp)
  BY <1>1, <1>3, SetDescIs
<1> HIDE DEF m
<1>5. OneDesc(m, k, d, FreshApp)
  BY <1>3, <1>4, SetDescIs DEF OneDesc
<1> HIDE DEF k
<1>6. r \in Statement /\ r.prep = NoShape /\ r.open = NoShape
      /\ \A x \in Sides : r.cur[x] = <<s, x>>
  BY AllocStatementIs
<1> HIDE DEF r
<1>7. OneStmt(k, v, s, r)
  BY <1>5, <1>6, SetStmtIs DEF OneDesc
<1> HIDE DEF v
<1>8. /\ v \in World /\ v.st[s] = r /\ \A t \in Stmts \ {s} : v.st[t] = n.st[t]
      /\ \A a \in AppDescs \ {e, d} : v.app[a] = n.app[a]
      /\ v.app[e].live /\ v.app[d].live
  <2>1. v.app = k.app /\ k.st = n.st
    BY <1>4, <1>5, <1>7 DEF OneDesc, OneStmt
  <2>2. k.app[d].live /\ k.app[e].live
    BY <1>3, <1>4, <1>5 DEF OneDesc
  <2>3. \A a \in AppDescs \ {e, d} : k.app[a] = n.app[a]
    BY <1>4, <1>5 DEF OneDesc
  <2> QED BY <1>7, <2>1, <2>2, <2>3 DEF OneStmt
<1>9. Elsewhere(n, v, s)
  <2> DEFINE D == {e, d}
  <2>1. \A a \in AppDescs \ D : v.app[a] = n.app[a]
    BY <1>8
  <2>2. \A a \in D : ~n.app[a].live
    BY <1>2
  <2> HIDE DEF D
  <2> QED BY <1>1, <1>8, <2>1, <2>2, BornElsewhere
<1>10. Agree(v, s) /\ \A x \in Sides : Good(v, s, x)
  <2>1. \A x \in Sides : MetaData(v, s, x) = <<>> /\ SqlAgrees(v, s, x)
    BY <1>6, <1>8 DEF MetaData, Columns, Parameters, SqlAgrees
  <2>2. \A x \in Sides : v.app[v.st[s].cur[x]].live
    BY <1>6, <1>8 DEF Sides
  <2> QED BY <1>6, <1>8, <2>1, <2>2 DEF Agree, Good, Described
<1>11. Sound(v)
  BY <1>1, <1>8, <1>9, <1>10, ElsewhereSound
<1> QED BY <1>2, <1>11, BecomesSound

-----------------------------------------------------------------------------
\* The remaining calls on a descriptor, and closing a cursor.

LEMMA QuietAllSound ==
  ASSUME NEW w, NEW v, Sound(w), Quiet(w, v, NoStmt, {})
  PROVE  Sound(v)
<1>1. Elsewhere(w, v, NoStmt) /\ v \in World
  BY QuietElsewhere DEF Quiet
<1> QED BY <1>1, ElsewhereSound, DescriptorsAssumption

\* The statement has changed in nothing its columns and its count depend on.
LEMMA SameAgree ==
  ASSUME NEW w, NEW v, NEW s \in Stmts, Agree(w, s),
         v.st[s].prep = w.st[s].prep, v.st[s].open = w.st[s].open,
         v.st[s].live = w.st[s].live, v.st[s].numberColumns = w.st[s].numberColumns,
         v.st[s].ird.defined = w.st[s].ird.defined,
         v.st[s].ird.rec = w.st[s].ird.rec, v.st[s].ipd.rec = w.st[s].ipd.rec,
         v.st[s].live => \A x \in Sides : v.app[v.st[s].cur[x]].live
  PROVE  Agree(v, s)
<1>1. Columns(v, s) = Columns(w, s) /\ Parameters(v, s) = Parameters(w, s)
  BY Zenon DEF Columns, Parameters
<1>2. \A x \in Sides : SqlAgrees(v, s, x)
  BY <1>1 DEF Agree, SqlAgrees, MetaData, ImpRec
<1> QED BY <1>1, <1>2, Zenon DEF Agree

LEMMA SetAppDescSound ==
  ASSUME IInv, NEW s \in Stmts, NEW x \in Sides, NEW d \in AppDescs, SetAppDesc(s, x, d)
  PROVE  IInv'
<1> DEFINE n == Now
           late == \/ n.st[s].bind[x] # {}
                   \/ n.st[s].fetching
                   \/ \E c \in Cols : n.app[d].rec[c].prepared
           Z == IF late THEN {<<s, x>>} ELSE {}
           m == Spoil(n, Z)
           f == [m.st[s].cur EXCEPT ![x] = d]
           r == [m.st[s] EXCEPT !.cur = f]
           v == SetStmt(m, s, r)
<1>1. Sound(n) /\ n \in World
  BY DEF IInv, Sound
<1>2. app' = v.app /\ st' = v.st
  BY Zenon DEF SetAppDesc, Becomes, Now
<1>3. n.app[d].live
  BY Zenon DEF SetAppDesc, Now
<1> HIDE DEF n, late
<1>4. Spoiled(n, m, Z) /\ Sound(m)
  BY <1>1, SpoilIs, SpoilSound
<1> HIDE DEF m
<1>5. m \in World /\ m.st[s] \in Statement /\ Kept(n.st[s], m.st[s]) /\ m.app = n.app
  BY <1>4 DEF Spoiled, World
<1>6. /\ f \in [row : AppDescs, param : AppDescs] /\ f[x] = d
      /\ \A y \in Sides \ {x} : f[y] = m.st[s].cur[y]
  BY <1>5 DEF Statement, Sides
<1> HIDE DEF f
<1>7. /\ r \in Statement /\ r.live = m.st[s].live /\ r.prep = m.st[s].prep
      /\ r.open = m.st[s].open /\ r.numberColumns = m.st[s].numberColumns
      /\ r.fetching = m.st[s].fetching /\ r.ird = m.st[s].ird /\ r.ipd = m.st[s].ipd
      /\ r.bind = m.st[s].bind /\ r.clean = m.st[s].clean /\ r.cur = f
  BY <1>5, <1>6 DEF Statement
<1> HIDE DEF r
<1>8. \A y \in Sides : <<s, y>> \notin {<<s, x>>} /\ r.clean[y] =>
         m.st[s].clean[y] /\ SameSide(m.st[s], r, y)
  BY <1>6, <1>7 DEF SameSide
<1>9. Quiet(m, v, s, {<<s, x>>}) /\ OneStmt(m, v, s, r)
  BY <1>5, <1>7, <1>8, OwnQuiet, SetStmtIs
<1> HIDE DEF v
<1>10. v.st[s] = r /\ v.app = m.app /\ v \in World
  BY <1>9, Zenon DEF OneStmt
<1>11. Agree(v, s)
  <2>1. v.st[s].live => \A y \in Sides : v.app[v.st[s].cur[y]].live
    <3>1. m.st[s].live => \A y \in Sides : m.app[m.st[s].cur[y]].live
      BY <1>4 DEF Sound, Agree
    <3>2. m.app[d].live
      BY <1>3, <1>5
    <3> QED BY <1>6, <1>7, <1>10, <3>1, <3>2
  <2>2. Agree(m, s)
    BY <1>4 DEF Sound
  <2> QED BY <1>7, <1>10, <2>1, <2>2, SameAgree
<1>12. Good(v, s, x)
  <2> SUFFICES ASSUME v.st[s].clean[x], Described(v, s, x) PROVE SideOk(v, s, x)
    BY DEF Good
  <2>1. m.st[s].clean[x] /\ Described(m, s, x)
    BY <1>7, <1>10 DEF Described
  <2>2. ~late
    BY <1>4, <2>1 DEF Spoiled
  <2>3. SideOk(m, s, x)
    BY <1>4, <2>1 DEF Sound, Good
  <2>4. /\ m.st[s].bind[x] = {} /\ ~m.st[s].fetching
        /\ \A c \in Cols : ~m.app[d].rec[c].prepared
    <3>1. m.st[s].bind[x] = n.st[s].bind[x]
      BY <1>4 DEF Spoiled
    <3> QED BY <1>5, <2>2, <3>1 DEF late, Kept
  <2>5. Columns(v, s) = Columns(m, s)
    BY <1>7, <1>10 DEF Columns
  <2>6. \A c \in DueCols(v, s, x) : Waits(v, d, c)
    <3>1. \A c \in DueCols(v, s, x) : c \in Cols /\ v.app[d].rec[c].defined
      BY <1>6, <1>7, <1>10, DueColsIn DEF DueCols
    <3> QED BY <1>10, <2>4, <3>1, Zenon DEF Waits
  <2>7. Looks(v, s, x)
    BY <1>7, <1>10, <2>4 DEF Looks
  <2> QED BY <1>6, <1>7, <1>10, <2>3, <2>4, <2>5, <2>6, <2>7 DEF SideOk
<1>13. Sound(v)
  <2>1. {<<s, x>>} \subseteq {s} \X Sides
    OBVIOUS
  <2> QED BY <1>4, <1>9, <1>11, <1>12, <2>1, QuietSound
<1> QED BY <1>2, <1>13, BecomesSound

LEMMA CountSound ==
  ASSUME IInv, NEW d \in AppDescs, NEW k \in 0 .. MaxCol, SetDescFieldCount(d, k)
  PROVE  IInv'
<1> DEFINE n == Now
           Z == UsesDesc(n, d) \ {}
           m == Spoil(n, Z)
           a == [m.app[d] EXCEPT !.count = k]
           v == SetDesc(m, d, a)
<1>1. Sound(n) /\ n \in World
  BY DEF IInv, Sound
<1>2. app' = v.app /\ st' = v.st
  <2>1. Z = UsesDesc(n, d)
    OBVIOUS
  <2> QED BY <2>1 DEF SetDescFieldCount, Becomes, SetDesc
<1> HIDE DEF n
<1>3. Spoiled(n, m, Z) /\ Sound(m) /\ Alone(m, {}, d)
  BY <1>1, SpoilIs, SpoilSound, SpoiledAlone
<1> HIDE DEF m
<1>4. m \in World /\ m.app[d] \in AppDesc
  BY <1>3 DEF Sound, World
<1>5. a \in AppDesc /\ a.live = m.app[d].live
  BY <1>4 DEF AppDesc
<1> HIDE DEF a
<1>6. Quiet(m, v, NoStmt, {})
  BY <1>3, <1>4, <1>5, AloneQuiet
<1>7. Sound(v)
  BY <1>3, <1>6, QuietAllSound
<1> QED BY <1>2, <1>7, BecomesSound

LEMMA IrdSound ==
  ASSUME IInv, NEW s \in Stmts, NEW k \in Cols, SetDescFieldIrd(s, k)
  PROVE  IInv'
<1> DEFINE n == Now
           Z == {<<s, "row">>}
           m == Spoil(n, Z)
           i == [m.st[s].ird EXCEPT !.count = k]
           r == [m.st[s] EXCEPT !.ird = i]
           v == SetStmt(m, s, r)
<1>1. Sound(n) /\ n \in World
  BY DEF IInv, Sound
<1>2. app' = v.app /\ st' = v.st
  BY DEF SetDescFieldIrd, Becomes
<1> HIDE DEF n
<1>3. Spoiled(n, m, Z) /\ Sound(m)
  BY <1>1, SpoilIs, SpoilSound
<1> HIDE DEF m
<1>4. m \in World /\ m.st[s] \in Statement /\ m.st[s].ird \in ImpDesc
  BY <1>3 DEF Sound, World, Statement
<1>5. i \in ImpDesc /\ i.defined = m.st[s].ird.defined /\ i.rec = m.st[s].ird.rec
  BY <1>4, DescriptorsAssumption DEF ImpDesc, Cols
<1> HIDE DEF i
<1>6. /\ r \in Statement /\ r.live = m.st[s].live /\ r.prep = m.st[s].prep
      /\ r.open = m.st[s].open /\ r.numberColumns = m.st[s].numberColumns
      /\ r.fetching = m.st[s].fetching /\ r.ird = i /\ r.ipd = m.st[s].ipd
      /\ r.bind = m.st[s].bind /\ r.clean = m.st[s].clean /\ r.cur = m.st[s].cur
  BY <1>4, <1>5 DEF Statement
<1> HIDE DEF r
<1>7. ~m.st[s].clean["row"]
  BY <1>3 DEF Spoiled, Sides
<1>8. \A x \in Sides : <<s, x>> \notin {} /\ r.clean[x] =>
         m.st[s].clean[x] /\ SameSide(m.st[s], r, x)
  BY <1>6, <1>7 DEF SameSide, Sides
<1>9. Quiet(m, v, s, {}) /\ OneStmt(m, v, s, r)
  BY <1>4, <1>6, <1>8, OwnQuiet, SetStmtIs, Zenon
<1> HIDE DEF v
<1>10. Agree(v, s)
  <2>1. v.st[s] = r /\ v.app = m.app /\ Agree(m, s)
    BY <1>3, <1>9 DEF OneStmt, Sound
  <2>2. v.st[s].live => \A x \in Sides : v.app[v.st[s].cur[x]].live
    BY <1>6, <2>1 DEF Agree
  <2> QED BY <1>5, <1>6, <2>1, <2>2, SameAgree
<1>11. Sound(v)
  BY <1>3, <1>9, <1>10, QuietSound
<1> QED BY <1>2, <1>11, BecomesSound

LEMMA CopyDescSound ==
  ASSUME IInv, NEW from \in AppDescs, NEW to \in AppDescs, CopyDesc(from, to)
  PROVE  IInv'
<1> DEFINE n == Now
           Z == UsesDesc(n, to) \ {}
           m == Spoil(n, Z)
           k == RemoveRecords(m, to)
           source == k.app[from]
           g(c) == [FreshRecord EXCEPT !.type = source.rec[c].type, !.defined = TRUE]
           f == [c \in Cols |-> IF c <= source.count THEN g(c) ELSE FreshRecord]
           a == [live |-> TRUE, count |-> source.count, rec |-> f]
           v == SetDesc(k, to, a)
<1>1. Sound(n) /\ n \in World
  BY DEF IInv, Sound
<1>2. app' = v.app /\ st' = v.st
  <2>1. Z = UsesDesc(n, to)
    OBVIOUS
  <2> QED BY <2>1, Zenon DEF CopyDesc, Becomes, SetDesc
<1>3. n.app[to].live
  BY Zenon DEF CopyDesc, Reachable, Now
<1> HIDE DEF n
<1>4. Spoiled(n, m, Z) /\ Sound(m) /\ Alone(m, {}, to)
  BY <1>1, SpoilIs, SpoilSound, SpoiledAlone
<1> HIDE DEF m
<1>5. m \in World /\ Removed(m, k, to) /\ Quiet(m, k, NoStmt, {})
  BY <1>4, RemoveRecordsIs, RemoveRecordsQuiet DEF Sound
<1> HIDE DEF k
<1>6. Sound(k) /\ Alone(k, {}, to) /\ k \in World
  BY <1>4, <1>5, QuietAllSound, AloneStays DEF Quiet
<1>7. source \in AppDesc
  BY <1>6 DEF World
<1> HIDE DEF source
<1>8. source.count \in 0 .. MaxCol /\ \A c \in Cols : source.rec[c].type \in TypeNames
  BY <1>7 DEF AppDesc, AppRecord
<1>9. FreshRecord \in AppRecord
  BY FreshAppIs
<1>10. \A c \in Cols : g(c) \in AppRecord
  BY <1>8, <1>9 DEF AppRecord
<1> HIDE DEF g
<1>11. f \in [Cols -> AppRecord]
  BY <1>9, <1>10
<1> HIDE DEF f
<1>12. a \in AppDesc /\ a.live = k.app[to].live
  <2>1. k.app[to].live = TRUE
    <3>1. n.app[to].live \in BOOLEAN
      BY <1>1 DEF World, AppDesc
    <3> QED BY <1>3, <1>4, <1>5, <3>1 DEF Spoiled, Removed
  <2> QED BY <1>8, <1>11, <2>1 DEF AppDesc
<1> HIDE DEF a
<1>13. Quiet(k, v, NoStmt, {})
  BY <1>6, <1>12, AloneQuiet
<1>14. Sound(v)
  BY <1>6, <1>13, QuietAllSound
<1> QED BY <1>2, <1>14, BecomesSound

LEMMA CloseSound ==
  ASSUME IInv, NEW s \in Stmts, Close(s)
  PROVE  IInv'
<1> DEFINE n == Now
           d == n.st[s].cur.param
           v == ReleaseResultSet(n, s)
           i == [v.st[s].ipd EXCEPT !.defined = FALSE]
           r == [v.st[s] EXCEPT !.ipd = i]
           u == SetStmt(v, s, r)
           y == ClearPrepared(u, d)
<1>1. Sound(n) /\ n \in World
  BY DEF IInv, Sound
<1>2. \/ app' = v.app /\ st' = v.st
      \/ app' = y.app /\ st' = y.st
  BY DEF Close, Becomes, Now, UnprepareIpd
<1> HIDE DEF n
<1>3. Sound(v) /\ v.st[s].cur = n.st[s].cur
  <2>1. ReleasedResult(n, v, s)
    BY <1>1, ReleaseResultSetIs
  <2> HIDE DEF v
  <2>2. Sound(v)
    BY <1>1, <2>1, ReleasedResultSound
  <2> QED BY <2>1, <2>2, Zenon DEF ReleasedResult
<1> HIDE DEF v
<1>4. v \in World /\ v.st[s] \in Statement /\ v.st[s].ipd \in ImpDesc /\ d \in AppDescs
  BY <1>1, <1>3, TypesOfWorld DEF Sound, World, Statement, Sides
<1>5. i \in ImpDesc /\ i.rec = v.st[s].ipd.rec
  BY <1>4 DEF ImpDesc
<1> HIDE DEF i
<1>6. /\ r \in Statement /\ r.live = v.st[s].live /\ r.prep = v.st[s].prep
      /\ r.open = v.st[s].open /\ r.numberColumns = v.st[s].numberColumns
      /\ r.fetching = v.st[s].fetching /\ r.ipd = i /\ r.ird = v.st[s].ird
      /\ r.bind = v.st[s].bind /\ r.clean = v.st[s].clean /\ r.cur = v.st[s].cur
  BY <1>4, <1>5 DEF Statement
<1> HIDE DEF r
<1>7. \A x \in Sides : <<s, x>> \notin {} /\ r.clean[x] =>
         v.st[s].clean[x] /\ SameSide(v.st[s], r, x)
  BY <1>6 DEF SameSide
<1>8. Quiet(v, u, s, {}) /\ OneStmt(v, u, s, r)
  BY <1>4, <1>6, <1>7, OwnQuiet, SetStmtIs
<1> HIDE DEF u
<1>9. Sound(u) /\ u \in World
  <2>1. u.st[s] = r /\ u.app = v.app /\ Agree(v, s)
    BY <1>3, <1>8, Zenon DEF OneStmt, Sound
  <2>2. u.st[s].live => \A x \in Sides : u.app[u.st[s].cur[x]].live
    BY <1>6, <2>1, Zenon DEF Agree
  <2>3. Agree(u, s)
    BY <1>5, <1>6, <2>1, <2>2, SameAgree
  <2> QED BY <1>3, <1>8, <2>3, QuietSound DEF OneStmt
<1>10. Quiet(u, y, NoStmt, {})
  BY <1>4, <1>9, ClearPreparedIs DEF Cleared
<1>11. Sound(y)
  BY <1>9, <1>10, QuietAllSound
<1> QED BY <1>2, <1>3, <1>11, BecomesSound

-----------------------------------------------------------------------------
\* Preparing, executing and fetching.

\* Nothing but the driver's parameter descriptor changes.
IpdSet(w, v, s, i) ==
  /\ v \in World /\ v.app = w.app /\ v.st[s].ipd = i
  /\ v.st[s].live = w.st[s].live /\ v.st[s].prep = w.st[s].prep
  /\ v.st[s].open = w.st[s].open /\ v.st[s].numberColumns = w.st[s].numberColumns
  /\ v.st[s].fetching = w.st[s].fetching /\ v.st[s].cur = w.st[s].cur
  /\ v.st[s].ird = w.st[s].ird /\ v.st[s].bind = w.st[s].bind
  /\ v.st[s].clean = w.st[s].clean
  /\ \A X : Quiet(w, v, s, X)

LEMMA SetIpdIs ==
  ASSUME NEW w \in World, NEW s \in Stmts, NEW i \in ImpDesc
  PROVE  IpdSet(w, SetStmt(w, s, [w.st[s] EXCEPT !.ipd = i]), s, i)
<1> DEFINE r == [w.st[s] EXCEPT !.ipd = i]
           v == SetStmt(w, s, r)
<1>1. w.st[s] \in Statement
  BY DEF World
<1>2. /\ r \in Statement /\ r.live = w.st[s].live /\ r.prep = w.st[s].prep
      /\ r.open = w.st[s].open /\ r.numberColumns = w.st[s].numberColumns
      /\ r.fetching = w.st[s].fetching /\ r.cur = w.st[s].cur /\ r.ird = w.st[s].ird
      /\ r.bind = w.st[s].bind /\ r.clean = w.st[s].clean /\ r.ipd = i
  BY <1>1 DEF Statement
<1> HIDE DEF r
<1>3. ASSUME NEW X PROVE Quiet(w, v, s, X)
  <2>1. \A x \in Sides : SameSide(w.st[s], r, x)
    BY <1>2 DEF SameSide
  <2> QED BY <1>2, <2>1, OwnQuiet
<1>4. OneStmt(w, v, s, r)
  BY <1>2, SetStmtIs
<1> HIDE DEF v
<1>5. IpdSet(w, v, s, i)
  BY <1>2, <1>3, <1>4 DEF IpdSet, OneStmt
<1> QED BY <1>5 DEF v, r

LEMMA WaitsOrIn ==
  ASSUME NEW w \in World, NEW s \in Stmts, NEW x \in Sides, SideOk(w, s, x)
  PROVE  SideBut(w, s, x, Waiting(w, s, x)) /\ AllIn(w, s, x, Waiting(w, s, x))
<1>1. Waiting(w, s, x) = {c \in DueCols(w, s, x) : Waits(w, w.st[s].cur[x], c)}
  BY WaitingDue DEF SideOk, Counted
<1> QED BY <1>1 DEF SideOk, SideBut, AllIn

\* The counts and conversions are alike: what is in the one list is in the other.
LEMMA AlikeIn ==
  ASSUME NEW w \in World, NEW v, NEW t \in Stmts, NEW x \in Sides, NEW C,
         v.st[t].cur = w.st[t].cur, v.st[t].bind[x] = w.st[t].bind[x],
         MetaData(v, t, x) = MetaData(w, t, x), v.st[t].ird = w.st[t].ird,
         v.app = w.app, SideBut(w, t, x, C), AllIn(w, t, x, C)
  PROVE  SideBut(v, t, x, C) /\ AllIn(v, t, x, C)
<1> DEFINE d == w.st[t].cur[x]
<1>1. DueCols(v, t, x) = DueCols(w, t, x)
  BY DEF DueCols
<1>2. ASSUME NEW c PROVE InList(w, t, x, c) => InList(v, t, x, c)
  BY Zenon DEF InList, Conv
<1>3. AllIn(v, t, x, C)
  BY <1>1, <1>2 DEF AllIn
<1>4. x = "row" => v.st[t].ird.count = Len(Columns(v, t))
  BY DEF SideBut, MetaData
<1>5. \A e \in v.st[t].bind[x] : e.col \in DueCols(v, t, x) /\ e = Entry(e.col, v.st[t].cur[x])
  BY <1>1 DEF SideBut
<1> QED BY <1>3, <1>4, <1>5 DEF SideBut, AllIn

Looked(w, v, s, x) ==
  /\ Sound(v) /\ Rebound(w, v, s, x)
  /\ v.st[s].clean[x] /\ Described(v, s, x) => AllIn(v, s, x, {}) /\ SideOk(v, s, x)

\* A look at what waits, in a state that is in order but for what waits.
LEMMA RebindSound ==
  ASSUME NEW n, Sound(n), NEW w \in World, NEW s \in Stmts, NEW x \in Sides,
         Quiet(n, w, s, {<<s, x>>}), Agree(w, s),
         w.st[s].clean[x] /\ Described(w, s, x) =>
            /\ SideBut(w, s, x, Waiting(w, s, x)) /\ AllIn(w, s, x, Waiting(w, s, x))
  PROVE  Looked(w, Rebind(w, s, x), s, x)
<1> DEFINE v == Rebind(w, s, x)
<1>1. Rebound(w, v, s, x)
  BY RebindKeeps
<1>2. ASSUME v.st[s].clean[x], Described(v, s, x)
      PROVE  AllIn(v, s, x, {}) /\ SideOk(v, s, x)
  <2>1. w.st[s].clean[x] /\ Described(w, s, x)
    BY <1>1, <1>2 DEF Rebound, Described
  <2>2. SqlAgrees(w, s, x)
    BY DEF Agree
  <2> QED BY <2>1, <2>2, RebindAll
<1> HIDE DEF v
<1>3. Good(v, s, x)
  BY <1>2 DEF Good
<1>4. Quiet(n, v, s, {<<s, x>>}) /\ Agree(v, s)
  <2>1. Quiet(w, v, s, {<<s, x>>})
    BY <1>1 DEF Rebound
  <2> QED BY <1>1, <2>1, QuietTwice DEF Rebound, Sound
<1>5. Sound(v)
  <2>1. {<<s, x>>} \subseteq {s} \X Sides
    OBVIOUS
  <2> QED BY <1>3, <1>4, <2>1, QuietSound
<1>6. Looked(w, v, s, x)
  BY <1>1, <1>2, <1>5 DEF Looked
<1> QED BY <1>6 DEF v

FetchingSet(w, v, s, on) ==
  /\ v \in World /\ v.app = w.app /\ v.st[s].fetching = on
  /\ v.st[s].live = w.st[s].live /\ v.st[s].prep = w.st[s].prep
  /\ v.st[s].open = w.st[s].open /\ v.st[s].numberColumns = w.st[s].numberColumns
  /\ v.st[s].ipd = w.st[s].ipd /\ v.st[s].cur = w.st[s].cur
  /\ v.st[s].ird = w.st[s].ird /\ v.st[s].bind = w.st[s].bind
  /\ v.st[s].clean = w.st[s].clean
  /\ Quiet(w, v, s, {<<s, "row">>})

LEMMA SetFetchingIs ==
  ASSUME NEW w \in World, NEW s \in Stmts, NEW on \in BOOLEAN
  PROVE  FetchingSet(w, SetFetching(w, s, on), s, on)
<1> DEFINE r == [w.st[s] EXCEPT !.fetching = on]
           v == SetStmt(w, s, r)
<1>1. w.st[s] \in Statement
  BY DEF World
<1>2. /\ r \in Statement /\ r.live = w.st[s].live /\ r.prep = w.st[s].prep
      /\ r.open = w.st[s].open /\ r.numberColumns = w.st[s].numberColumns
      /\ r.fetching = on /\ r.cur = w.st[s].cur /\ r.ird = w.st[s].ird
      /\ r.bind = w.st[s].bind /\ r.clean = w.st[s].clean /\ r.ipd = w.st[s].ipd
  BY <1>1 DEF Statement
<1>3. SetFetching(w, s, on) = v
  BY DEF SetFetching
<1> HIDE DEF r
<1>4. Quiet(w, v, s, {<<s, "row">>})
  <2>1. SameSide(w.st[s], r, "param")
    BY <1>2 DEF SameSide
  <2>2. \A x \in Sides : <<s, x>> \notin {<<s, "row">>} /\ r.clean[x] =>
          w.st[s].clean[x] /\ SameSide(w.st[s], r, x)
    BY <1>2, <2>1 DEF Sides
  <2> QED BY <1>2, <2>2, OwnQuiet
<1>5. OneStmt(w, v, s, r)
  BY <1>2, SetStmtIs
<1> HIDE DEF v
<1>6. FetchingSet(w, v, s, on)
  BY <1>2, <1>4, <1>5, Zenon DEF FetchingSet, OneStmt
<1> QED BY <1>3, <1>6

LEMMA FetchingAgree ==
  ASSUME NEW w, NEW v, NEW s \in Stmts, NEW on, Agree(w, s), FetchingSet(w, v, s, on)
  PROVE  Agree(v, s)
<1>1. v.st[s].live => \A x \in Sides : v.app[v.st[s].cur[x]].live
  BY Zenon DEF Agree, FetchingSet
<1> QED BY <1>1, SameAgree DEF FetchingSet

\* The next fetch is a first one again.
LEMMA NotFetchingSound ==
  ASSUME NEW w, Sound(w), NEW v, NEW s \in Stmts, FetchingSet(w, v, s, FALSE)
  PROVE  Sound(v)
<1>1. w \in World /\ Agree(v, s)
  BY FetchingAgree DEF Sound
<1>2. Good(v, s, "row")
  <2> SUFFICES ASSUME v.st[s].clean["row"], Described(v, s, "row")
               PROVE  SideOk(v, s, "row")
    BY DEF Good
  <2>1. SideOk(w, s, "row")
    BY DEF Sound, Good, FetchingSet, Described, Sides
  <2>2. MetaData(v, s, "row") = MetaData(w, s, "row")
    BY DEF FetchingSet, MetaData, Columns
  <2>3. Benign(w.app[w.st[s].cur["row"]], v.app[w.st[s].cur["row"]])
    BY BenignSelf DEF FetchingSet
  <2>4. Alike(w, v, s, "row")
    BY <2>2, <2>3 DEF Alike, FetchingSet, Looks
  <2> QED BY <1>1, <2>1, <2>4, AlikeOk DEF Sides
<1>3. {<<s, "row">>} \subseteq {s} \X Sides
  BY DEF Sides
<1> QED BY <1>1, <1>2, <1>3, QuietSound DEF FetchingSet

\* What Due says, of a world.
DueIn(w, s, x) ==
  LET d == w.st[s].cur[x]
  IN {[col |-> c, app |-> d, dead |-> FALSE,
       conv |-> <<MetaData(w, s, x)[c], w.app[d].rec[c].type>>] : c \in DueCols(w, s, x)}

LEMMA ItemsDue ==
  ASSUME NEW w \in World, NEW s \in Stmts, NEW x \in Sides,
         SideOk(w, s, x), AllIn(w, s, x, {})
  PROVE  Items(w, s, x) = DueIn(w, s, x)
<1> DEFINE d == w.st[s].cur[x]
           C == DueCols(w, s, x)
           B == w.st[s].bind[x]
           M(c) == MetaData(w, s, x)[c]
           T(c) == w.app[d].rec[c].type
           V(e) == IF x = "row" THEN w.st[s].ird.rec[e.col].conv
                   ELSE w.app[e.app].rec[e.col].conv
           I(e) == [col |-> e.col, app |-> e.app, dead |-> e.dead, conv |-> V(e)]
           D(c) == [col |-> c, app |-> d, dead |-> FALSE, conv |-> <<M(c), T(c)>>]
<1>1. \A e \in B : e.col \in C /\ e = Entry(e.col, d)
  BY DEF SideOk
<1>2. \A c \in C : Entry(c, d) \in B /\ Conv(w, s, x, c) = <<M(c), T(c)>>
  BY DEF AllIn, InList
<1>3. \A c : Entry(c, d).col = c /\ Entry(c, d).app = d /\ Entry(c, d).dead = FALSE
  BY DEF Entry
<1>4. \A c \in C : V(Entry(c, d)) = Conv(w, s, x, c)
  BY <1>3, Zenon DEF Conv, Sides
<1> HIDE DEF V, C, B, d, M, T
<1>5. \A c \in C : I(Entry(c, d)) = D(c)
  BY <1>2, <1>3, <1>4
<1>6. {I(e) : e \in B} = {D(c) : c \in C}
  <2> HIDE DEF I, D
  <2>1. \A e \in B : e.col \in C /\ I(e) = D(e.col)
    BY <1>1, <1>5
  <2>2. \A c \in C : Entry(c, d) \in B /\ I(Entry(c, d)) = D(c)
    BY <1>2, <1>5
  <2> QED BY <2>1, <2>2
<1> QED BY <1>6, Zenon DEF Items, DueIn, V, C, B, d, M, T

LEMMA FetchSound ==
  ASSUME IInv, NEW s \in Stmts, Fetch(s)
  PROVE  IInv' /\ TransfersAsBound'
<1> DEFINE n == Now
           x == "row"
           f == SetFetching(n, s, TRUE)
           w == IF n.st[s].fetching THEN n ELSE Rebind(f, s, x)
<1>1. Sound(n) /\ n \in World
  BY DEF IInv, Sound
<1>2. /\ app' = w.app /\ st' = w.st
      /\ moved' = [stmt |-> s, side |-> "row", items |-> Items(w, s, "row")]
      /\ n.st[s].open # NoShape
  BY DEF Fetch, FirstFetch, Now, Rebind
<1> HIDE DEF n
<1>3. Sound(w) /\ (w.st[s].clean[x] => SideOk(w, s, x) /\ AllIn(w, s, x, {}))
  <2>1. CASE n.st[s].fetching
    <3>1. w = n
      BY <2>1
    <3>2. ASSUME n.st[s].clean[x] PROVE SideOk(n, s, x) /\ AllIn(n, s, x, {})
      <4>1. SideOk(n, s, x)
        BY <1>1, <1>2, <3>2 DEF Sound, Good, Described, Sides
      <4>2. ~Looks(n, s, x)
        BY <1>2, <2>1 DEF Looks
      <4> QED BY <4>1, <4>2 DEF SideOk, AllIn
    <3> QED BY <1>1, <3>1, <3>2
  <2>2. CASE ~n.st[s].fetching
    <3>1. w = Rebind(f, s, x)
      BY <2>2
    <3> HIDE DEF w
    <3>2. FetchingSet(n, f, s, TRUE)
      BY <1>1, SetFetchingIs
    <3> HIDE DEF f
    <3>3. Agree(f, s) /\ f \in World /\ Quiet(n, f, s, {<<s, x>>})
      BY <1>1, <3>2, FetchingAgree, Zenon DEF Sound, FetchingSet
    <3>4. ASSUME f.st[s].clean[x], Described(f, s, x)
          PROVE  /\ SideBut(f, s, x, Waiting(f, s, x))
                 /\ AllIn(f, s, x, Waiting(f, s, x))
      <4>1. SideOk(n, s, x)
        BY <1>1, <3>2, <3>4 DEF Sound, Good, Described, Sides, FetchingSet
      <4>2. /\ SideBut(n, s, x, Waiting(n, s, x)) /\ AllIn(n, s, x, Waiting(n, s, x))
        BY <1>1, <4>1, WaitsOrIn DEF Sides
      <4>3. Waiting(f, s, x) = Waiting(n, s, x)
        BY <3>2 DEF Waiting, RowWaits, Waits, FetchingSet
      <4>4. MetaData(f, s, x) = MetaData(n, s, x)
        BY <3>2 DEF MetaData, Columns, FetchingSet
      <4>5. /\ f.st[s].cur = n.st[s].cur /\ f.st[s].bind[x] = n.st[s].bind[x]
            /\ f.st[s].ird = n.st[s].ird /\ f.app = n.app
        BY <3>2 DEF FetchingSet
      <4> QED BY <1>1, <4>2, <4>3, <4>4, <4>5, AlikeIn DEF Sides
    <3>5. Looked(f, w, s, x)
      BY <1>1, <3>1, <3>3, <3>4, RebindSound DEF Sides
    <3>6. Described(w, s, x)
      BY <1>2, <3>2, <3>5 DEF Looked, Rebound, Described, FetchingSet
    <3> QED BY <3>5, <3>6 DEF Looked
  <2> QED BY <2>1, <2>2
<1> HIDE DEF w
<1>4. IInv'
  BY <1>2, <1>3, BecomesSound
<1>5. Now' = w
  <2>1. w = [app |-> w.app, st |-> w.st]
    BY <1>3 DEF Sound, World
  <2> QED BY <1>2, <2>1 DEF Now
<1>6. ASSUME w.st[s].clean[x] PROVE Items(w, s, x) = DueIn(w, s, x)
  BY <1>3, <1>6, ItemsDue DEF Sound, Sides
<1>7. Due(s, x)' = DueIn(w, s, x)
  BY <1>2, <1>5 DEF Due, DueIn, DueCols
<1>8. TransfersAsBound'
  BY <1>2, <1>6, <1>7 DEF TransfersAsBound
<1> QED BY <1>4, <1>8

\* SQLExecute: the columns of the result are those of the prepared statement.
Opened(w, v, s) ==
  /\ v \in World /\ v.app = w.app /\ Sound(v)
  /\ v.st[s].prep = w.st[s].prep /\ v.st[s].cur = w.st[s].cur
  /\ v.st[s].clean = w.st[s].clean

LEMMA DefineIs ==
  ASSUME NEW i \in ImpDesc, NEW meta \in Seq(SqlTypes), NEW all \in BOOLEAN
  PROVE  /\ Define(i, meta, all) \in ImpDesc
         /\ Define(i, meta, all).count = i.count
         /\ Define(i, meta, all).defined = i.defined
         /\ \A c \in Cols :
              /\ Define(i, meta, all).rec[c].conv = i.rec[c].conv
              /\ c \in DOMAIN meta =>
                   Define(i, meta, all).rec[c].sql
                     \in IF all THEN {meta[c]} ELSE {meta[c], i.rec[c].sql}
<1> DEFINE g(c) == [i.rec[c] EXCEPT !.sql = meta[c]]
           K(c) == c \in DOMAIN meta /\ (all \/ i.rec[c].sql = "unknown")
           f == [c \in Cols |-> IF K(c) THEN g(c) ELSE i.rec[c]]
<1>1. \A c \in Cols : i.rec[c] \in ImpRecord
  BY DEF ImpDesc
<1>2. ASSUME NEW c \in Cols, c \in DOMAIN meta
      PROVE  g(c) \in ImpRecord /\ g(c).sql = meta[c] /\ g(c).conv = i.rec[c].conv
  <2>1. meta[c] \in SqlNames
    BY <1>2 DEF SqlNames
  <2> QED BY <1>1, <2>1 DEF ImpRecord
<1>3. Define(i, meta, all) = [i EXCEPT !.rec = f]
  BY DEF Define
<1> HIDE DEF g
<1>4. ASSUME NEW c \in Cols
      PROVE  /\ f[c] \in ImpRecord /\ f[c].conv = i.rec[c].conv
             /\ c \in DOMAIN meta => f[c].sql \in IF all THEN {meta[c]} ELSE {meta[c], i.rec[c].sql}
  BY <1>1, <1>2
<1>5. f \in [Cols -> ImpRecord]
  BY <1>4
<1> HIDE DEF f
<1>6. /\ [i EXCEPT !.rec = f] \in ImpDesc /\ [i EXCEPT !.rec = f].rec = f
      /\ [i EXCEPT !.rec = f].count = i.count /\ [i EXCEPT !.rec = f].defined = i.defined
  BY <1>5 DEF ImpDesc
<1> QED BY <1>3, <1>4, <1>6

LEMMA OpenPreparedIs ==
  ASSUME NEW w, Sound(w), NEW s \in Stmts, w.st[s].prep # NoShape, w.st[s].open = NoShape
  PROVE  Opened(w, SetResultSet(w, s, w.st[s].prep), s)
<1> DEFINE h == w.st[s].prep
           i == Define(w.st[s].ird, h.row, FALSE)
           j == [i EXCEPT !.defined = TRUE]
           q == [w.st[s] EXCEPT !.open = h]
           p == [q EXCEPT !.ird = j]
           r == [p EXCEPT !.numberColumns = Len(h.row), !.fetching = FALSE]
           v == SetStmt(w, s, r)
<1>1. /\ w \in World /\ w.st[s] \in Statement /\ w.st[s].ird \in ImpDesc
      /\ Columns(w, s) = h.row /\ Columns(w, s) \in Seq(SqlTypes) /\ h \in Shapes
  <2>1. w \in World
    BY DEF Sound
  <2>2. Columns(w, s) = h.row /\ Columns(w, s) \in Seq(SqlTypes)
    BY <2>1, TypesOfShape, Zenon DEF Columns
  <2> QED BY <2>1, <2>2 DEF World, Statement
<1>2. /\ i \in ImpDesc /\ i.count = w.st[s].ird.count
      /\ \A c \in Cols :
              /\ i.rec[c].conv = w.st[s].ird.rec[c].conv
              /\ c \in DOMAIN h.row => i.rec[c].sql \in {h.row[c], w.st[s].ird.rec[c].sql}
  <2>1. h.row \in Seq(SqlTypes)
    BY <1>1
  <2> HIDE DEF h
  <2> QED BY <1>1, <2>1, DefineIs
<1>3. SetResultSet(w, s, w.st[s].prep) = v
  <2> DEFINE y == SetStmt(w, s, q)
             z == SetStmt(y, s, p)
  <2>1. q.open = h /\ q.ird = w.st[s].ird /\ q.prep = h /\ q \in Statement
    BY <1>1 DEF Statement, AllShapes
  <2>2. y.st[s] = q /\ y = [w EXCEPT !.st[s] = q]
    BY <1>1 DEF World, SetStmt
  <2>3. Columns(y, s) = h.row /\ y.st[s].prep # NoShape
    BY <2>1, <2>2 DEF Columns
  <2> HIDE DEF y, q, i
  <2>4. UpdateDefinedOut(y, s) = z
    BY <2>1, <2>2, <2>3 DEF UpdateDefinedOut, i
  <2>5. z = [w EXCEPT !.st[s] = p] /\ z.st[s] = p
    BY <1>1, <2>2 DEF World, SetStmt
  <2> HIDE DEF z, p
  <2>6. SetResultSet(w, s, w.st[s].prep)
          = SetStmt(z, s, [z.st[s] EXCEPT !.numberColumns = Len(h.row), !.fetching = FALSE])
    BY <2>3, <2>4 DEF SetResultSet, y, q
  <2>7. SetStmt(z, s, r) = v
    BY <1>1, <2>5 DEF SetStmt, World
  <2> QED BY <2>5, <2>6, <2>7
<1> HIDE DEF i
<1>4. j \in ImpDesc /\ j.count = i.count /\ j.rec = i.rec /\ j.defined
  BY <1>2 DEF ImpDesc
<1> HIDE DEF j
<1>n. Len(h.row) \in Nat /\ h \in AllShapes \cup {NoShape}
  BY <1>1 DEF AllShapes
<1>5. /\ r \in Statement /\ r.live = w.st[s].live /\ r.prep = h
      /\ r.open = h /\ r.numberColumns = Len(h.row)
      /\ r.fetching = FALSE /\ r.cur = w.st[s].cur /\ r.ird = j
      /\ r.bind = w.st[s].bind /\ r.clean = w.st[s].clean /\ r.ipd = w.st[s].ipd
  <2> DEFINE n == Len(h.row)
             e == w.st[s]
  <2>1. n \in Nat /\ h \in AllShapes \cup {NoShape} /\ e \in Statement /\ e.prep = h
    BY <1>1, <1>n
  <2>2. r = [e EXCEPT !.open = h, !.ird = j, !.numberColumns = n, !.fetching = FALSE]
    BY <2>1 DEF Statement
  <2> HIDE DEF h, n, e
  <2>3. [e EXCEPT !.open = h, !.ird = j, !.numberColumns = n, !.fetching = FALSE] \in Statement
    BY <1>4, <2>1 DEF Statement
  <2> HIDE DEF r
  <2>4. /\ r \in Statement /\ r.live = e.live /\ r.prep = h
        /\ r.open = h /\ r.numberColumns = n
        /\ r.fetching = FALSE /\ r.cur = e.cur /\ r.ird = j
        /\ r.bind = e.bind /\ r.clean = e.clean /\ r.ipd = e.ipd
    BY <2>1, <2>2, <2>3 DEF Statement
  <2> QED BY <2>4 DEF e, n
<1> HIDE DEF r
<1>6. Quiet(w, v, s, {<<s, "row">>})
  <2>1. SameSide(w.st[s], r, "param")
    BY <1>5 DEF SameSide
  <2>2. \A x \in Sides : <<s, x>> \notin {<<s, "row">>} /\ r.clean[x] =>
          w.st[s].clean[x] /\ SameSide(w.st[s], r, x)
    BY <1>5, <2>1 DEF Sides
  <2> QED BY <1>1, <1>5, <2>2, OwnQuiet
<1>7. OneStmt(w, v, s, r)
  BY <1>1, <1>5, SetStmtIs
<1> HIDE DEF v
<1>8. v \in World /\ v.app = w.app /\ v.st[s] = r
  BY <1>7 DEF OneStmt
<1>9. Columns(v, s) = h.row /\ Parameters(v, s) = Parameters(w, s)
  BY <1>5, <1>8 DEF Columns, Parameters
<1>10. \A x \in Sides : MetaData(v, s, x) = MetaData(w, s, x)
  BY <1>1, <1>9 DEF MetaData
<1>11. \A x \in Sides : SqlAgrees(w, s, x) /\ DOMAIN MetaData(w, s, x) \subseteq Cols
  BY <1>1, DueColsIn, Zenon DEF Sound, Agree
<1>12. SqlAgrees(v, s, "row")
  <2> SUFFICES ASSUME NEW c \in DOMAIN h.row
               PROVE  i.rec[c].sql \in {"unknown", h.row[c]}
    BY <1>4, <1>5, <1>8, <1>9, Zenon DEF SqlAgrees, MetaData, ImpRec
  <2>1. c \in Cols /\ w.st[s].ird.rec[c].sql \in {"unknown", h.row[c]}
    BY <1>1, <1>11 DEF Sides, SqlAgrees, MetaData, ImpRec
  <2> QED BY <1>2, <2>1, Zenon
<1>13. SqlAgrees(v, s, "param")
  BY <1>5, <1>8, <1>9, <1>11 DEF SqlAgrees, MetaData, ImpRec, Sides
<1>14. Agree(v, s)
  <2>1. Agree(w, s)
    BY DEF Sound
  <2>2. v.st[s].live /\ \A x \in Sides : v.app[v.st[s].cur[x]].live
    BY <1>5, <1>8, <2>1 DEF Agree
  <2> QED BY <1>4, <1>5, <1>8, <1>9, <1>12, <1>13, <2>2 DEF Agree, Sides
<1>15. Good(v, s, "row")
  <2> SUFFICES ASSUME v.st[s].clean["row"] PROVE SideOk(v, s, "row")
    BY DEF Good
  <2>1. SideOk(w, s, "row")
    BY <1>5, <1>8 DEF Sound, Good, Described, Sides
  <2>2. Benign(w.app[w.st[s].cur["row"]], v.app[w.st[s].cur["row"]])
    BY <1>8, BenignSelf
  <2>3. MetaData(v, s, "row") = MetaData(w, s, "row")
    BY <1>10 DEF Sides
  <2>4. Alike(w, v, s, "row")
    BY <1>2, <1>4, <1>5, <1>8, <2>2, <2>3, Zenon DEF Alike, Looks
  <2> QED BY <1>1, <2>1, <2>4, AlikeOk DEF Sides
<1>16. Sound(v)
  <2>1. {<<s, "row">>} \subseteq {s} \X Sides
    BY DEF Sides
  <2> QED BY <1>6, <1>14, <1>15, <2>1, QuietSound
<1>17. Opened(w, v, s)
  BY <1>5, <1>8, <1>16 DEF Opened
<1> QED BY <1>3, <1>17

\* inputParam: every parameter that is due is in the list.
LEMMA InputParamIs ==
  ASSUME NEW w, Sound(w), NEW s \in Stmts, w.st[s].prep # NoShape,
         w.st[s].open = NoShape
  PROVE  LET v == InputParam(w, s)
         IN /\ Sound(v) /\ v.st[s].prep = w.st[s].prep /\ v.st[s].open = NoShape
            /\ v.st[s].clean["param"] => SideOk(v, s, "param") /\ AllIn(v, s, "param", {})
<1> DEFINE x == "param"
           i == [w.st[s].ipd EXCEPT !.defined = TRUE]
           u == SetStmt(w, s, [w.st[s] EXCEPT !.ipd = i])
           v == Rebind(u, s, x)
<1>0. w \in World /\ Agree(w, s)
  BY DEF Sound
<1>1. CASE Parameters(w, s) = <<>>
  <2>1. InputParam(w, s) = w
    BY <1>1 DEF InputParam
  <2>2. w.st[s].clean[x] => SideOk(w, s, x)
    BY DEF Sound, Good, Described, Sides
  <2>3. AllIn(w, s, x, {})
    BY <1>1 DEF AllIn, DueCols, MetaData
  <2> QED BY <2>1, <2>2, <2>3
<1>2. CASE Parameters(w, s) # <<>>
  <2>1. InputParam(w, s) = v
    BY <1>2 DEF InputParam, Rebind
  <2>a. w.st[s].ipd \in ImpDesc
    BY <1>0 DEF World, Statement
  <2>2. i \in ImpDesc /\ i.rec = w.st[s].ipd.rec
    BY <2>a DEF ImpDesc
  <2>3. IpdSet(w, u, s, i)
    BY <1>0, <2>2, SetIpdIs
  <2> HIDE DEF u, i
  <2>4. Agree(u, s)
    <3>1. u.st[s].live => \A y \in Sides : u.app[u.st[s].cur[y]].live
      BY <1>0, <2>3 DEF IpdSet, Agree
    <3> QED BY <1>0, <2>2, <2>3, <3>1, SameAgree DEF IpdSet
  <2>5. Quiet(w, u, s, {}) /\ Quiet(w, u, s, {<<s, x>>}) /\ u \in World
    BY <2>3 DEF IpdSet
  <2>6. Sound(u)
    BY <2>4, <2>5, QuietSound
  <2>7. u.st[s].clean[x] /\ Described(u, s, x) =>
            /\ SideBut(u, s, x, Waiting(u, s, x)) /\ AllIn(u, s, x, Waiting(u, s, x))
    BY <2>5, <2>6, WaitsOrIn DEF Sound, Good, Sides
  <2>8. Looked(u, v, s, x)
    BY <2>4, <2>5, <2>7, RebindSound DEF Sides
  <2> HIDE DEF v
  <2>9. v.st[s].prep = w.st[s].prep /\ v.st[s].open = NoShape
    BY <2>3, <2>8 DEF Looked, Rebound, IpdSet
  <2>10. v.st[s].clean[x] => SideOk(v, s, x) /\ AllIn(v, s, x, {})
    BY <2>8, <2>9 DEF Looked, Described
  <2> QED BY <2>1, <2>8, <2>9, <2>10 DEF Looked
<1> QED BY <1>1, <1>2

LEMMA ExecuteSound ==
  ASSUME IInv, NEW s \in Stmts, Execute(s)
  PROVE  IInv' /\ TransfersAsBound'
<1> DEFINE n == Now
           x == "param"
           a == ReleaseResultSet(n, s)
           b == SetFetching(a, s, FALSE)
           w == InputParam(b, s)
           done == IF Columns(w, s) = <<>> THEN w ELSE SetResultSet(w, s, w.st[s].prep)
           m == [stmt |-> s, side |-> "param", items |-> Items(w, s, "param")]
<1>1. Sound(n) /\ n \in World
  BY DEF IInv, Sound
<1>2. /\ n.st[s].prep # NoShape
      /\ \/ app' = w.app /\ st' = w.st /\ moved' = Nothing
         \/ \E u \in {w, done} : app' = u.app /\ st' = u.st /\ moved' = m
  BY Zenon DEF Execute, Becomes, Now
<1> HIDE DEF n
<1>3. ReleasedResult(n, a, s)
  BY <1>1, ReleaseResultSetIs
<1> HIDE DEF a
<1>4. Sound(a) /\ a.st[s].prep = n.st[s].prep /\ a.st[s].open = NoShape
  BY <1>1, <1>3, ReleasedResultSound, Zenon DEF ReleasedResult
<1>5. FetchingSet(a, b, s, FALSE)
  BY <1>4, SetFetchingIs DEF Sound
<1> HIDE DEF b
<1>6. Sound(b) /\ b.st[s].prep = n.st[s].prep /\ b.st[s].open = NoShape
  BY <1>4, <1>5, NotFetchingSound DEF FetchingSet
<1>7. /\ Sound(w) /\ w.st[s].prep = n.st[s].prep /\ w.st[s].open = NoShape
      /\ w.st[s].clean[x] => SideOk(w, s, x) /\ AllIn(w, s, x, {})
  BY <1>2, <1>6, InputParamIs
<1> HIDE DEF w
<1>8. Opened(w, done, s)
  <2>1. Opened(w, w, s)
    BY <1>7 DEF Opened, Sound
  <2>2. Opened(w, SetResultSet(w, s, w.st[s].prep), s)
    BY <1>2, <1>7, OpenPreparedIs
  <2> QED BY <2>1, <2>2
<1> HIDE DEF done
<1>9. CASE app' = w.app /\ st' = w.st /\ moved' = Nothing
  <2>1. IInv'
    BY <1>7, <1>9, BecomesSound
  <2> QED BY <1>9, <2>1 DEF TransfersAsBound, Nothing
<1>10. ASSUME NEW u, Opened(w, u, s), app' = u.app, st' = u.st, moved' = m
       PROVE  IInv' /\ TransfersAsBound'
  <2>1. IInv'
    BY <1>10, BecomesSound DEF Opened
  <2>2. Now' = u
    <3>1. u = [app |-> u.app, st |-> u.st]
      BY <1>10 DEF Opened, World
    <3> QED BY <1>10, <3>1 DEF Now
  <2>3. ASSUME u.st[s].clean[x] PROVE Items(w, s, x) = DueIn(w, s, x)
    BY <1>7, <1>10, <2>3, ItemsDue DEF Opened, Sound, Sides
  <2>4. DueIn(u, s, x) = DueIn(w, s, x)
    BY <1>10 DEF Opened, DueIn, DueCols, MetaData, Parameters
  <2>5. Due(s, x)' = DueIn(u, s, x)
    BY <1>10, <2>2 DEF Due, DueIn, DueCols
  <2>6. TransfersAsBound'
    BY <1>10, <2>3, <2>4, <2>5 DEF TransfersAsBound
  <2> QED BY <2>1, <2>6
<1>11. Opened(w, w, s)
  BY <1>7 DEF Opened, Sound
<1> QED BY <1>2, <1>8, <1>9, <1>10, <1>11

-----------------------------------------------------------------------------
\* SQLPrepare and the catalog calls.

\* The new statement has no parameter in its list.
Begun(w, v, s, h) ==
  /\ v \in World /\ v.app = w.app /\ Quiet(w, v, s, {s} \X Sides)
  /\ v.st[s].live = w.st[s].live /\ v.st[s].cur = w.st[s].cur
  /\ v.st[s].prep = h /\ v.st[s].open = w.st[s].open
  /\ v.st[s].bind.param = {}

Begin(w, s, h) ==
  RemoveAll(SetStmt(w, s, [w.st[s] EXCEPT !.prep = h,
                                          !.clean = [row |-> TRUE, param |-> TRUE]]),
            s, "param")

LEMMA BeginIs ==
  ASSUME NEW w \in World, NEW s \in Stmts, NEW h \in Shapes
  PROVE  Begun(w, Begin(w, s, h), s, h)
<1> DEFINE both == [row |-> TRUE, param |-> TRUE]
           q == [w.st[s] EXCEPT !.prep = h, !.clean = both]
           y == SetStmt(w, s, q)
           none == [q.bind EXCEPT !["param"] = {}]
           e == [q EXCEPT !.bind = none]
           v == SetStmt(y, s, e)
<1>1. w.st[s] \in Statement
  BY DEF World
<1>2. /\ q \in Statement /\ q.live = w.st[s].live /\ q.cur = w.st[s].cur
      /\ q.prep = h /\ q.open = w.st[s].open
  BY <1>1 DEF Statement
<1> HIDE DEF q
<1>3. OneStmt(w, y, s, q) /\ Quiet(w, y, s, {s} \X Sides)
  BY <1>2, SetStmtIs, OwnQuiet
<1>4. y \in World /\ y.st[s] = q /\ y.app = w.app
  BY <1>3 DEF OneStmt
<1>5. Begin(w, s, h) = v
  BY <1>4 DEF Begin, RemoveAll, y, q
<1> HIDE DEF y
<1>6. none \in [row : SUBSET Bound, param : SUBSET Bound] /\ none.param = {}
  <2>1. q.bind \in [row : SUBSET Bound, param : SUBSET Bound]
    BY <1>2 DEF Statement
  <2> QED BY <2>1
<1> HIDE DEF none
<1>7. /\ e \in Statement /\ e.live = q.live /\ e.cur = q.cur /\ e.prep = q.prep
      /\ e.open = q.open /\ e.bind = none
  BY <1>2, <1>6 DEF Statement
<1> HIDE DEF e
<1>8. OneStmt(y, v, s, e) /\ Quiet(y, v, s, {s} \X Sides)
  BY <1>4, <1>7, SetStmtIs, OwnQuiet
<1> HIDE DEF v
<1>9. Quiet(w, v, s, {s} \X Sides)
  BY <1>3, <1>8, QuietTwice
<1>10. Begun(w, v, s, h)
  BY <1>2, <1>4, <1>6, <1>7, <1>8, <1>9 DEF Begun, OneStmt
<1> QED BY <1>5, <1>10

\* What sqlPrepare does to the parameters.
ParamsSet(w, v, s) ==
  /\ v \in World /\ Quiet(w, v, s, {<<s, "param">>})
  /\ v.st[s].live = w.st[s].live /\ v.st[s].prep = w.st[s].prep
  /\ v.st[s].open = w.st[s].open /\ v.st[s].cur = w.st[s].cur
  /\ v.st[s].ird.defined = w.st[s].ird.defined
  /\ SqlAgrees(w, s, "row") => SqlAgrees(v, s, "row")
  /\ SqlAgrees(v, s, "param") /\ Good(v, s, "param")

NewParams(w, s, d) ==
  RebindParam(ClearPrepared(UpdateDefinedIn(SetDefaultIpd(w, s), s), d), s)

LEMMA NewParamsIs ==
  ASSUME NEW w \in World, NEW s \in Stmts,
         w.st[s].clean.param => w.st[s].bind.param = {}
  PROVE  ParamsSet(w, NewParams(w, s, w.st[s].cur.param), s)
<1> DEFINE x == "param"
           d == w.st[s].cur.param
           n == Len(Parameters(w, s))
           i == [w.st[s].ipd EXCEPT !.count = n]
           a == SetStmt(w, s, [w.st[s] EXCEPT !.ipd = i])
           j == Define(i, Parameters(w, s), TRUE)
           b == SetStmt(a, s, [a.st[s] EXCEPT !.ipd = j])
           u == ClearPrepared(b, d)
           v == Rebind(u, s, x)
<1>1. /\ w.st[s].ipd \in ImpDesc /\ d \in AppDescs /\ x \in Sides
      /\ Parameters(w, s) \in Seq(SqlTypes) /\ n \in 0 .. MaxCol
  <2>1. w.st[s].ipd \in ImpDesc /\ d \in AppDescs
    BY DEF World, Statement
  <2>2. Parameters(w, s) \in Seq(SqlTypes) /\ n \in 0 .. MaxCol
    BY TypesOfShape, DescriptorsAssumption
  <2> QED BY <2>1, <2>2 DEF Sides
<1>2. i \in ImpDesc
  BY <1>1 DEF ImpDesc
<1>3. SetDefaultIpd(w, s) = a
  BY DEF SetDefaultIpd
<1> HIDE DEF i
<1>4. IpdSet(w, a, s, i)
  BY <1>2, SetIpdIs
<1> HIDE DEF a
<1>5. Parameters(a, s) = Parameters(w, s) /\ a \in World /\ a.st[s].ipd = i
  BY <1>4 DEF IpdSet, Parameters
<1>6. UpdateDefinedIn(a, s) = b
  BY <1>5 DEF UpdateDefinedIn
<1>7. /\ j \in ImpDesc
      /\ \A c \in Cols : c \in DOMAIN Parameters(w, s) =>
           j.rec[c].sql \in {Parameters(w, s)[c]}
  <2> DEFINE meta == Parameters(w, s)
  <2>1. meta \in Seq(SqlTypes)
    BY <1>1
  <2> HIDE DEF meta
  <2>2. /\ Define(i, meta, TRUE) \in ImpDesc
        /\ \A c \in Cols : c \in DOMAIN meta =>
             Define(i, meta, TRUE).rec[c].sql
                     \in IF TRUE THEN {meta[c]} ELSE {meta[c], i.rec[c].sql}
    BY <1>2, <2>1, DefineIs
  <2> QED BY <2>2 DEF meta
<1> HIDE DEF j
<1>8. IpdSet(a, b, s, j)
  BY <1>5, <1>7, SetIpdIs
<1> HIDE DEF b
<1>9. Cleared(b, u, d)
  BY <1>1, <1>8, ClearPreparedIs DEF IpdSet
<1> HIDE DEF u
<1>10. /\ u \in World /\ u.st = b.st /\ Quiet(w, u, s, {<<s, x>>})
       /\ u.st[s].ipd = j /\ u.st[s].ird = w.st[s].ird
       /\ u.st[s].live = w.st[s].live /\ u.st[s].prep = w.st[s].prep
       /\ u.st[s].open = w.st[s].open /\ u.st[s].cur = w.st[s].cur
       /\ u.st[s].bind = w.st[s].bind /\ u.st[s].clean = w.st[s].clean
  <2>1. Quiet(w, a, s, {<<s, x>>}) /\ Quiet(a, b, s, {<<s, x>>}) /\ Quiet(b, u, s, {<<s, x>>})
    BY <1>4, <1>8, <1>9, Zenon DEF IpdSet, Cleared
  <2>2. Quiet(w, b, s, {<<s, x>>})
    BY <2>1, QuietTwice
  <2>3. Quiet(w, u, s, {<<s, x>>})
    BY <2>1, <2>2, QuietTwice
  <2> QED BY <1>4, <1>8, <1>9, <2>3, Zenon DEF IpdSet, Cleared
<1>11. Columns(u, s) = Columns(w, s) /\ Parameters(u, s) = Parameters(w, s)
  BY <1>10 DEF Columns, Parameters
<1>12. SqlAgrees(u, s, x)
  <2>1. \A c \in DOMAIN Parameters(w, s) : c \in Cols
    BY TypesOfShape, Zenon
  <2> QED BY <1>7, <1>10, <1>11, <2>1 DEF SqlAgrees, ImpRec, MetaData
<1>13. SqlAgrees(w, s, "row") => SqlAgrees(u, s, "row")
  BY <1>10, <1>11 DEF SqlAgrees, ImpRec, MetaData
<1>14. Rebound(u, v, s, x)
  BY <1>1, <1>10, RebindKeeps
<1>15. ASSUME u.st[s].clean.param PROVE SideOk(v, s, x)
  <2>1. Fresh(u, s, x)
    BY <1>9, <1>10, <1>15, Zenon DEF Fresh, Counted, Cleared
  <2> QED BY <1>1, <1>10, <1>12, <2>1, FreshRebind
<1>16. NewParams(w, s, w.st[s].cur.param) = v
  BY <1>3, <1>6 DEF NewParams, Rebind, u
<1> HIDE DEF v
<1>17. Good(v, s, x)
  BY <1>14, <1>15 DEF Good, Rebound
<1>18. Quiet(w, v, s, {<<s, x>>})
  BY <1>10, <1>14, QuietTwice DEF Rebound
<1>19. ParamsSet(w, v, s)
  BY <1>10, <1>12, <1>13, <1>14, <1>17, <1>18 DEF ParamsSet, Rebound, Sides
<1> QED BY <1>16, <1>19

\* The number of columns is told last.
Numbered(w, v, s, k) ==
  /\ v \in World /\ v.app = w.app
  /\ v.st[s].live = w.st[s].live /\ v.st[s].prep = w.st[s].prep
  /\ v.st[s].open = w.st[s].open /\ v.st[s].cur = w.st[s].cur
  /\ v.st[s].ird = w.st[s].ird /\ v.st[s].ipd = w.st[s].ipd
  /\ v.st[s].numberColumns = k
  /\ \A y \in Sides : MetaData(v, s, y) = MetaData(w, s, y)
  /\ \A y \in Sides : SqlAgrees(w, s, y) => SqlAgrees(v, s, y)

LEMMA NumberIs ==
  ASSUME NEW w \in World, NEW s \in Stmts, NEW k \in Nat
  PROVE  LET v == SetStmt(w, s, [w.st[s] EXCEPT !.numberColumns = k])
         IN Numbered(w, v, s, k) /\ Quiet(w, v, s, {})
<1> DEFINE r == [w.st[s] EXCEPT !.numberColumns = k]
           v == SetStmt(w, s, r)
<1>1. w.st[s] \in Statement
  BY DEF World
<1>2. /\ r \in Statement /\ r.live = w.st[s].live /\ r.prep = w.st[s].prep
      /\ r.open = w.st[s].open /\ r.numberColumns = k
      /\ r.fetching = w.st[s].fetching /\ r.cur = w.st[s].cur /\ r.ird = w.st[s].ird
      /\ r.bind = w.st[s].bind /\ r.clean = w.st[s].clean /\ r.ipd = w.st[s].ipd
  BY <1>1 DEF Statement
<1> HIDE DEF r
<1>3. Quiet(w, v, s, {})
  <2>1. \A y \in Sides : SameSide(w.st[s], r, y)
    BY <1>2 DEF SameSide
  <2> QED BY <1>2, <2>1, OwnQuiet
<1>4. OneStmt(w, v, s, r)
  BY <1>2, SetStmtIs
<1> HIDE DEF v
<1>5. \A y \in Sides : MetaData(v, s, y) = MetaData(w, s, y)
  BY <1>2, <1>4 DEF OneStmt, MetaData, Columns, Parameters
<1>6. \A y \in Sides : SqlAgrees(w, s, y) => SqlAgrees(v, s, y)
  BY <1>2, <1>4, <1>5 DEF OneStmt, SqlAgrees, ImpRec
<1>7. Numbered(w, v, s, k)
  BY <1>2, <1>4, <1>5, <1>6 DEF Numbered, OneStmt
<1>8. v = SetStmt(w, s, [w.st[s] EXCEPT !.numberColumns = k])
  BY DEF v, r
<1> QED BY <1>3, <1>7, <1>8

LEMMA PrepareSound ==
  ASSUME IInv, NEW s \in Stmts, NEW h \in Shapes, Prepare(s, h)
  PROVE  IInv' /\ moved' = Nothing
<1> DEFINE n == Now
           a == ReleaseStatement(n, s)
           p == Begin(a, s, h)
           rows == NewColumns(p, s)
           done == NewParams(rows, s, n.st[s].cur.param)
           k == Len(h.row)
           f == SetStmt(done, s, [done.st[s] EXCEPT !.numberColumns = k])
<1>1. Sound(n) /\ n \in World
  BY Zenon DEF IInv, Sound
<1>2. /\ n.st[s].live /\ \A x \in Sides : n.app[n.st[s].cur[x]].live
      /\ moved' = Nothing
      /\ \/ app' = a.app /\ st' = a.st
         \/ app' = f.app /\ st' = f.st
  BY DEF Prepare, Becomes, Usable, Now, Begin, NewParams
<1> HIDE DEF n
<1>3. Released(n, a, s) /\ Sound(a) /\ a \in World
  BY <1>1, ReleaseStatementIs DEF Sound
<1> HIDE DEF a
<1>4. Begun(a, p, s, h)
  BY <1>3, BeginIs
<1> HIDE DEF p
<1>5. ColumnsSet(p, rows, s)
  BY <1>4, NewColumnsIs DEF Begun
<1> HIDE DEF rows
<1>6. rows \in World /\ rows.st[s].cur = n.st[s].cur /\ rows.st[s].prep = h
      /\ rows.st[s].open = NoShape /\ rows.st[s].live
  BY <1>2, <1>3, <1>4, <1>5, Zenon DEF Released, Begun, ColumnsSet
<1>7. rows.st[s].clean.param => rows.st[s].bind.param = {}
  <2>1. Undisturbed(p, rows, s, "param")
    BY <1>5 DEF ColumnsSet, Quiet, Sides
  <2> QED BY <1>4, <2>1 DEF Undisturbed, SameSide, Begun
<1>8. ParamsSet(rows, done, s)
  BY <1>6, <1>7, NewParamsIs
<1> HIDE DEF done
<1>9. /\ k \in Nat /\ h.row \in Seq(SqlTypes) /\ h # NoShape
  BY DescriptorsAssumption DEF AllShapes, Sides
<1>10. Numbered(done, f, s, k) /\ Quiet(done, f, s, {})
  BY <1>8, <1>9, NumberIs DEF ParamsSet
<1> HIDE DEF f
<1>11. /\ f \in World /\ f.st[s].live /\ f.st[s].prep = h /\ f.st[s].open = NoShape
       /\ f.st[s].cur = n.st[s].cur /\ f.st[s].numberColumns = k
       /\ SqlAgrees(f, s, "row") /\ SqlAgrees(f, s, "param")
  BY <1>5, <1>6, <1>8, <1>10 DEF ColumnsSet, ParamsSet, Numbered, Sides
<1>12. Quiet(n, f, s, {s} \X Sides)
  <2>1. /\ Quiet(n, a, s, {s} \X Sides) /\ Quiet(a, p, s, {s} \X Sides)
        /\ Quiet(p, rows, s, {s} \X Sides) /\ Quiet(rows, done, s, {s} \X Sides)
        /\ Quiet(done, f, s, {s} \X Sides)
    <3>1. Quiet(p, rows, s, {<<s, "row">>}) /\ Quiet(rows, done, s, {<<s, "param">>})
      BY <1>5, <1>8 DEF ColumnsSet, ParamsSet
    <3>2. /\ {<<s, "row">>} \subseteq {s} \X Sides /\ {<<s, "param">>} \subseteq {s} \X Sides
          /\ {} \subseteq {s} \X Sides
      BY DEF Sides
    <3>3. Quiet(p, rows, s, {s} \X Sides)
      BY <3>1, <3>2, QuietMore
    <3>4. Quiet(rows, done, s, {s} \X Sides)
      BY <3>1, <3>2, QuietMore
    <3>5. Quiet(done, f, s, {s} \X Sides)
      BY <1>10, <3>2, QuietMore
    <3> QED BY <1>3, <1>4, <3>3, <3>4, <3>5 DEF Released, Begun
  <2>2. p \in World /\ done \in World
    BY <1>4, <1>8 DEF Begun, ParamsSet
  <2>3. Quiet(n, p, s, {s} \X Sides)
    BY <1>1, <2>1, QuietTwice
  <2>4. Quiet(n, rows, s, {s} \X Sides)
    BY <1>1, <2>1, <2>3, QuietTwice
  <2>5. Quiet(n, done, s, {s} \X Sides)
    BY <1>1, <2>1, <2>4, QuietTwice
  <2> QED BY <1>1, <2>1, <2>5, QuietTwice
<1>13. Good(f, s, "row")
  <2>1. Good(rows, s, "row")
    BY <1>5 DEF ColumnsSet, Good
  <2>2. Undisturbed(rows, done, s, "row")
    BY <1>8 DEF ParamsSet, Quiet, Sides
  <2>3. Good(done, s, "row")
    BY <1>6, <1>8, <2>1, <2>2, UndisturbedGood DEF ParamsSet, Sides
  <2>4. Undisturbed(done, f, s, "row")
    BY <1>10 DEF Quiet, Sides
  <2> QED BY <1>8, <1>11, <2>3, <2>4, UndisturbedGood DEF ParamsSet, Sides
<1>14. Good(f, s, "param")
  <2>1. Undisturbed(done, f, s, "param")
    BY <1>10 DEF Quiet, Sides
  <2> QED BY <1>8, <1>11, <2>1, UndisturbedGood DEF ParamsSet, Sides
<1>15. Agree(f, s)
  <2>1. Columns(f, s) = h.row
    BY <1>9, <1>11, Zenon DEF Columns
  <2>2. \A x \in Sides : f.app[f.st[s].cur[x]].live
    BY <1>1, <1>2, <1>11, <1>12, TypesOfWorld DEF Quiet
  <2> QED BY <1>11, <2>1, <2>2 DEF Agree, Sides
<1>16. Sound(f)
  <2>1. \A x \in Sides : Good(f, s, x)
    BY <1>13, <1>14 DEF Sides
  <2> QED BY <1>1, <1>12, <1>15, <2>1, QuietSound
<1> QED BY <1>2, <1>3, <1>16, BecomesSound

\* The result of a catalog call is open, and its columns are new.
OpenedCatalog(w, v, s) ==
  /\ v \in World /\ v.app = w.app /\ Quiet(w, v, s, {<<s, "row">>})
  /\ v.st[s].live = w.st[s].live /\ v.st[s].cur = w.st[s].cur
  /\ v.st[s].prep = w.st[s].prep /\ v.st[s].open = CatalogShape

CleanRow(w, s) == SetStmt(w, s, [w.st[s] EXCEPT !.clean = [@ EXCEPT !.row = TRUE]])

LEMMA OpenCatalogIs ==
  ASSUME NEW w \in World, NEW s \in Stmts
  PROVE  LET y == CleanRow(w, s)
         IN OpenedCatalog(w, SetStmt(y, s, [y.st[s] EXCEPT !.open = CatalogShape]), s)
<1> DEFINE both == [w.st[s].clean EXCEPT !.row = TRUE]
           q == [w.st[s] EXCEPT !.clean = both]
           y == SetStmt(w, s, q)
           e == [q EXCEPT !.open = CatalogShape]
           v == SetStmt(y, s, e)
<1>1. w.st[s] \in Statement /\ both \in [row : BOOLEAN, param : BOOLEAN]
      /\ both.param = w.st[s].clean.param
  <2>1. w.st[s] \in Statement /\ w.st[s].clean \in [row : BOOLEAN, param : BOOLEAN]
    BY DEF World, Statement
  <2> QED BY <2>1
<1>2. CleanRow(w, s) = y
  BY DEF CleanRow
<1> HIDE DEF both
<1>3. /\ q \in Statement /\ q.live = w.st[s].live /\ q.cur = w.st[s].cur
      /\ q.prep = w.st[s].prep /\ q.open = w.st[s].open /\ q.bind = w.st[s].bind
      /\ q.clean = both
  BY <1>1 DEF Statement
<1> HIDE DEF q
<1>4. SameSide(w.st[s], q, "param")
  BY <1>3 DEF SameSide
<1>5. OneStmt(w, y, s, q) /\ Quiet(w, y, s, {<<s, "row">>})
  BY <1>1, <1>3, <1>4, SetStmtIs, OwnQuiet DEF Sides
<1>6. y \in World /\ y.st[s] = q /\ y.app = w.app
  BY <1>5 DEF OneStmt
<1> HIDE DEF y
<1>7. /\ e \in Statement /\ e.live = q.live /\ e.cur = q.cur /\ e.prep = q.prep
      /\ e.open = CatalogShape /\ e.bind = q.bind /\ e.clean = q.clean
  BY <1>3 DEF Statement, AllShapes
<1> HIDE DEF e
<1>8. SameSide(q, e, "param")
  BY <1>7 DEF SameSide
<1>9. OneStmt(y, v, s, e) /\ Quiet(y, v, s, {<<s, "row">>})
  BY <1>6, <1>7, <1>8, SetStmtIs, OwnQuiet DEF Sides
<1>10. v = SetStmt(y, s, [y.st[s] EXCEPT !.open = CatalogShape])
  BY <1>6 DEF e
<1> HIDE DEF v
<1>11. Quiet(w, v, s, {<<s, "row">>})
  BY <1>5, <1>9, QuietTwice
<1>12. OpenedCatalog(w, v, s)
  BY <1>3, <1>6, <1>7, <1>9, <1>11 DEF OpenedCatalog, OneStmt
<1> QED BY <1>2, <1>10, <1>12

\* The number of columns is told and no row was fetched.
LEMMA ToldIs ==
  ASSUME NEW w \in World, NEW s \in Stmts, NEW k \in Nat
  PROVE  LET v == SetStmt(w, s, [w.st[s] EXCEPT !.numberColumns = k, !.fetching = FALSE])
         IN /\ Numbered(w, v, s, k) /\ Quiet(w, v, s, {<<s, "row">>})
            /\ SideOk(w, s, "row") => SideOk(v, s, "row")
<1> DEFINE r == [w.st[s] EXCEPT !.numberColumns = k, !.fetching = FALSE]
           v == SetStmt(w, s, r)
<1>1. w.st[s] \in Statement
  BY DEF World
<1>2. /\ r \in Statement /\ r.live = w.st[s].live /\ r.prep = w.st[s].prep
      /\ r.open = w.st[s].open /\ r.numberColumns = k
      /\ r.fetching = FALSE /\ r.cur = w.st[s].cur /\ r.ird = w.st[s].ird
      /\ r.bind = w.st[s].bind /\ r.clean = w.st[s].clean /\ r.ipd = w.st[s].ipd
  BY <1>1 DEF Statement
<1> HIDE DEF r
<1>3. SameSide(w.st[s], r, "param")
  BY <1>2 DEF SameSide
<1>4. Quiet(w, v, s, {<<s, "row">>})
  BY <1>2, <1>3, OwnQuiet DEF Sides
<1>5. OneStmt(w, v, s, r)
  BY <1>2, SetStmtIs
<1> HIDE DEF v
<1>6. \A y \in Sides : MetaData(v, s, y) = MetaData(w, s, y)
  BY <1>2, <1>5 DEF OneStmt, MetaData, Columns, Parameters
<1>7. \A y \in Sides : SqlAgrees(w, s, y) => SqlAgrees(v, s, y)
  BY <1>2, <1>5, <1>6 DEF OneStmt, SqlAgrees, ImpRec
<1>8. Numbered(w, v, s, k)
  BY <1>2, <1>5, <1>6, <1>7 DEF Numbered, OneStmt
<1>9. ASSUME SideOk(w, s, "row") PROVE SideOk(v, s, "row")
  <2>1. Benign(w.app[w.st[s].cur["row"]], v.app[w.st[s].cur["row"]])
    BY <1>5, BenignSelf, Zenon DEF OneStmt
  <2>2. Alike(w, v, s, "row")
    BY <1>2, <1>5, <1>6, <2>1 DEF Alike, Looks, OneStmt, Sides
  <2> QED BY <1>9, <2>2, AlikeOk DEF Sides
<1>10. v = SetStmt(w, s, [w.st[s] EXCEPT !.numberColumns = k, !.fetching = FALSE])
  BY DEF v, r
<1> QED BY <1>4, <1>8, <1>9, <1>10

LEMMA CatalogCallSound ==
  ASSUME IInv, NEW s \in Stmts, CatalogCall(s)
  PROVE  IInv' /\ moved' = Nothing
<1> DEFINE n == Now
           a == ReleaseStatement(n, s)
           y == CleanRow(a, s)
           q == SetStmt(y, s, [y.st[s] EXCEPT !.open = CatalogShape])
           u == NewColumns(q, s)
           k == Len(CatalogShape.row)
           f == SetStmt(u, s, [u.st[s] EXCEPT !.numberColumns = k, !.fetching = FALSE])
           z == SetResultSet(y, s, CatalogShape)
<1>1. Sound(n) /\ n \in World
  BY DEF IInv, Sound
<1>2. /\ n.st[s].live /\ \A x \in Sides : n.app[n.st[s].cur[x]].live
      /\ moved' = Nothing
      /\ \/ app' = a.app /\ st' = a.st
         \/ app' = z.app /\ st' = z.st
  BY DEF CatalogCall, Becomes, Usable, Now, CleanRow
<1> HIDE DEF n
<1>3. Released(n, a, s) /\ Sound(a) /\ a \in World
  BY <1>1, ReleaseStatementIs DEF Sound
<1> HIDE DEF a
<1>4. OpenedCatalog(a, q, s)
  BY <1>3, OpenCatalogIs
<1>5. z = f
  <2>1. q.st[s].prep = NoShape
    BY <1>3, <1>4 DEF OpenedCatalog, Released
  <2> HIDE DEF y
  <2> QED BY <2>1 DEF SetResultSet
<1> HIDE DEF y, q, z
<1>6. ColumnsSet(q, u, s)
  BY <1>4, NewColumnsIs DEF OpenedCatalog
<1> HIDE DEF u
<1>7. k \in Nat /\ CatalogShape # NoShape /\ k = Len(CatalogShape.row)
      /\ CatalogShape.row \in Seq(SqlTypes)
  BY DescriptorsAssumption DEF AllShapes, Sides
<1> HIDE DEF k
<1>8. /\ Numbered(u, f, s, k) /\ Quiet(u, f, s, {<<s, "row">>})
      /\ SideOk(f, s, "row")
  BY <1>6, <1>7, ToldIs, Zenon DEF ColumnsSet
<1> HIDE DEF f
<1>9. /\ f \in World /\ f.st[s].live /\ f.st[s].prep = NoShape
      /\ f.st[s].open = CatalogShape /\ f.st[s].cur = n.st[s].cur
      /\ f.st[s].numberColumns = k /\ SqlAgrees(f, s, "row")
      /\ f.st[s].ird.defined = (Len(Columns(q, s)) > 0)
  BY <1>2, <1>3, <1>4, <1>6, <1>8 DEF Released, OpenedCatalog, ColumnsSet, Numbered, Sides
<1>10. Columns(q, s) = CatalogShape.row /\ Columns(f, s) = CatalogShape.row
       /\ Parameters(f, s) = <<>>
  BY <1>4, <1>7, <1>9 DEF Columns, Parameters, OpenedCatalog
<1>11. SqlAgrees(f, s, "param")
  BY <1>10 DEF SqlAgrees, MetaData
<1>12. Quiet(a, f, s, {<<s, "row">>})
  <2>1. Quiet(a, u, s, {<<s, "row">>})
    BY <1>3, <1>4, <1>6, QuietTwice DEF OpenedCatalog, ColumnsSet
  <2> QED BY <1>3, <1>8, <2>1, QuietTwice
<1>13. Good(f, s, "row") /\ Good(f, s, "param")
  BY <1>8, <1>9 DEF Good, Described
<1>14. CatalogShape.row # <<>> => Len(CatalogShape.row) > 0
  BY <1>7
<1>15. Agree(f, s)
  <2>1. \A d \in AppDescs : f.app[d].live = n.app[d].live
    BY <1>3, <1>12 DEF Quiet, Released
  <2>2. \A x \in Sides : n.st[s].cur[x] \in AppDescs
    BY <1>1, TypesOfWorld
  <2>3. \A x \in Sides : f.app[f.st[s].cur[x]].live
    BY <1>2, <1>9, <2>1, <2>2
  <2>4. \A x \in Sides : SqlAgrees(f, s, x)
    BY <1>9, <1>11 DEF Sides
  <2> QED BY <1>7, <1>9, <1>10, <1>14, <2>3, <2>4 DEF Agree
<1>16. Sound(f)
  <2>1. {<<s, "row">>} \subseteq {s} \X Sides
    BY DEF Sides
  <2>2. \A x \in Sides : <<s, x>> \in {<<s, "row">>} => Good(f, s, x)
    BY <1>13
  <2> QED BY <1>3, <1>12, <1>15, <2>1, <2>2, QuietSound
<1> QED BY <1>2, <1>3, <1>5, <1>16, BecomesSound

-----------------------------------------------------------------------------
\* The theorems.

LEMMA InitSound ==
  ASSUME Init
  PROVE  IInv
<1> DEFINE w == Now
<1>1. /\ w.app = [d \in AppDescs |-> FreshApp] /\ w.st = [s \in Stmts |-> AllocStatement(s)]
      /\ w = [app |-> w.app, st |-> w.st]
  BY DEF Init, Now
<1> HIDE DEF w
<1>2. FreshApp \in AppDesc /\ FreshApp.live = TRUE
  BY FreshAppIs
<1>3. \A s \in Stmts :
        /\ AllocStatement(s) \in Statement
        /\ AllocStatement(s).prep = NoShape /\ AllocStatement(s).open = NoShape
        /\ \A x \in Sides : AllocStatement(s).cur[x] = <<s, x>> /\ <<s, x>> \in AppDescs
  BY AllocStatementIs
<1> HIDE DEF FreshApp, AllocStatement
<1>4. w \in World
  BY <1>1, <1>2, <1>3 DEF World
<1>5. ASSUME NEW s \in Stmts
      PROVE  Agree(w, s) /\ \A x \in Sides : Good(w, s, x)
  <2>1. w.st[s].prep = NoShape /\ w.st[s].open = NoShape
        /\ \A x \in Sides : w.app[w.st[s].cur[x]].live
    <3>1. w.st[s] = AllocStatement(s)
      BY <1>1
    <3>2. \A x \in Sides : w.st[s].cur[x] = <<s, x>> /\ <<s, x>> \in AppDescs
      BY <1>3, <3>1
    <3>3. \A x \in Sides : w.app[w.st[s].cur[x]] = FreshApp
      BY <1>1, <3>2
    <3> QED BY <1>2, <1>3, <3>1, <3>3
  <2>2. \A x \in Sides : MetaData(w, s, x) = <<>>
    BY <2>1 DEF MetaData, Columns, Parameters
  <2>3. \A x \in Sides : SqlAgrees(w, s, x)
    BY <2>2 DEF SqlAgrees
  <2> QED BY <2>1, <2>3 DEF Agree, Good, Described
<1> QED BY <1>4, <1>5 DEF IInv, Sound, w

LEMMA StillSound ==
  ASSUME moved' = Nothing
  PROVE  TransfersAsBound'
BY DEF TransfersAsBound, Nothing

LEMMA StatementCallSound ==
  ASSUME IInv, NEW s \in Stmts, StatementCall(s)
  PROVE  IInv' /\ TransfersAsBound'
<1>1. ASSUME NEW c \in Cols, NEW t \in CTypes, BindCol(s, c, t)
      PROVE  IInv' /\ TransfersAsBound'
  <2>1. IInv'
    BY <1>1, BindColSound
  <2>2. moved' = Nothing
    BY <1>1, Zenon DEF BindCol, Becomes
  <2> QED BY <2>1, <2>2, StillSound
<1>2. ASSUME NEW c \in Cols, NEW t \in CTypes, BindParameter(s, c, t)
      PROVE  IInv' /\ TransfersAsBound'
  <2>1. IInv'
    BY <1>2, BindParameterSound
  <2>2. moved' = Nothing
    BY <1>2, Zenon DEF BindParameter, Becomes
  <2> QED BY <2>1, <2>2, StillSound
<1>3. ASSUME NEW h \in Shapes, Prepare(s, h) PROVE IInv' /\ TransfersAsBound'
  BY <1>3, PrepareSound, StillSound
<1>4. CASE CatalogCall(s)
  BY <1>4, CatalogCallSound, StillSound
<1>5. CASE Execute(s)
  BY <1>5, ExecuteSound
<1>6. CASE Fetch(s)
  BY <1>6, FetchSound
<1>7. CASE Close(s)
  <2>1. IInv'
    BY <1>7, CloseSound
  <2>2. moved' = Nothing
    BY <1>7 DEF Close, Becomes
  <2> QED BY <2>1, <2>2, StillSound
<1>8. CASE Unbind(s) \/ ResetParams(s)
  <2>1. IInv'
    BY <1>8, ForgetSound
  <2>2. moved' = Nothing
    BY <1>8 DEF Unbind, ResetParams, Becomes
  <2> QED BY <2>1, <2>2, StillSound
<1> QED BY <1>1, <1>2, <1>3, <1>4, <1>5, <1>6, <1>7, <1>8 DEF StatementCall

LEMMA DirectCallSound ==
  ASSUME IInv, DirectCall
  PROVE  IInv' /\ TransfersAsBound'
<1>1. moved' = Nothing
  <2>1. \A s \in Stmts : Allocate(s) => moved' = Nothing
    BY DEF Allocate, Becomes
  <2>2. \A s \in Stmts : Drop(s) => moved' = Nothing
    BY DEF Drop, Becomes
  <2>3. \A s \in Stmts, n \in Cols : SetDescFieldIrd(s, n) => moved' = Nothing
    BY DEF SetDescFieldIrd, Becomes
  <2>4. \A s \in Stmts, x \in Sides : \A d : SetAppDesc(s, x, d) => moved' = Nothing
    <3> SUFFICES ASSUME NEW s \in Stmts, NEW x \in Sides, NEW d, SetAppDesc(s, x, d)
                 PROVE  moved' = Nothing
      OBVIOUS
    <3>1. PICK w : Becomes(w)
      BY Zenon DEF SetAppDesc
    <3> QED BY <3>1 DEF Becomes
  <2>5. \A d \in Explicit : AllocDesc(d) \/ FreeDesc(d) => moved' = Nothing
    BY DEF AllocDesc, FreeDesc, Becomes
  <2>6. \A d \in AppDescs, c \in Cols : SetDescFieldDataPtr(d, c) => moved' = Nothing
    BY DEF SetDescFieldDataPtr, Becomes
  <2>7. \A d \in AppDescs, c \in Cols, t \in CTypes :
          SetDescFieldType(d, c, t) => moved' = Nothing
    BY Zenon DEF SetDescFieldType, Becomes
  <2>8. \A d \in AppDescs, n \in 0 .. MaxCol : SetDescFieldCount(d, n) => moved' = Nothing
    BY DEF SetDescFieldCount, Becomes
  <2>9. \A from, to \in AppDescs : CopyDesc(from, to) => moved' = Nothing
    BY Zenon DEF CopyDesc, Becomes
  <2> QED BY <2>1, <2>2, <2>3, <2>4, <2>5, <2>6, <2>7, <2>8, <2>9 DEF DirectCall
<1>2. ASSUME NEW s \in Stmts, Allocate(s) \/ Drop(s) PROVE IInv'
  BY <1>2, AllocateSound, DropSound
<1>3. ASSUME NEW s \in Stmts, NEW n \in Cols, SetDescFieldIrd(s, n) PROVE IInv'
  BY <1>3, IrdSound
<1>4. ASSUME NEW s \in Stmts, NEW x \in Sides, NEW d \in Explicit \cup {<<s, x>>},
             SetAppDesc(s, x, d)
      PROVE  IInv'
  <2>1. d \in AppDescs
    BY DEF AppDescs
  <2> QED BY <1>4, <2>1, SetAppDescSound
<1>5. ASSUME NEW d \in Explicit, AllocDesc(d) \/ FreeDesc(d) PROVE IInv'
  <2>1. d \in AppDescs
    BY DEF AppDescs
  <2> QED BY <1>5, <2>1, AllocDescSound, FreeDescSound
<1>6. ASSUME NEW d \in AppDescs, NEW c \in Cols, SetDescFieldDataPtr(d, c) PROVE IInv'
  BY <1>6, DataPtrSound
<1>7. ASSUME NEW d \in AppDescs, NEW c \in Cols, NEW t \in CTypes, SetDescFieldType(d, c, t)
      PROVE  IInv'
  BY <1>7, TypeSound
<1>8. ASSUME NEW d \in AppDescs, NEW n \in 0 .. MaxCol, SetDescFieldCount(d, n) PROVE IInv'
  BY <1>8, CountSound
<1>9. ASSUME NEW from \in AppDescs, NEW to \in AppDescs, CopyDesc(from, to) PROVE IInv'
  BY <1>9, CopyDescSound
<1>10. IInv'
  BY <1>2, <1>3, <1>4, <1>5, <1>6, <1>7, <1>8, <1>9 DEF DirectCall
<1> QED BY <1>1, <1>10, StillSound

LEMMA NextSound ==
  ASSUME IInv, TransfersAsBound, [Next]_vars
  PROVE  IInv' /\ TransfersAsBound'
<1>1. CASE Next
  BY <1>1, StatementCallSound, DirectCallSound DEF Next
<1>2. CASE UNCHANGED vars
  <2>1. Now' = Now /\ st' = st /\ app' = app /\ moved' = moved
    BY <1>2 DEF vars, Now
  <2>2. IInv'
    BY <2>1 DEF IInv
  <2>3. \A t, x : Due(t, x)' = Due(t, x)
    BY <2>1 DEF Due
  <2>4. TransfersAsBound'
    BY <2>1, <2>3 DEF TransfersAsBound
  <2> QED BY <2>2, <2>4
<1> QED BY <1>1, <1>2

LEMMA SoundAgrees ==
  ASSUME IInv
  PROVE  ColumnsAgree
<1> DEFINE w == Now
<1>1. /\ \A s \in Stmts : Agree(w, s)
      /\ w.st = st /\ w.app = app
  BY DEF IInv, Sound, Now
<1>2. w \in World
  BY DEF IInv, Sound
<1> SUFFICES ASSUME NEW s \in Stmts, w.st[s].prep # NoShape \/ w.st[s].open # NoShape
             PROVE  /\ w.st[s].numberColumns = Len(Columns(w, s))
                    /\ \A c \in DOMAIN Columns(w, s) :
                         w.st[s].ird.rec[c].sql \in {"unknown", Columns(w, s)[c]}
                    /\ \A c \in DOMAIN Parameters(w, s) :
                         w.st[s].ipd.rec[c].sql \in {"unknown", Parameters(w, s)[c]}
  BY <1>1 DEF ColumnsAgree
<1> HIDE DEF w
<1>3. SqlAgrees(w, s, "row") /\ SqlAgrees(w, s, "param")
  BY <1>1 DEF Agree, Sides
<1> QED BY <1>1, <1>3 DEF Agree, SqlAgrees, MetaData, ImpRec

\* The inductive invariant: what the lists of the sides that are clean hold,
\* what the two implementation descriptors say, and the types of the state.
THEOREM Invariance == Spec => [](IInv /\ TransfersAsBound)
<1>1. Init => IInv /\ TransfersAsBound
  <2>1. Init => TransfersAsBound
    BY DEF Init, TransfersAsBound, Nothing
  <2> QED BY <2>1, InitSound
<1>2. IInv /\ TransfersAsBound /\ [Next]_vars => (IInv /\ TransfersAsBound)'
  BY NextSound
<1> QED BY <1>1, <1>2, PTL DEF Spec

\* The descriptors and the statements are always of their types.
TypeOK == Now \in World

THEOREM TypeCorrect == Spec => []TypeOK
<1>1. IInv => TypeOK
  BY DEF IInv, Sound, TypeOK
<1> QED BY <1>1, Invariance, PTL

\* ColumnsAgree for every instance: whatever is prepared, executed, closed or
\* asked of the catalog in whatever order, and whoever touches the descriptors,
\* a statement with columns tells their number, and no record of its two
\* implementation descriptors has the type of an earlier column
\* (OdbcStatement.cpp: sqlPrepare, setResultSet, releaseResultSet).
THEOREM DescribedAsPrepared == Spec => []ColumnsAgree
<1>1. IInv => ColumnsAgree
  BY SoundAgrees
<1> QED BY <1>1, Invariance, PTL

\* TransfersAsBound for every instance: a fetch writes and an execution sends
\* what the attached descriptor asks for, no more and no less, each between the
\* types of now (OdbcStatement.cpp: rebindColumn, rebindParam, inputParam).
THEOREM MovedAsBound == Spec => []TransfersAsBound
BY Invariance, PTL
=============================================================================
