------------------------------ MODULE ApiDoc_proofs ------------------------------
(* The parser of the schema and the document made of it, for every schema.    *)
EXTENDS ApiDoc, WellFoundedInduction, TLAPS

----------------------------------------------------------------------------
(* The inductive invariant of the parser.                                     *)

Relation(t, c) == file[t].columns[c].relation
TargetOf(t, c) == file[t].columns[c].target

\* The parsed tables are those of the file.
TablesInv ==
  /\ file \in Files
  /\ DOMAIN tables \subseteq DOMAIN file
  /\ \A t \in DOMAIN tables : tables[t] = Table(t, file[t])
  /\ phase \in {"tables", "parents", "map", "mutable", "done", "error"}
  /\ phase \notin {"tables", "error"} => DOMAIN tables = DOMAIN file
  /\ phase \in {"parents", "map"} =>
       \A x \in left : \E t \in DOMAIN file : \E c \in References(file[t]) : x = <<t, c>>
  /\ mutable \subseteq DOMAIN file

FamilyInv ==
  /\ parent \in [DOMAIN file -> DOMAIN file \cup {None}]
  /\ DOMAIN children = DOMAIN file
  /\ phase \in {"tables", "error"} => \A t \in DOMAIN file : parent[t] = None /\ children[t] = {}

\* Column c of p is for children of table t; column c of t is for its parent p.
ColumnFor(p, t, c) == c \in References(file[p]) /\ Relation(p, c) = "child" /\ TargetOf(p, c) = t

PointsTo(t, p) == \E c \in References(file[t]) : Relation(t, c) = "parent" /\ TargetOf(t, c) = p

\* A table with a parent is among the children of it, and a child has a parent.
Linked(t) ==
  parent[t] # None =>
    \E c \in children[parent[t]] : (c = t /\ PointsTo(t, parent[t])) \/ ColumnFor(parent[t], t, c)

Adopted(p, c) ==
  \/ c \in References(file[p]) /\ Relation(p, c) = "child" /\ parent[TargetOf(p, c)] # None
  \/ c \in DOMAIN file /\ PointsTo(c, p) /\ parent[c] # None

LinkInv ==
  /\ \A t \in DOMAIN file : Linked(t)
  /\ \A p \in DOMAIN file : \A c \in children[p] : Adopted(p, c)

\* A table has no parent columns that disagree.
OneParent(f) ==
  \A t \in DOMAIN f : \A c, d \in References(f[t]) :
    f[t].columns[c].relation = "parent" /\ f[t].columns[d].relation = "parent" =>
      f[t].columns[c].target = f[t].columns[d].target

\* A parent column that has been looked at decides.
DecidedInv ==
  phase \notin {"tables", "error"} /\ OneParent(file) =>
    \A t \in DOMAIN file : \A c \in References(file[t]) :
      Relation(t, c) = "parent" /\ ~(phase = "parents" /\ <<t, c>> \in left) =>
        parent[t] = TargetOf(t, c)

MutableInv == phase = "done" => mutable = {t \in DOMAIN tables : ~IsImmutable(t)}

ParserInv == TablesInv /\ FamilyInv /\ LinkInv /\ DecidedInv /\ MutableInv

----------------------------------------------------------------------------
(* What a table keeps of its description.                                     *)

\* Its relationships.
LEMMA TableReferences ==
  ASSUME NEW t, NEW raw
  PROVE  /\ DOMAIN Table(t, raw).references = References(raw)
         /\ \A c \in References(raw) : Table(t, raw).references[c] = raw.columns[c]
BY DEF Table

LEMMA TableKeeps ==
  ASSUME TablesInv, NEW t \in DOMAIN tables
  PROVE  /\ DOMAIN tables[t].references = References(file[t])
         /\ \A c \in References(file[t]) : tables[t].references[c] = file[t].columns[c]
BY TableReferences DEF TablesInv

\* They refer to tables of the file.
LEMMA TargetsAreThere ==
  ASSUME TablesInv, NEW t \in DOMAIN file, NEW c \in References(file[t])
  PROVE  /\ TargetOf(t, c) \in DOMAIN file /\ TargetOf(t, c) # None
         /\ t # None /\ c # None
  BY SchemaAssumption DEF TablesInv, References, TargetOf

----------------------------------------------------------------------------
(* The steps of the parser.                                                   *)

\* At first nothing is parsed.
LEMMA InitParserInv == InitParser => ParserInv
<1> SUFFICES ASSUME InitParser PROVE ParserInv
  OBVIOUS
<1>1. TablesInv /\ FamilyInv
  BY DEF InitParser, TablesInv, FamilyInv
<1>2. LinkInv /\ DecidedInv /\ MutableInv
  BY DEF InitParser, LinkInv, Linked, DecidedInv, MutableInv
<1>3. QED
  BY <1>1, <1>2 DEF ParserInv

\* A table is parsed: before any parent is found.
LEMMA ParseTableKeeps ==
  ASSUME ParserInv, NEW t \in DOMAIN file, ParseTable(t)
  PROVE  ParserInv'
<1>1. /\ TablesInv /\ FamilyInv /\ LinkInv
      /\ phase = "tables" /\ t \in DOMAIN file \ DOMAIN tables
      /\ tables' = [u \in DOMAIN tables \cup {t} |-> IF u = t THEN Table(t, file[t]) ELSE tables[u]]
      /\ \/ phase' = "error" /\ left' = left
         \/ /\ phase' = "parents" /\ DOMAIN tables' = DOMAIN file
            /\ left' = UNION {{u} \X DOMAIN tables'[u].references : u \in DOMAIN file}
         \/ phase' = "tables" /\ left' = left
      /\ UNCHANGED <<file, parent, children, refMap, mutable>>
  BY DEF ParserInv, ParseTable
<1>2. /\ DOMAIN tables' \subseteq DOMAIN file
      /\ \A u \in DOMAIN tables' : tables'[u] = Table(u, file[u])
  BY <1>1 DEF TablesInv
<1>3. \A u \in DOMAIN tables' : Table(u, file[u])' = Table(u, file[u])
  BY <1>1
<1>4. ASSUME phase' = "parents"
      PROVE  /\ \A x \in left' : \E u \in DOMAIN file : \E c \in References(file[u]) : x = <<u, c>>
             /\ \A u \in DOMAIN file : \A c \in References(file[u]) : <<u, c>> \in left'
  <2>1. /\ left' = UNION {{u} \X DOMAIN tables'[u].references : u \in DOMAIN file}
        /\ DOMAIN tables' = DOMAIN file
    BY <1>1, <1>4
  <2>2. \A u \in DOMAIN file : tables'[u] = Table(u, file[u])
    BY <1>2, <2>1
  <2>3. \A u \in DOMAIN file : DOMAIN tables'[u].references = References(file[u])
    BY <2>2, TableReferences
  <2>4. left' = UNION {{u} \X References(file[u]) : u \in DOMAIN file}
    BY <2>1, <2>3
  <2>5. QED
    BY <2>4
<1>5. TablesInv'
  BY <1>1, <1>2, <1>3, <1>4 DEF TablesInv
<1>6. FamilyInv' /\ LinkInv'
  BY <1>1 DEF FamilyInv, LinkInv, Linked, Adopted, ColumnFor, PointsTo, Relation, TargetOf
<1>7. DecidedInv' /\ MutableInv'
  BY <1>1, <1>4 DEF DecidedInv, MutableInv
<1>8. QED
  BY <1>5, <1>6, <1>7 DEF ParserInv

\* What is left to walk are relationships.
LEMMA WalkedKeeps ==
  ASSUME TablesInv, NEW t, NEW c, NEW next \in {"map", "mutable"}, phase \in {"parents", "map"} \ {next},
         <<t, c>> \in left, Walked(t, c, next), UNCHANGED <<file, tables, mutable>>
  PROVE  /\ TablesInv' /\ phase' \in {phase, next}
         /\ t \in DOMAIN file /\ c \in References(file[t])
         /\ \A x \in left : x # <<t, c>> => phase' = phase /\ x \in left'
         /\ phase' = phase => left' = left \ {<<t, c>>}
<1>1. /\ DOMAIN tables = DOMAIN file
      /\ \A x \in left : \E u \in DOMAIN file : \E d \in References(file[u]) : x = <<u, d>>
  BY DEF TablesInv
<1>2. t \in DOMAIN file /\ c \in References(file[t])
  BY <1>1
<1>3. CASE left # {<<t, c>>}
  <2>1. left' = left \ {<<t, c>>} /\ phase' = phase
    BY <1>3 DEF Walked
  <2>2. QED
    BY <1>1, <1>2, <2>1 DEF TablesInv
<1>4. CASE left = {<<t, c>>} /\ next = "map"
  <2>1. left' = UNION {{u} \X DOMAIN tables[u].references : u \in DOMAIN tables} /\ phase' = "map"
    BY <1>4 DEF Walked
  <2>2. \A u \in DOMAIN tables : DOMAIN tables[u].references = References(file[u])
    BY TableKeeps
  <2>3. \A x \in left' : \E u \in DOMAIN file : \E d \in References(file[u]) : x = <<u, d>>
    <3> SUFFICES ASSUME NEW x \in left'
                 PROVE  \E u \in DOMAIN file : \E d \in References(file[u]) : x = <<u, d>>
      OBVIOUS
    <3>1. left' = UNION {{u} \X References(file[u]) : u \in DOMAIN tables}
      BY <2>1, <2>2
    <3>2. QED
      BY <1>1, <3>1
  <2>4. TablesInv'
    BY <1>1, <2>1, <2>3 DEF TablesInv
  <2>5. QED
    BY <1>2, <1>4, <2>1, <2>4
<1>5. CASE left = {<<t, c>>} /\ next = "mutable"
  <2>1. left' = {} /\ phase' = "mutable"
    BY <1>5 DEF Walked
  <2>2. QED
    BY <1>1, <1>2, <1>5, <2>1 DEF TablesInv
<1>6. QED
  BY <1>3, <1>4, <1>5

\* A relationship makes a parent and a child.
LEMMA BackfillKeeps ==
  ASSUME ParserInv, NEW t, NEW c, Backfill(t, c)
  PROVE  ParserInv'
<1>1. /\ TablesInv /\ FamilyInv /\ LinkInv /\ DecidedInv
      /\ phase = "parents" /\ <<t, c>> \in left
      /\ Walked(t, c, "map")
      /\ UNCHANGED <<file, tables, refMap, mutable>>
  BY DEF ParserInv, Backfill, MayWalk
<1> DEFINE g == TargetOf(t, c)
<1>2. /\ TablesInv' /\ phase' \in {"parents", "map"}
      /\ t \in DOMAIN file /\ c \in References(file[t])
      /\ \A x \in left : x # <<t, c>> => phase' = "parents" /\ x \in left'
      /\ phase' = "parents" => left' = left \ {<<t, c>>}
  BY <1>1, WalkedKeeps
<1>3. tables[t].references[c] = file[t].columns[c]
  BY <1>1, <1>2, TableKeeps DEF TablesInv
<1>4. g \in DOMAIN file /\ g # None /\ t # None
  BY <1>1, <1>2, TargetsAreThere
<1>5. \/ /\ Relation(t, c) = "child"
         /\ parent' = [parent EXCEPT ![g] = IF @ = None THEN t ELSE @]
         /\ children' = [children EXCEPT ![t] = @ \cup {c}]
      \/ /\ Relation(t, c) = "parent"
         /\ parent' = [parent EXCEPT ![t] = g]
         /\ children' = [children EXCEPT ![g] = @ \cup {t}]
      \/ /\ Relation(t, c) \notin {"child", "parent"}
         /\ UNCHANGED <<parent, children>>
  BY <1>3 DEF Backfill, Relation, TargetOf
<1> HIDE DEF g
<1>6. /\ parent \in [DOMAIN file -> DOMAIN file \cup {None}]
      /\ DOMAIN children = DOMAIN file
  BY <1>1 DEF FamilyInv
<1>7. FamilyInv'
  BY <1>1, <1>2, <1>4, <1>5, <1>6 DEF FamilyInv
<1>8. /\ \A u \in DOMAIN file : parent[u] # None => parent'[u] # None
      /\ \A u \in DOMAIN file : children[u] \subseteq children'[u]
  BY <1>2, <1>4, <1>5, <1>6
<1>9. /\ \A u, d : (Relation(u, d)' = Relation(u, d)) /\ (TargetOf(u, d)' = TargetOf(u, d))
      /\ \A u, p : PointsTo(u, p)' <=> PointsTo(u, p)
      /\ \A p, u, d : ColumnFor(p, u, d)' <=> ColumnFor(p, u, d)
  BY <1>1 DEF Relation, TargetOf, PointsTo, ColumnFor
<1>10. LinkInv'
  <2>1. ASSUME NEW u \in DOMAIN file
        PROVE  Linked(u)'
    <3>1. CASE parent'[u] = None
      BY <3>1 DEF Linked
    <3>2. CASE parent'[u] = parent[u] /\ parent[u] # None
      <4>1. PICK d \in children[parent[u]] :
              (d = u /\ PointsTo(u, parent[u])) \/ ColumnFor(parent[u], u, d)
        BY <1>1, <3>2 DEF LinkInv, Linked
      <4>2. d \in children'[parent'[u]]
        BY <1>6, <1>8, <3>2
      <4>3. QED
        BY <1>1, <3>2, <4>1, <4>2 DEF Linked, PointsTo, ColumnFor, Relation, TargetOf
    <3>3. CASE Relation(t, c) = "child" /\ u = g /\ parent'[u] = t /\ c \in children'[t]
      BY <1>1, <1>2, <3>3 DEF Linked, ColumnFor, Relation, TargetOf, g
    <3>4. CASE Relation(t, c) = "parent" /\ u = t /\ parent'[u] = g /\ t \in children'[g]
      BY <1>1, <1>2, <3>4 DEF Linked, PointsTo, Relation, TargetOf, g
    <3>5. QED
      BY <1>2, <1>4, <1>5, <1>6, <3>1, <3>2, <3>3, <3>4
  <2>2. ASSUME NEW p \in DOMAIN file, NEW d \in children'[p]
        PROVE  Adopted(p, d)'
    <3>1. CASE d \in children[p]
      <4>1. \A e \in References(file[p]) : TargetOf(p, e) \in DOMAIN file
        BY <1>1, TargetsAreThere
      <4>2. Adopted(p, d)
        BY <1>1, <3>1 DEF LinkInv
      <4>3. QED
        BY <1>1, <1>8, <4>1, <4>2 DEF Adopted, PointsTo, Relation, TargetOf
    <3>2. CASE Relation(t, c) = "child" /\ p = t /\ d = c /\ parent'[g] # None
      BY <1>1, <1>2, <3>2 DEF Adopted, Relation, TargetOf, g
    <3>3. CASE Relation(t, c) = "parent" /\ p = g /\ d = t /\ parent'[t] # None
      BY <1>1, <1>2, <3>3 DEF Adopted, PointsTo, Relation, TargetOf, g
    <3>4. QED
      BY <1>2, <1>4, <1>5, <1>6, <3>1, <3>2, <3>3
  <2>3. QED
    BY <1>1, <2>1, <2>2 DEF LinkInv
<1>11. DecidedInv'
  <2> SUFFICES ASSUME OneParent(file), NEW u \in DOMAIN file, NEW d \in References(file[u]),
                      Relation(u, d) = "parent", ~(phase' = "parents" /\ <<u, d>> \in left')
               PROVE  parent'[u] = TargetOf(u, d)
    BY <1>1, <1>9 DEF DecidedInv
  <2>1. CASE u = t /\ d = c
    BY <1>2, <1>5, <1>6, <2>1 DEF g
  <2>2. CASE <<u, d>> # <<t, c>>
    <3>1. <<u, d>> \notin left
      BY <1>2, <2>2
    <3>2. parent[u] = TargetOf(u, d) /\ parent[u] # None
      BY <1>1, <3>1, TargetsAreThere DEF DecidedInv
    <3>3. u = t /\ Relation(t, c) = "parent" => TargetOf(u, d) = g
      BY <1>2 DEF OneParent, Relation, TargetOf, g
    <3>4. QED
      BY <1>2, <1>4, <1>5, <1>6, <3>2, <3>3
  <2>3. QED
    BY <2>1, <2>2
<1>12. QED
  BY <1>2, <1>7, <1>10, <1>11 DEF ParserInv, MutableInv

\* The map of references changes nothing of this.
LEMMA MapReferenceKeeps ==
  ASSUME ParserInv, NEW t, NEW c, MapReference(t, c)
  PROVE  ParserInv'
<1>1. /\ TablesInv /\ FamilyInv /\ LinkInv /\ DecidedInv
      /\ phase = "map" /\ <<t, c>> \in left
      /\ Walked(t, c, "mutable")
      /\ UNCHANGED <<file, tables, parent, children, mutable>>
  BY DEF ParserInv, MapReference, MayWalk
<1>2. TablesInv' /\ phase' \in {"map", "mutable"}
  BY <1>1, WalkedKeeps
<1>3. FamilyInv' /\ DecidedInv'
  BY <1>1, <1>2 DEF FamilyInv, DecidedInv, Relation, TargetOf
<1>4. LinkInv'
  BY <1>1 DEF LinkInv, Linked, Adopted, ColumnFor, PointsTo, Relation, TargetOf
<1>5. QED
  BY <1>2, <1>3, <1>4 DEF ParserInv, MutableInv

\* Nor do the mutable tables.
LEMMA SetMutableKeeps ==
  ASSUME ParserInv, SetMutable
  PROVE  ParserInv'
<1>1. /\ TablesInv /\ FamilyInv /\ LinkInv /\ DecidedInv
      /\ phase = "mutable" /\ phase' = "done"
      /\ mutable' = {t \in DOMAIN tables : ~IsImmutable(t)}
      /\ UNCHANGED <<file, tables, parent, children, left, refMap>>
  BY DEF ParserInv, SetMutable
<1>2. TablesInv'
  BY <1>1 DEF TablesInv
<1>3. FamilyInv' /\ DecidedInv'
  BY <1>1 DEF FamilyInv, DecidedInv, Relation, TargetOf
<1>4. LinkInv'
  BY <1>1 DEF LinkInv, Linked, Adopted, ColumnFor, PointsTo, Relation, TargetOf
<1>5. MutableInv'
  BY <1>1 DEF MutableInv, IsImmutable, HasConfigIndex, ChildColumns
<1>6. QED
  BY <1>2, <1>3, <1>4, <1>5 DEF ParserInv

----------------------------------------------------------------------------
(* What the parser has found.                                                 *)

\* Where a URI may find the rows of a table.
LEMMA Places ==
  ASSUME NEW t, NEW x
  PROVE  x \in Reachable(t) <=>
           \/ \E p \in DOMAIN tables : \E c \in ChildColumns(p, t) : x = Place(p, "child", c)
           \/ \E p \in DOMAIN tables : t \in children[p] /\ x = Place(p, "back", None)
           \/ t # System /\ parent[t] = None /\ x = Place(System, "top", None)
<1>1. x \in InColumns(t) <=>
        \E p \in DOMAIN tables : \E c \in ChildColumns(p, t) : x = Place(p, "child", c)
  BY DEF InColumns
<1>2. x \in Back(t) <=> \E p \in DOMAIN tables : t \in children[p] /\ x = Place(p, "back", None)
  BY DEF Back
<1>3. x \in AtTop(t) <=> t # System /\ parent[t] = None /\ x = Place(System, "top", None)
  BY DEF AtTop
<1>4. QED
  BY <1>1, <1>2, <1>3 DEF Reachable

\* The parents, when no table has parent columns that disagree.
LEMMA ParserFindsParents == ParserInv /\ OneParent(file) => ParentIsFound
<1> SUFFICES ASSUME ParserInv, OneParent(file), phase = "done", NEW t \in DOMAIN tables
             PROVE  /\ \A c \in DOMAIN tables[t].references :
                         tables[t].references[c].relation = "parent" =>
                           parent[t] = tables[t].references[c].target
                    /\ parent[t] # None => \E x \in Reachable(t) : x.of = parent[t]
  BY DEF ParentIsFound
<1>1. TablesInv /\ FamilyInv /\ LinkInv /\ DecidedInv /\ DOMAIN tables = DOMAIN file
  BY DEF ParserInv, TablesInv
<1>2. \A c \in DOMAIN tables[t].references :
        tables[t].references[c].relation = "parent" => parent[t] = tables[t].references[c].target
  BY <1>1, TableKeeps DEF DecidedInv, Relation, TargetOf
<1>3. ASSUME parent[t] # None
      PROVE  \E x \in Reachable(t) : x.of = parent[t]
  <2> DEFINE p == parent[t]
  <2>1. p \in DOMAIN file
    BY <1>1, <1>3 DEF FamilyInv
  <2>2. PICK c \in children[p] : (c = t /\ PointsTo(t, p)) \/ ColumnFor(p, t, c)
    BY <1>1, <1>3 DEF LinkInv, Linked
  <2> HIDE DEF p
  <2>3. CASE c = t
    <3>1. Place(p, "back", None) \in Reachable(t)
      BY <1>1, <2>1, <2>2, <2>3, Places
    <3>2. QED
      BY <3>1 DEF p, Place
  <2>4. CASE ColumnFor(p, t, c)
    <3>1. c \in ChildColumns(p, t)
      BY <1>1, <2>1, <2>2, <2>4, TableKeeps DEF ChildColumns, ColumnFor, TargetOf
    <3>2. Place(p, "child", c) \in Reachable(t)
      BY <1>1, <2>1, <3>1, Places
    <3>3. QED
      BY <3>2 DEF p, Place
  <2>5. QED
    BY <2>2, <2>3, <2>4
<1>4. QED
  BY <1>2, <1>3

\* What the two halves of the program take for granted of a schema: columns are
\* not named like tables, a table with a parent column is in the root set and its
\* parent is not the configuration in its index, and the columns for the
\* children of a table are all configuration or none is.
Uniform(f) ==
  \A p \in DOMAIN f : \A c \in References(f[p]) :
    /\ c \notin DOMAIN f
    /\ f[p].columns[c].relation = "parent" =>
         f[p].root /\ (c \in f[p].index => ~IsConfig(f[p].columns[c]))
    /\ \A q \in DOMAIN f : \A d \in References(f[q]) :
         /\ f[p].columns[c].relation = "child" /\ f[q].columns[d].relation = "child"
         /\ f[p].columns[c].target = f[q].columns[d].target
         => IsConfig(f[p].columns[c]) = IsConfig(f[q].columns[d])

\* Then the columns to a table that is not in the root set are those of a parent.
LEMMA ChildColumnsAreOfChildren ==
  ASSUME ParserInv, Uniform(file), phase = "done", NEW t \in DOMAIN tables, ~tables[t].root
  PROVE  /\ \A p \in DOMAIN tables : t \notin children[p]
         /\ \A p \in DOMAIN tables : \A c \in ChildColumns(p, t) :
              ColumnFor(p, t, c) /\ parent[t] # None /\ c # None
<1>1. TablesInv /\ FamilyInv /\ LinkInv /\ DOMAIN tables = DOMAIN file
  BY DEF ParserInv, TablesInv
<1>2. ~file[t].root
  BY <1>1 DEF TablesInv, Table
<1>3. ASSUME NEW p PROVE ~PointsTo(t, p)
  BY <1>1, <1>2 DEF PointsTo, Relation, Uniform
<1>4. ASSUME NEW p \in DOMAIN tables PROVE t \notin children[p]
  BY <1>1, <1>3 DEF LinkInv, Adopted, Uniform
<1>5. ASSUME NEW p \in DOMAIN tables, NEW c \in ChildColumns(p, t)
      PROVE  ColumnFor(p, t, c) /\ parent[t] # None /\ c # None
  <2>1. c \in children[p] /\ c \in References(file[p]) /\ TargetOf(p, c) = t
    BY <1>1, TableKeeps DEF ChildColumns, TargetOf
  <2>2. c \notin DOMAIN file
    BY <1>1, <2>1 DEF Uniform
  <2>3. Relation(p, c) = "child" /\ parent[t] # None
    BY <1>1, <2>1, <2>2 DEF LinkInv, Adopted
  <2>4. QED
    BY <1>1, <2>1, <2>3, TargetsAreThere DEF ColumnFor
<1>6. QED
  BY <1>4, <1>5

\* And the tables that are mutable may be added to.
LEMMA ParserAgreesWithHandlers == ParserInv /\ Uniform(file) => MutableMayBeCreated
<1> SUFFICES ASSUME ParserInv, Uniform(file), phase = "done",
                    NEW t \in mutable \ {System}, NEW place \in Reachable(t)
             PROVE  MayCreate(t, place)
  BY DEF MutableMayBeCreated, Allowed
<1>1. TablesInv /\ FamilyInv /\ LinkInv /\ DOMAIN tables = DOMAIN file
  BY DEF ParserInv, TablesInv
<1>2. t \in DOMAIN tables /\ ~IsImmutable(t)
  BY DEF ParserInv, MutableInv
<1>3. tables[t] = Table(t, file[t])
  BY <1>1, <1>2 DEF TablesInv
<1>4. CASE tables[t].root
  <2>1. HasConfigIndex(t)
    BY <1>2, <1>4 DEF IsImmutable
  <2>2. PICK c \in tables[t].index :
          \/ c \in tables[t].config
          \/ c \in DOMAIN tables[t].references /\ IsConfig(tables[t].references[c])
    BY <2>1 DEF HasConfigIndex
  <2>3. tables[t].index = file[t].index /\ tables[t].config = Config(file[t])
        /\ tables[t].indexes = Indexes(file[t])
    BY <1>3 DEF Table
  <2>4. c \in Indexes(file[t])
    <3>1. CASE c \in tables[t].config
      <4>1. c \in DOMAIN file[t].columns \ References(file[t])
        BY <2>3, <3>1 DEF Config, Of
      <4>2. file[t].columns[c].relation = "plain"
        BY <4>1 DEF References
      <4>3. QED
        BY <2>2, <2>3, <4>2 DEF Indexes
    <3>2. CASE c \in DOMAIN tables[t].references /\ IsConfig(tables[t].references[c])
      <4>1. c \in References(file[t]) /\ IsConfig(file[t].columns[c])
        BY <1>1, <1>2, <3>2, TableKeeps
      <4>2. file[t].columns[c].relation # "parent"
        BY <1>1, <1>2, <2>2, <2>3, <4>1 DEF Uniform
      <4>3. QED
        BY <2>2, <2>3, <4>2 DEF Indexes
    <3>3. QED
      BY <2>2, <3>1, <3>2
  <2>5. IndexIsConfig(t)
    BY <2>2, <2>3, <2>4 DEF IndexIsConfig
  <2>6. QED
    BY <1>4, <2>5 DEF MayCreate
<1>5. CASE ~tables[t].root
  <2>1. /\ \A p \in DOMAIN tables : t \notin children[p]
        /\ \A p \in DOMAIN tables : \A c \in ChildColumns(p, t) :
             ColumnFor(p, t, c) /\ parent[t] # None /\ c # None
    BY <1>2, <1>5, ChildColumnsAreOfChildren
  <2>2. \/ \E p \in DOMAIN tables : \E c \in ChildColumns(p, t) :
             place = Place(p, "child", c)
        \/ place = Place(System, "top", None)
    BY <2>1, Places
  <2>3. CASE place = Place(System, "top", None)
    BY <1>5, <2>3 DEF MayCreate, Place
  <2>4. ASSUME NEW p \in DOMAIN tables, NEW c \in ChildColumns(p, t),
               place = Place(p, "child", c)
        PROVE  MayCreate(t, place)
    <3> DEFINE q == parent[t]
               d == CHOOSE e \in ChildColumns(q, t) : TRUE
    <3>1. q # None /\ q \in DOMAIN file /\ c # None
      BY <1>1, <1>2, <2>1, <2>4 DEF FamilyInv
    <3>2. \E e : e \in ChildColumns(q, t)
      <4>1. PICK e \in children[q] : (e = t /\ PointsTo(t, q)) \/ ColumnFor(q, t, e)
        BY <1>1, <1>2, <3>1 DEF LinkInv, Linked
      <4>2. ColumnFor(q, t, e)
        BY <1>1, <2>1, <3>1, <4>1
      <4>3. e \in ChildColumns(q, t)
        BY <1>1, <3>1, <4>1, <4>2, TableKeeps DEF ChildColumns, ColumnFor, TargetOf
      <4>4. QED
        BY <4>3
    <3>3. d \in ChildColumns(q, t)
      BY <3>2
    <3>4. ColumnFor(q, t, d) /\ ColumnFor(p, t, c)
      BY <1>1, <2>1, <3>1, <3>3
    <3>5. IsConfig(tables[q].references[d])
      BY <1>2, <1>5, <2>1, <3>1, <1>1 DEF IsImmutable
    <3> HIDE DEF q, d
    <3>6. /\ tables[q].references[d] = file[q].columns[d]
          /\ tables[p].references[c] = file[p].columns[c]
      BY <1>1, <3>1, <3>4, TableKeeps DEF ColumnFor
    <3>7. IsConfig(file[p].columns[c]) = IsConfig(file[q].columns[d])
      BY <1>1, <3>1, <3>4 DEF Uniform, ColumnFor, Relation, TargetOf
    <3>8. IsConfig(tables[p].references[c])
      BY <3>5, <3>6, <3>7
    <3>9. QED
      BY <1>5, <2>4, <3>1, <3>8 DEF MayCreate, Place
  <2>5. QED
    BY <2>2, <2>3, <2>4
<1>6. QED
  BY <1>4, <1>5

----------------------------------------------------------------------------
(* The document.                                                              *)

\* The rest of a document: what every one defines in the end.
Everywhere == {<<"Resource", None>>, <<"ReferencedBy", None>>}

\* What is defined, or will be when the calls are made.
Made == defined \cup Kinds \X {call.table : call \in calls}

\* System is no parent of a table but by its own columns.
TopOfColumns(f) ==
  \A t \in DOMAIN f : \A c \in References(f[t]) :
    f[t].columns[c].relation = "parent" => f[t].columns[c].target # System

\* What the definitions of System refer to is made whatever the walk; those of
\* another table call for what they refer to.
DocInv ==
  /\ doc \in {"none", "tables", "done"}
  /\ doc # "none" => phase = "done"
  /\ doc = "none" => used = {}
  /\ doc = "tables" =>
       /\ <<"PatchDocument", None>> \in defined
       /\ used \subseteq Made \cup Everywhere
       /\ Kinds \X ({System} \cup Subtables(System) \cup TopsReferenced) \subseteq Made
       /\ \A call \in calls : call.table \in DOMAIN tables /\ (call.name = None => call.table = System)
  /\ NothingDangles

\* What is called for stays so: defined when the call is made.
LEMMA CalledIsMade ==
  ASSUME DocInv, NEW call \in calls, GenAPI(call)
  PROVE  /\ Made \cup Kinds \X {call.table} \subseteq Made'
         /\ call.name # None =>
              \A c \in ChildCalls(call.table, PathOf(call, IsPlural(call))) : Kinds \X {c.table} \subseteq Made'
<1> DEFINE more == IF call.name = None THEN {} ELSE ChildCalls(call.table, PathOf(call, IsPlural(call)))
<1>1. /\ defined' = defined \cup Kinds \X {call.table}
      /\ calls' = (calls \ {call}) \cup more
  BY DEF GenAPI
<1> HIDE DEF more
<1>2. Kinds' = Kinds
  BY DEF Kinds
<1>3. Made' = defined' \cup Kinds \X {c.table : c \in calls'}
  BY <1>2 DEF Made
<1>4. \A c \in more : Kinds \X {c.table} \subseteq Made'
  BY <1>1, <1>3
<1>5. Made \cup Kinds \X {call.table} \subseteq Made'
  <2>1. Kinds \X {call.table} \subseteq Made' /\ defined \subseteq Made'
    BY <1>1, <1>3
  <2>2. \A c \in calls : Kinds \X {c.table} \subseteq Made'
    BY <1>1, <1>3, <2>1
  <2>3. QED
    BY <2>1, <2>2 DEF Made
<1>6. QED
  BY <1>4, <1>5 DEF more

\* The tables of the children of a table are those that are called for.
LEMMA SubtablesAreCalled ==
  ASSUME NEW t, NEW prefix, NEW u \in Subtables(t)
  PROVE  \E call \in ChildCalls(t, prefix) : call.table = u
<1>1. PICK c \in children[t] :
        u = IF c \in DOMAIN tables[t].references THEN tables[t].references[c].target ELSE c
  BY DEF Subtables
<1>2. CASE c \in DOMAIN tables[t].references
  <2>1. Call(tables[t].references[c].target, c, t, prefix) \in ChildCalls(t, prefix)
    BY <1>1, <1>2 DEF ChildCalls
  <2>2. QED
    BY <1>1, <1>2, <2>1 DEF Call
<1>3. CASE c \notin DOMAIN tables[t].references
  <2>1. Call(c, Plural[c], t, prefix) \in ChildCalls(t, prefix)
    BY <1>1, <1>3 DEF ChildCalls
  <2>2. QED
    BY <1>1, <1>3, <2>1 DEF Call
<1>4. QED
  BY <1>2, <1>3

\* They are tables of the schema, and have names.
LEMMA ChildCallsAreTyped ==
  ASSUME ParserInv, phase = "done", NEW t \in DOMAIN tables, NEW prefix,
         NEW call \in ChildCalls(t, prefix)
  PROVE  call.table \in DOMAIN tables /\ call.name # None
<1>1. TablesInv /\ FamilyInv /\ LinkInv /\ DOMAIN tables = DOMAIN file
  BY DEF ParserInv, TablesInv
<1>2. \/ \E c \in children[t] \cap DOMAIN tables[t].references :
           call = Call(tables[t].references[c].target, c, t, prefix)
      \/ \E u \in children[t] \ DOMAIN tables[t].references : call = Call(u, Plural[u], t, prefix)
  BY DEF ChildCalls
<1>3. ASSUME NEW c \in children[t] \cap DOMAIN tables[t].references,
             call = Call(tables[t].references[c].target, c, t, prefix)
      PROVE  call.table \in DOMAIN tables /\ call.name # None
  <2>1. c \in References(file[t]) /\ tables[t].references[c].target = TargetOf(t, c)
    BY <1>1, <1>3, TableKeeps DEF TargetOf
  <2>2. QED
    BY <1>1, <1>3, <2>1, TargetsAreThere DEF Call
<1>4. ASSUME NEW u \in children[t] \ DOMAIN tables[t].references, call = Call(u, Plural[u], t, prefix)
      PROVE  call.table \in DOMAIN tables /\ call.name # None
  <2>1. u \notin References(file[t])
    BY <1>1, <1>4, TableKeeps
  <2>2. u \in DOMAIN file
    BY <1>1, <1>4, <2>1 DEF LinkInv, Adopted
  <2>3. Plural[u] # None
    BY <1>1, <2>2, PluralAssumption DEF TablesInv
  <2>4. QED
    BY <1>1, <1>4, <2>2, <2>3 DEF Call
<1>5. QED
  BY <1>2, <1>3, <1>4

\* What an operation refers to is a definition of its table or of all documents.
LEMMA OperationsRefer ==
  ASSUME NEW call, NEW p \in DOMAIN Operations(call), NEW op \in Operations(call)[p]
  PROVE  op.refs \subseteq Kinds \X {call.table} \cup Everywhere \cup {<<"PatchDocument", None>>}
<1> DEFINE t == call.table
           Known == Kinds \X {t} \cup Everywhere \cup {<<"PatchDocument", None>>}
<1>1. \A o \in ListOps(t) \cup InstanceOps(t) \cup DeleteOps :
        /\ \E method, params, refs : o = Op(method, params, refs)
        /\ o.refs \subseteq Known
  <2>1. \A method, params, refs : Op(method, params, refs).refs = refs
    BY DEF Op
  <2> DEFINE Ref == {<<"All", t>>, <<"ConfigOnly", t>>, <<"ConfigReferenced", t>>, <<"Resource", None>>,
                     <<"PatchDocument", None>>}
             Posted == IF parent[t] = None THEN "ConfigReferenced" ELSE "ConfigOnly"
  <2>2. Ref \subseteq Known
    BY DEF Kinds, Everywhere
  <2>3. <<Posted, t>> \in Ref
    OBVIOUS
  <2>4. ListOps(t) = {Op("GET", GetParams(t, FALSE), {<<"Resource", None>>}),
                      Op("POST", {"data"}, {<<Posted, t>>})}
    BY DEF ListOps
  <2>5. InstanceOps(t) \subseteq {Op("GET", GetParams(t, TRUE), {<<"All", t>>}),
                                Op("PUT", {"If-Match", "data"}, {<<"ConfigOnly", t>>}),
                                Op("PATCH", {"If-Match", "data"}, {<<"PatchDocument", None>>})}
    BY DEF InstanceOps
  <2>6. DeleteOps = {Op("DELETE", {"If-Match"}, {})}
    BY DEF DeleteOps
  <2>7. ASSUME NEW o \in ListOps(t) \cup InstanceOps(t) \cup DeleteOps
        PROVE  \E method, params : \E refs \in SUBSET Ref : o = Op(method, params, refs)
    <3>1. {<<"Resource", None>>} \subseteq Ref /\ {<<"All", t>>} \subseteq Ref /\ {<<"ConfigOnly", t>>} \subseteq Ref
          /\ {<<"PatchDocument", None>>} \subseteq Ref /\ {} \subseteq Ref
      OBVIOUS
    <3> HIDE DEF Ref, Posted
    <3>2. {<<Posted, t>>} \subseteq Ref
      BY <2>3
    <3>3. QED
      BY <2>4, <2>5, <2>6, <3>1, <3>2, ZenonT(60)
  <2> HIDE DEF Ref, Known
  <2>8. QED
    BY <2>1, <2>2, <2>7
<1>2. \A ops, own : \A o \in WithIds(ops, call, own) :
        \E q \in ops : o = [q EXCEPT !.ids = CoreParams(call, own)]
  BY DEF WithIds
<1>3. \E ops \in SUBSET (ListOps(t) \cup InstanceOps(t) \cup DeleteOps) : \E own :
        Operations(call)[p] = WithIds(ops, call, own)
  <2> DEFINE rowOps == InstanceOps(t) \cup IF IsPlural(call) THEN DeleteOps ELSE {}
  <2>1. Operations(call)[p] \in {WithIds(ListOps(t), call, FALSE), WithIds(rowOps, call, IsPlural(call))}
    BY DEF Operations
  <2>2. ListOps(t) \in SUBSET (ListOps(t) \cup InstanceOps(t) \cup DeleteOps)
    OBVIOUS
  <2>3. rowOps \in SUBSET (ListOps(t) \cup InstanceOps(t) \cup DeleteOps)
    OBVIOUS
  <2> HIDE DEF rowOps
  <2>4. QED
    BY <2>1, <2>2, <2>3
<1>4. PICK q \in ListOps(t) \cup InstanceOps(t) \cup DeleteOps :
        \E own : op = [q EXCEPT !.ids = CoreParams(call, own)]
  BY <1>2, <1>3
<1>5. op.refs = q.refs
  BY <1>1, <1>4 DEF Op
<1>6. QED
  BY <1>1, <1>5

\* And so are those of a definition, or definitions of its subtables.
LEMMA DefinitionsRefer ==
  ASSUME NEW t
  PROVE  DefinitionRefs(t) \subseteq
           Kinds \X ({t} \cup Subtables(t) \cup IF t = System THEN TopsReferenced ELSE {}) \cup Everywhere
BY DEF DefinitionRefs, Kinds, Everywhere

\* A call keeps it that whatever is referred to is made.
LEMMA GenAPIKeeps ==
  ASSUME ParserInv, DocInv, NEW call \in calls, GenAPI(call)
  PROVE  DocInv'
<1>1. /\ doc = "tables" /\ doc' = "tables" /\ phase' = phase
      /\ UNCHANGED parserVars
      /\ defined' = defined \cup Kinds \X {call.table}
      /\ used' = used \cup DefinitionRefs(call.table)
                 \cup UNION {op.refs : op \in UNION {Operations(call)[p] : p \in DOMAIN Operations(call)}}
      /\ calls' = (calls \ {call})
              \cup IF call.name = None THEN {} ELSE ChildCalls(call.table, PathOf(call, IsPlural(call)))
  BY DEF GenAPI, parserVars
<1>2. UNCHANGED <<tables, parent, children, refMap>>
  BY <1>1 DEF parserVars
<1>3. Made \cup Kinds \X {call.table} \subseteq Made'
  BY CalledIsMade
<1>4. Kinds \X ({System} \cup Subtables(System) \cup TopsReferenced) \subseteq Made
  BY <1>1 DEF DocInv
<1>5. \A u \in Subtables(call.table) : Kinds \X {u} \subseteq Made'
  <2>1. CASE call.name = None
    BY <1>1, <1>3, <1>4, <2>1 DEF DocInv
  <2>2. CASE call.name # None
    BY <2>2, CalledIsMade, SubtablesAreCalled
  <2>3. QED
    BY <2>1, <2>2
<1>6. DefinitionRefs(call.table) \subseteq Made' \cup Everywhere
  BY <1>3, <1>4, <1>5, DefinitionsRefer
<1>7. \A op \in UNION {Operations(call)[p] : p \in DOMAIN Operations(call)} :
        op.refs \subseteq Made' \cup Everywhere
  <2>1. <<"PatchDocument", None>> \in Made
    BY <1>1 DEF DocInv, Made
  <2>2. QED
    BY <1>3, <2>1, OperationsRefer
<1>8. used' \subseteq Made' \cup Everywhere
  <2>1. used \subseteq Made' \cup Everywhere
    BY <1>1, <1>3 DEF DocInv
  <2>2. QED
    BY <1>1, <1>6, <1>7, <2>1
<1>9. \A c \in calls' : c.table \in DOMAIN tables' /\ (c.name = None => c.table = System)
  <2>1. call.table \in DOMAIN tables
    BY <1>1 DEF DocInv
  <2>2. \A c \in ChildCalls(call.table, PathOf(call, IsPlural(call))) :
          c.table \in DOMAIN tables /\ c.name # None
    BY <1>1, <2>1, ChildCallsAreTyped DEF DocInv
  <2>3. QED
    BY <1>1, <1>2, <2>2 DEF DocInv
<1>10. Kinds \X ({System} \cup Subtables(System) \cup TopsReferenced)' \subseteq Made'
  BY <1>2, <1>3, <1>4 DEF Subtables, TopsReferenced
<1>11. QED
  BY <1>1, <1>8, <1>9, <1>10 DEF DocInv, NothingDangles, Everywhere, Kinds

\* At the start System is called for, and the tables it refers to.
LEMMA StartKeeps ==
  ASSUME ParserInv, DocInv, TopOfColumns(file), Start
  PROVE  DocInv'
<1> DEFINE InColumn == {Call(tables[System].references[c].target, c, System, <<>>) :
                          c \in children[System] \cap DOMAIN tables[System].references}
           Top == {Call(t, Plural[t], None, <<>>) : t \in {u \in DOMAIN tables \ {System} : parent[u] = None}}
<1>1. /\ doc = "none" /\ doc' = "tables" /\ phase = "done"
      /\ UNCHANGED parserVars /\ used' = used
      /\ defined' = {<<"PatchDocument", None>>}
      /\ calls' = {Call(System, None, None, <<>>)} \cup InColumn \cup Top
  BY DEF Start
<1>2. UNCHANGED <<file, tables, parent, children, refMap, phase>>
  BY <1>1 DEF parserVars
<1>3. TablesInv /\ LinkInv /\ DOMAIN tables = DOMAIN file /\ System \in DOMAIN file
  BY <1>1, SchemaAssumption DEF ParserInv, TablesInv
<1>4. \A c \in children[System] : c \in DOMAIN tables[System].references
  BY <1>3, TableKeeps DEF LinkInv, Adopted, PointsTo, TopOfColumns, Relation, TargetOf
<1>5. \A c \in DOMAIN tables[System].references :
        tables[System].references[c].target \in DOMAIN tables /\ c # None
  <2>1. \A c \in References(file[System]) : tables[System].references[c].target = TargetOf(System, c)
    BY <1>3, TableKeeps DEF TargetOf
  <2>2. QED
    BY <1>3, <2>1, TableKeeps, TargetsAreThere
<1>6. \A t \in DOMAIN tables : Plural[t] # None
  BY <1>3, PluralAssumption DEF TablesInv
<1>7. \A call \in calls' : call.table \in DOMAIN tables' /\ (call.name = None => call.table = System)
  <2>1. \A call \in InColumn : call.table \in DOMAIN tables /\ call.name # None
    BY <1>5 DEF Call
  <2>2. \A call \in Top : call.table \in DOMAIN tables /\ call.name # None
    BY <1>6 DEF Call
  <2>3. Call(System, None, None, <<>>).table = System
    BY DEF Call
  <2> HIDE DEF InColumn, Top
  <2>4. QED
    BY <1>1, <1>2, <1>3, <2>1, <2>2, <2>3
<1>8. \A u \in {System} \cup Subtables(System) \cup TopsReferenced : \E call \in calls' : call.table = u
  <2>1. Call(System, None, None, <<>>).table = System
    BY DEF Call
  <2>2. ASSUME NEW u \in Subtables(System)
        PROVE  \E call \in InColumn : call.table = u
    <3>1. PICK c \in children[System] : u = tables[System].references[c].target
      BY <1>4 DEF Subtables
    <3>2. Call(u, c, System, <<>>) \in InColumn
      BY <1>4, <3>1
    <3>3. QED
      BY <3>2 DEF Call
  <2>3. ASSUME NEW u \in TopsReferenced, u # System
        PROVE  \E call \in Top : call.table = u
    <3>1. Call(u, Plural[u], None, <<>>) \in Top
      BY <2>3 DEF TopsReferenced
    <3>2. QED
      BY <3>1 DEF Call
  <2> HIDE DEF InColumn, Top
  <2>4. QED
    BY <1>1, <2>1, <2>2, <2>3
<1>9. (Kinds \X ({System} \cup Subtables(System) \cup TopsReferenced))' \subseteq Made'
  <2>1. Kinds \X ({System} \cup Subtables(System) \cup TopsReferenced) \subseteq Made'
    BY <1>8 DEF Made, Kinds
  <2>2. QED
    BY <1>2, <2>1 DEF Subtables, TopsReferenced, Kinds
<1>10. QED
  BY <1>1, <1>2, <1>7, <1>9 DEF DocInv, NothingDangles

\* In the end all is made that the tables refer to, and the rest defined.
LEMMA FinishKeeps ==
  ASSUME DocInv, Finish
  PROVE  DocInv'
<1>1. /\ doc = "tables" /\ calls = {} /\ doc' = "done"
      /\ UNCHANGED parserVars
      /\ defined' = defined \cup AccountDefinitions
                    \cup {<<"LogEntry", None>>, <<"Error", None>>, <<"Resource", None>>, <<"ReferencedBy", None>>}
      /\ used' = used \cup {<<"Error", None>>} \cup UNION {x[2].refs : x \in FixedOps}
  BY DEF Finish
<1>2. Made = defined
  BY <1>1 DEF Made
<1>3. used \subseteq defined' /\ <<"ConfigFull", System>> \in defined'
  BY <1>1, <1>2 DEF DocInv, Everywhere, Kinds
<1>4. \A x \in FixedOps : x[2].refs \in
        {{<<"ConfigFull", System>>}, {<<"Error", None>>}, {<<"LogEntry", None>>},
         {<<"StatusOnly", "Account">>}, {<<"ConfigOnly", "Account">>}}
  BY DEF FixedOps, Op
<1>5. used' \subseteq defined'
  BY <1>1, <1>3, <1>4 DEF AccountDefinitions
<1>6. phase' = phase
  BY <1>1 DEF parserVars
<1>7. QED
  BY <1>1, <1>5, <1>6 DEF DocInv, NothingDangles

----------------------------------------------------------------------------
(* Where a path leads.                                                        *)

\* A set of numbers has a least one: the induction of what follows.
LEMMA LeastNumber ==
  ASSUME NEW T \in SUBSET Nat, T # {}
  PROVE  \E n \in T : \A m \in T : ~(m < n)
<1> DEFINE R == {p \in Nat \X Nat : p[1] < p[2]}
<1>1. IsWellFoundedOn(R, Nat)
  BY NatLessThanWellFounded DEF OpToRel
<1>2. \A m, n \in Nat : m < n => <<m, n>> \in R
  OBVIOUS
<1> HIDE DEF R
<1>3. PICK n \in T : \A m \in T : <<m, n>> \notin R
  BY <1>1, WFMin
<1>4. QED
  BY <1>2, <1>3

\* A function on 0 .. n is made of its first value and of the steps.
LEMMA StepByStep ==
  ASSUME NEW V, NEW first \in V, NEW n \in Nat, NEW G \in [1 .. n -> [V -> V]]
  PROVE  \E f \in [0 .. n -> V] : f[0] = first /\ \A i \in 1 .. n : f[i] = G[i][f[i - 1]]
<1> DEFINE Upto(m) == \E f \in [0 .. m -> V] : f[0] = first /\ \A i \in 1 .. m : f[i] = G[i][f[i - 1]]
           T == {m \in 0 .. n : ~Upto(m)}
<1>1. Upto(0)
  <2>1. [i \in 0 .. 0 |-> first] \in [0 .. 0 -> V] /\ 1 .. 0 = {}
    OBVIOUS
  <2>2. [i \in 0 .. 0 |-> first][0] = first
    OBVIOUS
  <2>3. QED
    BY <2>1, <2>2
<1>2. ASSUME NEW m \in 0 .. n, m # 0, Upto(m - 1)
      PROVE  Upto(m)
  <2>1. PICK f \in [0 .. m - 1 -> V] : f[0] = first /\ \A i \in 1 .. m - 1 : f[i] = G[i][f[i - 1]]
    BY <1>2
  <2> DEFINE g == [i \in 0 .. m |-> IF i = m THEN G[m][f[m - 1]] ELSE f[i]]
  <2>2. g \in [0 .. m -> V]
    BY <1>2
  <2>3. g[0] = first
    BY <1>2, <2>1
  <2>4. ASSUME NEW i \in 1 .. m PROVE g[i] = G[i][g[i - 1]]
    BY <1>2, <2>1
  <2>5. QED
    BY <2>2, <2>3, <2>4
<1> HIDE DEF Upto
<1>3. T = {}
  <2> SUFFICES ASSUME T # {} PROVE FALSE
    OBVIOUS
  <2>1. PICK m \in T : \A k \in T : ~(k < m)
    <3>1. T \in SUBSET Nat
      OBVIOUS
    <3> HIDE DEF T
    <3>2. QED
      BY <3>1, LeastNumber
  <2>2. m # 0
    BY <1>1
  <2>3. m - 1 \in 0 .. n /\ m - 1 < m
    BY <2>2
  <2>4. Upto(m - 1)
    BY <2>1, <2>3
  <2>5. QED
    BY <1>2, <2>2, <2>4
<1>4. Upto(n)
  BY <1>3
<1>5. QED
  BY <1>4 DEF Upto

\* What a schema must not leave open for a name to stand for one thing under a
\* table: columns are not named like tables, plural names differ, and the plural
\* name of a table is no column of a table that its rows refer to as their
\* parent, nor the column of System for the children of another table.
Unambiguous(f) ==
  /\ \A t \in DOMAIN f : DOMAIN f[t].columns \cap DOMAIN f = {}
  /\ \A t, u \in DOMAIN f : Plural[t] = Plural[u] => t = u
  /\ \A u \in DOMAIN f : \A c \in References(f[u]) :
       f[u].columns[c].relation = "parent" => Plural[u] \notin DOMAIN f[f[u].columns[c].target].columns
  /\ \A u \in DOMAIN f : \A c \in References(f[System]) :
       f[System].columns[c].relation = "child" /\ c = Plural[u] => f[System].columns[c].target = u

\* The parser is done with such a schema.
Parsed == ParserInv /\ phase = "done" /\ Unambiguous(file)

\* The children of a table: its columns for them, and tables that point to it.
LEMMA ChildrenAre ==
  ASSUME Parsed, NEW t \in DOMAIN tables, NEW c \in children[t]
  PROVE  \/ /\ c \in DOMAIN tables[t].references /\ c \in tables[t].columns /\ c \notin DOMAIN tables
            /\ Relation(t, c) = "child" /\ tables[t].references[c] = file[t].columns[c]
            /\ TargetOf(t, c) \in DOMAIN tables /\ parent[TargetOf(t, c)] # None
         \/ /\ c \in DOMAIN tables /\ c \notin tables[t].columns /\ c \notin DOMAIN tables[t].references
            /\ PointsTo(c, t) /\ parent[c] # None
<1>1. TablesInv /\ LinkInv /\ DOMAIN tables = DOMAIN file /\ Unambiguous(file)
  BY DEF Parsed, ParserInv, TablesInv
<1>2. Adopted(t, c)
  BY <1>1 DEF LinkInv
<1>3. /\ tables[t].columns = Columns(file[t]) /\ DOMAIN tables[t].references = References(file[t])
      /\ References(file[t]) \subseteq Columns(file[t]) /\ Columns(file[t]) \subseteq DOMAIN file[t].columns
  <2>1. \A raw : Table(t, raw).columns = Columns(raw)
    BY DEF Table
  <2>2. tables[t] = Table(t, file[t])
    BY <1>1 DEF TablesInv
  <2>3. References(file[t]) \subseteq Columns(file[t]) /\ Columns(file[t]) \subseteq DOMAIN file[t].columns
    BY DEF References, Columns
  <2>4. QED
    BY <1>1, <2>1, <2>2, <2>3, TableKeeps
<1>4. DOMAIN file[t].columns \cap DOMAIN file = {}
  BY <1>1 DEF Unambiguous
<1>5. CASE c \in References(file[t]) /\ Relation(t, c) = "child" /\ parent[TargetOf(t, c)] # None
  BY <1>1, <1>3, <1>4, <1>5, TableKeeps, TargetsAreThere
<1>6. CASE c \in DOMAIN file /\ PointsTo(c, t) /\ parent[c] # None
  BY <1>1, <1>3, <1>4, <1>6
<1>7. QED
  BY <1>2, <1>5, <1>6 DEF Adopted

\* A name leads to a table or nowhere.
LEMMA PlaceOfTable ==
  ASSUME Parsed, NEW t \in DOMAIN tables, NEW step
  PROVE  PlaceOf(t, step).table \in DOMAIN tables \cup {None}
<1>1. CASE step.name \in tables[t].columns \cap children[t]
  BY <1>1, ChildrenAre DEF PlaceOf, TargetOf
<1>2. CASE step.name \notin tables[t].columns \cap children[t]
  <2> DEFINE us == {u \in DOMAIN tables : Plural[u] = step.name /\ (u \in children[t] \/ (t = System /\ parent[u] = None))}
  <2>1. us # {} => (CHOOSE v \in us : TRUE) \in us
    OBVIOUS
  <2>2. us \subseteq DOMAIN tables
    OBVIOUS
  <2>3. PlaceOf(t, step).table = IF us = {} THEN None ELSE CHOOSE v \in us : TRUE
    BY <1>2 DEF PlaceOf, Nowhere
  <2> HIDE DEF us
  <2>4. QED
    BY <2>1, <2>2, <2>3
<1>3. QED
  BY <1>1, <1>2

\* The way a path is followed, name by name: as the names are meant, or as
\* the server goes.
AtSystem == [table |-> System, place |-> Place(System, None, None), many |-> FALSE]

Onward(path, n, at, way) ==
  IF at.table = None \/ (n > 1 /\ at.many # path[n - 1].id) THEN Nowhere
  ELSE IF way = "gone" THEN Find(PlaceOf(at.table, path[n]), path[n].id)
  ELSE PlaceOf(at.table, path[n])

Leading(path, way, f) ==
  f = [n \in 0 .. Len(path) |-> IF n = 0 THEN AtSystem ELSE Onward(path, n, f[n - 1], way)]

\* What the names of a path stand for.
Named(path) ==
  LET found[n \in 0 .. Len(path)] == IF n = 0 THEN AtSystem ELSE Onward(path, n, found[n - 1], "meant")
  IN found[Len(path)]

\* Does the path name one row?
IsNamedRow(path) == path = <<>> \/ (Last(path).id = Named(path).many)

\* Two paths lead to the same place as long as they are the same.
LEMMA SameWay ==
  ASSUME NEW p, NEW q, Len(p) \in Nat, Len(q) \in Nat, Len(p) <= Len(q), \A i \in 1 .. Len(p) : p[i] = q[i],
         NEW way, NEW f, NEW g, Leading(p, way, f), Leading(q, way, g)
  PROVE  \A n \in 0 .. Len(p) : f[n] = g[n]
<1> DEFINE T == {n \in 0 .. Len(p) : f[n] # g[n]}
<1>1. f[0] = AtSystem /\ \A n \in 1 .. Len(p) : f[n] = Onward(p, n, f[n - 1], way)
  BY DEF Leading
<1>2. g[0] = AtSystem /\ \A n \in 1 .. Len(p) : g[n] = Onward(q, n, g[n - 1], way)
  BY DEF Leading
<1>3. ASSUME NEW n \in 1 .. Len(p), f[n - 1] = g[n - 1] PROVE f[n] = g[n]
  <2>1. p[n] = q[n] /\ (n > 1 => p[n - 1] = q[n - 1])
    OBVIOUS
  <2>2. Onward(p, n, f[n - 1], way) = Onward(q, n, g[n - 1], way)
    BY <1>3, <2>1 DEF Onward
  <2>3. QED
    BY <1>1, <1>2, <2>2
<1>4. T = {}
  <2> SUFFICES ASSUME T # {} PROVE FALSE
    OBVIOUS
  <2>1. PICK n \in T : \A k \in T : ~(k < n)
    <3>1. T \in SUBSET Nat
      OBVIOUS
    <3> HIDE DEF T
    <3>2. QED
      BY <3>1, LeastNumber
  <2>2. n # 0
    BY <1>1, <1>2
  <2>3. n - 1 \in 0 .. Len(p) /\ n - 1 < n /\ n \in 1 .. Len(p)
    BY <2>2
  <2>4. f[n - 1] = g[n - 1]
    BY <2>1, <2>3
  <2>5. QED
    BY <1>3, <2>3, <2>4
<1>5. QED
  BY <1>4

LEMMA PathIsFollowed ==
  ASSUME Parsed, NEW path, Len(path) \in Nat, NEW way \in {"meant", "gone"}
  PROVE  \E f : /\ Leading(path, way, f)
                /\ \A n \in 0 .. Len(path) : f[n].table \in DOMAIN tables \cup {None}
<1> DEFINE N == Len(path)
           Reached == {PlaceOf(t, path[i]) : t \in DOMAIN tables, i \in 1 .. N}
           V == {AtSystem, Nowhere} \cup Reached
           G == [n \in 1 .. N |-> [at \in V |-> Onward(path, n, at, way)]]
<1>1. \A at \in V : at.table \in DOMAIN tables \cup {None}
  <2>1. System \in DOMAIN tables
    BY SchemaAssumption DEF Parsed, ParserInv, TablesInv
  <2>2. AtSystem.table = System /\ Nowhere.table = None
    BY DEF AtSystem, Nowhere
  <2>3. \A at \in Reached : at.table \in DOMAIN tables \cup {None}
    BY PlaceOfTable
  <2> HIDE DEF Reached
  <2>4. QED
    BY <2>1, <2>2, <2>3
<1>2. ASSUME NEW n \in 1 .. N, NEW at \in V
      PROVE  Onward(path, n, at, way) \in V
  <2>1. at.table # None => PlaceOf(at.table, path[n]) \in Reached
    BY <1>1
  <2> HIDE DEF Reached
  <2>2. QED
    BY <2>1 DEF Onward, V, Find
<1> HIDE DEF V
<1>3. G \in [1 .. N -> [V -> V]]
  BY <1>2
<1>4. AtSystem \in V
  BY DEF V
<1>5. PICK f \in [0 .. N -> V] : f[0] = AtSystem /\ \A i \in 1 .. N : f[i] = G[i][f[i - 1]]
  <2> HIDE DEF G
  <2>1. QED
    BY <1>3, <1>4, StepByStep
<1>6. Leading(path, way, f)
  <2>1. ASSUME NEW i \in 1 .. N PROVE f[i] = Onward(path, i, f[i - 1], way)
    <3>1. f[i - 1] \in V
      BY <1>5
    <3>2. QED
      BY <1>5, <3>1
  <2> HIDE DEF G
  <2>2. \A i \in 0 .. N : f[i] = IF i = 0 THEN AtSystem ELSE Onward(path, i, f[i - 1], way)
    BY <1>5, <2>1
  <2>3. QED
    BY <1>5, <2>2 DEF Leading
<1>7. \A n \in 0 .. N : f[n].table \in DOMAIN tables \cup {None}
  BY <1>1, <1>5
<1>8. QED
  BY <1>6, <1>7

LEMMA NameByName ==
  ASSUME Parsed, NEW path, Len(path) \in Nat
  PROVE  \E f : /\ Leading(path, "meant", f) /\ Named(path) = f[Len(path)]
                /\ \A n \in 0 .. Len(path) : f[n].table \in DOMAIN tables \cup {None}
<1> DEFINE N == Len(path)
           Ahead(f) == [n \in 0 .. N |-> IF n = 0 THEN AtSystem ELSE Onward(path, n, f[n - 1], "meant")]
           found == CHOOSE g : g = Ahead(g)
<1>1. PICK f : Leading(path, "meant", f) /\ \A n \in 0 .. N : f[n].table \in DOMAIN tables \cup {None}
  BY PathIsFollowed
<1>2. f = Ahead(f)
  BY <1>1 DEF Leading
<1>3. Named(path) = found[N]
  BY DEF Named
<1> HIDE DEF found
<1>4. found = Ahead(found)
  BY <1>2 DEF found
<1>5. Leading(path, "meant", found)
  BY <1>4 DEF Leading
<1>6. \A n \in 0 .. N : found[n] = f[n]
  BY <1>1, <1>5, SameWay
<1>7. QED
  BY <1>1, <1>3, <1>5, <1>6

LEMMA StepByName ==
  ASSUME Parsed, NEW path, Len(path) \in Nat
  PROVE  \E f : /\ Leading(path, "gone", f) /\ Resolve(path) = f[Len(path)]
                /\ \A n \in 0 .. Len(path) : f[n].table \in DOMAIN tables \cup {None}
<1> DEFINE N == Len(path)
           Ahead(f) ==
             [n \in 0 .. N |->
                IF n = 0 THEN [table |-> System, place |-> Place(System, None, None), many |-> FALSE]
                ELSE IF f[n - 1].table = None \/ (n > 1 /\ f[n - 1].many # path[n - 1].id) THEN Nowhere
                ELSE Find(PlaceOf(f[n - 1].table, path[n]), path[n].id)]
           found == CHOOSE g : g = Ahead(g)
<1>1. PICK f : Leading(path, "gone", f) /\ \A n \in 0 .. N : f[n].table \in DOMAIN tables \cup {None}
  BY PathIsFollowed
<1>2. \A g : g = Ahead(g) <=> Leading(path, "gone", g)
  BY DEF Leading, Onward, AtSystem
<1>3. Resolve(path) = found[N]
  BY DEF Resolve
<1> HIDE DEF found
<1>4. found = Ahead(found)
  BY <1>1, <1>2 DEF found
<1>5. Leading(path, "gone", found)
  BY <1>2, <1>4
<1>6. \A n \in 0 .. N : found[n] = f[n]
  BY <1>1, <1>5, SameWay
<1>7. QED
  BY <1>1, <1>3, <1>5, <1>6

\* The server goes where the names lead or nowhere, and nowhere only on account
\* of a table it does not serve so.
LEMMA NamedOrNowhere ==
  ASSUME Parsed, NEW S, NEW path \in Seq(S)
  PROVE  /\ Resolve(path) = Named(path) \/ Resolve(path) = Nowhere
         /\ Told(path) => Resolve(path) = Named(path)
<1> DEFINE N == Len(path)
<1>1. N \in Nat /\ DOMAIN path = 1 .. N
  OBVIOUS
<1>2. PICK f : /\ Leading(path, "meant", f) /\ Named(path) = f[N]
               /\ \A n \in 0 .. N : f[n].table \in DOMAIN tables \cup {None}
  BY <1>1, NameByName
<1>3. PICK g : /\ Leading(path, "gone", g) /\ Resolve(path) = g[N]
               /\ \A n \in 0 .. N : g[n].table \in DOMAIN tables \cup {None}
  BY <1>1, StepByName
<1>4. f[0] = AtSystem /\ \A n \in 1 .. N : f[n] = Onward(path, n, f[n - 1], "meant")
  BY <1>2 DEF Leading
<1>5. g[0] = AtSystem /\ \A n \in 1 .. N : g[n] = Onward(path, n, g[n - 1], "gone")
  BY <1>3 DEF Leading
<1>6. ASSUME NEW n \in 1 .. N, f[n - 1] = g[n - 1], f[n] # g[n]
      PROVE  /\ g[n] = Nowhere
             /\ g[n - 1].table # None
             /\ LET here == PlaceOf(g[n - 1].table, path[n]) IN Find(here, path[n].id) # here
  BY <1>4, <1>5, <1>6 DEF Onward, Find
<1>7. ASSUME NEW n \in 1 .. N, g[n - 1] = Nowhere PROVE g[n] = Nowhere
  <2>1. Nowhere.table = None
    BY DEF Nowhere
  <2>2. QED
    BY <1>5, <1>7, <2>1 DEF Onward
<1>8. \A n \in 0 .. N : g[n] = f[n] \/ g[n] = Nowhere
  <2> DEFINE T == {n \in 0 .. N : ~(g[n] = f[n] \/ g[n] = Nowhere)}
  <2>1. T = {}
    <3> SUFFICES ASSUME T # {} PROVE FALSE
      OBVIOUS
    <3>1. PICK n \in T : \A k \in T : ~(k < n)
      <4>1. T \in SUBSET Nat
        OBVIOUS
      <4> HIDE DEF T
      <4>2. QED
        BY <4>1, LeastNumber
    <3>2. n # 0
      BY <1>4, <1>5
    <3>3. n - 1 \in 0 .. N /\ n - 1 < n /\ n \in 1 .. N
      BY <1>1, <3>2
    <3>4. g[n - 1] = f[n - 1] \/ g[n - 1] = Nowhere
      BY <3>1, <3>3
    <3>5. QED
      BY <1>6, <1>7, <3>1, <3>3, <3>4
  <2>2. QED
    BY <2>1
<1>9. ASSUME Told(path) PROVE \A n \in 0 .. N : g[n] = f[n]
  <2> DEFINE T == {n \in 0 .. N : g[n] # f[n]}
  <2>1. T = {}
    <3> SUFFICES ASSUME T # {} PROVE FALSE
      OBVIOUS
    <3>1. PICK n \in T : \A k \in T : ~(k < n)
      <4>1. T \in SUBSET Nat
        OBVIOUS
      <4> HIDE DEF T
      <4>2. QED
        BY <4>1, LeastNumber
    <3>2. n # 0
      BY <1>4, <1>5
    <3>3. n - 1 \in 0 .. N /\ n - 1 < n /\ n \in 1 .. N
      BY <1>1, <3>2
    <3>4. g[n - 1] = f[n - 1] /\ g[n] # f[n]
      BY <3>1, <3>3
    <3> DEFINE before == SubSeq(path, 1, n - 1)
    <3>5. Len(before) = n - 1 /\ \A i \in 1 .. n - 1 : before[i] = path[i]
      BY <1>1, <3>3
    <3>6. Resolve(before) = g[n - 1]
      <4> HIDE DEF before
      <4>1. Len(before) \in Nat
        BY <3>3, <3>5
      <4>2. PICK h : Leading(before, "gone", h) /\ Resolve(before) = h[n - 1]
        BY <3>5, <4>1, StepByName
      <4>3. \A k \in 0 .. Len(before) : h[k] = g[k]
        <5>1. Len(before) <= Len(path)
          BY <1>1, <3>3, <3>5
        <5>2. \A i \in 1 .. Len(before) : before[i] = path[i]
          BY <3>5
        <5>3. Leading(path, "gone", g) /\ Leading(before, "gone", h) /\ Len(path) \in Nat
          BY <1>1, <1>3, <4>2
        <5>4. QED
          BY <4>1, <5>1, <5>2, <5>3, SameWay
      <4>4. QED
        BY <3>3, <3>5, <4>1, <4>2, <4>3
    <3>7. LET here == PlaceOf(g[n - 1].table, path[n]) IN g[n - 1].table # None => Find(here, path[n].id) = here
      BY <1>1, <1>9, <3>3, <3>6 DEF Told
    <3>8. QED
      BY <1>6, <3>3, <3>4, <3>7
  <2>2. QED
    BY <2>1
<1>10. QED
  BY <1>1, <1>2, <1>3, <1>8, <1>9

\* What a path names, name by name.
LEMMA NamedOnward ==
  ASSUME Parsed, NEW S, NEW path \in Seq(S), NEW step \in S
  PROVE  /\ Named(<<>>) = AtSystem
         /\ Named(path).table \in DOMAIN tables \cup {None}
         /\ Named(Append(path, step)) =
              IF Named(path).table = None \/ (path # <<>> /\ Named(path).many # Last(path).id) THEN Nowhere
              ELSE PlaceOf(Named(path).table, step)
<1> DEFINE q == Append(path, step)
           N == Len(path)
<1>1. /\ N \in Nat /\ Len(q) = N + 1 /\ q[N + 1] = step
      /\ \A i \in 1 .. N : q[i] = path[i]
  OBVIOUS
<1>2. PICK f : /\ Leading(path, "meant", f) /\ Named(path) = f[N]
               /\ \A n \in 0 .. N : f[n].table \in DOMAIN tables \cup {None}
  BY <1>1, NameByName
<1>3. PICK g : Leading(q, "meant", g) /\ Named(q) = g[N + 1]
  <2> HIDE DEF q
  <2>1. Len(q) \in Nat
    BY <1>1
  <2>2. QED
    BY <1>1, <2>1, NameByName
<1>4. f[N] = g[N]
  <2> HIDE DEF q
  <2>1. \A i \in 1 .. N : path[i] = q[i]
    BY <1>1
  <2>2. \A n \in 0 .. N : f[n] = g[n]
    BY <1>1, <1>2, <1>3, <2>1, SameWay
  <2>3. QED
    BY <1>1, <2>2
<1>5. g[N + 1] = Onward(q, N + 1, g[N], "meant")
  <2> HIDE DEF q
  <2>1. QED
    BY <1>1, <1>3 DEF Leading
<1>6. Onward(q, N + 1, f[N], "meant") =
        IF f[N].table = None \/ (path # <<>> /\ f[N].many # Last(path).id) THEN Nowhere
        ELSE PlaceOf(f[N].table, step)
  <2>1. path # <<>> <=> N + 1 > 1
    OBVIOUS
  <2>2. path # <<>> => Last(path) = q[(N + 1) - 1]
    BY <1>1 DEF Last
  <2> HIDE DEF q
  <2>3. QED
    BY <1>1, <2>1, <2>2 DEF Onward
<1>7. Named(<<>>) = AtSystem
  <2>1. Len(<<>>) = 0
    OBVIOUS
  <2>2. PICK h : Leading(<<>>, "meant", h) /\ Named(<<>>) = h[0]
    BY <2>1, NameByName
  <2>3. QED
    BY <2>1, <2>2 DEF Leading
<1>8. QED
  BY <1>1, <1>2, <1>3, <1>4, <1>5, <1>6, <1>7

\* Where the server finds it, name by name.
LEMMA ResolveOnward ==
  ASSUME Parsed, NEW S, NEW path \in Seq(S), NEW step \in S
  PROVE  /\ Resolve(<<>>) = AtSystem
         /\ Resolve(path).table \in DOMAIN tables \cup {None}
         /\ Resolve(Append(path, step)) =
              IF Resolve(path).table = None \/ (path # <<>> /\ Resolve(path).many # Last(path).id) THEN Nowhere
              ELSE Find(PlaceOf(Resolve(path).table, step), step.id)
<1> DEFINE q == Append(path, step)
           N == Len(path)
<1>1. /\ N \in Nat /\ Len(q) = N + 1 /\ q[N + 1] = step
      /\ \A i \in 1 .. N : q[i] = path[i]
  OBVIOUS
<1>2. PICK f : /\ Leading(path, "gone", f) /\ Resolve(path) = f[N]
               /\ \A n \in 0 .. N : f[n].table \in DOMAIN tables \cup {None}
  BY <1>1, StepByName
<1>3. PICK g : Leading(q, "gone", g) /\ Resolve(q) = g[N + 1]
  <2> HIDE DEF q
  <2>1. Len(q) \in Nat
    BY <1>1
  <2>2. QED
    BY <1>1, <2>1, StepByName
<1>4. f[N] = g[N]
  <2> HIDE DEF q
  <2>1. \A i \in 1 .. N : path[i] = q[i]
    BY <1>1
  <2>2. \A n \in 0 .. N : f[n] = g[n]
    BY <1>1, <1>2, <1>3, <2>1, SameWay
  <2>3. QED
    BY <1>1, <2>2
<1>5. g[N + 1] = Onward(q, N + 1, g[N], "gone")
  <2> HIDE DEF q
  <2>1. QED
    BY <1>1, <1>3 DEF Leading
<1>6. Onward(q, N + 1, f[N], "gone") =
        IF f[N].table = None \/ (path # <<>> /\ f[N].many # Last(path).id) THEN Nowhere
        ELSE Find(PlaceOf(f[N].table, step), step.id)
  <2>1. path # <<>> <=> N + 1 > 1
    OBVIOUS
  <2>2. path # <<>> => Last(path) = q[(N + 1) - 1]
    BY <1>1 DEF Last
  <2> HIDE DEF q
  <2>3. QED
    BY <1>1, <2>1, <2>2 DEF Onward
<1>7. Resolve(<<>>) = AtSystem
  <2>1. Len(<<>>) = 0
    OBVIOUS
  <2>2. PICK h : Leading(<<>>, "gone", h) /\ Resolve(<<>>) = h[0]
    BY <2>1, StepByName
  <2>3. QED
    BY <2>1, <2>2 DEF Leading
<1>8. QED
  BY <1>1, <1>2, <1>3, <1>4, <1>5, <1>6, <1>7

----------------------------------------------------------------------------
(* The paths of the document.                                                 *)

\* The names a path is made of.
Names == {Plural[t] : t \in DOMAIN file} \cup UNION {DOMAIN file[t].columns : t \in DOMAIN file}
Steps == {Step(name, id) : name \in Names, id \in BOOLEAN}

\* A path leads to one row of the table.
Within(t, path) == path \in Seq(Steps) /\ Named(path).table = t /\ IsNamedRow(path)

\* A call goes on from a row, by a name that leads to its table.
RightCall(call) ==
  /\ call.table \in DOMAIN tables
  /\ IF call.name = None THEN call.table = System /\ call.prefix = <<>>
     ELSE /\ call.name \in Names
          /\ \E t \in DOMAIN tables :
               /\ Within(t, call.prefix)
               /\ \A id \in BOOLEAN :
                    /\ PlaceOf(t, Step(call.name, id)).table = call.table
                    /\ PlaceOf(t, Step(call.name, id)).many = IsPlural(call)

\* PathsLeadThere, of one path.
LeadsThere(p) ==
  /\ Named(p).table # None
  /\ p # <<>> => (Last(p).id => Named(p).many)
  /\ \A op \in paths[p] :
       /\ \A r \in op.refs : r \in Kinds \X DOMAIN tables => r[2] = Named(p).table
       /\ op.method \in {"PUT", "PATCH", "DELETE"} => IsNamedRow(p)
       /\ op.method = "POST" => ~IsNamedRow(p)
       /\ op.ids = Ids(p)

PathInv ==
  /\ doc = "none" => calls = {} /\ paths = <<>>
  /\ doc # "none" => phase = "done"
  /\ \A call \in calls : RightCall(call)
  /\ \A p \in Served : p \in Seq(Steps) /\ LeadsThere(p)

\* A name leads to the table of the column it names, or to the one it is the
\* plural of.
LEMMA ColumnLeads ==
  ASSUME Parsed, NEW t \in DOMAIN tables, NEW c \in children[t] \cap DOMAIN tables[t].references, NEW id
  PROVE  LET here == PlaceOf(t, Step(c, id))
         IN /\ here.table = tables[t].references[c].target
            /\ here.many = tables[t].references[c].plural
            /\ here.place.relation = "child"
<1>1. c \in tables[t].columns \cap children[t]
  BY ChildrenAre
<1>2. QED
  BY <1>1 DEF PlaceOf, Step, Place

LEMMA PluralLeads ==
  ASSUME Parsed, NEW t \in DOMAIN tables, NEW u \in DOMAIN tables, NEW id,
         Plural[u] \notin tables[t].columns \cap children[t],
         u \in children[t] \/ (t = System /\ parent[u] = None)
  PROVE  LET here == PlaceOf(t, Step(Plural[u], id))
         IN here.table = u /\ here.many /\ here.many \in BOOLEAN /\ here.place.relation # "child"
<1> DEFINE us == {v \in DOMAIN tables : Plural[v] = Plural[u] /\ (v \in children[t] \/ (t = System /\ parent[v] = None))}
<1>1. us = {u}
  BY DEF Parsed, ParserInv, TablesInv, Unambiguous
<1>2. (CHOOSE v \in us : TRUE) = u
  BY <1>1
<1>3. Step(Plural[u], id).name = Plural[u]
  BY DEF Step
<1>4. QED
  BY <1>1, <1>2, <1>3 DEF PlaceOf, Place

\* Where the name of a call leads from a table.
Goes(call, t, relation) ==
  /\ call.table \in DOMAIN tables /\ call.name \in Names /\ call.name # None
  /\ \A id \in BOOLEAN :
       LET here == PlaceOf(t, Step(call.name, id))
       IN /\ here.table = call.table
          /\ here.many = IsPlural(call)
          /\ here.place.relation = "child" <=> relation = "child"

LEMMA GoesRight ==
  ASSUME NEW t \in DOMAIN tables, NEW call, NEW relation, Within(t, call.prefix), Goes(call, t, relation)
  PROVE  RightCall(call)
BY DEF RightCall, Goes

\* The calls for the children of a table.
LEMMA ColumnGoes ==
  ASSUME Parsed, NEW t \in DOMAIN tables, NEW prefix, NEW c \in children[t] \cap DOMAIN tables[t].references
  PROVE  LET call == Call(tables[t].references[c].target, c, t, prefix)
         IN Goes(call, t, "child") /\ IsPlural(call) = tables[t].references[c].plural
<1> DEFINE call == Call(tables[t].references[c].target, c, t, prefix)
<1>1. /\ TablesInv /\ DOMAIN tables = DOMAIN file /\ t # None
      /\ DOMAIN tables[t].references = References(file[t])
  BY TableKeeps, SchemaAssumption DEF Parsed, ParserInv, TablesInv
<1>2. call.table = tables[t].references[c].target /\ call.name = c /\ call.of = t
  BY DEF Call
<1>3. c \in Names /\ c # None
  BY <1>1, SchemaAssumption DEF Names, References, TablesInv
<1>4. call.table \in DOMAIN tables
  BY <1>2, ChildrenAre DEF TargetOf
<1>5. IsPlural(call) = tables[t].references[c].plural
  <2>1. tables[t].references[c].plural \in BOOLEAN
    BY <1>1, TableKeeps, SchemaAssumption DEF References, TablesInv
  <2>2. IsPlural(call) <=> tables[t].references[c].plural
    BY <1>1, <1>2, <1>3 DEF IsPlural
  <2>3. QED
    BY <2>1, <2>2 DEF IsPlural
<1> HIDE DEF call
<1>6. Goes(call, t, "child")
  BY <1>2, <1>3, <1>4, <1>5, ColumnLeads DEF Goes
<1>7. QED
  BY <1>5, <1>6 DEF call

LEMMA PluralGoes ==
  ASSUME Parsed, NEW t \in DOMAIN tables, NEW prefix, NEW u \in children[t] \ DOMAIN tables[t].references
  PROVE  LET call == Call(u, Plural[u], t, prefix) IN Goes(call, t, "back") /\ IsPlural(call) = TRUE
<1> DEFINE call == Call(u, Plural[u], t, prefix)
<1>1. /\ TablesInv /\ DOMAIN tables = DOMAIN file /\ Unambiguous(file) /\ t # None
      /\ DOMAIN tables[t].references = References(file[t])
  BY TableKeeps, SchemaAssumption DEF Parsed, ParserInv, TablesInv
<1>2. call.table = u /\ call.name = Plural[u] /\ call.of = t
  BY DEF Call
<1>3. u \in DOMAIN tables /\ PointsTo(u, t)
  BY ChildrenAre
<1>4. Plural[u] \in Names /\ Plural[u] # None
  BY <1>1, <1>3, PluralAssumption DEF Names, TablesInv
<1>5. Plural[u] \notin DOMAIN file[t].columns
  BY <1>1, <1>3 DEF Unambiguous, PointsTo, Relation, TargetOf
<1>6. Plural[u] \notin tables[t].columns
  BY <1>1, <1>5 DEF TablesInv, Table, Columns
<1>7. IsPlural(call) = TRUE
  BY <1>1, <1>2, <1>4, <1>5 DEF IsPlural, References
<1> HIDE DEF call
<1>8. Goes(call, t, "back")
  <2>1. \A id \in BOOLEAN :
          LET here == PlaceOf(t, Step(Plural[u], id))
          IN here.table = u /\ here.many /\ here.many \in BOOLEAN /\ here.place.relation # "child"
    BY <1>3, <1>6, PluralLeads
  <2>2. QED
    BY <1>2, <1>3, <1>4, <1>7, <2>1 DEF Goes
<1>9. QED
  BY <1>7, <1>8 DEF call

LEMMA ChildCallsAreRight ==
  ASSUME Parsed, NEW t \in DOMAIN tables, NEW prefix, Within(t, prefix), NEW call \in ChildCalls(t, prefix)
  PROVE  RightCall(call)
<1>1. \/ \E c \in children[t] \cap DOMAIN tables[t].references :
           call = Call(tables[t].references[c].target, c, t, prefix)
      \/ \E u \in children[t] \ DOMAIN tables[t].references : call = Call(u, Plural[u], t, prefix)
  BY DEF ChildCalls
<1>2. Goes(call, t, "child") \/ Goes(call, t, "back")
  BY <1>1, ColumnGoes, PluralGoes
<1>3. call.prefix = prefix
  BY <1>1 DEF Call
<1>4. QED
  BY <1>2, <1>3, GoesRight

\* The calls at the start: System, its children in columns, and the top.
LEMMA RootIsRight == Parsed => RightCall(Call(System, None, None, <<>>))
BY SchemaAssumption DEF Parsed, ParserInv, TablesInv, RightCall, Call

LEMMA NoNameLeadsToSystem == Parsed => Named(<<>>) = AtSystem
<1>1. <<>> \in Seq({0})
  OBVIOUS
<1>2. QED
  BY <1>1, NamedOnward

LEMMA NothingIsWithinSystem == Parsed => Within(System, <<>>)
BY NoNameLeadsToSystem DEF Within, IsNamedRow, AtSystem

LEMMA TopGoes ==
  ASSUME Parsed, NEW u \in DOMAIN tables \ {System}, parent[u] = None
  PROVE  LET call == Call(u, Plural[u], None, <<>>) IN Goes(call, System, "top") /\ IsPlural(call) = TRUE
<1> DEFINE call == Call(u, Plural[u], None, <<>>)
<1>1. /\ TablesInv /\ DOMAIN tables = DOMAIN file /\ Unambiguous(file) /\ System \in DOMAIN file
      /\ DOMAIN tables[System].references = References(file[System])
  BY TableKeeps, SchemaAssumption DEF Parsed, ParserInv, TablesInv
<1>2. call.table = u /\ call.name = Plural[u] /\ call.of = None
  BY DEF Call
<1>3. Plural[u] \in Names /\ Plural[u] # None
  BY <1>1, PluralAssumption DEF Names, TablesInv
<1>4. Plural[u] \notin tables[System].columns \cap children[System]
  <2> SUFFICES ASSUME Plural[u] \in tables[System].columns, Plural[u] \in children[System] PROVE FALSE
    OBVIOUS
  <2>1. /\ Plural[u] \in DOMAIN tables[System].references /\ Relation(System, Plural[u]) = "child"
        /\ parent[TargetOf(System, Plural[u])] # None
    BY <1>1, ChildrenAre
  <2>2. TargetOf(System, Plural[u]) = u
    BY <1>1, <2>1 DEF Unambiguous, Relation, TargetOf
  <2>3. QED
    BY <2>1, <2>2
<1>5. IsPlural(call) = TRUE
  BY <1>2, <1>3 DEF IsPlural
<1> HIDE DEF call
<1>6. Goes(call, System, "top")
  <2>1. \A id \in BOOLEAN :
          LET here == PlaceOf(System, Step(Plural[u], id))
          IN here.table = u /\ here.many /\ here.many \in BOOLEAN /\ here.place.relation # "child"
    BY <1>1, <1>4, PluralLeads
  <2>2. QED
    BY <1>1, <1>2, <1>3, <1>5, <2>1 DEF Goes
<1>7. QED
  BY <1>5, <1>6 DEF call

LEMMA TopCallsAreRight ==
  ASSUME Parsed, NEW u \in DOMAIN tables \ {System}, parent[u] = None
  PROVE  RightCall(Call(u, Plural[u], None, <<>>))
<1> DEFINE call == Call(u, Plural[u], None, <<>>)
<1>1. Goes(call, System, "top") /\ call.prefix = <<>>
  BY TopGoes DEF Call
<1>2. System \in DOMAIN tables
  BY SchemaAssumption DEF Parsed, ParserInv, TablesInv
<1> HIDE DEF call
<1>3. RightCall(call)
  BY <1>1, <1>2, NothingIsWithinSystem, GoesRight
<1>4. QED
  BY <1>3 DEF call

\* A right call leads to its table, for the path of a row and for that of all.
LEMMA CallLeads ==
  ASSUME Parsed, NEW call, RightCall(call), NEW id \in BOOLEAN, id => IsPlural(call)
  PROVE  LET p == PathOf(call, id)
         IN /\ p \in Seq(Steps) /\ Named(p).table = call.table /\ Named(p).many = IsPlural(call)
            /\ p # <<>> <=> call.name # None
            /\ p # <<>> => Last(p).id = id
            /\ IsPlural(call) \in BOOLEAN
            /\ CoreParams(call, id) = Ids(p)
<1> DEFINE p == PathOf(call, id)
<1>1. IsPlural(call) \in BOOLEAN
  BY DEF IsPlural
<1>2. CASE call.name = None
  <2>1. p = <<>> /\ call.table = System /\ IsPlural(call) = FALSE /\ id = FALSE
    BY <1>2 DEF PathOf, RightCall, IsPlural
  <2>2. Named(<<>>) = AtSystem /\ AtSystem.table = System /\ AtSystem.many = FALSE
    BY NoNameLeadsToSystem DEF AtSystem
  <2>3. CoreParams(call, FALSE) = {} /\ Ids(<<>>) = {}
    BY <1>2 DEF CoreParams, Ids, RightCall
  <2>4. Named(p).table = call.table /\ Named(p).many = IsPlural(call) /\ CoreParams(call, id) = Ids(p)
    BY <2>1, <2>2, <2>3
  <2>5. p \in Seq(Steps)
    BY <2>1
  <2> HIDE DEF p
  <2>6. QED
    BY <1>1, <1>2, <2>1, <2>4, <2>5 DEF p
<1>3. CASE call.name # None
  <2> DEFINE step == Step(call.name, id)
             path == call.prefix
  <2>1. p = Append(path, step) /\ step \in Steps /\ step.id = id /\ path \in Seq(Steps)
    BY <1>3 DEF PathOf, RightCall, Steps, Step, Within
  <2>2. PICK t \in DOMAIN tables :
          /\ Within(t, path) /\ t # None
          /\ PlaceOf(t, step).table = call.table /\ PlaceOf(t, step).many = IsPlural(call)
    BY <1>3, SchemaAssumption DEF RightCall, Parsed, ParserInv, TablesInv
  <2>3. Named(p) = PlaceOf(t, step)
    <3>1. Named(path).table = t /\ (path = <<>> \/ Last(path).id = Named(path).many)
      BY <2>2 DEF Within, IsNamedRow
    <3> HIDE DEF step, path, p
    <3>2. QED
      BY <2>1, <2>2, <3>1, NamedOnward
  <2>4. p # <<>> /\ Last(p) = step /\ p \in Seq(Steps) /\ Len(p) = Len(path) + 1
        /\ p[Len(p)] = step /\ \A i \in 1 .. Len(path) : p[i] = path[i]
    <3> HIDE DEF step, path, p
    <3>1. QED
      BY <2>1 DEF Last
  <2>5. CoreParams(call, id) = Ids(p)
    <3> HIDE DEF step, path, p
    <3>1. DOMAIN path = 1 .. Len(path) /\ DOMAIN p = 1 .. Len(path) + 1 /\ Len(path) \in Nat
      BY <2>1, <2>4
    <3>2. {i \in DOMAIN p : p[i].id} = {i \in DOMAIN path : path[i].id} \cup IF id THEN {Len(p)} ELSE {}
      BY <2>1, <2>4, <3>1
    <3>3. Ids(p) = {Len(p) - i : i \in {j \in DOMAIN path : path[j].id}} \cup IF id THEN {0} ELSE {}
      BY <2>4, <3>1, <3>2 DEF Ids
    <3>4. QED
      BY <2>4, <3>1, <3>3 DEF CoreParams, path
  <2>6. QED
    BY <1>1, <1>3, <2>1, <2>2, <2>3, <2>4, <2>5
<1>4. QED
  BY <1>2, <1>3

\* What the operations of a row and of a list refer to.
RowMethods == {"GET", "PUT", "PATCH", "DELETE"}
RowRefs(t) == {{<<"All", t>>}, {<<"ConfigOnly", t>>}, {<<"PatchDocument", None>>}, {}}
ListMethods == {"GET", "POST"}
ListRefs(t) == {{<<"Resource", None>>}, {<<"ConfigReferenced", t>>}, {<<"ConfigOnly", t>>}}

OneOf(op, methods, refs) == \E method \in methods : \E params : \E ref \in refs : op = Op(method, params, ref)

LEMMA OpHas ==
  ASSUME NEW method, NEW params, NEW refs, NEW ids
  PROVE  LET op == Op(method, params, refs)
         IN /\ op.method = method /\ op.refs = refs
            /\ [op EXCEPT !.ids = ids].method = method /\ [op EXCEPT !.ids = ids].refs = refs
            /\ [op EXCEPT !.ids = ids].ids = ids
BY DEF Op

LEMMA RowOpsAre ==
  ASSUME NEW t, NEW op \in InstanceOps(t) \cup DeleteOps
  PROVE  OneOf(op, RowMethods, RowRefs(t))
<1>1. op \in {Op("GET", GetParams(t, TRUE), {<<"All", t>>}),
              Op("PUT", {"If-Match", "data"}, {<<"ConfigOnly", t>>}),
              Op("PATCH", {"If-Match", "data"}, {<<"PatchDocument", None>>}),
              Op("DELETE", {"If-Match"}, {})}
  BY DEF InstanceOps, DeleteOps
<1>2. QED
  BY <1>1 DEF OneOf, RowMethods, RowRefs

LEMMA ListOpsAre ==
  ASSUME NEW t, NEW op \in ListOps(t)
  PROVE  OneOf(op, ListMethods, ListRefs(t))
<1>1. op \in {Op("GET", GetParams(t, FALSE), {<<"Resource", None>>}),
              Op("POST", {"data"}, {<<"ConfigReferenced", t>>}), Op("POST", {"data"}, {<<"ConfigOnly", t>>})}
  BY DEF ListOps
<1>2. QED
  BY <1>1 DEF OneOf, ListMethods, ListRefs

\* With the ids of the call they refer to nothing else.
LEMMA OpsWithIds ==
  ASSUME NEW ops, NEW M, NEW R, NEW call, NEW own, \A o \in ops : OneOf(o, M, R),
         NEW op \in WithIds(ops, call, own)
  PROVE  op.method \in M /\ op.refs \in R /\ op.ids = CoreParams(call, own)
<1>1. \E method \in M : \E params : \E refs \in R :
        op = [Op(method, params, refs) EXCEPT !.ids = CoreParams(call, own)]
  BY DEF WithIds, OneOf
<1>2. QED
  BY <1>1, OpHas

\* The operations of a call are on paths that lead there.
LEMMA OperationsLead ==
  ASSUME Parsed, NEW call, RightCall(call), paths' = With(Operations(call)), UNCHANGED parserVars,
         NEW p \in DOMAIN Operations(call)
  PROVE  p \in Seq(Steps) /\ LeadsThere(p)'
<1> DEFINE t == call.table
           m == IsPlural(call)
<1>1. UNCHANGED <<file, tables, parent, children, refMap>>
  BY DEF parserVars
<1>2. t \in DOMAIN tables /\ m \in BOOLEAN /\ t # None
  BY SchemaAssumption DEF RightCall, IsPlural, Parsed, ParserInv, TablesInv
<1>3. Named(p)' = Named(p) /\ IsNamedRow(p)' = IsNamedRow(p) /\ Ids(p)' = Ids(p) /\ (Kinds \X DOMAIN tables)' = Kinds \X DOMAIN tables
  BY <1>1 DEF Named, Onward, AtSystem, PlaceOf, Find, Takes, IsNamedRow, Ids, Kinds
<1>4. paths'[p] = Operations(call)[p]
  BY DEF With
<1>5. p \in {PathOf(call, FALSE), PathOf(call, m)}
  BY DEF Operations
<1>6. ASSUME p = PathOf(call, m)
      PROVE  p \in Seq(Steps) /\ LeadsThere(p)'
  <2> DEFINE ops == InstanceOps(t) \cup IF m THEN DeleteOps ELSE {}
  <2>1. Operations(call)[p] = WithIds(ops, call, m)
    BY <1>6 DEF Operations
  <2>2. /\ p \in Seq(Steps) /\ Named(p).table = t /\ Named(p).many = m
        /\ p # <<>> => Last(p).id = m
        /\ CoreParams(call, m) = Ids(p)
    BY <1>2, <1>6, CallLeads
  <2>3. IsNamedRow(p)
    BY <2>2 DEF IsNamedRow
  <2>4. ASSUME NEW op \in paths'[p]
        PROVE  /\ op.method \in RowMethods /\ op.refs \in RowRefs(t)
               /\ op.ids = Ids(p)
    <3>1. op \in WithIds(ops, call, m)
      BY <1>4, <2>1
    <3>2. \A o \in ops : o \in InstanceOps(t) \cup DeleteOps
      OBVIOUS
    <3> HIDE DEF ops
    <3>3. \A o \in ops : OneOf(o, RowMethods, RowRefs(t))
      BY <3>2, RowOpsAre
    <3>4. op.method \in RowMethods /\ op.refs \in RowRefs(t) /\ op.ids = CoreParams(call, m)
      <4> HIDE DEF t, m
      <4>1. QED
        BY <3>1, <3>3, OpsWithIds
    <3>5. QED
      BY <2>2, <3>4
  <2>5. \A op \in paths'[p] : \A r \in op.refs : r \in Kinds \X DOMAIN tables => r[2] = t
    <3>1. <<"PatchDocument", None>> \notin Kinds \X DOMAIN tables
      BY DEF Kinds
    <3>2. QED
      BY <2>4, <3>1 DEF RowRefs
  <2>6. QED
    BY <1>2, <1>3, <2>2, <2>3, <2>4, <2>5 DEF LeadsThere, RowMethods
<1>7. ASSUME p # PathOf(call, m), p = PathOf(call, FALSE)
      PROVE  p \in Seq(Steps) /\ LeadsThere(p)'
  <2>1. Operations(call)[p] = WithIds(ListOps(t), call, FALSE)
    BY <1>7 DEF Operations
  <2>2. m = TRUE
    BY <1>2, <1>7
  <2>3. /\ p \in Seq(Steps) /\ Named(p).table = t /\ Named(p).many = m
        /\ p # <<>> /\ Last(p).id = FALSE
        /\ CoreParams(call, FALSE) = Ids(p)
    <3>1. call.name # None
      BY <2>2 DEF IsPlural
    <3>2. QED
      BY <1>7, <3>1, CallLeads
  <2>4. ~IsNamedRow(p)
    BY <2>2, <2>3 DEF IsNamedRow
  <2>5. ASSUME NEW op \in paths'[p]
        PROVE  /\ op.method \in ListMethods /\ op.refs \in ListRefs(t)
               /\ op.ids = Ids(p)
    <3>1. op \in WithIds(ListOps(t), call, FALSE)
      BY <1>4, <2>1
    <3>2. \A o \in ListOps(t) : OneOf(o, ListMethods, ListRefs(t))
      BY ListOpsAre
    <3>3. op.method \in ListMethods /\ op.refs \in ListRefs(t) /\ op.ids = CoreParams(call, FALSE)
      <4> DEFINE ops == ListOps(t)
                 own == FALSE
      <4>1. op \in WithIds(ops, call, own) /\ \A o \in ops : OneOf(o, ListMethods, ListRefs(t))
        BY <3>1, <3>2
      <4> HIDE DEF t, m, ops, own
      <4>2. op.method \in ListMethods /\ op.refs \in ListRefs(t) /\ op.ids = CoreParams(call, own)
        BY <4>1, OpsWithIds
      <4>3. QED
        BY <4>2 DEF own
    <3>4. QED
      BY <2>3, <3>3
  <2>6. \A op \in paths'[p] : \A r \in op.refs : r \in Kinds \X DOMAIN tables => r[2] = t
    <3>1. <<"Resource", None>> \notin Kinds \X DOMAIN tables
      BY DEF Kinds
    <3>2. QED
      BY <2>5, <3>1 DEF ListRefs
  <2>7. QED
    BY <1>2, <1>3, <2>2, <2>3, <2>4, <2>5, <2>6 DEF LeadsThere, ListMethods
<1>8. QED
  BY <1>5, <1>6, <1>7

\* What leads where does not change when the document does.
LEMMA LeadingStays ==
  ASSUME UNCHANGED parserVars
  PROVE  /\ Parsed' = Parsed /\ Steps' = Steps
         /\ \A call : RightCall(call)' = RightCall(call) /\ IsPlural(call)' = IsPlural(call)
         /\ \A path : Named(path)' = Named(path) /\ IsNamedRow(path)' = IsNamedRow(path)
<1>1. UNCHANGED <<file, tables, parent, children, left, refMap, mutable, phase>>
  BY DEF parserVars
<1>2. Steps' = Steps /\ Names' = Names
  BY <1>1 DEF Names, Steps
<1>3. Parsed' = Parsed
  BY <1>1 DEF Parsed, ParserInv, TablesInv, FamilyInv, LinkInv, DecidedInv, MutableInv, Linked, Adopted,
              ColumnFor, PointsTo, Relation, TargetOf, IsImmutable, HasConfigIndex, ChildColumns
<1>4. \A t, step : PlaceOf(t, step)' = PlaceOf(t, step)
  BY <1>1 DEF PlaceOf
<1>5. ASSUME NEW path PROVE Named(path)' = Named(path)
  <2>1. \A here, id : Find(here, id)' = Find(here, id)
    BY <1>1 DEF Find, Takes
  <2>2. QED
    BY <1>4, <2>1 DEF Named, Onward, AtSystem
<1>6. \A path : IsNamedRow(path)' = IsNamedRow(path)
  BY <1>5 DEF IsNamedRow
<1>7. \A call : IsPlural(call)' = IsPlural(call)
  BY <1>1 DEF IsPlural
<1>8. \A t, path : Within(t, path)' = Within(t, path)
  BY <1>2, <1>5, <1>6 DEF Within
<1>9. \A call : RightCall(call)' = RightCall(call)
  BY <1>1, <1>2, <1>4, <1>7, <1>8 DEF RightCall
<1>10. QED
  BY <1>2, <1>3, <1>5, <1>6, <1>7, <1>9

LEMMA StartLeads ==
  ASSUME ParserInv, Unambiguous(file), PathInv, Start
  PROVE  PathInv'
<1>1. /\ phase = "done" /\ Parsed /\ UNCHANGED parserVars /\ paths = <<>> /\ paths' = paths
      /\ doc' = "tables" /\ phase' = phase
  BY DEF Start, Parsed, PathInv, parserVars
<1>2. System \in DOMAIN tables
  BY <1>1, SchemaAssumption DEF Parsed, ParserInv, TablesInv
<1> DEFINE Columned == {Call(tables[System].references[c].target, c, System, <<>>) :
                            c \in children[System] \cap DOMAIN tables[System].references}
           Top == {Call(t, Plural[t], None, <<>>) : t \in {u \in DOMAIN tables \ {System} : parent[u] = None}}
<1>3. calls' = {Call(System, None, None, <<>>)} \cup Columned \cup Top
  BY DEF Start
<1>4. \A call \in Columned : RightCall(call)
  <2>1. Columned \subseteq ChildCalls(System, <<>>)
    BY DEF ChildCalls
  <2> HIDE DEF Columned
  <2>2. QED
    BY <1>1, <1>2, <2>1, NothingIsWithinSystem, ChildCallsAreRight
<1>5. \A call \in Top : RightCall(call)
  BY <1>1, TopCallsAreRight
<1> HIDE DEF Columned, Top
<1>6. \A call \in calls' : RightCall(call)
  BY <1>1, <1>3, <1>4, <1>5, RootIsRight
<1>7. \A call \in calls' : RightCall(call)'
  BY <1>1, <1>6, LeadingStays
<1>8. \A p \in Served' : p \in Seq(Steps') /\ LeadsThere(p)'
  BY <1>1 DEF Served
<1>9. QED
  BY <1>1, <1>7, <1>8 DEF PathInv

LEMMA GenAPILeads ==
  ASSUME ParserInv, Unambiguous(file), PathInv, NEW call \in calls, GenAPI(call)
  PROVE  PathInv'
<1>1. /\ Parsed /\ UNCHANGED parserVars /\ RightCall(call)
      /\ paths' = With(Operations(call))
      /\ doc = "tables" /\ doc' = doc /\ phase' = phase /\ phase = "done"
      /\ calls' = (calls \ {call})
              \cup IF call.name = None THEN {} ELSE ChildCalls(call.table, PathOf(call, IsPlural(call)))
  BY DEF GenAPI, Parsed, PathInv, parserVars
<1>2. ASSUME call.name # None
      PROVE  \A c \in ChildCalls(call.table, PathOf(call, IsPlural(call))) : RightCall(c)
  <2> DEFINE p == PathOf(call, IsPlural(call))
  <2>1. IsPlural(call) \in BOOLEAN /\ call.table \in DOMAIN tables
    BY <1>1 DEF IsPlural, RightCall
  <2>2. /\ p \in Seq(Steps) /\ Named(p).table = call.table /\ Named(p).many = IsPlural(call)
        /\ Last(p).id = IsPlural(call)
    BY <1>1, <1>2, <2>1, CallLeads
  <2>3. Within(call.table, p)
    BY <2>2 DEF Within, IsNamedRow
  <2> HIDE DEF p
  <2>4. \A c \in ChildCalls(call.table, p) : RightCall(c)
    BY <1>1, <2>1, <2>3, ChildCallsAreRight
  <2>5. QED
    BY <2>4 DEF p
<1>3. \A c \in calls' : RightCall(c)'
  BY <1>1, <1>2, LeadingStays DEF PathInv
<1>4. ASSUME NEW p \in Served'
      PROVE  p \in Seq(Steps') /\ LeadsThere(p)'
  <2>1. CASE p \in DOMAIN Operations(call)
    BY <1>1, <2>1, OperationsLead, LeadingStays
  <2>2. CASE p \notin DOMAIN Operations(call)
    <3>1. p \in DOMAIN paths /\ paths'[p] = paths[p] /\ p \in Served
      <4>1. Fixed' = Fixed
        BY DEF Fixed, FixedOps, Op
      <4>2. p \in DOMAIN paths' /\ p \notin DOMAIN Fixed
        BY <4>1 DEF Served
      <4> HIDE DEF Fixed
      <4>3. QED
        BY <1>1, <2>2, <4>2 DEF With, Served
    <3>2. p \in Seq(Steps) /\ LeadsThere(p)
      BY <3>1 DEF PathInv
    <3>3. UNCHANGED tables
      BY <1>1 DEF parserVars
    <3>4. QED
      BY <1>1, <3>1, <3>2, <3>3, LeadingStays DEF LeadsThere, Ids, Kinds
  <2>3. QED
    BY <2>1, <2>2
<1>5. QED
  BY <1>1, <1>3, <1>4 DEF PathInv

LEMMA FinishLeads ==
  ASSUME ParserInv, Unambiguous(file), PathInv, Finish
  PROVE  PathInv'
<1>1. /\ UNCHANGED parserVars /\ paths' = With(Fixed) /\ phase = "done" /\ phase' = phase
      /\ doc' = "done" /\ calls' = calls
  BY DEF Finish, PathInv, parserVars
<1>2. \A c \in calls' : RightCall(c)'
  BY <1>1, LeadingStays DEF PathInv
<1>3. ASSUME NEW p \in Served'
      PROVE  p \in Seq(Steps') /\ LeadsThere(p)'
  <2>1. p \in DOMAIN paths /\ paths'[p] = paths[p] /\ p \in Served
    <3>1. Fixed' = Fixed
      BY DEF Fixed, FixedOps, Op
    <3>2. p \in DOMAIN paths' /\ p \notin DOMAIN Fixed
      BY <3>1 DEF Served
    <3> HIDE DEF Fixed
    <3>3. QED
      BY <1>1, <3>2 DEF With, Served
  <2>2. p \in Seq(Steps) /\ LeadsThere(p)
    BY <2>1 DEF PathInv
  <2>3. UNCHANGED tables
    BY <1>1 DEF parserVars
  <2>4. QED
    BY <1>1, <2>1, <2>2, <2>3, LeadingStays DEF LeadsThere, Ids, Kinds
<1>4. QED
  BY <1>1, <1>2, <1>3 DEF PathInv

----------------------------------------------------------------------------
(* What is left out.                                                          *)

\* System is the parent of what its columns hold, and of no table's choice, and
\* is nobody's child.
Rooted(f) ==
  \A t \in DOMAIN f : \A c \in References(f[t]) :
    /\ f[t].columns[c].relation = "child" => f[t].columns[c].target # System
    /\ f[t].columns[c].relation = "parent" => t # System /\ f[t].columns[c].target # System

\* Nothing under System is named like the paths that are always there.
Reserved == {x[1] : x \in FixedOps}

NoneReserved(f) ==
  /\ \A t \in DOMAIN f : Plural[t] \notin Reserved
  /\ \A c \in References(f[System]) : f[System].columns[c].relation = "child" => c \notin Reserved

\* The calls at the start.
StartCalls ==
  {Call(System, None, None, <<>>)}
  \cup {Call(tables[System].references[c].target, c, System, <<>>) :
          c \in children[System] \cap DOMAIN tables[System].references}
  \cup {Call(t, Plural[t], None, <<>>) : t \in {u \in DOMAIN tables \ {System} : parent[u] = None}}

\* A call for another table than System, and not under a reserved name.
Ordinary(call) ==
  call.name # None => call.table # System /\ (call.prefix = <<>> => call.name \notin Reserved)

PathsOf(call) == {PathOf(call, FALSE), PathOf(call, IsPlural(call))}

\* The call will be made, or its paths are there.
Called(call) == call \in calls \/ PathsOf(call) \subseteq Served

\* The call that made a path, and whose children have been called for.
MadeBy(q, call) ==
  /\ RightCall(call) /\ Ordinary(call)
  /\ q \in PathsOf(call) /\ PathsOf(call) \subseteq Served
  /\ call.name # None => \A c \in ChildCalls(call.table, PathOf(call, IsPlural(call))) : Called(c)

\* Every path was made by a call, and the calls of the start and of the paths'
\* tables are made or will be.
CompleteInv ==
  /\ \A call \in calls : Ordinary(call)
  /\ doc # "none" => \A call \in StartCalls : Called(call)
  /\ doc = "done" => calls = {}
  /\ \A q \in Served : \E call : MadeBy(q, call)

\* The paths of a call are not those that are always there.
LEMMA CallPaths ==
  ASSUME Parsed, NEW call, RightCall(call), Ordinary(call), NEW p \in PathsOf(call)
  PROVE  /\ p \in Seq(Steps) /\ p \notin DOMAIN Fixed
         /\ Named(p).table = call.table /\ Named(p).many = IsPlural(call)
         /\ IsNamedRow(p) <=> p = PathOf(call, IsPlural(call))
<1>1. IsPlural(call) \in BOOLEAN
  BY DEF IsPlural
<1>2. PICK id \in {FALSE, IsPlural(call)} : p = PathOf(call, id)
  BY DEF PathsOf
<1>3. id \in BOOLEAN /\ (id => IsPlural(call))
  BY <1>1
<1>4. /\ p \in Seq(Steps) /\ Named(p).table = call.table /\ Named(p).many = IsPlural(call)
      /\ p # <<>> <=> call.name # None
      /\ p # <<>> => Last(p).id = id
  BY <1>2, <1>3, CallLeads
<1>5. p \notin DOMAIN Fixed
  <2> SUFFICES ASSUME NEW x \in FixedOps, p = <<Step(x[1], FALSE)>> PROVE FALSE
    BY DEF Fixed
  <2>1. call.name # None /\ p = Append(call.prefix, Step(call.name, id)) /\ call.prefix \in Seq(Steps)
    <3>1. p # <<>>
      OBVIOUS
    <3>2. QED
      BY <1>2, <1>4, <3>1 DEF PathOf, RightCall, Within
  <2>2. Step(call.name, id) = Step(x[1], FALSE) /\ call.prefix = <<>>
    <3> DEFINE path == call.prefix
               step == Step(call.name, id)
               other == Step(x[1], FALSE)
    <3>1. path \in Seq(Steps) /\ step \in Steps
      <4>1. call.name \in Names
        BY <2>1 DEF RightCall
      <4>2. QED
        BY <1>3, <2>1, <4>1 DEF Steps
    <3>2. Append(path, step) = <<other>>
      BY <2>1
    <3> HIDE DEF path, step, other
    <3>3. Len(path) \in Nat /\ Len(Append(path, step)) = Len(path) + 1 /\ Append(path, step)[Len(path) + 1] = step
      BY <3>1
    <3>4. Len(path) = 0 /\ step = other
      <4>1. Len(<<other>>) = 1 /\ <<other>>[1] = other
        OBVIOUS
      <4>2. QED
        BY <3>2, <3>3, <4>1
    <3>5. path = <<>>
      BY <3>1, <3>4
    <3>6. QED
      BY <3>4, <3>5 DEF path, step, other
  <2>3. call.name = x[1]
    BY <2>2 DEF Step
  <2>4. QED
    BY <2>1, <2>2, <2>3 DEF Ordinary, Reserved
<1>6. PathOf(call, IsPlural(call)) = <<>> \/ Last(PathOf(call, IsPlural(call))).id = IsPlural(call)
  BY <1>1, CallLeads
<1>7. IsNamedRow(p) <=> p = PathOf(call, IsPlural(call))
  <2>1. p = PathOf(call, IsPlural(call)) => IsNamedRow(p)
    BY <1>4, <1>6 DEF IsNamedRow
  <2>2. IsNamedRow(p) => p = PathOf(call, IsPlural(call))
    <3>1. p = <<>> => IsPlural(call) = FALSE
      BY <1>1, <1>4 DEF IsPlural
    <3>2. QED
      BY <1>2, <1>4, <3>1 DEF IsNamedRow
  <2>3. QED
    BY <2>1, <2>2
<1>8. QED
  BY <1>4, <1>5, <1>7

\* The calls of the start, and those for the children of a table that has a path.
LEMMA StartIsOrdinary ==
  ASSUME Parsed, Rooted(file), NoneReserved(file), NEW call \in StartCalls
  PROVE  RightCall(call) /\ Ordinary(call)
<1>1. /\ TablesInv /\ DOMAIN tables = DOMAIN file /\ System \in DOMAIN file
      /\ DOMAIN tables[System].references = References(file[System])
  BY TableKeeps, SchemaAssumption DEF Parsed, ParserInv, TablesInv
<1>2. CASE call = Call(System, None, None, <<>>)
  BY <1>2, RootIsRight DEF Ordinary, Call
<1>3. ASSUME NEW c \in children[System] \cap DOMAIN tables[System].references,
             call = Call(tables[System].references[c].target, c, System, <<>>)
      PROVE  RightCall(call) /\ Ordinary(call)
  <2>1. call \in ChildCalls(System, <<>>)
    BY <1>3 DEF ChildCalls
  <2>2. RightCall(call)
    BY <1>1, <2>1, NothingIsWithinSystem, ChildCallsAreRight
  <2>3. Relation(System, c) = "child" /\ tables[System].references[c].target = TargetOf(System, c)
    BY <1>1, <1>3, ChildrenAre DEF TargetOf
  <2>4. QED
    BY <1>1, <1>3, <2>2, <2>3 DEF Ordinary, Call, Rooted, NoneReserved, Relation, TargetOf
<1>4. ASSUME NEW t \in DOMAIN tables \ {System}, parent[t] = None, call = Call(t, Plural[t], None, <<>>)
      PROVE  RightCall(call) /\ Ordinary(call)
  BY <1>1, <1>4, TopCallsAreRight DEF Ordinary, Call, NoneReserved
<1>5. QED
  BY <1>2, <1>3, <1>4 DEF StartCalls

LEMMA ChildrenAreOrdinary ==
  ASSUME Parsed, Rooted(file), NEW t \in DOMAIN tables, NEW prefix, Within(t, prefix), prefix # <<>>,
         NEW call \in ChildCalls(t, prefix)
  PROVE  RightCall(call) /\ Ordinary(call)
<1>1. /\ TablesInv /\ DOMAIN tables = DOMAIN file
      /\ DOMAIN tables[t].references = References(file[t])
  BY TableKeeps DEF Parsed, ParserInv, TablesInv
<1>2. RightCall(call)
  BY ChildCallsAreRight
<1>3. call.prefix = prefix
  BY DEF ChildCalls, Call
<1>4. call.table # System
  <2>1. \/ \E c \in children[t] \cap DOMAIN tables[t].references : call.table = tables[t].references[c].target
        \/ \E u \in children[t] \ DOMAIN tables[t].references : call.table = u
    BY DEF ChildCalls, Call
  <2>2. ASSUME NEW c \in children[t] \cap DOMAIN tables[t].references
        PROVE  tables[t].references[c].target # System
    <3>1. Relation(t, c) = "child" /\ tables[t].references[c].target = TargetOf(t, c)
      BY <2>2, ChildrenAre DEF TargetOf
    <3>2. QED
      BY <1>1, <2>2, <3>1 DEF Rooted, Relation, TargetOf
  <2>3. ASSUME NEW u \in children[t] \ DOMAIN tables[t].references
        PROVE  u # System
    <3>1. u \in DOMAIN tables /\ PointsTo(u, t)
      BY <2>3, ChildrenAre
    <3>2. QED
      BY <1>1, <3>1 DEF Rooted, PointsTo, Relation, TargetOf
  <2>4. QED
    BY <2>1, <2>2, <2>3
<1>5. QED
  BY <1>2, <1>3, <1>4 DEF Ordinary

\* What is to be called for does not change when the document does.
LEMMA CallingStays ==
  ASSUME UNCHANGED parserVars
  PROVE  /\ Fixed' = Fixed /\ StartCalls' = StartCalls
         /\ \A call : PathsOf(call)' = PathsOf(call) /\ Ordinary(call)' = Ordinary(call)
         /\ \A call : PathOf(call, IsPlural(call))' = PathOf(call, IsPlural(call))
         /\ \A t, prefix : ChildCalls(t, prefix)' = ChildCalls(t, prefix)
<1>1. UNCHANGED <<file, tables, parent, children>>
  BY DEF parserVars
<1>2. FixedOps' = FixedOps
  BY DEF FixedOps, Op
<1>3. Fixed' = Fixed /\ Reserved' = Reserved
  BY <1>2 DEF Fixed, Reserved
<1>4. \A call : IsPlural(call)' = IsPlural(call)
  BY <1>1 DEF IsPlural
<1>5. \A call : PathsOf(call)' = PathsOf(call) /\ PathOf(call, IsPlural(call))' = PathOf(call, IsPlural(call))
  BY <1>4 DEF PathsOf, PathOf
<1>6. \A call : Ordinary(call)' = Ordinary(call)
  BY <1>3 DEF Ordinary
<1>7. StartCalls' = StartCalls
  BY <1>1 DEF StartCalls
<1>8. \A t, prefix : ChildCalls(t, prefix)' = ChildCalls(t, prefix)
  BY <1>1 DEF ChildCalls
<1>9. QED
  BY <1>3, <1>5, <1>6, <1>7, <1>8

\* What has been called for stays so, when paths are added and no call is lost
\* but one that is made.
LEMMA CalledStays ==
  ASSUME UNCHANGED parserVars, Served \subseteq Served',
         \A call \in calls : call \in calls' \/ PathsOf(call) \subseteq Served'
  PROVE  /\ \A call : Called(call) => Called(call)'
         /\ \A q, call : MadeBy(q, call) => MadeBy(q, call)'
<1>1. ASSUME NEW call, Called(call)
      PROVE  Called(call)'
  BY <1>1, CallingStays DEF Called
<1>2. ASSUME NEW q, NEW call, MadeBy(q, call)
      PROVE  MadeBy(q, call)'
  BY <1>1, <1>2, CallingStays, LeadingStays DEF MadeBy
<1>3. QED
  BY <1>1, <1>2

LEMMA StartCompletes ==
  ASSUME Parsed, PathInv, CompleteInv, Rooted(file), NoneReserved(file), Start
  PROVE  CompleteInv'
<1>1. /\ UNCHANGED parserVars /\ paths = <<>> /\ paths' = paths /\ calls = {}
      /\ calls' = StartCalls /\ doc' = "tables"
  BY DEF Start, StartCalls, PathInv
<1>2. Served' = {}
  BY <1>1 DEF Served
<1>3. \A call \in calls' : Ordinary(call)'
  BY <1>1, StartIsOrdinary, CallingStays
<1>4. \A call \in StartCalls' : Called(call)'
  BY <1>1, CallingStays DEF Called
<1>5. QED
  BY <1>1, <1>2, <1>3, <1>4 DEF CompleteInv

LEMMA GenAPICompletes ==
  ASSUME Parsed, PathInv, CompleteInv, Rooted(file), NEW call \in calls, GenAPI(call)
  PROVE  CompleteInv'
<1> DEFINE more == IF call.name = None THEN {} ELSE ChildCalls(call.table, PathOf(call, IsPlural(call)))
<1>1. /\ UNCHANGED parserVars /\ RightCall(call) /\ Ordinary(call)
      /\ paths' = With(Operations(call))
      /\ doc = "tables" /\ doc' = doc
      /\ calls' = (calls \ {call}) \cup more
  BY DEF GenAPI, PathInv, CompleteInv
<1> HIDE DEF more
<1>2. DOMAIN Operations(call) = PathsOf(call)
  BY DEF Operations, PathsOf
<1>3. DOMAIN paths' = PathsOf(call) \cup DOMAIN paths
  BY <1>1, <1>2 DEF With
<1>4. Served' = Served \cup PathsOf(call)
  <2>1. \A p \in PathsOf(call) : p \notin DOMAIN Fixed
    BY <1>1, CallPaths
  <2>2. Fixed' = Fixed
    BY <1>1, CallingStays
  <2>3. QED
    BY <1>3, <2>1, <2>2 DEF Served
<1>5. /\ \A c : Called(c) => Called(c)'
      /\ \A q, c : MadeBy(q, c) => MadeBy(q, c)'
  BY <1>1, <1>4, CalledStays
<1>6. \A c \in more : Ordinary(c)
  <2> SUFFICES ASSUME call.name # None, NEW c \in more PROVE Ordinary(c)
    BY DEF more
  <2> DEFINE p == PathOf(call, IsPlural(call))
  <2>1. IsPlural(call) \in BOOLEAN /\ call.table \in DOMAIN tables
    BY <1>1 DEF IsPlural, RightCall
  <2>2. /\ p \in Seq(Steps) /\ Named(p).table = call.table /\ Named(p).many = IsPlural(call)
        /\ p # <<>> /\ Last(p).id = IsPlural(call)
    BY <1>1, <2>1, CallLeads
  <2>3. Within(call.table, p)
    BY <2>2 DEF Within, IsNamedRow
  <2>4. c \in ChildCalls(call.table, p)
    BY DEF more
  <2> HIDE DEF p
  <2>5. QED
    BY <2>1, <2>2, <2>3, <2>4, ChildrenAreOrdinary
<1>7. \A c \in calls' : Ordinary(c)'
  BY <1>1, <1>6, CallingStays DEF CompleteInv
<1>8. \A c \in StartCalls' : Called(c)'
  BY <1>1, <1>5, CallingStays DEF CompleteInv
<1>9. ASSUME NEW q \in Served'
      PROVE  \E c : MadeBy(q, c)'
  <2>1. CASE q \in Served
    BY <1>5, <2>1 DEF CompleteInv
  <2>2. CASE q \in PathsOf(call)
    <3>1. \A c \in more : Called(c)'
      BY <1>1 DEF Called
    <3>2. call.name # None => \A c \in ChildCalls(call.table, PathOf(call, IsPlural(call)))' : Called(c)'
      BY <1>1, <3>1, CallingStays DEF more
    <3>3. RightCall(call)' /\ Ordinary(call)' /\ PathsOf(call)' = PathsOf(call)
      BY <1>1, CallingStays, LeadingStays
    <3>4. MadeBy(q, call)'
      BY <1>4, <2>2, <3>2, <3>3 DEF MadeBy
    <3>5. QED
      BY <3>4
  <2>3. QED
    BY <1>4, <2>1, <2>2
<1>10. QED
  BY <1>1, <1>7, <1>8, <1>9 DEF CompleteInv

LEMMA FinishCompletes ==
  ASSUME CompleteInv, Finish
  PROVE  CompleteInv'
<1>1. UNCHANGED parserVars /\ paths' = With(Fixed) /\ calls' = calls /\ calls = {} /\ doc = "tables"
  BY DEF Finish
<1>2. Served' = Served
  <2>1. Fixed' = Fixed
    BY <1>1, CallingStays
  <2>2. DOMAIN paths' = DOMAIN Fixed \cup DOMAIN paths
    BY <1>1 DEF With
  <2>3. QED
    BY <2>1, <2>2 DEF Served
<1>3. /\ \A c : Called(c) => Called(c)'
      /\ \A q, c : MadeBy(q, c) => MadeBy(q, c)'
  BY <1>1, <1>2, CalledStays
<1>4. QED
  BY <1>1, <1>2, <1>3, CallingStays DEF CompleteInv

\* The paths of a call with a name go on from its prefix.
LEMMA PathsGoOn ==
  ASSUME Parsed, NEW call, RightCall(call), call.name # None, NEW id \in BOOLEAN
  PROVE  LET q == PathOf(call, id)
         IN /\ Len(q) = Len(call.prefix) + 1 /\ SubSeq(q, 1, Len(call.prefix)) = call.prefix
            /\ Last(q) = Step(call.name, id)
<1> DEFINE path == call.prefix
           step == Step(call.name, id)
           q == Append(path, step)
<1>1. path \in Seq(Steps) /\ step \in Steps
  <2>1. call.name \in Names /\ call.prefix \in Seq(Steps)
    BY DEF RightCall, Within
  <2>2. QED
    BY <2>1 DEF Steps
<1>2. PathOf(call, id) = q
  BY DEF PathOf
<1> HIDE DEF path, step
<1>3. Len(path) \in Nat /\ Len(q) = Len(path) + 1 /\ q[Len(path) + 1] = step /\ q \in Seq(Steps)
  BY <1>1
<1>4. SubSeq(q, 1, Len(path)) = path
  BY <1>1
<1>5. Last(q) = step
  BY <1>3 DEF Last
<1>6. QED
  BY <1>2, <1>3, <1>4, <1>5 DEF path, step

\* What NothingIsLeftOut says of a path and a table.
AllBelow(p, t) ==
  LET below == {q \in Served : Len(q) = Len(p) + 1 /\ SubSeq(q, 1, Len(p)) = p /\ Resolve(q).table = t}
  IN /\ \E q \in below : IsInstance(q)
     /\ \A q \in below : Resolve(q).many => \E r \in below : Last(r) = Step(Last(q).name, FALSE)

\* A path the server finds is one that names the same.
LEMMA FoundIsNamed ==
  ASSUME Parsed, NEW S, NEW path \in Seq(S), Resolve(path).table # None
  PROVE  Resolve(path) = Named(path) /\ IsInstance(path) = IsNamedRow(path)
<1>1. Nowhere.table = None
  BY DEF Nowhere
<1>2. Resolve(path) = Named(path)
  BY <1>1, NamedOrNowhere
<1>3. QED
  BY <1>2 DEF IsInstance, IsNamedRow

\* The paths of a call from a row that the server finds are found, if it serves
\* the table there.
LEMMA CallIsServed ==
  ASSUME Parsed, NEW call, NEW t \in DOMAIN tables, NEW relation,
         call.prefix \in Seq(Steps), Resolve(call.prefix).table = t, IsInstance(call.prefix), t # None,
         Goes(call, t, relation), NEW id \in BOOLEAN, Takes(call.table, relation, id)
  PROVE  LET q == PathOf(call, id) IN Resolve(q).table = call.table /\ Resolve(q).many = IsPlural(call)
<1> DEFINE step == Step(call.name, id)
           path == call.prefix
           here == PlaceOf(t, step)
<1>1. PathOf(call, id) = Append(path, step) /\ step \in Steps /\ step.id = id
  BY DEF Goes, PathOf, Steps, Step
<1>2. here.table = call.table /\ here.many = IsPlural(call) /\ (here.place.relation = "child" <=> relation = "child")
  BY DEF Goes
<1>3. Takes(here.table, here.place.relation, id)
  BY <1>2 DEF Takes
<1>4. Find(here, step.id) = here
  BY <1>1, <1>3 DEF Find
<1>5. path # <<>> => Resolve(path).many = Last(path).id
  BY DEF IsInstance
<1> HIDE DEF step, path, here
<1>6. Resolve(Append(path, step)) =
        IF Resolve(path).table = None \/ (path # <<>> /\ Resolve(path).many # Last(path).id) THEN Nowhere
        ELSE Find(PlaceOf(Resolve(path).table, step), step.id)
  BY <1>1, ResolveOnward DEF path
<1>7. Resolve(Append(path, step)) = here
  BY <1>4, <1>5, <1>6 DEF path, here
<1>8. QED
  BY <1>1, <1>2, <1>7

\* In the end every call for a child has been made.
LEMMA EndsComplete ==
  ASSUME Parsed, CompleteInv, Rooted(file), NoneReserved(file), doc = "done"
  PROVE  NothingIsLeftOut
<1> SUFFICES \A t \in DOMAIN tables : \A x \in {y \in Reachable(t) : IsServed(t, y)} :
               \A p \in {q \in Served : Resolve(q).table = x.of /\ IsInstance(q)} : AllBelow(p, t)
  BY Zenon DEF NothingIsLeftOut, AllBelow
<1> SUFFICES ASSUME NEW t \in DOMAIN tables, NEW x \in Reachable(t), IsServed(t, x),
                    NEW p \in Served, Resolve(p).table = x.of, IsInstance(p)
             PROVE  AllBelow(p, t)
  OBVIOUS
<1> DEFINE below == {q \in Served : Len(q) = Len(p) + 1 /\ SubSeq(q, 1, Len(p)) = p /\ Resolve(q).table = t}
           plural == x.column # None => tables[x.of].references[x.column].plural
<1>1. calls = {} /\ \A call : Called(call) => PathsOf(call) \subseteq Served
  BY DEF CompleteInv, Called
<1>2. /\ TablesInv /\ DOMAIN tables = DOMAIN file /\ System \in DOMAIN tables
      /\ \A u \in DOMAIN tables : None \notin DOMAIN tables[u].references
      /\ None \notin DOMAIN tables
      /\ Plural[t] # None
  <2>1. TablesInv /\ DOMAIN tables = DOMAIN file
    BY DEF Parsed, ParserInv, TablesInv
  <2>2. \A u \in DOMAIN tables : DOMAIN tables[u].references = References(file[u])
    BY <2>1, TableKeeps
  <2>3. QED
    BY <2>1, <2>2, SchemaAssumption, PluralAssumption DEF TablesInv, References
<1>3. /\ \/ \E c \in ChildColumns(x.of, t) : x = Place(x.of, "child", c)
         \/ t \in children[x.of] /\ x = Place(x.of, "back", None)
         \/ t # System /\ parent[t] = None /\ x = Place(System, "top", None)
      /\ x.of \in DOMAIN tables
  BY <1>2, Places DEF Place
<1>4. PICK up : MadeBy(p, up)
  BY DEF CompleteInv
<1>5. /\ p \in Seq(Steps) /\ Named(p).table = x.of /\ IsNamedRow(p)
      /\ up.table = x.of /\ p = PathOf(up, IsPlural(up)) /\ RightCall(up) /\ Ordinary(up)
  <2>1. RightCall(up) /\ Ordinary(up) /\ p \in PathsOf(up)
    BY <1>4 DEF MadeBy
  <2>2. p \in Seq(Steps) /\ Named(p).table = up.table /\ (IsNamedRow(p) <=> p = PathOf(up, IsPlural(up)))
    BY <2>1, CallPaths
  <2>3. Named(p) = Resolve(p) /\ IsNamedRow(p)
    BY <1>2, <1>3, <2>2, FoundIsNamed
  <2>4. QED
    BY <2>1, <2>2, <2>3
<1>6. \E call : /\ RightCall(call) /\ Ordinary(call) /\ Called(call) /\ call.prefix = p /\ call.table = t
                /\ Goes(call, x.of, x.relation) /\ (IsPlural(call) <=> plural)
  <2>1. CASE up.name = None
    <3>1. p = <<>> /\ x.of = System
      BY <1>5, <2>1 DEF PathOf, RightCall
    <3>2. \A c \in StartCalls : Called(c) /\ RightCall(c) /\ Ordinary(c)
      BY StartIsOrdinary DEF CompleteInv
    <3>3. ASSUME NEW c \in ChildColumns(System, t), x = Place(System, "child", c)
          PROVE  \E call \in StartCalls : /\ call.prefix = <<>> /\ call.table = t
                                          /\ Goes(call, x.of, x.relation) /\ (IsPlural(call) <=> plural)
      <4>1. /\ c \in children[System] \cap DOMAIN tables[System].references
            /\ tables[System].references[c].target = t /\ c # None
        BY <1>2, <3>3 DEF ChildColumns
      <4> DEFINE call == Call(tables[System].references[c].target, c, System, <<>>)
      <4>2. call \in StartCalls
        BY <4>1 DEF StartCalls
      <4>3. call.prefix = <<>> /\ call.table = t
        BY <4>1 DEF Call
      <4>4. x.of = System /\ x.relation = "child" /\ x.column = c
        BY <3>3 DEF Place
      <4>5. Goes(call, System, "child") /\ IsPlural(call) = tables[System].references[c].plural
        BY <1>2, <4>1, ColumnGoes
      <4> HIDE DEF call
      <4>6. QED
        BY <4>1, <4>2, <4>3, <4>4, <4>5
    <3>4. t \notin children[System]
      <4>1. t \in children[System] => PointsTo(t, System)
        BY <1>2, ChildrenAre
      <4>2. QED
        BY <1>2, <4>1 DEF Rooted, PointsTo, Relation, TargetOf
    <3>5. ASSUME t # System, parent[t] = None, x = Place(System, "top", None)
          PROVE  \E call \in StartCalls : /\ call.prefix = <<>> /\ call.table = t
                                          /\ Goes(call, x.of, x.relation) /\ (IsPlural(call) <=> plural)
      <4> DEFINE call == Call(t, Plural[t], None, <<>>)
      <4>1. call \in StartCalls
        BY <3>5 DEF StartCalls
      <4>2. call.prefix = <<>> /\ call.table = t
        BY DEF Call
      <4>3. x.of = System /\ x.relation = "top" /\ x.column = None
        BY <3>5 DEF Place
      <4>4. Goes(call, System, "top") /\ IsPlural(call) = TRUE
        BY <3>5, TopGoes
      <4> HIDE DEF call
      <4>5. QED
        BY <4>1, <4>2, <4>3, <4>4
    <3>6. \E call \in StartCalls : /\ call.prefix = <<>> /\ call.table = t
                                   /\ Goes(call, x.of, x.relation) /\ (IsPlural(call) <=> plural)
      <4> HIDE DEF plural
      <4>1. QED
        BY <1>3, <3>1, <3>3, <3>4, <3>5
    <3> HIDE DEF plural
    <3>7. QED
      BY <3>1, <3>2, <3>6
  <2>2. CASE up.name # None
    <3>1. \A c \in ChildCalls(x.of, p) : Called(c)
      BY <1>4, <1>5, <2>2 DEF MadeBy
    <3>2. Within(x.of, p) /\ p # <<>>
      <4>1. IsPlural(up) \in BOOLEAN
        BY DEF IsPlural
      <4>2. p # <<>>
        BY <1>5, <2>2, <4>1, CallLeads
      <4>3. QED
        BY <1>5, <4>2 DEF Within
    <3>3. \A c \in ChildCalls(x.of, p) : Called(c) /\ RightCall(c) /\ Ordinary(c)
      BY <1>3, <3>1, <3>2, ChildrenAreOrdinary
    <3>4. ASSUME NEW c \in ChildColumns(x.of, t), x = Place(x.of, "child", c)
          PROVE  \E call \in ChildCalls(x.of, p) : /\ call.prefix = p /\ call.table = t
                                                   /\ Goes(call, x.of, x.relation) /\ (IsPlural(call) <=> plural)
      <4>1. /\ c \in children[x.of] \cap DOMAIN tables[x.of].references
            /\ tables[x.of].references[c].target = t /\ c # None
        BY <1>2, <1>3, <3>4 DEF ChildColumns
      <4> DEFINE call == Call(tables[x.of].references[c].target, c, x.of, p)
      <4>2. call \in ChildCalls(x.of, p)
        BY <4>1 DEF ChildCalls
      <4>3. call.prefix = p /\ call.table = t
        BY <4>1 DEF Call
      <4>4. x.relation = "child" /\ x.column = c
        BY <3>4 DEF Place
      <4>5. Goes(call, x.of, "child") /\ IsPlural(call) = tables[x.of].references[c].plural
        BY <1>3, <4>1, ColumnGoes
      <4> HIDE DEF call
      <4>6. QED
        BY <4>1, <4>2, <4>3, <4>4, <4>5
    <3>5. ASSUME t \in children[x.of], x = Place(x.of, "back", None)
          PROVE  \E call \in ChildCalls(x.of, p) : /\ call.prefix = p /\ call.table = t
                                                   /\ Goes(call, x.of, x.relation) /\ (IsPlural(call) <=> plural)
      <4> DEFINE call == Call(t, Plural[t], x.of, p)
      <4>1. t \notin DOMAIN tables[x.of].references
        BY <1>3, <3>5, ChildrenAre
      <4>2. call \in ChildCalls(x.of, p)
        BY <3>5, <4>1 DEF ChildCalls
      <4>3. call.prefix = p /\ call.table = t
        BY DEF Call
      <4>4. x.relation = "back" /\ x.column = None
        BY <3>5 DEF Place
      <4>5. Goes(call, x.of, "back") /\ IsPlural(call) = TRUE
        BY <1>3, <3>5, <4>1, PluralGoes
      <4> HIDE DEF call
      <4>6. QED
        BY <4>2, <4>3, <4>4, <4>5
    <3>6. x # Place(System, "top", None)
      BY <1>5, <2>2 DEF Ordinary, Place
    <3> HIDE DEF plural
    <3>7. \E call \in ChildCalls(x.of, p) : /\ call.prefix = p /\ call.table = t
                                            /\ Goes(call, x.of, x.relation) /\ (IsPlural(call) <=> plural)
      BY <1>3, <3>4, <3>5, <3>6
    <3>8. QED
      BY <3>3, <3>7
  <2>3. QED
    BY <2>1, <2>2
<1>7. \E q \in below : IsInstance(q)
  <2>1. PICK call : /\ RightCall(call) /\ Ordinary(call) /\ Called(call) /\ call.prefix = p /\ call.table = t
                    /\ Goes(call, x.of, x.relation) /\ (IsPlural(call) <=> plural)
    BY <1>6
  <2> DEFINE q == PathOf(call, IsPlural(call))
  <2>2. q \in PathsOf(call) /\ IsPlural(call) \in BOOLEAN
    BY DEF PathsOf, IsPlural
  <2>3. q \in Served /\ q \in Seq(Steps) /\ IsNamedRow(q)
    BY <1>1, <2>1, <2>2, CallPaths
  <2>4. Len(q) = Len(p) + 1 /\ SubSeq(q, 1, Len(p)) = p
    BY <2>1, <2>2, PathsGoOn DEF Goes
  <2>5. Takes(t, x.relation, IsPlural(call))
    BY <2>1, <2>2 DEF IsServed, Takes
  <2>6. Resolve(q).table = t
    <3> HIDE DEF q
    <3>1. Resolve(PathOf(call, IsPlural(call))).table = t
      BY <1>2, <1>3, <1>5, <2>1, <2>2, <2>5, CallIsServed
    <3>2. QED
      BY <3>1 DEF q
  <2> HIDE DEF q
  <2>7. IsInstance(q)
    BY <1>2, <2>3, <2>6, FoundIsNamed
  <2>8. QED
    BY <2>3, <2>4, <2>6, <2>7
<1>8. ASSUME NEW q \in below, Resolve(q).many
      PROVE  \E r \in below : Last(r) = Step(Last(q).name, FALSE)
  <2>1. PICK call : MadeBy(q, call)
    BY DEF CompleteInv
  <2>2. PICK id \in {FALSE, IsPlural(call)} : q = PathOf(call, id)
    BY <2>1 DEF MadeBy, PathsOf
  <2>3. RightCall(call) /\ Ordinary(call) /\ q \in PathsOf(call) /\ PathsOf(call) \subseteq Served
    BY <2>1 DEF MadeBy
  <2>4. /\ q \in Seq(Steps) /\ Resolve(q) = Named(q)
        /\ IsPlural(call) /\ call.table = t
    <3>1. q \in Seq(Steps) /\ Named(q).table = call.table /\ Named(q).many = IsPlural(call)
      BY <2>3, CallPaths
    <3>2. Resolve(q) = Named(q)
      BY <1>2, <3>1, FoundIsNamed
    <3>3. QED
      BY <1>8, <3>1, <3>2
  <2>5. call.name # None /\ id \in BOOLEAN /\ IsPlural(call) \in BOOLEAN
    BY <2>4 DEF IsPlural
  <2> DEFINE r == PathOf(call, FALSE)
             step == Step(call.name, id)
             list == Step(call.name, FALSE)
             path == call.prefix
  <2>6. r \in Served
    BY <2>3 DEF PathsOf
  <2>7. q = Append(path, step) /\ r = Append(path, list) /\ path \in Seq(Steps) /\ step \in Steps /\ list \in Steps
    <3>1. call.name \in Names /\ call.prefix \in Seq(Steps)
      BY <2>3, <2>5 DEF RightCall, Within
    <3>2. \A own \in BOOLEAN : Step(call.name, own) \in Steps
      BY <3>1 DEF Steps
    <3>3. step \in Steps /\ list \in Steps
      BY Zenon, <2>5, <3>2
    <3>4. QED
      BY <2>2, <2>5, <3>1, <3>3 DEF PathOf
  <2>8. Resolve(r).table = t
    <3>1. PlaceOf(Resolve(path).table, list) = PlaceOf(Resolve(path).table, step)
      BY DEF PlaceOf, Step
    <3>2. step.id = id /\ list.id = FALSE
      BY DEF Step
    <3> HIDE DEF r, step, list, path
    <3>3. /\ Resolve(q) = IF Resolve(path).table = None \/ (path # <<>> /\ Resolve(path).many # Last(path).id) THEN Nowhere
                          ELSE Find(PlaceOf(Resolve(path).table, step), step.id)
          /\ Resolve(r) = IF Resolve(path).table = None \/ (path # <<>> /\ Resolve(path).many # Last(path).id) THEN Nowhere
                          ELSE Find(PlaceOf(Resolve(path).table, list), list.id)
      BY <2>7, ResolveOnward
    <3>4. Resolve(q).table = t /\ t # None /\ Nowhere.table = None
      BY <1>2 DEF Nowhere
    <3>5. QED
      BY <3>1, <3>2, <3>3, <3>4 DEF Find, Takes
  <2>9. /\ Len(q) = Len(path) + 1 /\ SubSeq(q, 1, Len(path)) = path /\ Last(q) = step
    BY <2>2, <2>3, <2>5, PathsGoOn
  <2>10. /\ Len(r) = Len(path) + 1 /\ SubSeq(r, 1, Len(path)) = path /\ Last(r) = list
    BY <2>3, <2>5, PathsGoOn
  <2>11. path = p
    <3>1. Len(q) = Len(p) + 1 /\ SubSeq(q, 1, Len(p)) = p
      OBVIOUS
    <3> HIDE DEF r, step, list, path, below
    <3>2. Len(path) \in Nat /\ Len(p) \in Nat
      BY <1>5, <2>7
    <3>3. Len(path) + 1 = Len(p) + 1
      BY <2>9, <3>1
    <3>5. Len(path) = Len(p)
      BY <3>2, <3>3
    <3>4. QED
      BY <2>9, <3>1, <3>5
  <2>12. list = Step(Last(q).name, FALSE)
    BY <2>9 DEF Step
  <2> HIDE DEF r, step, list, path
  <2>13. QED
    BY <2>6, <2>8, <2>10, <2>11, <2>12
<1>9. QED
  BY <1>7, <1>8 DEF AllBelow

----------------------------------------------------------------------------
(* The theorems.                                                              *)

\* The parser's invariant, whatever the document does.
LEMMA ParserInvariance == Spec => []ParserInv
<1>1. Init => ParserInv
  BY InitParserInv DEF Init
<1>2. ASSUME ParserInv, [Next]_vars
      PROVE  ParserInv'
  <2>1. CASE Parse
    BY <1>2, <2>1, ParseTableKeeps, BackfillKeeps, MapReferenceKeeps, SetMutableKeeps DEF Parse
  <2>2. CASE UNCHANGED parserVars
    <3>1. UNCHANGED <<file, tables, parent, children, left, refMap, mutable, phase>>
      BY <2>2 DEF parserVars
    <3>2. TablesInv' /\ FamilyInv'
      BY <1>2, <3>1 DEF ParserInv, TablesInv, FamilyInv
    <3>3. LinkInv' /\ DecidedInv'
      BY <1>2, <3>1 DEF ParserInv, LinkInv, Linked, Adopted, ColumnFor, PointsTo, DecidedInv, Relation, TargetOf
    <3>4. MutableInv'
      BY <1>2, <3>1 DEF ParserInv, MutableInv, IsImmutable, HasConfigIndex, ChildColumns
    <3>5. QED
      BY <3>2, <3>3, <3>4 DEF ParserInv
  <2>3. QED
    BY <1>2, <2>1, <2>2 DEF Next, Generate, Start, GenAPI, Finish, vars
<1>3. QED
  BY <1>1, <1>2, PTL DEF Spec

\* The file stays what it is.
LEMMA FileStays == [Next]_vars => file' = file
BY DEF Next, Parse, ParseTable, Backfill, MapReference, SetMutable, Generate, Start, GenAPI, Finish,
       vars, parserVars

\* The parser finds the parent of every table and puts the table among the
\* children of it, in whatever order it walks a schema in which no table has
\* parent columns that disagree (RESTSchema).
THEOREM Parents == OneParent(file) /\ Spec => []ParentIsFound
<1>1. OneParent(file) /\ [Next]_vars => OneParent(file)'
  BY FileStays DEF OneParent, References
<1>2. OneParent(file) /\ ParserInv => ParentIsFound
  BY ParserFindsParents
<1>3. QED
  BY <1>1, <1>2, ParserInvariance, PTL DEF Spec

\* Where a schema is what both take for granted, the handlers allow a client to
\* add to what the parser calls mutable (is_immutable, verify_http_method).
THEOREM Mutable == Uniform(file) /\ Spec => []MutableMayBeCreated
<1>1. Uniform(file) /\ [Next]_vars => Uniform(file)'
  BY FileStays DEF Uniform, References
<1>2. Uniform(file) /\ ParserInv => MutableMayBeCreated
  BY ParserAgreesWithHandlers
<1>3. QED
  BY <1>1, <1>2, ParserInvariance, PTL DEF Spec

\* Whatever a document refers to is defined, if no table has System for its
\* parent but by a column of System (getFullAPI, genAPI, getDefinition).
THEOREM Definitions == TopOfColumns(file) /\ Spec => []NothingDangles
<1>1. Init => DocInv
  BY DEF Init, DocInv, NothingDangles
<1>2. TopOfColumns(file) /\ [Next]_vars => TopOfColumns(file)'
  BY FileStays DEF TopOfColumns, References
<1>3. ASSUME TopOfColumns(file), ParserInv, DocInv, [Next]_vars
      PROVE  DocInv'
  <2>1. CASE Parse /\ UNCHANGED docVars
    <3>1. phase # "done"
      BY <2>1 DEF Parse, ParseTable, Backfill, MapReference, SetMutable
    <3>2. doc = "none" /\ doc' = doc /\ used' = used
      BY <1>3, <2>1, <3>1 DEF DocInv, docVars
    <3>3. QED
      BY <1>3, <3>2 DEF DocInv, NothingDangles
  <2>2. CASE Generate
    BY <1>3, <2>2, StartKeeps, GenAPIKeeps, FinishKeeps DEF Generate
  <2>3. CASE UNCHANGED vars
    BY <1>3, <2>3 DEF DocInv, NothingDangles, Made, Kinds, Everywhere, Subtables, TopsReferenced,
                      vars, parserVars, docVars
  <2>4. QED
    BY <1>3, <2>1, <2>2, <2>3 DEF Next
<1>4. DocInv => NothingDangles
  BY DEF DocInv
<1>5. QED
  BY <1>1, <1>2, <1>3, <1>4, ParserInvariance, PTL DEF Spec

\* The path of an operation leads the server to the table it documents and to
\* one row or to all of them as the operation needs, and its parameters are the
\* ids in the path, whatever the schema, where the names in it stand for one
\* thing (genAPI, genCoreParams; parse).
THEOREM Documented == Unambiguous(file) /\ Spec => []PathsLeadThere
<1>1. Init => PathInv
  BY DEF Init, PathInv, Served
<1>2. Unambiguous(file) /\ [Next]_vars => Unambiguous(file)'
  BY FileStays DEF Unambiguous, References
<1>3. ASSUME Unambiguous(file), ParserInv, PathInv, [Next]_vars
      PROVE  PathInv'
  <2>1. CASE Parse /\ UNCHANGED docVars
    <3>1. phase # "done"
      BY <2>1 DEF Parse, ParseTable, Backfill, MapReference, SetMutable
    <3>2. doc = "none" /\ doc' = doc /\ calls' = {} /\ paths' = <<>>
      BY <1>3, <2>1, <3>1 DEF PathInv, docVars
    <3>3. QED
      BY <3>2 DEF PathInv, Served
  <2>2. CASE Generate
    BY <1>3, <2>2, StartLeads, GenAPILeads, FinishLeads DEF Generate
  <2>3. CASE UNCHANGED vars
    <3>1. UNCHANGED parserVars /\ UNCHANGED <<paths, calls, doc, phase, tables>>
      BY <2>3 DEF vars, docVars, parserVars
    <3>2. Served' = Served /\ \A p : LeadsThere(p)' = LeadsThere(p)
      BY <3>1, LeadingStays DEF Served, Fixed, FixedOps, Op, LeadsThere, Ids, Kinds
    <3>3. QED
      BY <1>3, <3>1, <3>2, LeadingStays DEF PathInv
  <2>4. QED
    BY <1>3, <2>1, <2>2, <2>3 DEF Next
<1>4. Unambiguous(file) /\ ParserInv /\ PathInv => PathsLeadThere
  <2> SUFFICES ASSUME Unambiguous(file), ParserInv, PathInv, NEW p \in Served, Told(p)
               PROVE  /\ Resolve(p).table # None
                      /\ p # <<>> => (Last(p).id => Resolve(p).many)
                      /\ \A op \in paths[p] :
                           /\ \A r \in op.refs : r \in Kinds \X DOMAIN tables => r[2] = Resolve(p).table
                           /\ op.method \in {"PUT", "PATCH", "DELETE"} => IsInstance(p)
                           /\ op.method = "POST" => ~IsInstance(p)
                           /\ op.ids = Ids(p)
    BY DEF PathsLeadThere
  <2>1. p \in Seq(Steps) /\ LeadsThere(p)
    BY DEF PathInv
  <2>2. Parsed
    BY DEF Parsed, PathInv, Served
  <2>3. Resolve(p) = Named(p)
    BY <2>1, <2>2, NamedOrNowhere
  <2>4. IsInstance(p) = IsNamedRow(p)
    BY <2>3 DEF IsInstance, IsNamedRow
  <2>5. QED
    BY <2>1, <2>3, <2>4 DEF LeadsThere
<1>5. QED
  BY <1>1, <1>2, <1>3, <1>4, ParserInvariance, PTL DEF Spec

\* Wherever the server finds rows of a table under a documented row there is a
\* path to them, whatever the schema, where System is the parent of what its
\* columns hold and nothing is named like the paths that are always there
\* (getFullAPI, genAPI; parse).
THEOREM Complete ==
  Unambiguous(file) /\ Rooted(file) /\ NoneReserved(file) /\ Spec => []NothingIsLeftOut
<1> DEFINE Good == Unambiguous(file) /\ Rooted(file) /\ NoneReserved(file)
           Inv == ParserInv /\ PathInv /\ CompleteInv
<1>1. Good /\ Init => PathInv /\ CompleteInv
  BY DEF Init, PathInv, CompleteInv, Served
<1>2. Good /\ [Next]_vars => Good'
  <2>1. [Next]_vars => Reserved' = Reserved
    BY DEF Reserved, FixedOps, Op
  <2>2. QED
    BY <2>1, FileStays DEF Unambiguous, Rooted, NoneReserved, References
<1>3. ASSUME Good, Inv, [Next]_vars
      PROVE  PathInv' /\ CompleteInv'
  <2>1. CASE Parse /\ UNCHANGED docVars
    <3>1. phase # "done"
      BY <2>1 DEF Parse, ParseTable, Backfill, MapReference, SetMutable
    <3>2. doc = "none" /\ doc' = doc /\ calls' = {} /\ paths' = <<>>
      BY <1>3, <2>1, <3>1 DEF PathInv, docVars
    <3>3. QED
      BY <3>2 DEF PathInv, CompleteInv, Served
  <2>2. CASE Generate
    <3>1. phase = "done"
      BY <1>3, <2>2 DEF Generate, Start, GenAPI, Finish, PathInv
    <3>2. Parsed
      BY <1>3, <3>1 DEF Parsed
    <3>3. QED
      BY <1>3, <2>2, <3>2, StartLeads, GenAPILeads, FinishLeads, StartCompletes, GenAPICompletes,
         FinishCompletes DEF Generate
  <2>3. CASE UNCHANGED vars
    <3>1. UNCHANGED parserVars /\ UNCHANGED <<paths, calls, doc, phase, tables>>
      BY <2>3 DEF vars, docVars, parserVars
    <3>2. Served' = Served /\ \A p : LeadsThere(p)' = LeadsThere(p)
      BY <3>1, LeadingStays DEF Served, Fixed, FixedOps, Op, LeadsThere, Ids, Kinds
    <3>3. PathInv'
      BY <1>3, <3>1, <3>2, LeadingStays DEF PathInv
    <3>4. CompleteInv'
      BY <1>3, <3>1, <3>2, CallingStays, CalledStays DEF CompleteInv
    <3>5. QED
      BY <3>3, <3>4
  <2>4. QED
    BY <1>3, <2>1, <2>2, <2>3 DEF Next
<1>4. Good /\ Inv => NothingIsLeftOut
  <2>1. ASSUME Good, Inv, doc = "done" PROVE NothingIsLeftOut
    <3>1. Parsed
      BY <2>1 DEF Parsed, PathInv
    <3>2. QED
      BY <2>1, <3>1, EndsComplete
  <2>2. doc # "done" => NothingIsLeftOut
    BY DEF NothingIsLeftOut
  <2>3. QED
    BY <2>1, <2>2
<1> HIDE DEF Good
<1>5. QED
  <2>1. Good /\ Spec => []NothingIsLeftOut
    BY <1>1, <1>2, <1>3, <1>4, ParserInvariance, PTL DEF Spec
  <2>2. QED
    BY <2>1 DEF Good
=============================================================================
