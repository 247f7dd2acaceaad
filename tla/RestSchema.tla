------------------------------ MODULE RestSchema ------------------------------
(***************************************************************************)
(* The schema parser, opslib/restparser.py, and the rules the resources are *)
(* served by: which tables REST may add rows to and delete rows from, by    *)
(* the parser (is_immutable) and by the request handlers                    *)
(* (verify_http_method).                                                    *)
(*                                                                         *)
(* A file is a function of table names to descriptions, and a description   *)
(* holds a function of column names to columns.  Python walks its           *)
(* dictionaries in any order: which relationship is found first is a choice *)
(* of the parser.                                                           *)
(***************************************************************************)
EXTENDS Naturals, FiniteSets

CONSTANTS
  Files,   \* extended schemas, see the MC module
  Fetched  \* ON_DEMAND_FETCHED_TABLES: table -> "partial" or "full"

System == "System"
None == "none"

\* A plain column has no relationship.  System has one.  None is no name.
ASSUME SchemaAssumption ==
  \A f \in Files :
    /\ System \in DOMAIN f
    /\ None \notin DOMAIN f
    /\ \A t \in DOMAIN f : None \notin DOMAIN f[t].columns
    /\ \E c \in DOMAIN f[System].columns : f[System].columns[c].relation # "plain"
    /\ \A t \in DOMAIN f : \A c \in DOMAIN f[t].columns :
         f[t].columns[c].relation # "plain" =>
           f[t].columns[c].target \in DOMAIN f /\ f[t].columns[c].plural \in BOOLEAN

VARIABLES
  file,      \* the extended schema
  tables,    \* OVSTable of the tables that have been parsed
  parent,    \* table.parent
  children,  \* table.children: names of columns and of tables
  left,      \* relationships still to be walked: <<table, column>>
  refMap,    \* reference_map: column name -> table
  mutable,   \* the tables that are not immutable
  phase      \* of parseSchema

parserVars == <<file, tables, parent, children, left, refMap, mutable, phase>>

----------------------------------------------------------------------------
(* OVSTable.from_json.                                                      *)

\* The columns of a table with a relationship, and those of a category.
References(raw) == {c \in DOMAIN raw.columns : raw.columns[c].relation # "plain"}
Of(raw, category) == {c \in DOMAIN raw.columns \ References(raw) : raw.columns[c].category = category}

\* A dynamic category is configuration until a row is read.
Config(raw) == Of(raw, "configuration") \cup Of(raw, "dynamic")
IsConfig(column) == column.category \in {"configuration", "dynamic"}

\* Status and statistics are not subscribed to in a table that is fetched on
\* demand, its index columns apart if only a part is fetched.
ReadOnly(t, raw) ==
  LET unread == Of(raw, "status") \cup Of(raw, "statistics")
  IN IF t \notin DOMAIN Fetched THEN {}
     ELSE IF Fetched[t] = "partial" THEN unread \ raw.index
     ELSE unread \cup Config(raw)

\* The columns a URI is made of.
Indexes(raw) ==
  IF raw.index = {} THEN {"uuid"}
  ELSE {c \in raw.index : raw.columns[c].relation # "parent"}

\* A column without category and relationship is skipped; the column another
\* one follows must not be.
Columns(raw) == {c \in DOMAIN raw.columns : c \in References(raw) \/ raw.columns[c].category # None}
Follows(raw) == {raw.columns[c].follows : c \in {d \in DOMAIN raw.columns : raw.columns[d].category = "dynamic"}}

Table(t, raw) ==
  [root |-> raw.root, many |-> raw.many, index |-> raw.index, indexes |-> Indexes(raw),
   columns |-> Columns(raw), readonly |-> ReadOnly(t, raw),
   config |-> Config(raw), status |-> Of(raw, "status"), stats |-> Of(raw, "statistics"),
   references |-> [c \in References(raw) |-> raw.columns[c]]]

ParseTable(t) ==
  LET raw == file[t]
      wrong == raw.columns = <<>> \/ ~(Follows(raw) \ {None} \subseteq Columns(raw))
  IN /\ phase = "tables"
     /\ t \in DOMAIN file \ DOMAIN tables
     /\ tables' = [u \in DOMAIN tables \cup {t} |-> IF u = t THEN Table(t, raw) ELSE tables[u]]
     /\ phase' = IF wrong THEN "error" ELSE IF DOMAIN tables' = DOMAIN file THEN "parents" ELSE phase
     /\ left' = IF phase' = "parents"
                THEN UNION {{u} \X DOMAIN tables'[u].references : u \in DOMAIN file} ELSE left
     /\ UNCHANGED <<file, parent, children, refMap, mutable>>

----------------------------------------------------------------------------
(* RESTSchema: parents, and the map of references.                          *)

\* Tables are walked one after the other.
MayWalk(t, c) ==
  /\ <<t, c>> \in left
  /\ \A p \in left : p[1] # t => {p[1]} \X DOMAIN tables[p[1]].references \subseteq left

Walked(t, c, next) ==
  /\ left' = IF left # {<<t, c>>} THEN left \ {<<t, c>>}
             ELSE IF next = "map" THEN UNION {{u} \X DOMAIN tables[u].references : u \in DOMAIN tables}
             ELSE {}
  /\ phase' = IF left # {<<t, c>>} THEN phase ELSE next

\* Mutant: the child keeps the parent it had.
BackfillFirst(t, c) ==
  LET ref == tables[t].references[c]
  IN /\ phase = "parents"
     /\ MayWalk(t, c)
     /\ parent' = CASE ref.relation = "child"  -> [parent EXCEPT ![ref.target] = IF @ = None THEN t ELSE @]
                    [] OTHER                   -> parent
     /\ children' = CASE ref.relation = "child"  -> [children EXCEPT ![t] = @ \cup {c}]
                      [] ref.relation = "parent" -> [children EXCEPT ![ref.target] = @ \cup {t}]
                      [] OTHER                   -> children
     /\ Walked(t, c, "map")
     /\ UNCHANGED <<file, tables, refMap, mutable>>

\* A child column gives its table a parent unless it has one; a parent column
\* decides.
Backfill(t, c) ==
  LET ref == tables[t].references[c]
  IN /\ phase = "parents"
     /\ MayWalk(t, c)
     /\ parent' = CASE ref.relation = "child"  -> [parent EXCEPT ![ref.target] = IF @ = None THEN t ELSE @]
                    [] ref.relation = "parent" -> [parent EXCEPT ![t] = ref.target]
                    [] OTHER                   -> parent
     /\ children' = CASE ref.relation = "child"  -> [children EXCEPT ![t] = @ \cup {c}]
                      [] ref.relation = "parent" -> [children EXCEPT ![ref.target] = @ \cup {t}]
                      [] OTHER                   -> children
     /\ Walked(t, c, "map")
     /\ UNCHANGED <<file, tables, refMap, mutable>>

\* The first reference of a name is kept.
MapReference(t, c) ==
  /\ phase = "map"
  /\ MayWalk(t, c)
  /\ refMap' = IF c \in DOMAIN refMap THEN refMap
               ELSE [d \in DOMAIN refMap \cup {c} |-> IF d = c THEN tables[t].references[c].target ELSE refMap[d]]
  /\ Walked(t, c, "mutable")
  /\ UNCHANGED <<file, tables, parent, children, mutable>>

----------------------------------------------------------------------------
(* Mutable tables.                                                          *)

\* _has_config_index.
HasConfigIndex(t) ==
  \E c \in tables[t].index :
    \/ c \in tables[t].config
    \/ c \in DOMAIN tables[t].references /\ IsConfig(tables[t].references[c])

\* The first column of the parent that refers to the table.
ChildColumns(p, t) ==
  {c \in children[p] \cap DOMAIN tables[p].references : tables[p].references[c].target = t}

\* is_immutable.
IsImmutable(t) ==
  IF tables[t].root \/ parent[t] = None \/ t \in children[parent[t]] THEN ~HasConfigIndex(t)
  ELSE ~IsConfig(tables[parent[t]].references[CHOOSE c \in ChildColumns(parent[t], t) : TRUE])

SetMutable ==
  /\ phase = "mutable"
  /\ mutable' = {t \in DOMAIN tables : ~IsImmutable(t)}
  /\ phase' = "done"
  /\ UNCHANGED <<file, tables, parent, children, left, refMap>>

----------------------------------------------------------------------------
(* What the handlers serve.                                                 *)

\* Where a URI may find rows of t (parse): in a column of the resource before,
\* as rows that refer to it, or at the top.
Place(of, relation, column) == [of |-> of, relation |-> relation, column |-> column]

InColumns(t) == UNION {{Place(p, "child", c) : c \in ChildColumns(p, t)} : p \in DOMAIN tables}
Back(t) == {Place(p, "back", None) : p \in {q \in DOMAIN tables : t \in children[q]}}
AtTop(t) == {place \in {Place(System, "top", None)} : t # System /\ parent[t] = None}

Reachable(t) == InColumns(t) \cup Back(t) \cup AtTop(t)

HasConfig(t) ==
  tables[t].config # {} \/ \E c \in DOMAIN tables[t].references : IsConfig(tables[t].references[c])

IndexIsConfig(t) ==
  \E c \in tables[t].indexes :
    \/ c \in tables[t].config
    \/ c \in DOMAIN tables[t].references /\ IsConfig(tables[t].references[c])

\* Mutant: a table without root is only added to at the top.
MayCreateTop(t, place) ==
  IF tables[t].root THEN tables[t].indexes = {"uuid"} \/ IndexIsConfig(t)
  ELSE place.relation = "top"

\* verify_http_method: POST and DELETE.
MayCreate(t, place) ==
  IF tables[t].root THEN tables[t].indexes = {"uuid"} \/ IndexIsConfig(t)
  ELSE IF place.column # None
       THEN IsConfig(tables[place.of].references[place.column])
       ELSE place.relation = "top"

\* verify_http_method.
Allowed(method, t, place) ==
  CASE method = "GET"              -> TRUE
    [] method \in {"PUT", "PATCH"} -> t = System \/ HasConfig(t)
    [] OTHER                       -> t # System /\ MayCreate(t, place)

----------------------------------------------------------------------------
InitParser ==
  /\ file \in Files
  /\ tables = [t \in {} |-> None]
  /\ parent = [t \in DOMAIN file |-> None]
  /\ children = [t \in DOMAIN file |-> {}]
  /\ left = {}
  /\ refMap = [c \in {} |-> None]
  /\ mutable = {}
  /\ phase = "tables"

Parse ==
  \/ \E t \in DOMAIN file : ParseTable(t)
  \/ \E p \in left : Backfill(p[1], p[2]) \/ MapReference(p[1], p[2])
  \/ SetMutable

----------------------------------------------------------------------------
TypeOK ==
  /\ DOMAIN tables \subseteq DOMAIN file
  /\ \A t \in DOMAIN file : parent[t] \in DOMAIN file \cup {None}
  /\ \A t \in DOMAIN tables : tables[t].readonly \subseteq tables[t].columns
  /\ mutable \subseteq DOMAIN file
  /\ phase \in {"tables", "parents", "map", "mutable", "done", "error"}

\* A table that a parent column refers to from its rows has that parent and
\* no other, whatever order the file is walked in; and every table with a
\* parent is among the children of it, so that its rows have a URI.
ParentIsFound ==
  phase = "done" =>
    \A t \in DOMAIN tables :
      /\ \A c \in DOMAIN tables[t].references :
           tables[t].references[c].relation = "parent" => parent[t] = tables[t].references[c].target
      /\ parent[t] # None => \E x \in Reachable(t) : x.of = parent[t]

\* A table the parser calls mutable, so that a configuration is written to it,
\* may be added to and deleted from wherever a URI leads to it.
MutableMayBeCreated ==
  phase = "done" =>
    \A t \in mutable \ {System} : \A place \in Reachable(t) : Allowed("POST", t, place)

\* A table the parser calls immutable is not added to or deleted from.
ImmutableIsNotCreated ==
  phase = "done" =>
    \A t \in DOMAIN tables \ (mutable \cup {System}) :
      \A place \in Reachable(t) : ~Allowed("POST", t, place)

=============================================================================
