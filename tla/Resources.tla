------------------------------ MODULE Resources ------------------------------
(***************************************************************************)
(* The resources a client creates, updates and deletes, and the URIs they   *)
(* are known by: post.py, put.py, delete.py, parse.py, and what they use of  *)
(* verify.py and utils.py.                                                  *)
(*                                                                         *)
(* A resource is a row of OVSDB that is reached from the row of System: a    *)
(* child in a column of its parent ("child"), a row that refers to its      *)
(* parent ("back"), or a row of a table without parent ("top").  A request  *)
(* is turned into a transaction with the replica at hand: a reference is    *)
(* added or removed by writing the whole column back.  The transactions     *)
(* that were sent before it are executed first, and may change what it was  *)
(* made from.                                                              *)
(*                                                                         *)
(* The data of a row is its name; a validator or a check of the data that   *)
(* refuses a request changes nothing and is left out.                       *)
(***************************************************************************)
EXTENDS Naturals, SequencesExt

CONSTANTS
  Schemas,      \* the schemas of interest: see SchemaAssumption
  System,       \* the table whose one row all paths start from
  Names,        \* names of rows, and keys of key-value columns
  Unsafe,       \* those that a path does not hold as they are, as with a slash
  None,
  MaxRows,      \* bound: rows ever inserted
  MaxWrites,    \* bound: transactions the server executes
  MaxSent       \* bound: requests that wait for an answer

\* A table: is it part of the root set, is its index a name or the UUID, the
\* parent columns that are in the index of the database with the name, its
\* plural name, and its columns that refer to other tables.  Rows without a name
\* are children under a key, and no others are: children without a name in a list
\* go by their place in it, and a column of keys that is not of children is not
\* written as one when a row it refers to is deleted.
ASSUME SchemaAssumption ==
  \A schema \in Schemas :
    /\ System \in DOMAIN schema /\ None \notin DOMAIN schema
    /\ \A t \in DOMAIN schema : \A c \in DOMAIN schema[t].columns :
         LET column == schema[t].columns[c]
         IN  /\ column.to \in DOMAIN schema
             /\ column.relation \in {"child", "parent", "reference"}
             /\ column.kind \in {"list", "one", "kv"}
             /\ column.kind = "kv" <=> schema[column.to].key = "uuid"
             /\ column.kind = "kv" => column.relation = "child"
    /\ \A t \in DOMAIN schema :
         /\ schema[t].key \in {"name", "uuid"}
         /\ schema[t].scope \subseteq {c \in DOMAIN schema[t].columns : schema[t].columns[c].relation = "parent"}
         /\ schema[t].key = "uuid" =>
              /\ \A c \in DOMAIN schema[t].columns : schema[t].columns[c].relation # "parent"
              /\ t = System \/ \E o \in DOMAIN schema : \E c \in DOMAIN schema[o].columns : schema[o].columns[c].to = t

ASSUME UnsafeAssumption == Unsafe \subseteq Names

ASSUME BoundsAssumption == {MaxRows, MaxWrites, MaxSent} \subseteq Nat

ASSUME NoneAssumption == None \notin Nat

VARIABLES
  tables,   \* the schema
  db,       \* the rows of ovsdb-server by UUID, and their version
  replica,  \* those of the replica
  sent,     \* requests the server has not executed yet
  wire,     \* answers, each with the update before it, not read yet
  next      \* the next UUID

vars == <<tables, db, replica, sent, wire, next>>

SystemRow == 0
Data(rows, version) == [rows |-> rows, version |-> version]

----------------------------------------------------------------------------
(* Tables and rows.  A column holds a set of UUIDs, or of pairs of a key and  *)
(* a UUID.                                                                  *)

Columns(t) == tables[t].columns
Targets(column, value) == IF column.kind = "kv" THEN {p[2] : p \in value} ELSE value
RefsOf(row) == UNION {Targets(Columns(row.table)[c], row.cols[c]) : c \in DOMAIN row.cols}
RowsOf(rows, t) == {u \in DOMAIN rows : rows[u].table = t}

Row(t, name) == [table |-> t, name |-> name, cols |-> [c \in DOMAIN Columns(t) |-> {}]]

ChildColumns(t) == {c \in DOMAIN Columns(t) : Columns(t)[c].relation = "child"}
ParentColumns(t, of) == {c \in DOMAIN Columns(t) : Columns(t)[c].relation = "parent" /\ Columns(t)[c].to = of}
ParentColumn(t, of) == CHOOSE c \in ParentColumns(t, of) : TRUE
Owners(t) == {o \in DOMAIN tables : \E c \in ChildColumns(o) : Columns(o)[c].to = t}
Parents(t) == {o \in DOMAIN tables : ParentColumns(t, o) # {}}

\* The parent the parser finds for a table.
Parent(t) == IF Parents(t) # {} THEN CHOOSE o \in Parents(t) : TRUE
             ELSE IF Owners(t) # {} THEN CHOOSE o \in Owners(t) : TRUE ELSE None

Place(relation, column, t) == [relation |-> relation, column |-> column, table |-> t]

\* Where a path may go on from a row of the table.
Places(t) ==
  {Place("child", c, Columns(t)[c].to) : c \in ChildColumns(t)}
  \cup {Place("back", None, b) : b \in {b \in DOMAIN tables : ParentColumns(b, t) # {}}}
  \cup {Place("top", None, b) : b \in {b \in DOMAIN tables \ {System} : t = System /\ Parent(b) = None}}

KindOf(of, place) == IF place.relation = "child" THEN Columns(of)[place.column].kind ELSE "list"

----------------------------------------------------------------------------
(* Paths: parse, verify_index.                                              *)

\* The first row of a table that has the name, wherever it is: the index of the
\* schema has no parent columns.
IndexToRow(rows, t, index) ==
  LET found == {u \in RowsOf(rows, t) : tables[t].key = "name" /\ rows[u].name = index}
  IN IF found = {} THEN None ELSE CHOOSE u \in found : TRUE

KvIndexToRow(rows, of, column, index) ==
  LET found == {p \in rows[of].cols[column] : p[1] = index}
  IN IF found = {} THEN None ELSE (CHOOSE p \in found : TRUE)[2]

\* The only child of a column has no index; a row that refers to its parent
\* must refer to this one, and no other of its name is tried; a child in a list
\* is looked for in all of its table.
Lookup(rows, of, place, index) ==
  LET t == rows[of].table
      kind == KindOf(t, place)
      found == IndexToRow(rows, place.table, index)
  IN CASE kind = "kv" -> KvIndexToRow(rows, of, place.column, index)
       [] kind = "one" -> IF index # None \/ rows[of].cols[place.column] = {} THEN None
                          ELSE CHOOSE u \in rows[of].cols[place.column] : TRUE
       [] place.relation = "back" ->
            IF found # None /\ rows[found].cols[ParentColumn(place.table, t)] = {of} THEN found ELSE None
       [] OTHER -> found

\* The indexes under which a path leads to a row.
Indexes(of, place) == {i \in Names \cup {None} : Lookup(replica.rows, of, place, i) # None}

----------------------------------------------------------------------------
(* The URIs that answers and notifications give.                            *)

Step(name, index) == [name |-> name, index |-> index]
StepName(place) == IF place.relation = "child" THEN place.column ELSE tables[place.table].plural

\* parse: where a name and an index lead from a row, and where a path does.
GoOn(rows, u, step) ==
  LET places == IF u = None THEN {} ELSE {p \in Places(rows[u].table) : StepName(p) = step.name}
  IN IF places = {} THEN None ELSE Lookup(rows, u, CHOOSE p \in places : TRUE, step.index)

Follow(rows, path) ==
  LET at[n \in 0 .. Len(path)] == IF n = 0 THEN SystemRow ELSE GoOn(rows, at[n - 1], path[n])
  IN at[Len(path)]

\* The key under which a row refers to another in a column.
KeyOf(rows, of, c, u) == (CHOOSE p \in rows[of].cols[c] : p[2] = u)[1]

\* The rows of the parent table that hold the row in the column, or that it
\* refers to.
ParentRows(rows, u, c) ==
  LET o == Parent(rows[u].table)
  IN IF Parents(rows[u].table) # {} THEN rows[u].cols[c]
     ELSE {v \in RowsOf(rows, o) : u \in Targets(Columns(o)[c], rows[v].cols[c])}

\* The column that relates a table to its parent.
OwnColumns(t) == {c \in ChildColumns(Parent(t)) : Columns(Parent(t))[c].to = t}

ParentOrChildColumn(t) ==
  IF Parents(t) # {} THEN ParentColumn(t, Parent(t)) ELSE CHOOSE c \in OwnColumns(t) : TRUE

\* The tables a table is below, itself included.
Above(t) ==
  LET above[v \in DOMAIN tables] == IF Parent(v) = None THEN {v} ELSE {v} \cup above[Parent(v)]
  IN above[t]

\* What a path makes of an index that is not quoted.
Unquoted(index) == IF index \in Unsafe THEN None ELSE index

\* row_to_index: a row without a name has the key of the column of its parent
\* that is called as its table in the plural; only names are quoted.
RowToIndex(rows, u, of) ==
  LET t == rows[u].table
      plural == tables[t].plural
  IN IF tables[t].key = "name" THEN rows[u].name
     ELSE IF Parent(t) # None /\ plural \in DOMAIN Columns(Parent(t)) /\ Columns(Parent(t))[plural].kind = "kv"
     THEN Unquoted(KeyOf(rows, of, plural, u)) ELSE None

Nowhere == <<Step(None, None)>>

\* row_to_uri, which GET answers with.  At a table without parent all of the path
\* so far is replaced.
RowToUri(rows, u) ==
  LET uri[v \in DOMAIN rows] ==
        LET t == rows[v].table
            c == ParentOrChildColumn(t)
            of == CHOOSE w \in ParentRows(rows, v, c) : TRUE
            index == RowToIndex(rows, v, of)
            top == IF of = SystemRow THEN <<>> ELSE uri[of]
        IN IF t = System THEN <<>>
           ELSE IF Parent(t) = None THEN <<Step(tables[t].plural, RowToIndex(rows, v, None))>>
           ELSE IF ParentRows(rows, v, c) = {} THEN Nowhere
           ELSE IF System \notin Above(t) THEN top
           ELSE IF Parents(t) # {} THEN Append(top, Step(tables[t].plural, index))
           ELSE Append(top, Step(c, IF Columns(Parent(t))[c].kind = "one" THEN None ELSE index))
  IN uri[u]

\* Mutant: the key of a child in a key-value column is not looked up.
GetTableKeyNamed(rows, u) == rows[u].name

\* get_table_key
GetTableKey(rows, u) ==
  LET t == rows[u].table
  IN IF Parent(t) # None /\ Parents(t) = {} /\ Columns(Parent(t))[ParentOrChildColumn(t)].kind = "kv"
     THEN LET c == ParentOrChildColumn(t)
          IN Unquoted(KeyOf(rows, CHOOSE w \in ParentRows(rows, u, c) : TRUE, c, u))
     ELSE rows[u].name

\* get_parent_child_col_and_relation: any column of the parent that refers to the
\* table is taken, a plain reference too, before those of the table itself.
TraceColumns(t) ==
  {c \in DOMAIN Columns(Parent(t)) :
     Columns(Parent(t))[c].to = t /\ Columns(Parent(t))[c].relation \in {"child", "reference"}}

\* get_parent_trace
TraceRows(rows, u) ==
  LET t == rows[u].table
      c == CHOOSE c \in TraceColumns(t) : TRUE
  IN IF TraceColumns(t) = {} THEN rows[u].cols[ParentColumn(t, Parent(t))]
     ELSE {v \in RowsOf(rows, Parent(t)) : u \in Targets(Columns(Parent(t))[c], rows[v].cols[c])}

\* Every table stands in it with its plural name.
ReferencePath(rows, u) ==
  LET uri[v \in DOMAIN rows] ==
        LET t == rows[v].table
            step == Step(tables[t].plural, GetTableKey(rows, v))
        IN IF t = System THEN <<>>
           ELSE IF Parent(t) = None THEN <<step>>
           ELSE IF TraceRows(rows, v) = {} THEN Nowhere
           ELSE Append(uri[CHOOSE w \in TraceRows(rows, v) : TRUE], step)
  IN uri[u]

\* get_reference_uri, which subscriptions and notifications are given.  The key
\* of a row that a plain reference of its parent's was taken for raises.
GetReferenceUri(rows, u) ==
  LET t == rows[u].table
  IN IF Parent(t) # None /\ TraceColumns(t) # {} /\ OwnColumns(t) = {} THEN Nowhere ELSE ReferencePath(rows, u)

----------------------------------------------------------------------------
(* Transactions.                                                            *)

Txn(inserts, writes, deletes) == [inserts |-> inserts, writes |-> writes, deletes |-> deletes]
NoRows == [u \in {} |-> None]

\* A column of a row, and what it holds.  A transaction writes each at most
\* once, so that none is read after it has been written.
ColumnOf(x) == Columns(replica.rows[x[1]].table)[x[2]]
Value(x) == replica.rows[x[1]].cols[x[2]]

Conforms(column, value) ==
  /\ column.kind = "one" => Cardinality(value) <= 1
  /\ column.relation = "parent" => value # {}

\* The IDL logs and drops a value that is not of the column's type.
SetColumns(values) ==
  [x \in {x \in DOMAIN values : Conforms(ColumnOf(x), values[x])} |-> values[x]]

SetColumn(u, c, value) == SetColumns([x \in {<<u, c>>} |-> value])

AddReference(x, new) == Value(x) \cup {new}

\* Mutant: the other keys are not written back.
AddKvReferenceOnly(x, key, new) == {<<key, new>>}

AddKvReference(x, key, new) == {p \in Value(x) : p[1] # key} \cup {<<key, new>>}

\* Mutant: the column is emptied.
DeleteReferenceAll(x, index, gone) == {}

\* A row that is under two keys stays under the other.
DeleteReference(x, index, gone) ==
  IF ColumnOf(x).kind = "kv" THEN {p \in Value(x) : p[1] # index} ELSE Value(x) \ {gone}

\* Every column that may refer to the row is written, whether it does or not.
ReferringTo(t) ==
  {x \in {<<u, c>> : u \in DOMAIN replica.rows, c \in UNION {DOMAIN Columns(o) : o \in DOMAIN tables}} :
     /\ x[2] \in DOMAIN Columns(replica.rows[x[1]].table)
     /\ ColumnOf(x).to = t}

DeleteAllReferences(gone) ==
  SetColumns([x \in ReferringTo(replica.rows[gone].table) |-> Value(x) \ {gone}])

Changes(txn) ==
  \/ DOMAIN txn.inserts # {} \/ txn.deletes # {}
  \/ \E x \in DOMAIN txn.writes : txn.writes[x] # Value(x)

\* commit(): a transaction that changes nothing is not sent.
Commit(op, of, place, index, row, txn) ==
  /\ sent' = IF ~Changes(txn) THEN sent
             ELSE Append(sent, [op |-> op, of |-> of, place |-> place, index |-> index,
                                row |-> row, txn |-> txn, base |-> replica.version])
  /\ UNCHANGED <<tables, db, replica, wire>>

----------------------------------------------------------------------------
(* Requests.                                                                *)

Init ==
  /\ tables \in Schemas
  /\ db = Data([u \in {SystemRow} |-> Row(System, None)], 0)
  /\ replica = db
  /\ sent = <<>>
  /\ wire = <<>>
  /\ next = 1

MaySend == Len(sent) + Len(wire) < MaxSent

\* verify_http_method, the index of a table being configuration.
MayCreate(place) == tables[place.table].root \/ place.relation \in {"child", "top"}

\* verify_referenced_by: lists that refer to the table, for a new row that
\* would be garbage without.
ReferencedBy(place) ==
  IF place.relation # "top" \/ tables[place.table].root THEN {{}}
  ELSE SUBSET {x \in ReferringTo(place.table) :
                 Columns(replica.rows[x[1]].table)[x[2]] \in [to : {place.table}, relation : {"reference"}, kind : {"list"}]}

\* setup_new_row_by_resource, with the parent if the table refers to it.
NewRow(of, place, name) ==
  LET t == place.table
      row == Row(t, IF tables[t].key = "name" THEN name ELSE None)
  IN IF place.relation # "back" THEN row
     ELSE [row EXCEPT !.cols[ParentColumn(t, replica.rows[of].table)] = {of}]

\* create_index: what the Location of the answer ends with, without quotes.
CreateIndex(of, place, name) ==
  IF KindOf(replica.rows[of].table, place) = "kv" \/ tables[place.table].key = "name" THEN name ELSE None

\* What the new row is written into.
CreationWrites(of, place, name, by) ==
  IF place.relation # "child" THEN SetColumns([x \in by |-> AddReference(x, next)])
  ELSE SetColumn(of, place.column,
         IF KindOf(replica.rows[of].table, place) = "kv" THEN AddKvReference(<<of, place.column>>, name, next)
         ELSE AddReference(<<of, place.column>>, next))

\* post_resource
Post ==
  /\ MaySend /\ next <= MaxRows
  /\ \E of \in DOMAIN replica.rows, name \in Names :
       \E place \in Places(replica.rows[of].table) : \E by \in ReferencedBy(place) :
         /\ MayCreate(place)
         /\ Commit("create", of, place, CreateIndex(of, place, name), next,
                   Txn([u \in {next} |-> NewRow(of, place, name)], CreationWrites(of, place, name, by), {}))
  /\ next' = next + 1

\* verify_forward_reference: what the references of a column may be set to.
Values(column) ==
  LET us == RowsOf(replica.rows, column.to)
  IN CASE column.kind = "kv" -> {v \in SUBSET (Names \X us) : \A p, q \in v : p[1] = q[1] => p = q}
       [] column.kind = "one" -> {v \in SUBSET us : Cardinality(v) <= 1}
       [] OTHER -> SUBSET us

\* put_resource: the references of one column are replaced.
Put ==
  /\ MaySend
  /\ \E u \in DOMAIN replica.rows : LET t == replica.rows[u].table IN
       \E c \in DOMAIN Columns(t) : \E value \in Values(Columns(t)[c]) :
         /\ Columns(t)[c].relation # "parent"
         /\ Commit("update", u, None, None, u, Txn(NoRows, SetColumn(u, c, value), {}))
  /\ UNCHANGED next

\* reference_map: the tables that columns refer to, by the name of the column; of
\* columns with one name that of the first table.
ReferenceMap ==
  [c \in UNION {DOMAIN Columns(o) : o \in DOMAIN tables} |->
     Columns(CHOOSE o \in DOMAIN tables : c \in DOMAIN Columns(o))[c].to]

IsReferenced(t) == \E c \in DOMAIN ReferenceMap : ReferenceMap[c] = t

\* The row itself is deleted only if nothing can refer to it; if something
\* can, it is left to be collected.
DeleteTop(u) ==
  LET t == replica.rows[u].table
  IN Txn(NoRows, DeleteAllReferences(u), IF tables[t].root /\ ~IsReferenced(t) THEN {u} ELSE {})

DeletionOf(of, place, index, u) ==
  CASE place.relation = "child" ->
         Txn(NoRows, SetColumn(of, place.column, DeleteReference(<<of, place.column>>, index, u)), {u})
    [] place.relation = "back" -> Txn(NoRows, NoRows, {u})
    [] OTHER -> DeleteTop(u)

\* delete_resource of one row.
Delete ==
  /\ MaySend
  /\ \E of \in DOMAIN replica.rows : \E place \in Places(replica.rows[of].table) :
       \E index \in Indexes(of, place) :
         LET u == Lookup(replica.rows, of, place, index)
         IN  /\ MayCreate(place)
             /\ Commit("delete", of, place, index, u, DeletionOf(of, place, index, u))
  /\ UNCHANGED next

\* delete_resource of all children; all rows of a table at the top cannot be
\* deleted at once.
DeleteAll ==
  /\ MaySend
  /\ \E of \in DOMAIN replica.rows : LET t == replica.rows[of].table IN
       \E place \in Places(t) :
         /\ MayCreate(place)
         /\ \/ /\ place.relation = "child" /\ Columns(t)[place.column].kind # "one"
               /\ Commit("delete_all", of, place, None, None,
                    Txn(NoRows, SetColumn(of, place.column, {}),
                        Targets(Columns(t)[place.column], replica.rows[of].cols[place.column])))
            \/ /\ place.relation = "back"
               /\ Commit("delete_all", of, place, None, None,
                    Txn(NoRows, NoRows, {u \in RowsOf(replica.rows, place.table) :
                                           replica.rows[u].cols[ParentColumn(place.table, t)] = {of}}))
  /\ UNCHANGED next

----------------------------------------------------------------------------
(* ovsdb-server and the session.                                            *)

IsRoot(t) == t = System \/ tables[t].root

\* Does a set of rows have the root set, and all that its rows refer to?
Keeps(rows, S) ==
  /\ \A u \in DOMAIN rows : IsRoot(rows[u].table) => u \in S
  /\ \A u \in S : DOMAIN rows \cap RefsOf(rows[u]) \subseteq S

\* The rows that references lead to from the root set.
Live(rows) == {u \in DOMAIN rows : \A S \in SUBSET DOMAIN rows : Keeps(rows, S) => u \in S}

Collected(rows) == [u \in Live(rows) |-> rows[u]]

\* A write of a row that is gone does nothing.
Written(row, u, writes) ==
  [row EXCEPT !.cols = [c \in DOMAIN @ |-> IF <<u, c>> \in DOMAIN writes THEN writes[<<u, c>>] ELSE @[c]]]

Executing(rows, txn) ==
  [u \in (DOMAIN txn.inserts \cup DOMAIN rows) \ txn.deletes |->
     Written(IF u \in DOMAIN txn.inserts THEN txn.inserts[u] ELSE rows[u], u, txn.writes)]

Applied(rows, txn) == Collected(Executing(rows, txn))

\* References lead to rows, and the index of a table is unique: the name, and
\* the parent if it is part of the index.
Sound(rows) ==
  \A u \in DOMAIN rows : LET t == rows[u].table IN
    /\ RefsOf(rows[u]) \subseteq DOMAIN rows
    /\ tables[t].key = "name" =>
         \A v \in RowsOf(rows, t) :
           rows[v].name = rows[u].name /\ (\A c \in tables[t].scope : rows[v].cols[c] = rows[u].cols[c]) => u = v

\* The server executes the transactions in the order they were sent.
Execute ==
  /\ sent # <<>> /\ db.version < MaxWrites
  /\ LET rows == Applied(db.rows, Head(sent).txn)
     IN db' = IF Sound(rows) THEN Data(rows, db.version + 1) ELSE db
  /\ wire' = Append(wire, db')
  /\ sent' = Tail(sent)
  /\ UNCHANGED <<tables, replica, next>>

\* The update is read before the answer that ends the request.
Read ==
  /\ wire # <<>>
  /\ replica' = Head(wire)
  /\ wire' = Tail(wire)
  /\ UNCHANGED <<tables, db, sent, next>>

Next == Post \/ Put \/ Delete \/ DeleteAll \/ Execute \/ Read

Spec == Init /\ [][Next]_vars

----------------------------------------------------------------------------
(* Properties.                                                              *)

TypeOK ==
  /\ tables \in Schemas
  /\ \A rows \in {db.rows, replica.rows} : \A u \in DOMAIN rows :
       /\ u < next
       /\ rows[u].table \in DOMAIN tables
       /\ DOMAIN rows[u].cols = DOMAIN Columns(rows[u].table)
       /\ RefsOf(rows[u]) \subseteq DOMAIN rows
  /\ replica.version <= db.version /\ db.version <= MaxWrites
  /\ Len(sent) + Len(wire) <= MaxSent
  /\ next <= MaxRows + 1

\* A transaction is undisturbed if it is executed on the rows it was made from.
Executed(op) == sent # <<>> /\ sent' = Tail(sent) /\ Head(sent).op = op /\ db' # db
Undisturbed == Head(sent).base = db.version

\* No other row of its table has the name of the row.
Alone(rows, u) ==
  LET t == rows[u].table
  IN tables[t].key = "name" => \A v \in RowsOf(rows, t) : rows[v].name = rows[u].name => v = u

\* The row of a creation that succeeds is kept as long as its parent is, whatever
\* was executed in between; but an only child may not be.  Undisturbed, it takes
\* no row away, and its Location leads to the row, if it holds the index as it is
\* and no other row has the name; but a column of one child, that is there
\* already or whose child has an index, a key that is taken, and a row nothing is
\* asked to refer to.
CreationAdds ==
  [][Executed("create") =>
       LET q == Head(sent)
           rows == db.rows
           kind == KindOf(rows[q.of].table, q.place)
       IN  /\ q.place.relation # "top" /\ q.of \in DOMAIN db'.rows /\ KindOf(db'.rows[q.of].table, q.place) # "one"
                => q.row \in DOMAIN db'.rows
           /\ Undisturbed =>
                \/ kind = "one"
                \/ kind = "kv" /\ Lookup(rows, q.of, q.place, q.index) # None
                \/ q.place.relation = "top" /\ ~tables[q.place.table].root /\ DOMAIN q.txn.writes = {}
                \/ /\ DOMAIN db'.rows = DOMAIN rows \cup {q.row}
                   /\ q.index \notin Unsafe /\ Alone(db'.rows, q.row) =>
                        Lookup(db'.rows, q.of, q.place, Unquoted(q.index)) = q.row]_vars

\* The deletion of a child, or of a row that refers to its parent, removes it
\* whatever was executed in between; undisturbed, any deletion takes away the row
\* and what it alone keeps, but a row of the root set that others may refer to.
DeletionRemoves ==
  [][Executed("delete") =>
       LET q == Head(sent)
           left == Collected([u \in DOMAIN db.rows \ {q.row} |-> db.rows[u]])
       IN  /\ q.place.relation # "top" => q.row \notin DOMAIN db'.rows
           /\ Undisturbed /\ ~(q.place.relation = "top" /\ tables[q.place.table].root /\ IsReferenced(q.place.table)) =>
                DOMAIN db'.rows = DOMAIN left]_vars

\* The rows a row is below, itself included.
AllAbove(rows, u) ==
  LET all[v \in DOMAIN rows] ==
        IF Parent(rows[v].table) = None THEN {v}
        ELSE {v} \cup UNION {all[w] : w \in ParentRows(rows, v, ParentOrChildColumn(rows[v].table))}
  IN all[u]

\* A PUT may leave a row, that others still refer to, without its parent.
InPlace(rows, u) ==
  \A v \in AllAbove(rows, u) :
    Parent(rows[v].table) # None => ParentRows(rows, v, ParentOrChildColumn(rows[v].table)) # {}

\* All keys that the row is under stand in a path as they are.
Quotable(rows, u) ==
  \A v \in DOMAIN rows : \A c \in DOMAIN rows[v].cols :
    Columns(rows[v].table)[c].kind = "kv" => \A p \in rows[v].cols[c] : p[2] = u => p[1] \notin Unsafe

Named(rows, u) == \A v \in AllAbove(rows, u) : Alone(rows, v)
Keyed(rows, u) == \A v \in AllAbove(rows, u) : Quotable(rows, v)

OnlyChild(t) ==
  Parent(t) # None /\ Parents(t) = {} /\ Columns(Parent(t))[ParentOrChildColumn(t)].kind = "one"

\* The parent of the table refers to it, and not only as to its children.
Referred(t) ==
  Parent(t) # None /\ TraceColumns(t) # IF Parents(t) = {} THEN OwnColumns(t) ELSE {}

\* Every step of the URI that GET gives is kept.
Whole(t) == System \in Above(t) \/ Parent(t) = None

\* The steps of notifications are those of paths.
Plural(t) == \A o \in Above(t) : ~OnlyChild(o)
Traced(t) == \A o \in Above(t) : ~Referred(o)

UriLeadsBack(rows, u) == Follow(rows, RowToUri(rows, u)) = u
ReferenceLeadsBack(rows, u) == Follow(rows, GetReferenceUri(rows, u)) = u

\* The URIs given for a row that has its place lead back to it, if it and all
\* rows above it are the only ones of their names and under keys that stand in a
\* path as they are: those of GET but below a table without parent, those of
\* notifications but below the only child of a column and below a table that its
\* parent has other references to.
LinksLeadBack ==
  sent = <<>> /\ wire = <<>> =>
    \A u \in {v \in DOMAIN replica.rows :
              InPlace(replica.rows, v) /\ Named(replica.rows, v) /\ Keyed(replica.rows, v)} :
      LET t == replica.rows[u].table
      IN  /\ Whole(t) => UriLeadsBack(replica.rows, u)
          /\ Plural(t) /\ Traced(t) => ReferenceLeadsBack(replica.rows, u)

\* row_to_uri makes "the URI" of a row and get_reference_uri its "reference URI":
\* each without one of the conditions.
UrisLeadBack ==
  \A u \in DOMAIN replica.rows :
    InPlace(replica.rows, u) /\ Named(replica.rows, u) /\ Keyed(replica.rows, u) => UriLeadsBack(replica.rows, u)

SharedNamesLeadBack ==
  \A u \in DOMAIN replica.rows :
    InPlace(replica.rows, u) /\ Keyed(replica.rows, u) /\ Whole(replica.rows[u].table) => UriLeadsBack(replica.rows, u)

KeysLeadBack ==
  \A u \in DOMAIN replica.rows :
    InPlace(replica.rows, u) /\ Named(replica.rows, u) /\ Whole(replica.rows[u].table) => UriLeadsBack(replica.rows, u)

ReferencesLeadBack ==
  \A u \in DOMAIN replica.rows :
    InPlace(replica.rows, u) /\ Named(replica.rows, u) /\ Keyed(replica.rows, u) /\ Traced(replica.rows[u].table) =>
      ReferenceLeadsBack(replica.rows, u)

ReferredLeadBack ==
  \A u \in DOMAIN replica.rows :
    InPlace(replica.rows, u) /\ Named(replica.rows, u) /\ Keyed(replica.rows, u) /\ Plural(replica.rows[u].table) =>
      ReferenceLeadsBack(replica.rows, u)

\* A deletion that succeeds deletes its row.
DeletedIsGone ==
  [][Executed("delete") /\ Undisturbed => Head(sent).row \notin DOMAIN db'.rows]_vars

\* A creation that succeeds takes no other row away: undisturbed, or ever.
CreationKeeps ==
  [][Executed("create") /\ Undisturbed => DOMAIN db.rows \subseteq DOMAIN db'.rows]_vars

CreationAlwaysKeeps ==
  [][Executed("create") => DOMAIN db.rows \subseteq DOMAIN db'.rows]_vars

\* The row of a creation that succeeds is there, and found at its Location.
CreatedIsThere ==
  [][Executed("create") /\ Undisturbed => Head(sent).row \in DOMAIN db'.rows]_vars

LocationLeadsThere ==
  [][Executed("create") /\ Undisturbed /\ Head(sent).row \in DOMAIN db'.rows =>
       LET q == Head(sent) IN Lookup(db'.rows, q.of, q.place, Unquoted(q.index)) = q.row]_vars

=============================================================================
