-------------------------- MODULE Resources_proofs --------------------------
(* What a creation adds, what a deletion removes and where the URIs of rows  *)
(* lead, for every schema, any number of requests and any bounds.            *)
EXTENDS Resources, FiniteSetTheorems, SequenceTheorems, WellFoundedInduction, TLAPS

----------------------------------------------------------------------------
(* The inductive invariant.                                                   *)

\* A UUID is of one table, wherever it occurs.
Kinds == [0 .. next - 1 -> DOMAIN tables]

\* A column refers to rows of its table, to none under a key twice, and to one
\* at most if it is of one.
GoodValue(k, column, value) ==
  /\ \A u \in Targets(column, value) : u \in DOMAIN k /\ k[u] = column.to
  /\ column.kind = "kv" => \A p, q \in value : p[1] = q[1] => p = q
  /\ column.kind = "one" => \A u, v \in value : u = v

GoodRow(k, u, row) ==
  /\ u \in DOMAIN k
  /\ DOMAIN row = {"table", "name", "cols"}
  /\ row.table = k[u]
  /\ DOMAIN row.cols = DOMAIN Columns(row.table)
  /\ \A c \in DOMAIN row.cols : GoodValue(k, Columns(row.table)[c], row.cols[c])

\* Its references lead to rows.
GoodRows(k, rows) ==
  /\ \A u \in DOMAIN rows : GoodRow(k, u, rows[u])
  /\ \A u \in DOMAIN rows : RefsOf(rows[u]) \subseteq DOMAIN rows

GoodTxn(k, txn) ==
  /\ \A u \in DOMAIN txn.inserts : GoodRow(k, u, txn.inserts[u])
  /\ \A x \in DOMAIN txn.writes :
       /\ x[1] \in DOMAIN k /\ x[2] \in DOMAIN Columns(k[x[1]])
       /\ GoodValue(k, Columns(k[x[1]])[x[2]], txn.writes[x])

\* A creation inserts its row, and writes it into the column of its parent unless
\* that is of one.
Planned(k, q) ==
  q.op = "create" =>
    /\ q.txn.deletes = {} /\ q.row \in DOMAIN q.txn.inserts
    /\ q.txn.inserts[q.row].table = q.place.table
    /\ q.of \in DOMAIN k /\ q.place \in Places(k[q.of]) /\ MayCreate(q.place)
    /\ q.place.relation = "child" /\ KindOf(k[q.of], q.place) # "one" =>
         /\ <<q.of, q.place.column>> \in DOMAIN q.txn.writes
         /\ q.row \in Targets(Columns(k[q.of])[q.place.column], q.txn.writes[<<q.of, q.place.column>>])

Known(k) ==
  /\ GoodRows(k, db.rows) /\ GoodRows(k, replica.rows)
  /\ \A i \in DOMAIN wire : GoodRows(k, wire[i].rows)
  /\ \A i \in DOMAIN sent : GoodTxn(k, sent[i].txn) /\ Planned(k, sent[i])

KindInv == \E k \in Kinds : Known(k)

\* A version of the database is known by its number.
Version(data) ==
  /\ data.version \in Nat
  /\ data.version <= db.version
  /\ data.version = db.version => data.rows = db.rows

VersionInv ==
  /\ db.version \in Nat /\ db.version <= MaxWrites
  /\ Version(replica)
  /\ \A i \in DOMAIN wire : Version(wire[i])

\* The columns that a creation writes have its row more.
Grown(q, kind, held) ==
  IF kind = "kv" THEN {p \in held : p[1] # q.index} \cup {<<q.index, q.row>>} ELSE held \cup {q.row}

Grows(q, rows) ==
  \A x \in DOMAIN q.txn.writes :
    /\ x[1] \in DOMAIN rows /\ x[2] \in DOMAIN rows[x[1]].cols /\ x = <<x[1], x[2]>>
    /\ q.txn.writes[x] = Grown(q, Columns(rows[x[1]].table)[x[2]].kind, rows[x[1]].cols[x[2]])

\* What a creation made of some rows does to them.
Creation(q, rows) ==
  /\ q.of \in DOMAIN rows /\ q.place \in Places(rows[q.of].table) /\ MayCreate(q.place)
  /\ q.row \in Nat \ DOMAIN rows
  /\ q.txn.deletes = {}
  /\ DOMAIN q.txn.inserts = {q.row}
  /\ q.txn.inserts[q.row].table = q.place.table
  /\ KindOf(rows[q.of].table, q.place) # "kv" => q.txn.inserts[q.row].name = q.index
  /\ q.place.relation = "back" =>
       q.txn.inserts[q.row].cols[ParentColumn(q.place.table, rows[q.of].table)] = {q.of}
  /\ q.place.relation = "child" => DOMAIN q.txn.writes \subseteq {<<q.of, q.place.column>>}
  /\ q.place.relation = "child" /\ KindOf(rows[q.of].table, q.place) # "one" =>
       <<q.of, q.place.column>> \in DOMAIN q.txn.writes
  /\ q.place.relation = "back" => DOMAIN q.txn.writes = {}
  /\ q.place.relation = "top" => \A x \in DOMAIN q.txn.writes : Columns(rows[x[1]].table)[x[2]].kind = "list"
  /\ Grows(q, rows)

\* Rows that others refer to as their parents are in the root set or have a
\* parent themselves.
ParentsStay ==
  \A t \in DOMAIN tables \ {System} :
    Parent(t) = None /\ ~tables[t].root =>
      \A o \in DOMAIN tables : ParentColumns(o, t) = {}

\* And a deletion: references to the row are removed and no others, and if the
\* row is left to be collected all of them.
Deletion(q, rows) ==
  /\ DOMAIN q.txn.inserts = {}
  /\ q.txn.deletes \in {{}, {q.row}}
  /\ \A x \in DOMAIN q.txn.writes :
       /\ x[1] \in DOMAIN rows /\ x[2] \in DOMAIN rows[x[1]].cols
       /\ LET column == Columns(rows[x[1]].table)[x[2]] IN
          Targets(column, q.txn.writes[x]) \ {q.row} = Targets(column, rows[x[1]].cols[x[2]]) \ {q.row}
  /\ q.txn.deletes = {} =>
       /\ q.place.relation = "top"
       /\ tables[q.place.table].root => IsReferenced(q.place.table)
       /\ ~tables[q.place.table].root /\ ParentsStay =>
            /\ q.row \in DOMAIN rows => ~IsRoot(rows[q.row].table)
            /\ \A u \in DOMAIN rows : \A c \in DOMAIN rows[u].cols :
                 LET column == Columns(rows[u].table)[c] IN
                 IF <<u, c>> \in DOMAIN q.txn.writes THEN q.row \notin Targets(column, q.txn.writes[<<u, c>>])
                 ELSE q.row \notin Targets(column, rows[u].cols[c])

\* A request that nothing has come before is made of the rows as they are.
Made(q) ==
  /\ q.base \in Nat /\ q.base <= db.version
  /\ q.base = db.version => /\ q.op = "create" => Creation(q, db.rows)
                            /\ q.op = "delete" => Deletion(q, db.rows)
  /\ q.op = "delete" /\ q.place.relation # "top" => q.row \in q.txn.deletes

SentInv == \A i \in DOMAIN sent : Made(sent[i])

\* Everything in the database is kept by the root set.
LiveInv == Live(db.rows) = DOMAIN db.rows

IsSeq(s) == s \in Seq({s[i] : i \in DOMAIN s})

BoundInv ==
  /\ tables \in Schemas
  /\ next \in Nat /\ next <= MaxRows + 1
  /\ IsSeq(sent) /\ IsSeq(wire)
  /\ Len(sent) + Len(wire) <= MaxSent

IInv == BoundInv /\ KindInv /\ VersionInv /\ LiveInv /\ SentInv

----------------------------------------------------------------------------
(* The schema does not change.                                                *)

\* What is made of it stays.
LEMMA SameColumns ==
  ASSUME tables' = tables
  PROVE  /\ \A t : Columns(t)' = Columns(t)
         /\ \A t, of : ParentColumns(t, of)' = ParentColumns(t, of)
         /\ \A t, of : ParentColumn(t, of)' = ParentColumn(t, of)
         /\ \A t : Parent(t)' = Parent(t)
         /\ \A t : Places(t)' = Places(t)
         /\ \A t, place : KindOf(t, place)' = KindOf(t, place)
         /\ \A place : MayCreate(place)' <=> MayCreate(place)
         /\ \A t : IsReferenced(t)' <=> IsReferenced(t)
         /\ \A t : IsRoot(t)' <=> IsRoot(t)
         /\ ParentsStay' <=> ParentsStay
<1>1. \A t : Columns(t)' = Columns(t)
  BY DEF Columns
<1>2. \A t, of : ParentColumns(t, of)' = ParentColumns(t, of)
  BY <1>1 DEF ParentColumns
<1>3. \A t, of : ParentColumn(t, of)' = ParentColumn(t, of)
  BY <1>2 DEF ParentColumn
<1>4. \A t : Parent(t)' = Parent(t)
  BY DEF Parent, Parents, Owners, ParentColumns, ChildColumns, Columns
<1>5. \A t : Places(t)' = Places(t)
  BY <1>1, <1>2, <1>4 DEF Places, ChildColumns
<1>6. \A t, place : KindOf(t, place)' = KindOf(t, place)
  BY <1>1 DEF KindOf
<1>7. \A place : MayCreate(place)' <=> MayCreate(place)
  BY DEF MayCreate
<1>8. \A t : IsReferenced(t)' <=> IsReferenced(t)
  <2>1. ReferenceMap' = ReferenceMap
    BY DEF ReferenceMap, Columns
  <2>2. QED
    BY <2>1 DEF IsReferenced
<1>9. \A t : IsRoot(t)' <=> IsRoot(t)
  BY DEF IsRoot
<1>10. ParentsStay' <=> ParentsStay
  BY <1>2, <1>4 DEF ParentsStay
<1>11. QED
  BY <1>1, <1>2, <1>3, <1>4, <1>5, <1>6, <1>7, <1>8, <1>9, <1>10

\* And so does what rows are made of.
LEMMA SameRows ==
  ASSUME tables' = tables
  PROVE  /\ \A row : RefsOf(row)' = RefsOf(row)
         /\ \A rows : Live(rows)' = Live(rows)
         /\ \A rows : Collected(rows)' = Collected(rows)
         /\ \A k, rows : GoodRows(k, rows)' <=> GoodRows(k, rows)
         /\ \A k, txn : GoodTxn(k, txn)' <=> GoodTxn(k, txn)
         /\ \A k, q : Planned(k, q)' <=> Planned(k, q)
         /\ \A q, rows : Creation(q, rows)' <=> Creation(q, rows)
         /\ \A q, rows : Deletion(q, rows)' <=> Deletion(q, rows)
<1>1. \A row : RefsOf(row)' = RefsOf(row)
  BY SameColumns DEF RefsOf, Targets
<1>2. \A rows, S : Keeps(rows, S)' <=> Keeps(rows, S)
  BY <1>1, SameColumns DEF Keeps
<1>3. \A rows : Live(rows)' = Live(rows)
  BY <1>2 DEF Live
<1>4. \A rows : Collected(rows)' = Collected(rows)
  BY <1>3 DEF Collected
<1>5. \A k, column, value : GoodValue(k, column, value)' <=> GoodValue(k, column, value)
  BY DEF GoodValue, Targets
<1>6. \A k, u, row : GoodRow(k, u, row)' <=> GoodRow(k, u, row)
  BY <1>5, SameColumns DEF GoodRow
<1>7. \A k, rows : GoodRows(k, rows)' <=> GoodRows(k, rows)
  BY <1>1, <1>6 DEF GoodRows
<1>8. \A k, txn : GoodTxn(k, txn)' <=> GoodTxn(k, txn)
  BY <1>5, <1>6, SameColumns DEF GoodTxn
<1>9. \A q, rows : Creation(q, rows)' <=> Creation(q, rows)
  <2> SUFFICES ASSUME NEW q, NEW rows PROVE Creation(q, rows)' <=> Creation(q, rows)
    OBVIOUS
  <2>1. Columns(rows[q.of].table)' = Columns(rows[q.of].table) /\ Places(rows[q.of].table)' = Places(rows[q.of].table)
    BY SameColumns
  <2>2. KindOf(rows[q.of].table, q.place)' = KindOf(rows[q.of].table, q.place)
    BY SameColumns
  <2>3. ParentColumn(q.place.table, rows[q.of].table)' = ParentColumn(q.place.table, rows[q.of].table)
    BY SameColumns
  <2>4. MayCreate(q.place)' <=> MayCreate(q.place)
    BY SameColumns
  <2>5. Grows(q, rows)' <=> Grows(q, rows)
    <3>1. \A x : Columns(rows[x[1]].table)' = Columns(rows[x[1]].table)
      BY SameColumns
    <3>2. QED
      BY <3>1 DEF Grows
  <2>6. \A x : Columns(rows[x[1]].table)' = Columns(rows[x[1]].table)
    BY SameColumns
  <2>7. QED
    BY <2>1, <2>2, <2>3, <2>4, <2>5, <2>6 DEF Creation
<1>10. \A q, rows : Deletion(q, rows)' <=> Deletion(q, rows)
  <2> SUFFICES ASSUME NEW q, NEW rows PROVE Deletion(q, rows)' <=> Deletion(q, rows)
    OBVIOUS
  <2>1. \A u : Columns(rows[u].table)' = Columns(rows[u].table)
    BY SameColumns
  <2>2. \A x : Columns(rows[x[1]].table)' = Columns(rows[x[1]].table)
    BY SameColumns
  <2>3. IsReferenced(q.place.table)' <=> IsReferenced(q.place.table)
    BY SameColumns
  <2>4. IsRoot(rows[q.row].table)' <=> IsRoot(rows[q.row].table)
    BY SameColumns
  <2>5. \A column, value : Targets(column, value)' = Targets(column, value)
    BY DEF Targets
  <2>6. ParentsStay' <=> ParentsStay
    BY SameColumns
  <2>7. QED
    BY <2>1, <2>2, <2>3, <2>4, <2>5, <2>6 DEF Deletion
<1>11. \A k, q : Planned(k, q)' <=> Planned(k, q)
  <2> SUFFICES ASSUME NEW k, NEW q PROVE Planned(k, q)' <=> Planned(k, q)
    OBVIOUS
  <2>1. /\ Columns(k[q.of])' = Columns(k[q.of]) /\ Places(k[q.of])' = Places(k[q.of])
        /\ KindOf(k[q.of], q.place)' = KindOf(k[q.of], q.place)
        /\ MayCreate(q.place)' <=> MayCreate(q.place)
    BY SameColumns
  <2>2. QED
    BY <2>1 DEF Planned, Targets
<1>12. QED
  BY <1>1, <1>3, <1>4, <1>7, <1>8, <1>9, <1>10, <1>11

----------------------------------------------------------------------------
(* Garbage collection.                                                        *)

\* The live rows are the least set that is kept.
LEMMA LiveIsLeast ==
  ASSUME NEW rows
  PROVE  /\ Live(rows) \subseteq DOMAIN rows
         /\ Keeps(rows, Live(rows))
         /\ \A S \in SUBSET DOMAIN rows : Keeps(rows, S) => Live(rows) \subseteq S
<1>1. Live(rows) \subseteq DOMAIN rows
  BY DEF Live
<1>2. \A S \in SUBSET DOMAIN rows : Keeps(rows, S) => Live(rows) \subseteq S
  BY DEF Live
<1>3. ASSUME NEW u \in DOMAIN rows, IsRoot(rows[u].table) PROVE u \in Live(rows)
  BY <1>3 DEF Live, Keeps
<1>4. ASSUME NEW u \in Live(rows), NEW v \in DOMAIN rows \cap RefsOf(rows[u]) PROVE v \in Live(rows)
  <2>1. \A S \in SUBSET DOMAIN rows : Keeps(rows, S) => u \in S
    BY DEF Live
  <2>2. \A S \in SUBSET DOMAIN rows : Keeps(rows, S) => v \in S
    BY <2>1 DEF Keeps
  <2>3. QED
    BY <2>2 DEF Live
<1>5. QED
  BY <1>1, <1>2, <1>3, <1>4 DEF Keeps

\* Nothing is left to collect of what has been collected.
LEMMA LiveOfCollected ==
  ASSUME NEW rows
  PROVE  /\ DOMAIN Collected(rows) = Live(rows)
         /\ Live(Collected(rows)) = Live(rows)
<1> DEFINE left == Collected(rows)
<1>1. DOMAIN left = Live(rows) /\ \A u \in Live(rows) : left[u] = rows[u]
  BY DEF Collected
<1> HIDE DEF left
<1>2. ASSUME NEW S \in SUBSET DOMAIN left, Keeps(left, S) PROVE Live(rows) \subseteq S
  <2>1. S \in SUBSET DOMAIN rows
    BY <1>1, LiveIsLeast
  <2>2. \A u \in DOMAIN rows : IsRoot(rows[u].table) => u \in S
    <3>1. \A u \in DOMAIN rows : IsRoot(rows[u].table) => u \in Live(rows)
      BY LiveIsLeast DEF Keeps
    <3>2. QED
      BY <1>1, <1>2, <3>1 DEF Keeps
  <2>3. \A u \in S : DOMAIN rows \cap RefsOf(rows[u]) \subseteq S
    <3>1. \A u \in S : DOMAIN rows \cap RefsOf(rows[u]) \subseteq Live(rows)
      BY <1>1, LiveIsLeast DEF Keeps
    <3>2. \A u \in S : Live(rows) \cap RefsOf(rows[u]) \subseteq S
      BY <1>1, <1>2 DEF Keeps
    <3>3. QED
      BY <3>1, <3>2
  <2>4. QED
    BY <2>1, <2>2, <2>3, LiveIsLeast DEF Keeps
<1>3. Live(left) = Live(rows)
  <2>1. Live(left) \subseteq Live(rows)
    BY <1>1, LiveIsLeast
  <2>2. Live(rows) \subseteq Live(left)
    BY <1>2, LiveIsLeast
  <2>3. QED
    BY <2>1, <2>2
<1>4. QED
  BY <1>1, <1>3 DEF left

\* A row that is not of the root set, and that nothing refers to, does not
\* count; nor does what refers to it.
LEMMA LiveWithout ==
  ASSUME NEW f, NEW g, NEW gone,
         DOMAIN g = DOMAIN f \ {gone},
         \A u \in DOMAIN g : /\ g[u].table = f[u].table
                             /\ RefsOf(g[u]) \ {gone} = RefsOf(f[u]) \ {gone},
         gone \in DOMAIN f =>
           /\ ~IsRoot(f[gone].table)
           /\ \A u \in DOMAIN f : gone \notin RefsOf(f[u])
  PROVE  Live(f) = Live(g)
<1>1. ASSUME NEW S \in SUBSET DOMAIN g, Keeps(g, S) PROVE S \in SUBSET DOMAIN f /\ Keeps(f, S)
  <2>1. \A u \in DOMAIN f : IsRoot(f[u].table) => u \in S
    BY <1>1 DEF Keeps
  <2>2. ASSUME NEW u \in S, NEW v \in DOMAIN f \cap RefsOf(f[u]) PROVE v \in S
    <3>1. v # gone
      OBVIOUS
    <3>2. v \in DOMAIN g \cap RefsOf(g[u])
      BY <3>1
    <3>3. QED
      BY <1>1, <3>2 DEF Keeps
  <2>3. QED
    BY <2>1, <2>2 DEF Keeps
<1>2. ASSUME NEW S \in SUBSET DOMAIN f, Keeps(f, S)
      PROVE  S \ {gone} \in SUBSET DOMAIN g /\ Keeps(g, S \ {gone})
  <2>1. \A u \in DOMAIN g : IsRoot(g[u].table) => u \in S \ {gone}
    BY <1>2 DEF Keeps
  <2>2. ASSUME NEW u \in S \ {gone}, NEW v \in DOMAIN g \cap RefsOf(g[u]) PROVE v \in S \ {gone}
    <3>1. v \in DOMAIN f \cap RefsOf(f[u]) /\ v # gone
      OBVIOUS
    <3>2. QED
      BY <1>2, <3>1 DEF Keeps
  <2>3. QED
    BY <2>1, <2>2 DEF Keeps
<1>3. Live(f) \subseteq Live(g)
  BY <1>1, LiveIsLeast
<1>4. Live(g) \subseteq Live(f)
  BY <1>2, LiveIsLeast
<1>5. QED
  BY <1>3, <1>4

\* Rows that are all kept still are when references are added, and a row is that
\* is of the root set or that one of them refers to.
LEMMA LiveWith ==
  ASSUME NEW f, NEW g, NEW new,
         DOMAIN g = DOMAIN f \cup {new},
         Live(f) = DOMAIN f, new \notin DOMAIN f,
         \A u \in DOMAIN f : g[u].table = f[u].table /\ RefsOf(f[u]) \subseteq RefsOf(g[u]),
         IsRoot(g[new].table) \/ \E u \in DOMAIN f : new \in RefsOf(g[u])
  PROVE  Live(g) = DOMAIN g
<1> DEFINE S == Live(g)
<1>1. S \subseteq DOMAIN g /\ Keeps(g, S)
  BY LiveIsLeast
<1> HIDE DEF S
<1>2. Keeps(f, S \cap DOMAIN f)
  BY <1>1 DEF Keeps
<1>3. DOMAIN f \subseteq S
  BY <1>2, LiveIsLeast
<1>4. new \in S
  BY <1>1, <1>3 DEF Keeps
<1>5. QED
  BY <1>1, <1>3, <1>4 DEF S

----------------------------------------------------------------------------
(* The execution of a transaction.                                            *)

\* What the assumptions say of the schema in use.
LEMMA SchemaFacts ==
  ASSUME tables \in Schemas
  PROVE  /\ System \in DOMAIN tables /\ None \notin DOMAIN tables
         /\ \A t \in DOMAIN tables : \A c \in DOMAIN Columns(t) :
              /\ Columns(t)[c].to \in DOMAIN tables
              /\ Columns(t)[c].relation \in {"child", "parent", "reference"}
              /\ Columns(t)[c].kind \in {"list", "one", "kv"}
              /\ Columns(t)[c].kind = "kv" <=> tables[Columns(t)[c].to].key = "uuid"
              /\ Columns(t)[c].kind = "kv" => Columns(t)[c].relation = "child"
         /\ \A t \in DOMAIN tables :
              /\ tables[t].key \in {"name", "uuid"}
              /\ tables[t].key = "uuid" =>
                   /\ \A c \in DOMAIN Columns(t) : Columns(t)[c].relation # "parent"
                   /\ t = System \/ \E o \in DOMAIN tables : \E c \in DOMAIN Columns(o) : Columns(o)[c].to = t
BY SchemaAssumption DEF Columns

\* A row refers to what its columns hold.
LEMMA RefsAreHeld ==
  ASSUME NEW row, NEW v
  PROVE  v \in RefsOf(row) <=> \E c \in DOMAIN row.cols : v \in Targets(Columns(row.table)[c], row.cols[c])
BY DEF RefsOf

\* A row that is written keeps its table and its name.
LEMMA WrittenRow ==
  ASSUME NEW row, NEW u, NEW writes, DOMAIN row = {"table", "name", "cols"}
  PROVE  LET new == Written(row, u, writes) IN
         /\ DOMAIN new = {"table", "name", "cols"}
         /\ new.table = row.table /\ new.name = row.name
         /\ DOMAIN new.cols = DOMAIN row.cols
         /\ \A c \in DOMAIN row.cols :
              new.cols[c] = IF <<u, c>> \in DOMAIN writes THEN writes[<<u, c>>] ELSE row.cols[c]
BY DEF Written

\* Its row was there or is inserted.
LEMMA ExecutingRow ==
  ASSUME NEW rows, NEW txn, NEW u \in DOMAIN Executing(rows, txn)
  PROVE  /\ u \in (DOMAIN txn.inserts \cup DOMAIN rows) \ txn.deletes
         /\ Executing(rows, txn)[u] =
              Written(IF u \in DOMAIN txn.inserts THEN txn.inserts[u] ELSE rows[u], u, txn.writes)
BY DEF Executing

LEMMA ExecutedIsGood ==
  ASSUME NEW k, NEW rows, NEW txn, GoodRows(k, rows), GoodTxn(k, txn),
         NEW u \in DOMAIN Executing(rows, txn)
  PROVE  GoodRow(k, u, Executing(rows, txn)[u])
<1> DEFINE row == IF u \in DOMAIN txn.inserts THEN txn.inserts[u] ELSE rows[u]
           new == Executing(rows, txn)[u]
<1>1. GoodRow(k, u, row)
  BY ExecutingRow DEF GoodRows, GoodTxn
<1>2. new = Written(row, u, txn.writes)
  BY ExecutingRow
<1> HIDE DEF row, new
<1>3. /\ DOMAIN row = {"table", "name", "cols"} /\ u \in DOMAIN k /\ row.table = k[u]
      /\ DOMAIN row.cols = DOMAIN Columns(k[u])
      /\ \A c \in DOMAIN row.cols : GoodValue(k, Columns(k[u])[c], row.cols[c])
  BY <1>1 DEF GoodRow
<1>4. /\ DOMAIN new = {"table", "name", "cols"} /\ new.table = row.table
      /\ DOMAIN new.cols = DOMAIN row.cols
      /\ \A c \in DOMAIN row.cols :
           new.cols[c] = IF <<u, c>> \in DOMAIN txn.writes THEN txn.writes[<<u, c>>] ELSE row.cols[c]
  BY <1>2, <1>3, WrittenRow
<1>5. ASSUME NEW c \in DOMAIN new.cols PROVE GoodValue(k, Columns(k[u])[c], new.cols[c])
  <2>1. CASE <<u, c>> \in DOMAIN txn.writes
    <3>1. GoodValue(k, Columns(k[<<u, c>>[1]])[<<u, c>>[2]], txn.writes[<<u, c>>])
      BY <2>1 DEF GoodTxn
    <3>2. QED
      BY <1>4, <2>1, <3>1
  <2>2. CASE <<u, c>> \notin DOMAIN txn.writes
    BY <1>3, <1>4, <2>2
  <2>3. QED
    BY <2>1, <2>2
<1>6. GoodRow(k, u, new)
  BY <1>3, <1>4, <1>5 DEF GoodRow
<1>7. QED
  BY <1>6 DEF new

\* What the server takes is good.
LEMMA AppliedIsGood ==
  ASSUME NEW k, NEW rows, NEW txn, GoodRows(k, rows), GoodTxn(k, txn), Sound(Applied(rows, txn))
  PROVE  GoodRows(k, Applied(rows, txn))
<1> DEFINE g == Executing(rows, txn)
<1>1. DOMAIN Applied(rows, txn) \subseteq DOMAIN g /\ \A u \in DOMAIN Applied(rows, txn) : Applied(rows, txn)[u] = g[u]
  BY LiveIsLeast DEF Applied, Collected
<1>2. \A u \in DOMAIN g : GoodRow(k, u, g[u])
  BY ExecutedIsGood
<1>3. QED
  BY <1>1, <1>2 DEF GoodRows, Sound

----------------------------------------------------------------------------
(* What a deletion does.                                                      *)

Without(rows, u) == [v \in DOMAIN rows \ {u} |-> rows[v]]

\* What DeletionRemoves excepts: a row of the root set that others may refer to.
Stays(q) == q.place.relation = "top" /\ tables[q.place.table].root /\ IsReferenced(q.place.table)

LEMMA DeletionSucceeds ==
  ASSUME NEW k, NEW rows, NEW q, GoodRows(k, rows), Deletion(q, rows), ParentsStay, ~Stays(q)
  PROVE  DOMAIN Applied(rows, q.txn) = DOMAIN Collected(Without(rows, q.row))
<1>0. ~(q.place.relation = "top" /\ tables[q.place.table].root /\ IsReferenced(q.place.table))
  BY DEF Stays
<1> USE <1>0
<1> DEFINE f == Executing(rows, q.txn)
           g == Without(rows, q.row)
           w == q.txn.writes
<1>1. /\ DOMAIN q.txn.inserts = {} /\ q.txn.deletes \in {{}, {q.row}}
      /\ DOMAIN f = DOMAIN rows \ q.txn.deletes
  BY DEF Deletion, Executing
<1>2. ASSUME NEW u \in DOMAIN f
      PROVE  /\ f[u].table = rows[u].table
             /\ DOMAIN f[u].cols = DOMAIN rows[u].cols
             /\ \A c \in DOMAIN rows[u].cols :
                  f[u].cols[c] = IF <<u, c>> \in DOMAIN w THEN w[<<u, c>>] ELSE rows[u].cols[c]
  <2>1. f[u] = Written(rows[u], u, w) /\ u \in DOMAIN rows
    BY <1>1, ExecutingRow
  <2>2. DOMAIN rows[u] = {"table", "name", "cols"}
    BY <2>1 DEF GoodRows, GoodRow
  <2> HIDE DEF f, w
  <2>3. QED
    BY <2>1, <2>2, WrittenRow
<1>3. ASSUME NEW u \in DOMAIN f, NEW c \in DOMAIN rows[u].cols
      PROVE  Targets(Columns(rows[u].table)[c], f[u].cols[c]) \ {q.row}
               = Targets(Columns(rows[u].table)[c], rows[u].cols[c]) \ {q.row}
  <2>1. CASE <<u, c>> \in DOMAIN w
    <3>1. LET x == <<u, c>> IN
          Targets(Columns(rows[x[1]].table)[x[2]], w[x]) \ {q.row}
            = Targets(Columns(rows[x[1]].table)[x[2]], rows[x[1]].cols[x[2]]) \ {q.row}
      BY <2>1 DEF Deletion
    <3>2. QED
      BY <1>2, <2>1, <3>1
  <2>2. CASE <<u, c>> \notin DOMAIN w
    BY <1>2, <2>2
  <2>3. QED
    BY <2>1, <2>2
<1>4. DOMAIN g = DOMAIN f \ {q.row} /\ \A u \in DOMAIN g : g[u] = rows[u]
  BY <1>1 DEF Without
<1> HIDE DEF f, g
<1>5. ASSUME NEW u \in DOMAIN g
      PROVE  g[u].table = f[u].table /\ RefsOf(g[u]) \ {q.row} = RefsOf(f[u]) \ {q.row}
  <2>1. g[u] = rows[u] /\ u \in DOMAIN f
    BY <1>4
  <2>2. f[u].table = rows[u].table /\ DOMAIN f[u].cols = DOMAIN rows[u].cols
    BY <1>2, <2>1
  <2>3. ASSUME NEW v, v # q.row
        PROVE  v \in RefsOf(rows[u]) <=> v \in RefsOf(f[u])
    <3>1. \A c \in DOMAIN rows[u].cols :
            v \in Targets(Columns(rows[u].table)[c], f[u].cols[c])
              <=> v \in Targets(Columns(rows[u].table)[c], rows[u].cols[c])
      BY <1>3, <2>1, <2>3
    <3>2. QED
      BY <2>2, <3>1, RefsAreHeld
  <2>4. QED
    BY <2>1, <2>2, <2>3
<1>6. ASSUME q.row \in DOMAIN f
      PROVE  ~IsRoot(f[q.row].table) /\ \A u \in DOMAIN f : q.row \notin RefsOf(f[u])
  <2>1. q.txn.deletes = {} /\ q.row \in DOMAIN rows /\ DOMAIN f = DOMAIN rows
    BY <1>1, <1>6
  <2>2. q.place.relation = "top" /\ ~tables[q.place.table].root
    BY <2>1 DEF Deletion
  <2>3. ~IsRoot(f[q.row].table)
    BY <1>2, <2>1, <2>2 DEF Deletion
  <2>4. ASSUME NEW u \in DOMAIN f, NEW c \in DOMAIN f[u].cols
        PROVE  q.row \notin Targets(Columns(f[u].table)[c], f[u].cols[c])
    <3>1. /\ u \in DOMAIN rows /\ f[u].table = rows[u].table /\ c \in DOMAIN rows[u].cols
          /\ f[u].cols[c] = IF <<u, c>> \in DOMAIN w THEN w[<<u, c>>] ELSE rows[u].cols[c]
      BY <1>2, <2>1
    <3>2. LET column == Columns(rows[u].table)[c] IN
          IF <<u, c>> \in DOMAIN w THEN q.row \notin Targets(column, w[<<u, c>>])
          ELSE q.row \notin Targets(column, rows[u].cols[c])
      BY <2>1, <2>2, <3>1 DEF Deletion
    <3>3. QED
      BY <3>1, <3>2
  <2>5. QED
    BY <2>3, <2>4, RefsAreHeld
<1>7. Live(f) = Live(g)
  BY <1>4, <1>5, <1>6, LiveWithout
<1>8. QED
  BY <1>7, LiveOfCollected DEF Applied, f, g

----------------------------------------------------------------------------
(* What a creation does.                                                      *)

LEMMA PlaceFacts ==
  ASSUME NEW t, NEW place \in Places(t)
  PROVE  /\ place.relation \in {"child", "back", "top"}
         /\ place.relation = "child" =>
              /\ place.column \in DOMAIN Columns(t)
              /\ Columns(t)[place.column].relation = "child"
              /\ place.table = Columns(t)[place.column].to
              /\ KindOf(t, place) = Columns(t)[place.column].kind
         /\ place.relation # "child" => place.table \in DOMAIN tables /\ KindOf(t, place) = "list"
         /\ place.relation = "back" => ParentColumns(place.table, t) # {}
         /\ place.relation = "top" => place.table # System /\ Parent(place.table) = None
BY DEF Places, Place, ChildColumns, KindOf

\* The index of what is found by its name is a name.
LEMMA ListsAreNamed ==
  ASSUME tables \in Schemas, NEW t \in DOMAIN tables, NEW place \in Places(t),
         KindOf(t, place) \notin {"kv", "one"}
  PROVE  place.table \in DOMAIN tables /\ tables[place.table].key = "name"
<1>1. CASE place.relation = "child"
  <2>1. PICK c \in ChildColumns(t) : place = Place("child", c, Columns(t)[c].to)
    BY <1>1 DEF Places, Place
  <2>2. c \in DOMAIN Columns(t) /\ Columns(t)[c].kind # "kv" /\ place.table = Columns(t)[c].to
    BY <2>1 DEF ChildColumns, KindOf, Place
  <2>3. QED
    BY <2>2, SchemaFacts
<1>2. CASE place.relation = "back"
  <2>1. place.table \in DOMAIN tables /\ ParentColumns(place.table, t) # {}
    BY <1>2 DEF Places, Place
  <2>2. \E c \in DOMAIN Columns(place.table) : Columns(place.table)[c].relation = "parent"
    BY <2>1 DEF ParentColumns
  <2>3. QED
    BY <2>1, <2>2, SchemaFacts
<1>3. CASE place.relation = "top"
  <2>1. place.table \in DOMAIN tables \ {System} /\ Parent(place.table) = None
    BY <1>3 DEF Places, Place
  <2>2. Owners(place.table) = {}
    <3>1. Parents(place.table) \subseteq DOMAIN tables /\ Owners(place.table) \subseteq DOMAIN tables
      BY DEF Parents, Owners
    <3>2. None \notin DOMAIN tables
      BY SchemaFacts
    <3>3. QED
      BY <2>1, <3>1, <3>2 DEF Parent
  <2>3. ASSUME tables[place.table].key = "uuid" PROVE FALSE
    <3>. PICK o \in DOMAIN tables : \E c \in DOMAIN Columns(o) : Columns(o)[c].to = place.table
      BY <2>1, <2>3, SchemaFacts
    <3>1. PICK c \in DOMAIN Columns(o) : Columns(o)[c].to = place.table
      OBVIOUS
    <3>2. Columns(o)[c].relation = "child"
      BY <2>3, <3>1, SchemaFacts
    <3>3. QED
      BY <2>2, <3>1, <3>2 DEF Owners, ChildColumns
  <2>4. QED
    BY <2>1, <2>3, SchemaFacts
<1>4. QED
  BY <1>1, <1>2, <1>3 DEF Places, Place

\* Where a row is looked for under a key, and where by its name.
LEMMA LookupOfKey ==
  ASSUME NEW rows, NEW of, NEW place, NEW index, KindOf(rows[of].table, place) = "kv"
  PROVE  Lookup(rows, of, place, index) = KvIndexToRow(rows, of, place.column, index)
<1>1. place.relation # "back"
  BY DEF KindOf
<1>2. QED
  BY <1>1 DEF Lookup

LEMMA LookupOfName ==
  ASSUME NEW rows, NEW of, NEW place, NEW index, KindOf(rows[of].table, place) \notin {"kv", "one"},
         NEW u, u # None, IndexToRow(rows, place.table, index) = u,
         place.relation = "back" => rows[u].cols[ParentColumn(place.table, rows[of].table)] = {of}
  PROVE  Lookup(rows, of, place, index) = u
<1>1. CASE place.relation = "back"
  BY <1>1 DEF Lookup
<1>2. CASE place.relation # "back"
  BY <1>2 DEF Lookup
<1>3. QED
  BY <1>1, <1>2

\* What CreationAdds excepts: a column that holds one row, a taken key, and a
\* row that nothing would keep.
Ordinary(q, rows) ==
  /\ KindOf(rows[q.of].table, q.place) # "one"
  /\ ~(KindOf(rows[q.of].table, q.place) = "kv" /\ Lookup(rows, q.of, q.place, q.index) # None)
  /\ ~(q.place.relation = "top" /\ ~tables[q.place.table].root /\ DOMAIN q.txn.writes = {})

LEMMA CreationSucceeds ==
  ASSUME tables \in Schemas, NEW k, \A u \in DOMAIN k : u \in Nat /\ k[u] \in DOMAIN tables, NEW rows, NEW q,
         GoodRows(k, rows), GoodTxn(k, q.txn), Creation(q, rows),
         Live(rows) = DOMAIN rows, Sound(Applied(rows, q.txn)), Ordinary(q, rows)
  PROVE  /\ DOMAIN Applied(rows, q.txn) = DOMAIN rows \cup {q.row}
         /\ Alone(Applied(rows, q.txn), q.row) => Lookup(Applied(rows, q.txn), q.of, q.place, q.index) = q.row
<1>0. /\ KindOf(rows[q.of].table, q.place) # "one"
      /\ ~(KindOf(rows[q.of].table, q.place) = "kv" /\ Lookup(rows, q.of, q.place, q.index) # None)
      /\ ~(q.place.relation = "top" /\ ~tables[q.place.table].root /\ DOMAIN q.txn.writes = {})
  BY DEF Ordinary
<1> USE <1>0
<1> DEFINE g == Executing(rows, q.txn)
           h == Applied(rows, q.txn)
           w == q.txn.writes
           t == rows[q.of].table
           kind == KindOf(t, q.place)
<1>1. /\ q.of \in DOMAIN rows /\ q.place \in Places(t) /\ q.row \in Nat /\ q.row \notin DOMAIN rows
      /\ q.txn.deletes = {} /\ DOMAIN q.txn.inserts = {q.row} /\ Grows(q, rows)
  BY DEF Creation
<1>2. DOMAIN g = DOMAIN rows \cup {q.row}
  BY <1>1 DEF Executing
<1>3. ASSUME NEW u \in DOMAIN rows
      PROVE  /\ g[u].table = rows[u].table /\ DOMAIN g[u].cols = DOMAIN rows[u].cols
             /\ \A c \in DOMAIN rows[u].cols :
                  g[u].cols[c] = IF <<u, c>> \in DOMAIN w THEN w[<<u, c>>] ELSE rows[u].cols[c]
  <2>1. g[u] = Written(rows[u], u, w)
    BY <1>1, <1>2, ExecutingRow
  <2>2. DOMAIN rows[u] = {"table", "name", "cols"}
    BY DEF GoodRows, GoodRow
  <2> HIDE DEF g, w
  <2>3. QED
    BY <2>1, <2>2, WrittenRow
<1>4. /\ g[q.row].table = q.place.table
      /\ kind # "kv" => g[q.row].name = q.index
      /\ q.place.relation = "back" => g[q.row].cols[ParentColumn(q.place.table, t)] = {q.of}
  <2> DEFINE new == q.txn.inserts[q.row]
  <2>1. g[q.row] = Written(new, q.row, w)
    BY <1>1, <1>2, ExecutingRow
  <2>2. /\ new.table = q.place.table
        /\ kind # "kv" => new.name = q.index
        /\ q.place.relation = "back" => /\ new.cols[ParentColumn(q.place.table, t)] = {q.of}
                                        /\ DOMAIN w = {}
    BY DEF Creation
  <2>3. /\ DOMAIN new = {"table", "name", "cols"}
        /\ DOMAIN new.cols = DOMAIN Columns(new.table)
    BY <1>1 DEF GoodTxn, GoodRow
  <2>4. q.place.relation = "back" => ParentColumn(q.place.table, t) \in DOMAIN Columns(q.place.table)
    BY <1>1 DEF Places, Place, ParentColumn, ParentColumns
  <2>5. /\ Written(new, q.row, w).table = new.table /\ Written(new, q.row, w).name = new.name
        /\ \A c \in DOMAIN new.cols :
             Written(new, q.row, w).cols[c] = IF <<q.row, c>> \in DOMAIN w THEN w[<<q.row, c>>] ELSE new.cols[c]
    <3> HIDE DEF w, new
    <3>1. QED
      BY <2>3, WrittenRow
  <2> HIDE DEF g, w, new, t, kind
  <2>6. QED
    BY <2>1, <2>2, <2>3, <2>4, <2>5
<1> HIDE DEF g
<1>5. ASSUME NEW u \in DOMAIN rows, NEW c \in DOMAIN rows[u].cols
      PROVE  Targets(Columns(rows[u].table)[c], rows[u].cols[c]) \subseteq Targets(Columns(rows[u].table)[c], g[u].cols[c])
  <2> DEFINE column == Columns(rows[u].table)[c]
             held == rows[u].cols[c]
  <2>1. CASE <<u, c>> \in DOMAIN w
    <3>1. g[u].cols[c] = Grown(q, column.kind, held)
      BY <1>1, <1>3, <2>1 DEF Grows
    <3>2. CASE column.kind # "kv"
      BY <3>1, <3>2 DEF Grown, Targets
    <3>3. CASE column.kind = "kv"
      <4>1. q.place.relation = "child" /\ u = q.of /\ c = q.place.column
        <5>1. q.place.relation # "back"
          BY <2>1 DEF Creation
        <5>2. q.place.relation # "top"
          <6>1. LET x == <<u, c>> IN q.place.relation = "top" => Columns(rows[x[1]].table)[x[2]].kind = "list"
            BY <2>1 DEF Creation
          <6>2. QED
            BY <3>3, <6>1
        <5>3. q.place.relation = "child"
          BY <1>1, <5>1, <5>2 DEF Places, Place
        <5>4. QED
          BY <2>1, <5>3 DEF Creation
      <4>2. KindOf(t, q.place) = "kv" /\ held = rows[q.of].cols[q.place.column]
        BY <3>3, <4>1 DEF KindOf
      <4>3. KvIndexToRow(rows, q.of, q.place.column, q.index) = None
        BY <4>2, LookupOfKey
      <4>4. ASSUME NEW p \in held PROVE p[2] \in Nat
        <5>1. p[2] \in Targets(column, held)
          BY <3>3 DEF Targets
        <5>2. GoodValue(k, column, held)
          BY DEF GoodRows, GoodRow
        <5>3. QED
          BY <5>1, <5>2 DEF GoodValue
      <4>5. {p \in held : p[1] = q.index} = {}
        BY <4>2, <4>3, <4>4, NoneAssumption DEF KvIndexToRow
      <4>6. held \subseteq g[u].cols[c]
        BY <3>1, <3>3, <4>5 DEF Grown
      <4>7. QED
        BY <3>3, <4>6 DEF Targets
    <3>4. QED
      BY <3>2, <3>3
  <2>2. CASE <<u, c>> \notin DOMAIN w
    BY <1>3, <2>2
  <2>3. QED
    BY <2>1, <2>2
<1>6. ASSUME NEW u \in DOMAIN rows
      PROVE  g[u].table = rows[u].table /\ RefsOf(rows[u]) \subseteq RefsOf(g[u])
  <2>1. ASSUME NEW v \in RefsOf(rows[u]) PROVE v \in RefsOf(g[u])
    <3>1. PICK c \in DOMAIN rows[u].cols : v \in Targets(Columns(rows[u].table)[c], rows[u].cols[c])
      BY RefsAreHeld
    <3>2. v \in Targets(Columns(g[u].table)[c], g[u].cols[c]) /\ c \in DOMAIN g[u].cols
      BY <1>3, <1>5, <3>1
    <3>3. QED
      BY <3>2, RefsAreHeld
  <2>2. QED
    BY <1>3, <2>1
<1>7. ASSUME NEW x \in DOMAIN w
      PROVE  /\ x[1] \in DOMAIN rows
             /\ g[x[1]].cols[x[2]] = Grown(q, Columns(rows[x[1]].table)[x[2]].kind, rows[x[1]].cols[x[2]])
             /\ q.row \in RefsOf(g[x[1]])
  <2>1. /\ x[1] \in DOMAIN rows /\ x[2] \in DOMAIN rows[x[1]].cols /\ x = <<x[1], x[2]>>
        /\ w[x] = Grown(q, Columns(rows[x[1]].table)[x[2]].kind, rows[x[1]].cols[x[2]])
    BY <1>1 DEF Grows
  <2>2. g[x[1]].cols[x[2]] = w[x]
    BY <1>3, <2>1
  <2>3. q.row \in Targets(Columns(g[x[1]].table)[x[2]], g[x[1]].cols[x[2]]) /\ x[2] \in DOMAIN g[x[1]].cols
    <3>1. g[x[1]].table = rows[x[1]].table /\ x[2] \in DOMAIN g[x[1]].cols
      BY <1>3, <2>1
    <3>2. CASE Columns(rows[x[1]].table)[x[2]].kind = "kv"
      <4>1. <<q.index, q.row>> \in g[x[1]].cols[x[2]]
        BY <2>1, <2>2, <3>2 DEF Grown
      <4>2. <<q.index, q.row>>[2] = q.row
        OBVIOUS
      <4>3. QED
        BY <3>1, <3>2, <4>1, <4>2 DEF Targets
    <3>3. CASE Columns(rows[x[1]].table)[x[2]].kind # "kv"
      BY <2>1, <2>2, <3>1, <3>3 DEF Grown, Targets
    <3>4. QED
      BY <3>2, <3>3
  <2>4. QED
    BY <2>1, <2>2, <2>3, RefsAreHeld
<1>8. IsRoot(g[q.row].table) \/ \E u \in DOMAIN rows : q.row \in RefsOf(g[u])
  <2>1. CASE q.place.relation = "child"
    <3>1. <<q.of, q.place.column>> \in DOMAIN w
      BY <2>1 DEF Creation
    <3>2. QED
      BY <1>7, <3>1
  <2>2. CASE q.place.relation = "back"
    BY <1>4, <2>2 DEF Creation, MayCreate, IsRoot
  <2>3. CASE q.place.relation = "top"
    BY <1>4, <1>7, <2>3 DEF IsRoot
  <2>4. QED
    BY <1>1, <2>1, <2>2, <2>3 DEF Places, Place
<1>9. Live(g) = DOMAIN g
  BY <1>1, <1>2, <1>6, <1>8, LiveWith
<1>10. DOMAIN h = DOMAIN g /\ \A u \in DOMAIN g : h[u] = g[u]
  BY <1>9 DEF Applied, Collected, g
<1> HIDE DEF h, w
<1> SUFFICES ASSUME Alone(h, q.row) PROVE DOMAIN h = DOMAIN rows \cup {q.row} /\ Lookup(h, q.of, q.place, q.index) = q.row
  BY <1>2, <1>10 DEF h
<1>11. CASE kind = "kv"
  <2>1. q.place.relation = "child"
    BY <1>1, <1>11 DEF KindOf
  <2>2. <<q.of, q.place.column>> \in DOMAIN w /\ Columns(t)[q.place.column].kind = "kv"
    BY <1>11, <2>1 DEF Creation, KindOf, w
  <2>3. h[q.of].cols[q.place.column]
          = {p \in rows[q.of].cols[q.place.column] : p[1] # q.index} \cup {<<q.index, q.row>>}
    <3>1. LET x == <<q.of, q.place.column>> IN
          g[x[1]].cols[x[2]] = Grown(q, Columns(rows[x[1]].table)[x[2]].kind, rows[x[1]].cols[x[2]])
      BY <1>7, <2>2
    <3>2. QED
      BY <1>1, <1>2, <1>10, <2>2, <3>1 DEF Grown
  <2>4. {p \in h[q.of].cols[q.place.column] : p[1] = q.index} = {<<q.index, q.row>>}
    BY <2>3
  <2>5. KvIndexToRow(h, q.of, q.place.column, q.index) = q.row
    <3> DEFINE found == {p \in h[q.of].cols[q.place.column] : p[1] = q.index}
    <3> DEFINE one == CHOOSE p \in found : TRUE
    <3>1. found # {} /\ one = <<q.index, q.row>>
      BY <2>4
    <3>2. KvIndexToRow(h, q.of, q.place.column, q.index) = one[2]
      BY <3>1 DEF KvIndexToRow
    <3> HIDE DEF found, one
    <3>3. QED
      BY <3>1, <3>2
  <2>6. h[q.of].table = t
    BY <1>1, <1>2, <1>3, <1>10
  <2>7. QED
    BY <1>2, <1>10, <1>11, <2>5, <2>6, LookupOfKey DEF h
<1>12. CASE kind # "kv"
  <2>1. q.of \in DOMAIN g /\ q.row \in DOMAIN g /\ h[q.of].table = t /\ h[q.row] = g[q.row]
    BY <1>1, <1>2, <1>3, <1>10
  <2>2. t \in DOMAIN tables
    BY <1>1 DEF GoodRows, GoodRow
  <2>3. tables[q.place.table].key = "name"
    BY <1>1, <1>12, <2>2, ListsAreNamed
  <2>4. {u \in RowsOf(h, q.place.table) : tables[q.place.table].key = "name" /\ h[u].name = q.index} = {q.row}
    <3>1. q.row \in RowsOf(h, q.place.table) /\ h[q.row].name = q.index /\ h[q.row].table = q.place.table
      BY <1>4, <1>10, <1>12, <2>1 DEF RowsOf
    <3>2. \A v \in RowsOf(h, q.place.table) : h[v].name = q.index => v = q.row
      BY <1>10, <2>1, <2>3, <3>1 DEF Alone
    <3>3. QED
      BY <2>3, <3>1, <3>2
  <2>5. IndexToRow(h, q.place.table, q.index) = q.row
    BY <2>4 DEF IndexToRow
  <2>6. q.row # None
    BY <1>1, NoneAssumption
  <2>7. q.place.relation = "back" => h[q.row].cols[ParentColumn(q.place.table, t)] = {q.of}
    BY <1>4, <2>1
  <2>8. QED
    BY <1>2, <1>10, <1>12, <2>1, <2>5, <2>6, <2>7, LookupOfName DEF h
<1>13. QED
  BY <1>11, <1>12

----------------------------------------------------------------------------
(* Sequences of what is in them.                                              *)

LEMMA OfItself ==
  ASSUME NEW S, NEW s \in Seq(S)
  PROVE  IsSeq(s)
<1>1. DOMAIN s = 1 .. Len(s) /\ Len(s) \in Nat /\ s \in [1 .. Len(s) -> S]
  BY LenProperties
<1>2. s \in [1 .. Len(s) -> {s[i] : i \in DOMAIN s}]
  BY <1>1
<1>3. QED
  BY <1>1, <1>2, SeqDef DEF IsSeq

LEMMA IsSome ==
  ASSUME NEW s, IsSeq(s)
  PROVE  /\ \E S : s \in Seq(S)
         /\ Len(s) \in Nat /\ DOMAIN s = 1 .. Len(s)
<1>1. PICK S : s \in Seq(S)
  BY DEF IsSeq
<1>2. QED
  BY <1>1, LenProperties

LEMMA AppendedTo ==
  ASSUME NEW s, NEW e, IsSeq(s)
  PROVE  /\ IsSeq(Append(s, e)) /\ Len(Append(s, e)) = Len(s) + 1
         /\ \A i \in DOMAIN Append(s, e) : Append(s, e)[i] = e \/ (i \in DOMAIN s /\ Append(s, e)[i] = s[i])
<1> DEFINE t == Append(s, e)
<1>1. PICK T : s \in Seq(T)
  BY IsSome
<1>2. PICK S : e \in S /\ s \in Seq(S)
  <2>1. e \in T \cup {e} /\ s \in Seq(T \cup {e})
    BY <1>1, SeqMonotonic
  <2>2. QED
    BY <2>1
<1>3. t \in Seq(S) /\ Len(t) = Len(s) + 1 /\ Len(s) \in Nat
  BY <1>2, AppendProperties, LenProperties
<1>4. t[Len(s) + 1] = e /\ \A i \in 1 .. Len(s) : t[i] = s[i]
  BY <1>2, AppendProperties
<1>5. IsSeq(t)
  BY <1>3, OfItself
<1> HIDE DEF t
<1>6. DOMAIN t = 1 .. Len(s) + 1 /\ DOMAIN s = 1 .. Len(s)
  BY <1>3, <1>5, IsSome
<1>7. \A i \in DOMAIN t : t[i] = e \/ (i \in DOMAIN s /\ t[i] = s[i])
  <2> SUFFICES ASSUME NEW i \in DOMAIN t PROVE t[i] = e \/ (i \in DOMAIN s /\ t[i] = s[i])
    OBVIOUS
  <2>1. i = Len(s) + 1 \/ i \in 1 .. Len(s)
    BY <1>3, <1>6
  <2>2. CASE i = Len(s) + 1
    BY <1>3, <1>4, <2>2
  <2>3. CASE i \in 1 .. Len(s)
    BY <1>4, <1>6, <2>3
  <2>4. QED
    BY <2>1, <2>2, <2>3
<1>8. QED
  BY <1>3, <1>5, <1>7 DEF t

LEMMA TailOf ==
  ASSUME NEW s, s # <<>>, IsSeq(s)
  PROVE  /\ IsSeq(Tail(s)) /\ Len(Tail(s)) = Len(s) - 1
         /\ 1 \in DOMAIN s /\ Head(s) = s[1]
         /\ \A i \in DOMAIN Tail(s) : i + 1 \in DOMAIN s /\ Tail(s)[i] = s[i + 1]
<1> DEFINE t == Tail(s)
<1>1. PICK S : s \in Seq(S)
  BY IsSome
<1>2. t \in Seq(S) /\ Len(t) = Len(s) - 1 /\ \A i \in 1 .. Len(t) : t[i] = s[i + 1]
  BY <1>1, HeadTailProperties
<1>3. Len(s) \in Nat \ {0} /\ DOMAIN s = 1 .. Len(s) /\ Head(s) = s[1]
  BY <1>1, EmptySeq, LenProperties
<1>4. IsSeq(t)
  BY <1>2, OfItself
<1> HIDE DEF t
<1>5. \A i \in DOMAIN t : i + 1 \in DOMAIN s /\ t[i] = s[i + 1]
  BY <1>2, <1>3, <1>4, IsSome
<1>6. QED
  BY <1>2, <1>3, <1>4, <1>5 DEF t

----------------------------------------------------------------------------
(* Each action keeps the invariant.                                           *)

\* A UUID more is known of.
LEMMA KnownStill ==
  ASSUME NEW k, NEW more, Known(k), DOMAIN k \subseteq DOMAIN more, \A u \in DOMAIN k : more[u] = k[u]
  PROVE  Known(more)
<1>1. ASSUME NEW column, NEW value, GoodValue(k, column, value) PROVE GoodValue(more, column, value)
  BY <1>1 DEF GoodValue
<1>2. ASSUME NEW u, NEW row, GoodRow(k, u, row) PROVE GoodRow(more, u, row)
  BY <1>1, <1>2 DEF GoodRow
<1>3. ASSUME NEW rows, GoodRows(k, rows) PROVE GoodRows(more, rows)
  BY <1>2, <1>3 DEF GoodRows
<1>4. ASSUME NEW txn, GoodTxn(k, txn) PROVE GoodTxn(more, txn)
  <2>1. \A u \in DOMAIN txn.inserts : GoodRow(more, u, txn.inserts[u])
    BY <1>2, <1>4 DEF GoodTxn
  <2>2. ASSUME NEW x \in DOMAIN txn.writes
        PROVE  /\ x[1] \in DOMAIN more /\ x[2] \in DOMAIN Columns(more[x[1]])
               /\ GoodValue(more, Columns(more[x[1]])[x[2]], txn.writes[x])
    <3>1. /\ x[1] \in DOMAIN k /\ x[2] \in DOMAIN Columns(k[x[1]])
          /\ GoodValue(k, Columns(k[x[1]])[x[2]], txn.writes[x])
      BY <1>4 DEF GoodTxn
    <3>2. more[x[1]] = k[x[1]]
      BY <3>1
    <3>3. QED
      BY <1>1, <3>1, <3>2
  <2>3. QED
    BY <2>1, <2>2 DEF GoodTxn
<1>5. ASSUME NEW q, Planned(k, q) PROVE Planned(more, q)
  <2>1. q.op = "create" => q.of \in DOMAIN more /\ more[q.of] = k[q.of]
    BY <1>5 DEF Planned
  <2>2. QED
    BY <1>5, <2>1 DEF Planned
<1>6. QED
  BY <1>3, <1>4, <1>5 DEF Known

\* A creation made of rows is planned.
LEMMA MadeIsPlanned ==
  ASSUME NEW k, NEW rows, GoodRows(k, rows), NEW q, Creation(q, rows)
  PROVE  Planned(k, q)
<1> DEFINE x == <<q.of, q.place.column>>
           t == rows[q.of].table
<1>1. /\ q.of \in DOMAIN rows /\ q.place \in Places(t) /\ MayCreate(q.place)
      /\ q.txn.deletes = {} /\ DOMAIN q.txn.inserts = {q.row}
      /\ q.txn.inserts[q.row].table = q.place.table
      /\ q.place.relation = "child" /\ KindOf(t, q.place) # "one" => x \in DOMAIN q.txn.writes
      /\ Grows(q, rows)
  BY DEF Creation
<1>2. q.of \in DOMAIN k /\ k[q.of] = t
  BY <1>1 DEF GoodRows, GoodRow
<1>3. ASSUME x \in DOMAIN q.txn.writes
      PROVE  q.row \in Targets(Columns(t)[q.place.column], q.txn.writes[x])
  <2> DEFINE column == Columns(t)[q.place.column]
             held == rows[q.of].cols[q.place.column]
  <2>1. q.txn.writes[x] = Grown(q, column.kind, held)
    <3>1. q.txn.writes[x] = Grown(q, Columns(rows[x[1]].table)[x[2]].kind, rows[x[1]].cols[x[2]])
      BY <1>1, <1>3 DEF Grows
    <3>2. x[1] = q.of /\ x[2] = q.place.column
      OBVIOUS
    <3>3. QED
      BY <3>1, <3>2
  <2> HIDE DEF x, column
  <2>2. CASE column.kind = "kv"
    <3>1. <<q.index, q.row>> \in q.txn.writes[x]
      BY <2>1, <2>2 DEF Grown
    <3>2. <<q.index, q.row>>[2] = q.row
      OBVIOUS
    <3>3. QED
      BY <2>2, <3>1, <3>2 DEF Targets, column
  <2>3. CASE column.kind # "kv"
    BY <2>1, <2>3 DEF Grown, Targets, column
  <2>4. QED
    BY <2>2, <2>3
<1>4. QED
  BY <1>1, <1>2, <1>3 DEF Planned

Request(op, of, place, index, row, txn) ==
  [op |-> op, of |-> of, place |-> place, index |-> index, row |-> row, txn |-> txn, base |-> replica.version]

\* A request is made of the rows of the replica.
LEMMA CommitKeeps ==
  ASSUME IInv, MaySend, NEW op, NEW of, NEW place, NEW index, NEW row, NEW txn,
         Commit(op, of, place, index, row, txn),
         next' \in Nat, next' <= MaxRows + 1,
         NEW k \in [0 .. next' - 1 -> DOMAIN tables], Known(k), GoodTxn(k, txn),
         op = "create" => Creation(Request(op, of, place, index, row, txn), replica.rows),
         op = "delete" => Deletion(Request(op, of, place, index, row, txn), replica.rows),
         op = "delete" /\ place.relation # "top" => row \in txn.deletes
  PROVE  IInv'
<1> DEFINE q == Request(op, of, place, index, row, txn)
<1>1. /\ sent' = sent \/ sent' = Append(sent, q)
      /\ tables' = tables /\ db' = db /\ replica' = replica /\ wire' = wire
  BY DEF Commit, Request
<1>0. q.base = replica.version /\ q.op = op /\ q.place = place /\ q.row = row /\ q.txn = txn
  BY DEF Request
<1> HIDE DEF q
<1>2. BoundInv'
  <2>1. CASE sent' = sent
    BY <1>1, <2>1 DEF IInv, BoundInv
  <2>2. CASE sent' = Append(sent, q)
    <3>1. IsSeq(sent') /\ Len(sent') = Len(sent) + 1
      BY <2>2, AppendedTo DEF IInv, BoundInv
    <3>2. Len(sent) \in Nat /\ Len(wire) \in Nat
      BY IsSome DEF IInv, BoundInv
    <3>3. Len(sent') + Len(wire') <= MaxSent
      BY <1>1, <3>1, <3>2, BoundsAssumption DEF MaySend
    <3>4. QED
      BY <1>1, <3>1, <3>3 DEF IInv, BoundInv
  <2>3. QED
    BY <1>1, <2>1, <2>2
<1>3. \A i \in DOMAIN sent' : sent'[i] = q \/ (i \in DOMAIN sent /\ sent'[i] = sent[i])
  <2>1. CASE sent' = sent
    BY <2>1
  <2>2. CASE sent' = Append(sent, q)
    BY <2>2, AppendedTo DEF IInv, BoundInv
  <2>3. QED
    BY <1>1, <2>1, <2>2
<1>4. KindInv'
  <2>1. k \in Kinds'
    BY <1>1 DEF Kinds
  <2>2. GoodRows(k, db.rows)' /\ GoodRows(k, replica.rows)'
    BY <1>1, SameRows DEF Known
  <2>3. (\A i \in DOMAIN wire : GoodRows(k, wire[i].rows))'
    BY <1>1, SameRows DEF Known
  <2>0. Planned(k, q)
    <3>1. CASE op = "create"
      BY <3>1, MadeIsPlanned DEF Known, q
    <3>2. CASE op # "create"
      BY <1>0, <3>2 DEF Planned
    <3>3. QED
      BY <3>1, <3>2
  <2>4. (\A i \in DOMAIN sent : GoodTxn(k, sent[i].txn) /\ Planned(k, sent[i]))'
    BY <1>0, <1>1, <1>3, <2>0, SameRows DEF Known
  <2>5. Known(k)'
    BY <2>2, <2>3, <2>4 DEF Known
  <2>6. QED
    BY <2>1, <2>5 DEF KindInv
<1>5. VersionInv'
  BY <1>1 DEF IInv, VersionInv, Version
<1>6. LiveInv'
  BY <1>1, SameRows DEF IInv, LiveInv
<1>7. SentInv'
  <2> SUFFICES ASSUME NEW i \in DOMAIN sent' PROVE Made(sent[i])'
    BY DEF SentInv
  <2>1. CASE i \in DOMAIN sent /\ sent'[i] = sent[i]
    BY <1>1, <2>1, SameRows DEF IInv, SentInv, Made
  <2>2. CASE sent'[i] = q
    <3>1. replica.version \in Nat /\ replica.version <= db.version
      BY DEF IInv, VersionInv, Version
    <3>2. replica.version = db.version => replica.rows = db.rows
      BY DEF IInv, VersionInv, Version
    <3>3. Made(q)
      BY <1>0, <3>1, <3>2 DEF Made, q
    <3>4. QED
      BY <1>1, <2>2, <3>3, SameRows DEF Made
  <2>3. QED
    BY <1>3, <2>1, <2>2
<1>8. QED
  BY <1>2, <1>4, <1>5, <1>6, <1>7 DEF IInv

LEMMA ExecuteKeeps ==
  ASSUME IInv, Execute
  PROVE  IInv'
<1> DEFINE rows == Applied(db.rows, Head(sent).txn)
<1>1. /\ sent # <<>> /\ sent' = Tail(sent) /\ wire' = Append(wire, db')
      /\ tables' = tables /\ replica' = replica /\ next' = next
  BY DEF Execute
<1>2. \/ db' = db
      \/ db' = Data(rows, db.version + 1) /\ db.version < MaxWrites /\ Sound(rows)
  BY DEF Execute
<1>3. /\ IsSeq(sent') /\ Len(sent') = Len(sent) - 1
      /\ 1 \in DOMAIN sent /\ Head(sent) = sent[1]
      /\ \A i \in DOMAIN sent' : i + 1 \in DOMAIN sent /\ sent'[i] = sent[i + 1]
  BY <1>1, TailOf DEF IInv, BoundInv
<1>4. /\ IsSeq(wire') /\ Len(wire') = Len(wire) + 1
      /\ \A i \in DOMAIN wire' : wire'[i] = db' \/ (i \in DOMAIN wire /\ wire'[i] = wire[i])
  BY <1>1, AppendedTo DEF IInv, BoundInv
<1>5. /\ db.version \in Nat /\ db.version <= MaxWrites
      /\ replica.version \in Nat /\ replica.version <= db.version
      /\ \A i \in DOMAIN wire : wire[i].version \in Nat /\ wire[i].version <= db.version
  BY DEF IInv, VersionInv, Version
<1> HIDE DEF rows
<1>6. /\ db'.version \in Nat /\ db'.version <= MaxWrites
      /\ db'.version > db.version \/ db' = db
  BY <1>2, <1>5, BoundsAssumption DEF Data
<1>7. BoundInv'
  <2>1. Len(sent) \in Nat /\ Len(wire) \in Nat
    BY IsSome DEF IInv, BoundInv
  <2>2. QED
    BY <1>1, <1>3, <1>4, <2>1 DEF IInv, BoundInv
<1>8. KindInv'
  <2>1. PICK k \in Kinds : Known(k)
    BY DEF IInv, KindInv
  <2>2. k \in Kinds'
    BY <1>1, <2>1 DEF Kinds
  <2>3. GoodRows(k, db'.rows)
    <3>1. CASE db' = db
      BY <2>1, <3>1 DEF Known
    <3>2. CASE db' = Data(rows, db.version + 1) /\ Sound(rows)
      <4>1. GoodRows(k, db.rows) /\ GoodTxn(k, Head(sent).txn)
        BY <1>3, <2>1 DEF Known
      <4>2. GoodRows(k, rows)
        BY <3>2, <4>1, AppliedIsGood DEF rows
      <4>3. QED
        BY <3>2, <4>2 DEF Data
    <3>3. QED
      BY <1>2, <3>1, <3>2
  <2>4. GoodRows(k, db.rows)' /\ GoodRows(k, replica.rows)'
    BY <1>1, <2>1, <2>3, SameRows DEF Known
  <2>5. (\A i \in DOMAIN wire : GoodRows(k, wire[i].rows))'
    BY <1>1, <1>4, <2>1, <2>3, SameRows DEF Known
  <2>6. (\A i \in DOMAIN sent : GoodTxn(k, sent[i].txn) /\ Planned(k, sent[i]))'
    BY <1>1, <1>3, <2>1, SameRows DEF Known
  <2>7. Known(k)'
    BY <2>4, <2>5, <2>6 DEF Known
  <2>8. QED
    BY <2>2, <2>7 DEF KindInv
<1>9. VersionInv'
  <2>1. Version(db)'
    BY <1>6 DEF Version
  <2>2. ASSUME NEW data, Version(data) PROVE Version(data)'
    <3>1. CASE db' = db
      BY <2>2, <3>1 DEF Version
    <3>2. CASE db'.version > db.version
      BY <1>5, <1>6, <2>2, <3>2 DEF Version
    <3>3. QED
      BY <1>6, <3>1, <3>2
  <2>3. Version(replica)'
    BY <1>1, <2>2 DEF IInv, VersionInv
  <2>4. (\A i \in DOMAIN wire : Version(wire[i]))'
    BY <1>4, <2>1, <2>2 DEF IInv, VersionInv
  <2>5. QED
    BY <1>6, <2>3, <2>4 DEF VersionInv
<1>10. LiveInv'
  <2>1. CASE db' = db
    BY <1>1, <2>1, SameRows DEF IInv, LiveInv
  <2>2. CASE db' = Data(rows, db.version + 1)
    <3>1. Live(rows) = DOMAIN rows
      BY LiveOfCollected DEF rows, Applied
    <3>2. db'.rows = rows
      BY <2>2 DEF Data
    <3>3. QED
      BY <1>1, <3>1, <3>2, SameRows DEF LiveInv
  <2>3. QED
    BY <1>2, <2>1, <2>2
<1>11. SentInv'
  <2> SUFFICES ASSUME NEW i \in DOMAIN sent' PROVE Made(sent[i])'
    BY DEF SentInv
  <2>1. PICK q : sent'[i] = q /\ Made(q)
    BY <1>3 DEF IInv, SentInv
  <2>2. Made(q)'
    <3>1. CASE db' = db
      BY <1>1, <2>1, <3>1, SameRows DEF Made
    <3>2. CASE db'.version > db.version
      BY <1>5, <1>6, <2>1, <3>2 DEF Made
    <3>3. QED
      BY <1>6, <3>1, <3>2
  <2>3. QED
    BY <2>1, <2>2
<1>12. QED
  BY <1>7, <1>8, <1>9, <1>10, <1>11 DEF IInv

LEMMA ReadKeeps ==
  ASSUME IInv, Read
  PROVE  IInv'
<1>1. /\ wire # <<>> /\ wire' = Tail(wire) /\ replica' = Head(wire)
      /\ tables' = tables /\ db' = db /\ sent' = sent /\ next' = next
  BY DEF Read
<1>2. /\ IsSeq(wire') /\ Len(wire') = Len(wire) - 1
      /\ 1 \in DOMAIN wire /\ replica' = wire[1]
      /\ \A i \in DOMAIN wire' : i + 1 \in DOMAIN wire /\ wire'[i] = wire[i + 1]
  BY <1>1, TailOf DEF IInv, BoundInv
<1>3. BoundInv'
  <2>1. Len(sent) \in Nat /\ Len(wire) \in Nat
    BY IsSome DEF IInv, BoundInv
  <2>2. MaxSent \in Nat
    BY BoundsAssumption
  <2>3. QED
    BY <1>1, <1>2, <2>1, <2>2 DEF IInv, BoundInv
<1>4. KindInv'
  <2>1. PICK k \in Kinds : Known(k)
    BY DEF IInv, KindInv
  <2>2. k \in Kinds'
    BY <1>1, <2>1 DEF Kinds
  <2>3. GoodRows(k, replica'.rows)
    BY <1>2, <2>1 DEF Known
  <2>4. GoodRows(k, db.rows)' /\ GoodRows(k, replica.rows)'
    BY <1>1, <2>1, <2>3, SameRows DEF Known
  <2>5. (\A i \in DOMAIN wire : GoodRows(k, wire[i].rows))'
    BY <1>1, <1>2, <2>1, SameRows DEF Known
  <2>6. (\A i \in DOMAIN sent : GoodTxn(k, sent[i].txn) /\ Planned(k, sent[i]))'
    BY <1>1, <2>1, SameRows DEF Known
  <2>7. Known(k)'
    BY <2>4, <2>5, <2>6 DEF Known
  <2>8. QED
    BY <2>2, <2>7 DEF KindInv
<1>5. VersionInv'
  <2>1. ASSUME NEW data, Version(data) PROVE Version(data)'
    BY <1>1, <2>1 DEF Version
  <2>2. Version(replica)'
    BY <1>2, <2>1 DEF IInv, VersionInv
  <2>3. (\A i \in DOMAIN wire : Version(wire[i]))'
    BY <1>2, <2>1 DEF IInv, VersionInv
  <2>4. QED
    BY <1>1, <2>2, <2>3 DEF IInv, VersionInv
<1>6. LiveInv'
  BY <1>1, SameRows DEF IInv, LiveInv
<1>7. SentInv'
  BY <1>1, SameRows DEF IInv, SentInv, Made
<1>8. QED
  BY <1>3, <1>4, <1>5, <1>6, <1>7 DEF IInv

LEMMA InitIInv == Init => IInv
<1> SUFFICES ASSUME Init PROVE IInv
  OBVIOUS
<1> DEFINE row == Row(System, None)
           rows == [u \in {SystemRow} |-> row]
           k == [u \in 0 .. next - 1 |-> System]
<1>1. /\ tables \in Schemas /\ db.rows = rows /\ db.version = 0 /\ replica = db
      /\ sent = <<>> /\ wire = <<>> /\ next = 1
  BY DEF Init, Data
<1>2. /\ DOMAIN row = {"table", "name", "cols"} /\ row.table = System
      /\ DOMAIN row.cols = DOMAIN Columns(System) /\ \A c \in DOMAIN row.cols : row.cols[c] = {}
  BY DEF Row
<1> HIDE DEF row
<1>3. \A column : GoodValue(k, column, {}) /\ Targets(column, {}) = {}
  BY DEF GoodValue, Targets
<1>4. RefsOf(row) = {}
  BY <1>2, <1>3, RefsAreHeld
<1>5. System \in DOMAIN tables
  BY <1>1, SchemaFacts
<1>6. k \in Kinds /\ DOMAIN k = {0} /\ k[0] = System
  BY <1>1, <1>5 DEF Kinds
<1> HIDE DEF k
<1>7. GoodRows(k, rows)
  <2>1. GoodRow(k, SystemRow, row)
    BY <1>2, <1>3, <1>6 DEF GoodRow, SystemRow
  <2>2. QED
    BY <1>4, <2>1 DEF GoodRows
<1>8. Live(rows) = DOMAIN rows
  BY <1>2 DEF Live, Keeps, IsRoot
<1> HIDE DEF rows
<1>9. BoundInv
  <2>1. IsSeq(sent) /\ Len(sent) = 0
    BY <1>1, EmptySeq DEF IsSeq
  <2>2. QED
    BY <1>1, <2>1, BoundsAssumption DEF BoundInv
<1>10. KindInv
  BY <1>1, <1>6, <1>7 DEF KindInv, Known
<1>11. VersionInv
  BY <1>1, BoundsAssumption DEF VersionInv, Version
<1>12. LiveInv /\ SentInv
  BY <1>1, <1>8 DEF LiveInv, SentInv
<1>13. QED
  BY <1>9, <1>10, <1>11, <1>12 DEF IInv

\* A value with less in it is as good.
LEMMA LessIsGood ==
  ASSUME NEW k, NEW column, NEW value, GoodValue(k, column, value), NEW less \in SUBSET value
  PROVE  GoodValue(k, column, less)
<1>1. Targets(column, less) \subseteq Targets(column, value)
  BY DEF Targets
<1>2. QED
  BY <1>1 DEF GoodValue

\* A row is of the table that it is known to be of.
LEMMA KnownRow ==
  ASSUME NEW k, NEW rows, GoodRows(k, rows), NEW u \in DOMAIN rows
  PROVE  /\ u \in DOMAIN k /\ rows[u].table = k[u]
         /\ DOMAIN rows[u].cols = DOMAIN Columns(k[u])
         /\ \A c \in DOMAIN Columns(k[u]) : GoodValue(k, Columns(k[u])[c], rows[u].cols[c])
         /\ k \in Kinds => u \in 0 .. next - 1 /\ k[u] \in DOMAIN tables
BY DEF GoodRows, GoodRow, Kinds

\* What is written of the values that are set.
LEMMA WhatIsSet ==
  ASSUME NEW values
  PROVE  /\ \A x \in DOMAIN SetColumns(values) :
              x \in DOMAIN values /\ Conforms(ColumnOf(x), values[x]) /\ SetColumns(values)[x] = values[x]
         /\ \A x \in DOMAIN values : Conforms(ColumnOf(x), values[x]) => x \in DOMAIN SetColumns(values)
BY DEF SetColumns

LEMMA AtMostOne ==
  ASSUME NEW S
  PROVE  /\ IsFiniteSet(S) /\ Cardinality(S) <= 1 => \A u, v \in S : u = v
         /\ (\A u, v \in S : u = v) => Cardinality(S) <= 1
<1>1. ASSUME IsFiniteSet(S), Cardinality(S) <= 1 PROVE \A u, v \in S : u = v
  <2>1. Cardinality(S) = 0 \/ Cardinality(S) = 1
    BY <1>1, FS_CardinalityType
  <2>2. S = {} \/ \E x : S = {x}
    BY <1>1, <2>1, FS_EmptySet, FS_Singleton
  <2>3. QED
    BY <2>2
<1>2. ASSUME \A u, v \in S : u = v PROVE Cardinality(S) <= 1
  <2>1. S = {} \/ \E x : S = {x}
    BY <1>2
  <2>2. Cardinality(S) = 0 \/ Cardinality(S) = 1
    BY <2>1, FS_EmptySet, FS_Singleton
  <2>3. QED
    BY <2>2
<1>3. QED
  BY <1>1, <1>2

\* A transaction is good if its rows are, and the values that it writes.
LEMMA WritesAreGood ==
  ASSUME NEW k, GoodRows(k, replica.rows), NEW inserts, NEW values, NEW gone,
         \A u \in DOMAIN inserts : GoodRow(k, u, inserts[u]),
         \A x \in DOMAIN values :
           /\ x[1] \in DOMAIN replica.rows /\ x[2] \in DOMAIN Columns(replica.rows[x[1]].table)
           /\ Conforms(ColumnOf(x), values[x]) => GoodValue(k, ColumnOf(x), values[x])
  PROVE  GoodTxn(k, Txn(inserts, SetColumns(values), gone))
<1> DEFINE txn == Txn(inserts, SetColumns(values), gone)
<1>1. txn.inserts = inserts /\ txn.writes = SetColumns(values)
  BY DEF Txn
<1> HIDE DEF txn
<1>2. ASSUME NEW x \in DOMAIN txn.writes
      PROVE  /\ x[1] \in DOMAIN k /\ x[2] \in DOMAIN Columns(k[x[1]])
             /\ GoodValue(k, Columns(k[x[1]])[x[2]], txn.writes[x])
  <2>1. x \in DOMAIN values /\ Conforms(ColumnOf(x), values[x]) /\ txn.writes[x] = values[x]
    BY <1>1, WhatIsSet
  <2>2. x[1] \in DOMAIN replica.rows /\ replica.rows[x[1]].table = k[x[1]] /\ x[1] \in DOMAIN k
    BY <2>1, KnownRow
  <2>3. ColumnOf(x) = Columns(k[x[1]])[x[2]]
    BY <2>2 DEF ColumnOf
  <2>4. QED
    BY <2>1, <2>2, <2>3
<1>3. QED
  BY <1>1, <1>2 DEF GoodTxn, txn

LEMMA NoRowIsBad ==
  ASSUME NEW k
  PROVE  \A u \in DOMAIN NoRows : GoodRow(k, u, NoRows[u])
BY DEF NoRows

LEMMA PutKeeps ==
  ASSUME IInv, Put
  PROVE  IInv'
<1>1. PICK k \in Kinds : Known(k)
  BY DEF IInv, KindInv
<1>2. PICK u \in DOMAIN replica.rows :
        \E c \in DOMAIN Columns(replica.rows[u].table) : \E value \in Values(Columns(replica.rows[u].table)[c]) :
          Commit("update", u, None, None, u, Txn(NoRows, SetColumn(u, c, value), {}))
  BY DEF Put
<1> DEFINE t == replica.rows[u].table
<1>3. PICK c \in DOMAIN Columns(t) : \E value \in Values(Columns(t)[c]) :
        Commit("update", u, None, None, u, Txn(NoRows, SetColumn(u, c, value), {}))
  BY <1>2
<1>4. PICK value \in Values(Columns(t)[c]) :
        Commit("update", u, None, None, u, Txn(NoRows, SetColumn(u, c, value), {}))
  BY <1>3
<1> DEFINE column == Columns(t)[c]
           us == RowsOf(replica.rows, column.to)
           txn == Txn(NoRows, SetColumn(u, c, value), {})
<1>5. GoodRows(k, replica.rows) /\ t = k[u] /\ t \in DOMAIN tables
  BY <1>1, KnownRow DEF Known
<1>6. column.kind \in {"list", "one", "kv"}
  BY <1>5, IInv, SchemaFacts DEF IInv, BoundInv
<1>7. GoodValue(k, column, value)
  <2>1. \A v \in us : v \in DOMAIN k /\ k[v] = column.to
    BY <1>5, KnownRow DEF RowsOf
  <2>2. CASE column.kind = "kv"
    <3>1. value \subseteq Names \X us /\ \A p, q \in value : p[1] = q[1] => p = q
      BY <2>2 DEF Values
    <3>2. Targets(column, value) \subseteq us
      BY <2>2, <3>1 DEF Targets
    <3>3. QED
      BY <2>1, <2>2, <3>1, <3>2 DEF GoodValue
  <2>3. CASE column.kind = "one"
    <3>1. value \subseteq us /\ Cardinality(value) <= 1
      BY <2>3 DEF Values
    <3>2. IsFiniteSet(value)
      <4>1. us \subseteq 0 .. next - 1 /\ next \in Nat
        BY <1>5, KnownRow DEF RowsOf, IInv, BoundInv
      <4>2. IsFiniteSet(0 .. next - 1)
        BY <4>1, FS_Interval
      <4>3. QED
        BY <3>1, <4>1, <4>2, FS_Subset
    <3>3. \A v, w \in value : v = w
      BY <3>1, <3>2, AtMostOne
    <3>4. QED
      BY <2>1, <2>3, <3>1, <3>3 DEF GoodValue, Targets
  <2>4. CASE column.kind = "list"
    <3>1. value \subseteq us
      BY <2>4 DEF Values
    <3>2. QED
      BY <2>1, <2>4, <3>1 DEF GoodValue, Targets
  <2>5. QED
    BY <1>6, <2>2, <2>3, <2>4
<1>8. GoodTxn(k, txn)
  <2> DEFINE values == [x \in {<<u, c>>} |-> value]
  <2>1. \A x \in DOMAIN values :
          /\ x[1] \in DOMAIN replica.rows /\ x[2] \in DOMAIN Columns(replica.rows[x[1]].table)
          /\ Conforms(ColumnOf(x), values[x]) => GoodValue(k, ColumnOf(x), values[x])
    BY <1>7 DEF ColumnOf
  <2> HIDE DEF values
  <2>2. QED
    BY <1>5, <2>1, NoRowIsBad, WritesAreGood DEF SetColumn, values
<1>9. next' = next /\ next \in Nat /\ next <= MaxRows + 1 /\ MaySend
  BY DEF Put, IInv, BoundInv
<1> HIDE DEF txn
<1>10. QED
  BY <1>1, <1>4, <1>8, <1>9, CommitKeeps DEF txn, Kinds

LEMMA DeleteAllKeeps ==
  ASSUME IInv, DeleteAll
  PROVE  IInv'
<1>1. PICK k \in Kinds : Known(k)
  BY DEF IInv, KindInv
<1>. PICK of \in DOMAIN replica.rows : \E place \in Places(replica.rows[of].table) :
        \/ /\ place.relation = "child"
           /\ \E gone : Commit("delete_all", of, place, None, None, Txn(NoRows, SetColumn(of, place.column, {}), gone))
        \/ \E gone : Commit("delete_all", of, place, None, None, Txn(NoRows, NoRows, gone))
  BY DEF DeleteAll
<1>2. PICK place \in Places(replica.rows[of].table) :
        \/ /\ place.relation = "child"
           /\ \E gone : Commit("delete_all", of, place, None, None, Txn(NoRows, SetColumn(of, place.column, {}), gone))
        \/ \E gone : Commit("delete_all", of, place, None, None, Txn(NoRows, NoRows, gone))
  OBVIOUS
<1>3. GoodRows(k, replica.rows) /\ Known(k)
  BY <1>1 DEF Known
<1>4. next' = next /\ next \in Nat /\ next <= MaxRows + 1 /\ MaySend
  BY DEF DeleteAll, IInv, BoundInv
<1>5. k \in [0 .. next' - 1 -> DOMAIN tables]
  BY <1>1, <1>4 DEF Kinds
<1>6. ASSUME NEW gone, place.relation = "child",
             Commit("delete_all", of, place, None, None, Txn(NoRows, SetColumn(of, place.column, {}), gone))
      PROVE  IInv'
  <2> DEFINE txn == Txn(NoRows, SetColumn(of, place.column, {}), gone)
  <2>1. GoodTxn(k, txn)
    <3> DEFINE values == [x \in {<<of, place.column>>} |-> {}]
    <3>1. place.column \in DOMAIN Columns(replica.rows[of].table)
      BY <1>6, PlaceFacts
    <3>2. \A x \in DOMAIN values :
            /\ x[1] \in DOMAIN replica.rows /\ x[2] \in DOMAIN Columns(replica.rows[x[1]].table)
            /\ Conforms(ColumnOf(x), values[x]) => GoodValue(k, ColumnOf(x), values[x])
      <4>1. \A column : GoodValue(k, column, {})
        BY DEF GoodValue, Targets
      <4>2. \A x \in DOMAIN values : x[1] = of /\ x[2] = place.column /\ values[x] = {}
        OBVIOUS
      <4>3. QED
        BY <3>1, <4>1, <4>2
    <3> HIDE DEF values
    <3>3. QED
      BY <1>3, <3>2, NoRowIsBad, WritesAreGood DEF SetColumn, values
  <2> HIDE DEF txn
  <2>2. QED
    BY <1>3, <1>4, <1>5, <1>6, <2>1, CommitKeeps DEF txn
<1>7. ASSUME NEW gone, Commit("delete_all", of, place, None, None, Txn(NoRows, NoRows, gone))
      PROVE  IInv'
  <2> DEFINE txn == Txn(NoRows, NoRows, gone)
  <2>1. GoodTxn(k, txn)
    BY DEF GoodTxn, Txn, NoRows
  <2> HIDE DEF txn
  <2>2. QED
    BY <1>3, <1>4, <1>5, <1>7, <2>1, CommitKeeps DEF txn
<1>8. QED
  BY <1>2, <1>6, <1>7

\* The columns that refer to a table.
LEMMA ReferringFacts ==
  ASSUME NEW t
  PROVE  /\ \A x \in ReferringTo(t) :
              /\ x = <<x[1], x[2]>> /\ x[1] \in DOMAIN replica.rows
              /\ x[2] \in DOMAIN Columns(replica.rows[x[1]].table) /\ ColumnOf(x).to = t
         /\ \A u \in DOMAIN replica.rows : \A c \in DOMAIN Columns(replica.rows[u].table) :
              replica.rows[u].table \in DOMAIN tables /\ Columns(replica.rows[u].table)[c].to = t =>
                <<u, c>> \in ReferringTo(t)
BY DEF ReferringTo, ColumnOf

\* What a column holds is good, as its row is.
LEMMA ValueIsGood ==
  ASSUME NEW k, GoodRows(k, replica.rows), NEW x,
         x[1] \in DOMAIN replica.rows, x[2] \in DOMAIN Columns(replica.rows[x[1]].table)
  PROVE  GoodValue(k, ColumnOf(x), Value(x))
BY KnownRow DEF ColumnOf, Value

\* Another row of its table may be added to what a column holds.
LEMMA MoreIsGood ==
  ASSUME next \in Nat, NEW k \in Kinds, NEW column, NEW held, GoodValue(k, column, held),
         NEW more, DOMAIN more = DOMAIN k \cup {next}, \A u \in DOMAIN k : more[u] = k[u],
         more[next] = column.to
  PROVE  /\ column.kind # "kv" /\ Conforms(column, held \cup {next}) => GoodValue(more, column, held \cup {next})
         /\ column.kind = "kv" =>
              \A key : GoodValue(more, column, {p \in held : p[1] # key} \cup {<<key, next>>})
<1>1. ASSUME column.kind # "kv", Conforms(column, held \cup {next})
      PROVE  GoodValue(more, column, held \cup {next})
  <2>1. \A u \in held : u \in DOMAIN k /\ k[u] = column.to
    BY <1>1 DEF GoodValue, Targets
  <2>2. \A u \in held \cup {next} : u \in DOMAIN more /\ more[u] = column.to
    BY <2>1
  <2>3. column.kind = "one" => \A u, v \in held \cup {next} : u = v
    <3>1. held \subseteq 0 .. next - 1
      BY <2>1 DEF Kinds
    <3>2. IsFiniteSet(held \cup {next})
      <4>1. IsFiniteSet(0 .. next - 1)
        BY FS_Interval
      <4>2. IsFiniteSet(held)
        BY <3>1, <4>1, FS_Subset
      <4>3. QED
        BY <4>2, FS_AddElement
    <3>3. column.kind = "one" => Cardinality(held \cup {next}) <= 1
      BY <1>1 DEF Conforms
    <3>4. QED
      BY <3>2, <3>3, AtMostOne
  <2>4. QED
    BY <1>1, <2>2, <2>3 DEF GoodValue, Targets
<1>2. ASSUME column.kind = "kv", NEW key
      PROVE  GoodValue(more, column, {p \in held : p[1] # key} \cup {<<key, next>>})
  <2> DEFINE value == {p \in held : p[1] # key} \cup {<<key, next>>}
  <2>1. \A p \in held : p[2] \in DOMAIN k /\ k[p[2]] = column.to
    BY <1>2 DEF GoodValue, Targets
  <2>2. \A p \in value : p[2] \in DOMAIN more /\ more[p[2]] = column.to
    BY <2>1
  <2>3. \A p, q \in value : p[1] = q[1] => p = q
    <3>1. \A p, q \in held : p[1] = q[1] => p = q
      BY <1>2 DEF GoodValue
    <3>2. QED
      BY <3>1
  <2> HIDE DEF value
  <2>4. QED
    BY <1>2, <2>2, <2>3 DEF GoodValue, Targets, value
<1>3. QED
  BY <1>1, <1>2

\* The columns that a new row is written into have it more.
LEMMA CreationWritesAre ==
  ASSUME tables \in Schemas, next \in Nat, NEW k \in Kinds, GoodRows(k, replica.rows),
         NEW of \in DOMAIN replica.rows, NEW place \in Places(replica.rows[of].table), MayCreate(place),
         NEW name, NEW by \in ReferencedBy(place),
         NEW more, DOMAIN more = DOMAIN k \cup {next}, \A u \in DOMAIN k : more[u] = k[u],
         more[next] = place.table, GoodRows(more, replica.rows),
         NEW inserts, \A u \in DOMAIN inserts : GoodRow(more, u, inserts[u])
  PROVE  LET writes == CreationWrites(of, place, name, by) IN
         /\ GoodTxn(more, Txn(inserts, writes, {}))
         /\ \A x \in DOMAIN writes :
              /\ x = <<x[1], x[2]>> /\ x[1] \in DOMAIN replica.rows
              /\ x[2] \in DOMAIN Columns(replica.rows[x[1]].table)
              /\ writes[x] = IF ColumnOf(x).kind = "kv" THEN {p \in Value(x) : p[1] # name} \cup {<<name, next>>}
                             ELSE Value(x) \cup {next}
         /\ place.relation = "child" =>
              /\ DOMAIN writes \subseteq {<<of, place.column>>}
              /\ KindOf(replica.rows[of].table, place) # "one" => <<of, place.column>> \in DOMAIN writes
         /\ place.relation = "back" => DOMAIN writes = {}
         /\ place.relation = "top" => \A x \in DOMAIN writes : ColumnOf(x).kind = "list"
<1> DEFINE t == replica.rows[of].table
           writes == CreationWrites(of, place, name, by)
           Now(x) == IF ColumnOf(x).kind = "kv" THEN {p \in Value(x) : p[1] # name} \cup {<<name, next>>}
                     ELSE Value(x) \cup {next}
<1>1. ASSUME NEW x, x[1] \in DOMAIN replica.rows, x[2] \in DOMAIN Columns(replica.rows[x[1]].table),
             ColumnOf(x).to = place.table, ColumnOf(x).kind # "kv" => Conforms(ColumnOf(x), Now(x))
      PROVE  GoodValue(more, ColumnOf(x), Now(x))
  <2>1. GoodValue(k, ColumnOf(x), Value(x))
    BY <1>1, ValueIsGood
  <2>2. more[next] = ColumnOf(x).to
    BY <1>1
  <2>3. QED
    BY <1>1, <2>1, <2>2, MoreIsGood
<1>2. CASE place.relation = "child"
  <2> DEFINE x == <<of, place.column>>
             values == [y \in {x} |-> Now(x)]
  <2>1. /\ x = <<x[1], x[2]>> /\ x[1] = of /\ x[2] = place.column
        /\ x[1] \in DOMAIN replica.rows /\ x[2] \in DOMAIN Columns(replica.rows[x[1]].table)
        /\ ColumnOf(x).to = place.table /\ ColumnOf(x).kind = KindOf(t, place) /\ ColumnOf(x).relation = "child"
    BY <1>2, PlaceFacts DEF ColumnOf
  <2>2. writes = SetColumns(values)
    BY <1>2, <2>1 DEF CreationWrites, SetColumn, AddKvReference, AddReference
  <2> HIDE DEF x
  <2>3. DOMAIN values = {x} /\ values[x] = Now(x)
    OBVIOUS
  <2> HIDE DEF values, Now, writes
  <2>4. GoodTxn(more, Txn(inserts, writes, {}))
    <3>1. \A y \in DOMAIN values :
            /\ y[1] \in DOMAIN replica.rows /\ y[2] \in DOMAIN Columns(replica.rows[y[1]].table)
            /\ Conforms(ColumnOf(y), values[y]) => GoodValue(more, ColumnOf(y), values[y])
      BY <1>1, <2>1, <2>3
    <3>2. QED
      BY <2>2, <3>1, WritesAreGood
  <2>5. \A y \in DOMAIN writes : y = x /\ writes[y] = Now(y)
    BY <2>2, <2>3, WhatIsSet
  <2>6. KindOf(t, place) # "one" => x \in DOMAIN writes
    <3>1. KindOf(t, place) # "one" => Conforms(ColumnOf(x), values[x])
      BY <2>1 DEF Conforms
    <3>2. QED
      BY <2>2, <2>3, <3>1, WhatIsSet
  <2>7. /\ \A y \in DOMAIN writes :
             /\ y = <<y[1], y[2]>> /\ y[1] \in DOMAIN replica.rows
             /\ y[2] \in DOMAIN Columns(replica.rows[y[1]].table)
             /\ writes[y] = Now(y)
        /\ DOMAIN writes \subseteq {<<of, place.column>>}
        /\ KindOf(t, place) # "one" => <<of, place.column>> \in DOMAIN writes
    BY <2>1, <2>5, <2>6 DEF x
  <2>8. QED
    BY <1>2, <2>4, <2>7 DEF writes, Now
<1>3. CASE place.relation # "child"
  <2> DEFINE values == [x \in by |-> Value(x) \cup {next}]
  <2>1. writes = SetColumns(values)
    BY <1>3 DEF CreationWrites, AddReference
  <2>2. \A x \in by :
          /\ x = <<x[1], x[2]>> /\ x[1] \in DOMAIN replica.rows
          /\ x[2] \in DOMAIN Columns(replica.rows[x[1]].table)
          /\ ColumnOf(x).to = place.table /\ ColumnOf(x).kind = "list"
    <3>1. by = {} \/ by \subseteq {x \in ReferringTo(place.table) :
                       Columns(replica.rows[x[1]].table)[x[2]]
                         \in [to : {place.table}, relation : {"reference"}, kind : {"list"}]}
      BY DEF ReferencedBy
    <3>2. QED
      BY <3>1, ReferringFacts DEF ColumnOf
  <2>3. place.relation = "back" => by = {}
    BY DEF ReferencedBy
  <2>4. DOMAIN values = by /\ \A x \in by : values[x] = Now(x)
    BY <2>2
  <2> HIDE DEF values, Now, writes
  <2>5. GoodTxn(more, Txn(inserts, writes, {}))
    <3>1. \A x \in DOMAIN values :
            /\ x[1] \in DOMAIN replica.rows /\ x[2] \in DOMAIN Columns(replica.rows[x[1]].table)
            /\ Conforms(ColumnOf(x), values[x]) => GoodValue(more, ColumnOf(x), values[x])
      BY <1>1, <2>2, <2>4
    <3>2. QED
      BY <2>1, <3>1, WritesAreGood
  <2>6. \A x \in DOMAIN writes : x \in by /\ writes[x] = Now(x)
    BY <2>1, <2>4, WhatIsSet
  <2>7. \A x \in DOMAIN writes :
          /\ x = <<x[1], x[2]>> /\ x[1] \in DOMAIN replica.rows
          /\ x[2] \in DOMAIN Columns(replica.rows[x[1]].table)
          /\ writes[x] = Now(x) /\ ColumnOf(x).kind = "list"
    BY <2>2, <2>6
  <2>8. place.relation = "back" => DOMAIN writes = {}
    BY <2>3, <2>6
  <2>9. QED
    BY <1>3, <2>5, <2>7, <2>8 DEF writes, Now
<1>4. QED
  BY <1>2, <1>3

LEMMA PostKeeps ==
  ASSUME IInv, Post
  PROVE  IInv'
<1>1. PICK k \in Kinds : Known(k)
  BY DEF IInv, KindInv
<1>. PICK of \in DOMAIN replica.rows, name \in Names :
       \E place \in Places(replica.rows[of].table) : \E by \in ReferencedBy(place) :
         /\ MayCreate(place)
         /\ Commit("create", of, place, CreateIndex(of, place, name), next,
                   Txn([u \in {next} |-> NewRow(of, place, name)], CreationWrites(of, place, name, by), {}))
  BY DEF Post
<1>. PICK place \in Places(replica.rows[of].table) : \E by \in ReferencedBy(place) :
       /\ MayCreate(place)
       /\ Commit("create", of, place, CreateIndex(of, place, name), next,
                 Txn([u \in {next} |-> NewRow(of, place, name)], CreationWrites(of, place, name, by), {}))
  OBVIOUS
<1>2. PICK by \in ReferencedBy(place) :
       /\ MayCreate(place)
       /\ Commit("create", of, place, CreateIndex(of, place, name), next,
                 Txn([u \in {next} |-> NewRow(of, place, name)], CreationWrites(of, place, name, by), {}))
  OBVIOUS
<1> DEFINE t == replica.rows[of].table
           row == NewRow(of, place, name)
           inserts == [u \in {next} |-> row]
           writes == CreationWrites(of, place, name, by)
           txn == Txn(inserts, writes, {})
           more == [u \in DOMAIN k \cup {next} |-> IF u = next THEN place.table ELSE k[u]]
           index == CreateIndex(of, place, name)
<1>3. /\ tables \in Schemas /\ next \in Nat /\ next <= MaxRows /\ next' = next + 1 /\ MaySend
      /\ DOMAIN k = 0 .. next - 1 /\ GoodRows(k, replica.rows)
      /\ t = k[of] /\ of \in DOMAIN k /\ t \in DOMAIN tables
  BY <1>1, KnownRow DEF Post, IInv, BoundInv, Known, Kinds
<1>4. place.table \in DOMAIN tables
  BY <1>3, PlaceFacts, SchemaFacts
<1>5. /\ DOMAIN more = DOMAIN k \cup {next} /\ \A u \in DOMAIN k : more[u] = k[u]
      /\ more[next] = place.table
      /\ more \in [0 .. next' - 1 -> DOMAIN tables]
  <2>1. next \notin DOMAIN k /\ DOMAIN k \cup {next} = 0 .. next' - 1
    BY <1>3
  <2>2. \A u \in DOMAIN k : k[u] \in DOMAIN tables
    BY DEF Kinds
  <2>3. QED
    BY <1>4, <2>1, <2>2
<1> HIDE DEF more
<1>6. Known(more) /\ GoodRows(more, replica.rows)
  <2>1. Known(more)
    BY <1>1, <1>5, KnownStill
  <2>2. QED
    BY <2>1 DEF Known
<1>7. /\ DOMAIN row = {"table", "name", "cols"} /\ row.table = place.table
      /\ row.name = IF tables[place.table].key = "name" THEN name ELSE None
      /\ DOMAIN row.cols = DOMAIN Columns(place.table)
      /\ \A c \in DOMAIN row.cols :
           row.cols[c] = IF place.relation = "back" /\ c = ParentColumn(place.table, t) THEN {of} ELSE {}
  BY DEF NewRow, Row
<1>8. place.relation = "back" =>
        /\ ParentColumn(place.table, t) \in DOMAIN Columns(place.table)
        /\ Columns(place.table)[ParentColumn(place.table, t)].to = t
        /\ Columns(place.table)[ParentColumn(place.table, t)].kind # "kv"
  <2>1. place.relation = "back" => ParentColumn(place.table, t) \in ParentColumns(place.table, t)
    BY PlaceFacts DEF ParentColumn
  <2>2. \A c \in ParentColumns(place.table, t) :
          /\ c \in DOMAIN Columns(place.table) /\ Columns(place.table)[c].to = t
          /\ Columns(place.table)[c].relation = "parent"
    BY DEF ParentColumns
  <2>3. \A c \in DOMAIN Columns(place.table) :
          Columns(place.table)[c].kind = "kv" => Columns(place.table)[c].relation = "child"
    BY <1>3, <1>4, SchemaFacts
  <2>4. QED
    BY <2>1, <2>2, <2>3
<1> HIDE DEF row
<1>9. GoodRow(more, next, row)
  <2>1. ASSUME NEW c \in DOMAIN row.cols PROVE GoodValue(more, Columns(row.table)[c], row.cols[c])
    <3>1. CASE row.cols[c] = {}
      BY <3>1 DEF GoodValue, Targets
    <3>2. CASE place.relation = "back" /\ c = ParentColumn(place.table, t) /\ row.cols[c] = {of}
      BY <1>3, <1>5, <1>7, <1>8, <3>2 DEF GoodValue, Targets
    <3>3. QED
      BY <1>7, <3>1, <3>2
  <2>2. QED
    BY <1>5, <1>7, <2>1 DEF GoodRow
<1>10. \A u \in DOMAIN inserts : GoodRow(more, u, inserts[u])
  BY <1>9
<1>11. DOMAIN inserts = {next} /\ inserts[next] = row
  OBVIOUS
<1> HIDE DEF inserts, writes
<1>12. /\ GoodTxn(more, txn)
       /\ \A x \in DOMAIN writes :
            /\ x = <<x[1], x[2]>> /\ x[1] \in DOMAIN replica.rows
            /\ x[2] \in DOMAIN Columns(replica.rows[x[1]].table)
            /\ writes[x] = IF ColumnOf(x).kind = "kv" THEN {p \in Value(x) : p[1] # name} \cup {<<name, next>>}
                           ELSE Value(x) \cup {next}
       /\ place.relation = "child" =>
            /\ DOMAIN writes \subseteq {<<of, place.column>>}
            /\ KindOf(t, place) # "one" => <<of, place.column>> \in DOMAIN writes
       /\ place.relation = "back" => DOMAIN writes = {}
       /\ place.relation = "top" => \A x \in DOMAIN writes : ColumnOf(x).kind = "list"
  BY <1>2, <1>3, <1>5, <1>6, <1>10, CreationWritesAre, SMTT(60) DEF writes
<1> DEFINE q == Request("create", of, place, index, next, txn)
<1>13. Creation(q, replica.rows)
  <2>1. /\ q.of = of /\ q.place = place /\ q.index = index /\ q.row = next
        /\ q.txn.inserts = inserts /\ q.txn.writes = writes /\ q.txn.deletes = {}
    BY DEF Request, Txn
  <2> HIDE DEF q, txn, index
  <2>2. next \in Nat \ DOMAIN replica.rows
    <3>1. \A u \in DOMAIN replica.rows : u \in 0 .. next - 1
      BY <1>3, KnownRow
    <3>2. QED
      BY <1>3, <3>1
  <2>3. KindOf(t, place) = "kv" => index = name
    BY DEF CreateIndex, index
  <2>4. KindOf(t, place) # "kv" => row.name = index
    BY <1>7 DEF CreateIndex, index
  <2>5. place.relation = "back" => row.cols[ParentColumn(place.table, t)] = {of}
    BY <1>7, <1>8
  <2>6. Grows(q, replica.rows)
    <3>1. ASSUME NEW x \in DOMAIN writes
          PROVE  /\ x[1] \in DOMAIN replica.rows /\ x[2] \in DOMAIN replica.rows[x[1]].cols /\ x = <<x[1], x[2]>>
                 /\ writes[x] = Grown(q, ColumnOf(x).kind, Value(x))
      <4>1. DOMAIN replica.rows[x[1]].cols = DOMAIN Columns(replica.rows[x[1]].table)
        BY <1>3, <1>12, KnownRow
      <4>2. ColumnOf(x).kind = "kv" => index = name
        <5>1. ASSUME ColumnOf(x).kind = "kv" PROVE KindOf(t, place) = "kv"
          <6>1. place.relation = "child"
            BY <1>12, <5>1, PlaceFacts
          <6>2. x = <<of, place.column>>
            BY <1>12, <6>1
          <6>3. QED
            BY <5>1, <6>1, <6>2, PlaceFacts DEF ColumnOf
        <5>2. QED
          BY <2>3, <5>1
      <4>3. QED
        BY <1>12, <2>1, <4>1, <4>2 DEF Grown
    <3>2. QED
      BY <2>1, <3>1 DEF Grows, ColumnOf, Value
  <2>7. place.relation = "top" => \A x \in DOMAIN writes : Columns(replica.rows[x[1]].table)[x[2]].kind = "list"
    BY <1>12 DEF ColumnOf
  <2>8. QED
    BY <1>2, <1>7, <1>11, <1>12, <2>1, <2>2, <2>4, <2>5, <2>6, <2>7 DEF Creation
<1> HIDE DEF txn, index
<1>14. Commit("create", of, place, index, next, txn)
  BY <1>2 DEF txn, index, inserts, writes, row
<1>15. next' \in Nat /\ next' <= MaxRows + 1
  BY <1>3, BoundsAssumption
<1>16. QED
  BY <1>3, <1>5, <1>6, <1>12, <1>13, <1>14, <1>15, CommitKeeps

\* The child that is found under an index is the one whose reference is removed.
LEMMA ReferenceRemoved ==
  ASSUME NEW k, NEW of, NEW place \in Places(replica.rows[of].table), place.relation = "child", NEW index,
         NEW u, u = Lookup(replica.rows, of, place, index), u # None,
         NEW x, x = <<of, place.column>>, GoodValue(k, ColumnOf(x), Value(x))
  PROVE  /\ DeleteReference(x, index, u) \subseteq Value(x)
         /\ Targets(ColumnOf(x), DeleteReference(x, index, u)) \ {u} = Targets(ColumnOf(x), Value(x)) \ {u}
<1>1. /\ ColumnOf(x) = Columns(replica.rows[of].table)[place.column]
      /\ Value(x) = replica.rows[of].cols[place.column]
      /\ KindOf(replica.rows[of].table, place) = ColumnOf(x).kind
  BY PlaceFacts DEF ColumnOf, Value
<1>2. CASE ColumnOf(x).kind = "kv"
  <2> DEFINE found == {p \in Value(x) : p[1] = index}
             one == CHOOSE p \in found : TRUE
  <2>1. u = KvIndexToRow(replica.rows, of, place.column, index)
    BY <1>1, <1>2, LookupOfKey
  <2>2. found # {} /\ u = one[2]
    BY <1>1, <2>1 DEF KvIndexToRow
  <2>3. one \in Value(x) /\ one[1] = index
    BY <2>2
  <2> HIDE DEF found, one
  <2>4. \A p \in Value(x) : p[1] = index => p[2] = u
    BY <1>2, <2>2, <2>3 DEF GoodValue
  <2>5. DeleteReference(x, index, u) = {p \in Value(x) : p[1] # index}
    BY <1>2 DEF DeleteReference
  <2>6. QED
    BY <1>2, <2>4, <2>5 DEF Targets
<1>3. CASE ColumnOf(x).kind # "kv"
  BY <1>3 DEF DeleteReference, Targets
<1>4. QED
  BY <1>2, <1>3

\* A row at the top is of the table of its place, and known by its name.
LEMMA TopRow ==
  ASSUME tables \in Schemas, NEW k \in Kinds, GoodRows(k, replica.rows),
         NEW of \in DOMAIN replica.rows, NEW place \in Places(replica.rows[of].table), place.relation = "top",
         NEW index, NEW u, u = Lookup(replica.rows, of, place, index), u # None
  PROVE  /\ u \in DOMAIN replica.rows /\ replica.rows[u].table = place.table /\ k[u] = place.table
         /\ place.table \in DOMAIN tables \ {System} /\ Parent(place.table) = None
         /\ \A t \in DOMAIN tables : \A c \in DOMAIN Columns(t) :
              Columns(t)[c].to = place.table => Columns(t)[c].kind # "kv"
<1>1. KindOf(replica.rows[of].table, place) = "list"
  BY PlaceFacts
<1>2. u = IndexToRow(replica.rows, place.table, index)
  BY <1>1 DEF Lookup
<1>3. u \in RowsOf(replica.rows, place.table)
  BY <1>2 DEF IndexToRow
<1>4. place.table \in DOMAIN tables /\ tables[place.table].key = "name"
  BY <1>1, KnownRow, ListsAreNamed
<1>5. QED
  BY <1>3, <1>4, KnownRow, PlaceFacts, SchemaFacts DEF RowsOf

\* The references to such a row are removed.
LEMMA TopDeleted ==
  ASSUME tables \in Schemas, NEW k \in Kinds, GoodRows(k, replica.rows),
         NEW u \in DOMAIN replica.rows, NEW t, t = replica.rows[u].table,
         t \in DOMAIN tables \ {System}, Parent(t) = None,
         \A o \in DOMAIN tables : \A c \in DOMAIN Columns(o) : Columns(o)[c].to = t => Columns(o)[c].kind # "kv"
  PROVE  LET writes == DeleteAllReferences(u) IN
         /\ \A gone : GoodTxn(k, Txn(NoRows, writes, gone))
         /\ \A x \in DOMAIN writes :
              /\ x[1] \in DOMAIN replica.rows /\ x[2] \in DOMAIN Columns(replica.rows[x[1]].table)
              /\ u \notin Targets(ColumnOf(x), writes[x])
              /\ Targets(ColumnOf(x), writes[x]) \ {u} = Targets(ColumnOf(x), Value(x)) \ {u}
         /\ ParentsStay /\ ~tables[t].root =>
              \A v \in DOMAIN replica.rows : \A c \in DOMAIN Columns(replica.rows[v].table) :
                u \in Targets(ColumnOf(<<v, c>>), Value(<<v, c>>)) => <<v, c>> \in DOMAIN writes
<1> DEFINE values == [x \in ReferringTo(t) |-> Value(x) \ {u}]
           writes == DeleteAllReferences(u)
<1>1. writes = SetColumns(values) /\ DOMAIN values = ReferringTo(t) /\ \A x \in ReferringTo(t) : values[x] = Value(x) \ {u}
  BY DEF DeleteAllReferences
<1> HIDE DEF values, writes
<1>2. ASSUME NEW x \in ReferringTo(t)
      PROVE  /\ x[1] \in DOMAIN replica.rows /\ x[2] \in DOMAIN Columns(replica.rows[x[1]].table)
             /\ GoodValue(k, ColumnOf(x), Value(x)) /\ GoodValue(k, ColumnOf(x), values[x])
             /\ ColumnOf(x).kind # "kv"
  <2>1. /\ x[1] \in DOMAIN replica.rows /\ x[2] \in DOMAIN Columns(replica.rows[x[1]].table)
        /\ ColumnOf(x).to = t
    BY ReferringFacts
  <2>2. GoodValue(k, ColumnOf(x), Value(x))
    BY <2>1, ValueIsGood
  <2>3. GoodValue(k, ColumnOf(x), values[x])
    BY <1>1, <2>2, LessIsGood
  <2>4. replica.rows[x[1]].table \in DOMAIN tables
    BY <2>1, KnownRow
  <2>5. ColumnOf(x).kind # "kv"
    BY <2>1, <2>4 DEF ColumnOf
  <2>6. QED
    BY <2>1, <2>2, <2>3, <2>5
<1>3. ASSUME NEW gone PROVE GoodTxn(k, Txn(NoRows, writes, gone))
  BY <1>1, <1>2, NoRowIsBad, WritesAreGood
<1>4. ASSUME NEW x \in DOMAIN writes
      PROVE  /\ x[1] \in DOMAIN replica.rows /\ x[2] \in DOMAIN Columns(replica.rows[x[1]].table)
             /\ u \notin Targets(ColumnOf(x), writes[x])
             /\ Targets(ColumnOf(x), writes[x]) \ {u} = Targets(ColumnOf(x), Value(x)) \ {u}
  <2>1. x \in ReferringTo(t) /\ writes[x] = Value(x) \ {u}
    BY <1>1, WhatIsSet
  <2>2. QED
    BY <1>2, <2>1 DEF Targets
<1>5. ASSUME ParentsStay, ~tables[t].root,
             NEW v \in DOMAIN replica.rows, NEW c \in DOMAIN Columns(replica.rows[v].table),
             u \in Targets(ColumnOf(<<v, c>>), Value(<<v, c>>))
      PROVE  <<v, c>> \in DOMAIN writes
  <2> DEFINE x == <<v, c>>
             o == replica.rows[v].table
  <2>1. x[1] = v /\ x[2] = c /\ ColumnOf(x) = Columns(o)[c]
    BY DEF ColumnOf
  <2>2. o \in DOMAIN tables /\ c \in DOMAIN Columns(o)
    BY KnownRow
  <2> HIDE DEF x, o
  <2>3. GoodValue(k, ColumnOf(x), Value(x))
    BY <2>1, ValueIsGood DEF o
  <2>4. ColumnOf(x).to = t
    BY <1>5, <2>3, KnownRow DEF GoodValue, x
  <2>5. x \in ReferringTo(t)
    BY <2>1, <2>2, <2>4, ReferringFacts DEF x, o
  <2>6. Conforms(ColumnOf(x), values[x])
    <3>1. ColumnOf(x).relation # "parent"
      BY <1>5, <2>1, <2>2, <2>4 DEF ParentsStay, ParentColumns
    <3>2. ColumnOf(x).kind = "one" => Cardinality(values[x]) <= 1
      BY <1>2, <2>5, AtMostOne DEF GoodValue
    <3>3. QED
      BY <3>1, <3>2 DEF Conforms
  <2>7. QED
    BY <1>1, <2>5, <2>6, WhatIsSet DEF x
<1>6. QED
  BY <1>3, <1>4, <1>5 DEF writes

LEMMA DeleteKeeps ==
  ASSUME IInv, Delete
  PROVE  IInv'
<1>1. PICK k \in Kinds : Known(k)
  BY DEF IInv, KindInv
<1>. PICK of \in DOMAIN replica.rows : \E place \in Places(replica.rows[of].table) : \E index \in Indexes(of, place) :
       LET u == Lookup(replica.rows, of, place, index) IN
       Commit("delete", of, place, index, u, DeletionOf(of, place, index, u))
  BY DEF Delete
<1>. PICK place \in Places(replica.rows[of].table) : \E index \in Indexes(of, place) :
       LET u == Lookup(replica.rows, of, place, index) IN
       Commit("delete", of, place, index, u, DeletionOf(of, place, index, u))
  OBVIOUS
<1>2. PICK index \in Indexes(of, place) :
       LET u == Lookup(replica.rows, of, place, index) IN
       Commit("delete", of, place, index, u, DeletionOf(of, place, index, u))
  OBVIOUS
<1> DEFINE t == replica.rows[of].table
           u == Lookup(replica.rows, of, place, index)
           txn == DeletionOf(of, place, index, u)
           rows == replica.rows
           q == Request("delete", of, place, index, u, txn)
<1>3. /\ tables \in Schemas /\ next \in Nat /\ next <= MaxRows + 1 /\ next' = next /\ MaySend
      /\ GoodRows(k, rows) /\ u # None
      /\ k \in [0 .. next' - 1 -> DOMAIN tables]
  BY <1>1 DEF Delete, IInv, BoundInv, Known, Indexes, Kinds
<1>4. q.place = place /\ q.row = u /\ q.txn = txn
  BY DEF Request
<1> HIDE DEF q, u
<1>5. \A x : x[1] \in DOMAIN rows => DOMAIN rows[x[1]].cols = DOMAIN Columns(rows[x[1]].table)
  BY <1>3, KnownRow
<1>6. CASE place.relation = "child"
  <2> DEFINE x == <<of, place.column>>
             less == DeleteReference(x, index, u)
             values == [y \in {x} |-> less]
  <2>1. txn = Txn(NoRows, SetColumns(values), {u})
    BY <1>6 DEF DeletionOf, SetColumn
  <2>2. x[1] = of /\ x[2] = place.column /\ x[2] \in DOMAIN Columns(rows[x[1]].table)
    BY <1>6, PlaceFacts
  <2>3. GoodValue(k, ColumnOf(x), Value(x))
    BY <1>3, <2>2, ValueIsGood
  <2>4. less \subseteq Value(x) /\ Targets(ColumnOf(x), less) \ {u} = Targets(ColumnOf(x), Value(x)) \ {u}
    BY <1>3, <1>6, <2>3, ReferenceRemoved DEF u
  <2> HIDE DEF x
  <2>5. DOMAIN values = {x} /\ values[x] = less
    OBVIOUS
  <2> HIDE DEF less, values
  <2>6. GoodTxn(k, txn)
    <3>1. GoodValue(k, ColumnOf(x), less)
      BY <2>3, <2>4, LessIsGood
    <3>2. \A y \in DOMAIN values :
            /\ y[1] \in DOMAIN rows /\ y[2] \in DOMAIN Columns(rows[y[1]].table)
            /\ Conforms(ColumnOf(y), values[y]) => GoodValue(k, ColumnOf(y), values[y])
      BY <2>2, <2>5, <3>1
    <3>3. QED
      BY <1>3, <2>1, <3>2, NoRowIsBad, WritesAreGood
  <2>7. txn.inserts = NoRows /\ txn.writes = SetColumns(values) /\ txn.deletes = {u}
    BY <2>1 DEF Txn
  <2>8. \A y \in DOMAIN txn.writes : y = x /\ txn.writes[y] = less
    BY <2>5, <2>7, WhatIsSet
  <2>9. Deletion(q, rows)
    <3>1. DOMAIN NoRows = {}
      BY DEF NoRows
    <3>2. \A y \in DOMAIN txn.writes :
            /\ y[1] \in DOMAIN rows /\ y[2] \in DOMAIN rows[y[1]].cols
            /\ Targets(Columns(rows[y[1]].table)[y[2]], txn.writes[y]) \ {u}
                 = Targets(Columns(rows[y[1]].table)[y[2]], rows[y[1]].cols[y[2]]) \ {u}
      BY <1>5, <2>2, <2>4, <2>8 DEF ColumnOf, Value
    <3> HIDE DEF txn
    <3>3. QED
      BY <1>4, <2>7, <3>1, <3>2 DEF Deletion
  <2> HIDE DEF txn
  <2>10. QED
    BY <1>1, <1>2, <1>3, <2>6, <2>7, <2>9, CommitKeeps DEF q, txn, u
<1>7. CASE place.relation = "back"
  <2>1. txn.inserts = NoRows /\ txn.writes = NoRows /\ txn.deletes = {u}
    BY <1>7 DEF DeletionOf, Txn
  <2>2. DOMAIN NoRows = {}
    BY DEF NoRows
  <2> HIDE DEF txn
  <2>3. GoodTxn(k, txn)
    BY <2>1, <2>2 DEF GoodTxn
  <2>4. Deletion(q, rows)
    BY <1>4, <2>1, <2>2 DEF Deletion
  <2>5. QED
    BY <1>1, <1>2, <1>3, <2>1, <2>3, <2>4, CommitKeeps DEF q, txn, u
<1>8. CASE place.relation = "top"
  <2> DEFINE table == place.table
             writes == DeleteAllReferences(u)
             gone == IF tables[table].root /\ ~IsReferenced(table) THEN {u} ELSE {}
  <2>1. /\ u \in DOMAIN rows /\ rows[u].table = table
        /\ table \in DOMAIN tables \ {System} /\ Parent(table) = None
        /\ \A o \in DOMAIN tables : \A c \in DOMAIN Columns(o) :
             Columns(o)[c].to = table => Columns(o)[c].kind # "kv"
    BY <1>3, <1>8, TopRow DEF u
  <2>2. txn = Txn(NoRows, writes, gone)
    BY <1>8, <2>1 DEF DeletionOf, DeleteTop
  <2>3. /\ GoodTxn(k, Txn(NoRows, writes, gone))
        /\ \A x \in DOMAIN writes :
             /\ x[1] \in DOMAIN rows /\ x[2] \in DOMAIN Columns(rows[x[1]].table)
             /\ u \notin Targets(ColumnOf(x), writes[x])
             /\ Targets(ColumnOf(x), writes[x]) \ {u} = Targets(ColumnOf(x), Value(x)) \ {u}
        /\ ParentsStay /\ ~tables[table].root =>
             \A v \in DOMAIN rows : \A c \in DOMAIN Columns(rows[v].table) :
               u \in Targets(ColumnOf(<<v, c>>), Value(<<v, c>>)) => <<v, c>> \in DOMAIN writes
    BY <1>3, <2>1, TopDeleted
  <2> HIDE DEF writes
  <2>4. txn.inserts = NoRows /\ txn.writes = writes /\ txn.deletes = gone
    BY <2>2 DEF Txn
  <2>5. DOMAIN NoRows = {}
    BY DEF NoRows
  <2> HIDE DEF txn
  <2>6. \A x \in DOMAIN writes :
          /\ x[1] \in DOMAIN rows /\ x[2] \in DOMAIN rows[x[1]].cols
          /\ Targets(Columns(rows[x[1]].table)[x[2]], writes[x]) \ {u}
               = Targets(Columns(rows[x[1]].table)[x[2]], rows[x[1]].cols[x[2]]) \ {u}
    BY <1>5, <2>3 DEF ColumnOf, Value
  <2>7. gone = {} => (tables[table].root => IsReferenced(table))
    OBVIOUS
  <2>8. ~tables[table].root => ~IsRoot(rows[u].table)
    BY <2>1 DEF IsRoot
  <2>9. ASSUME ~tables[table].root, ParentsStay,
               NEW v \in DOMAIN rows, NEW c \in DOMAIN rows[v].cols
        PROVE  IF <<v, c>> \in DOMAIN writes THEN u \notin Targets(Columns(rows[v].table)[c], writes[<<v, c>>])
               ELSE u \notin Targets(Columns(rows[v].table)[c], rows[v].cols[c])
    <3>1. c \in DOMAIN Columns(rows[v].table)
      BY <1>3, KnownRow
    <3>2. ColumnOf(<<v, c>>) = Columns(rows[v].table)[c] /\ Value(<<v, c>>) = rows[v].cols[c]
      BY DEF ColumnOf, Value
    <3>3. QED
      BY <2>3, <2>9, <3>1, <3>2
  <2>10. gone \in {{}, {u}}
    OBVIOUS
  <2> HIDE DEF gone
  <2>11. Deletion(q, rows)
    BY <1>4, <1>8, <2>1, <2>4, <2>5, <2>6, <2>7, <2>8, <2>9, <2>10 DEF Deletion
  <2>12. QED
    BY <1>1, <1>2, <1>3, <1>8, <2>2, <2>3, <2>11, CommitKeeps DEF q, txn, u
<1>9. QED
  BY <1>6, <1>7, <1>8, PlaceFacts

LEMMA NextKeepsIInv == IInv /\ [Next]_vars => IInv'
<1> SUFFICES ASSUME IInv, [Next]_vars PROVE IInv'
  OBVIOUS
<1>1. CASE Post
  BY <1>1, PostKeeps
<1>2. CASE Put
  BY <1>2, PutKeeps
<1>3. CASE Delete
  BY <1>3, DeleteKeeps
<1>4. CASE DeleteAll
  BY <1>4, DeleteAllKeeps
<1>5. CASE Execute
  BY <1>5, ExecuteKeeps
<1>6. CASE Read
  BY <1>6, ReadKeeps
<1>7. CASE UNCHANGED vars
  <2>1. /\ tables' = tables /\ db' = db /\ replica' = replica
        /\ sent' = sent /\ wire' = wire /\ next' = next
    BY <1>7 DEF vars
  <2>2. BoundInv' /\ VersionInv'
    BY <2>1 DEF IInv, BoundInv, VersionInv, Version
  <2>3. KindInv'
    <3>1. PICK k \in Kinds : Known(k)
      BY DEF IInv, KindInv
    <3>2. k \in Kinds'
      BY <2>1, <3>1 DEF Kinds
    <3>3. Known(k)'
      BY <2>1, <3>1, SameRows DEF Known
    <3>4. QED
      BY <3>2, <3>3 DEF KindInv
  <2>4. LiveInv' /\ SentInv'
    BY <2>1, SameRows DEF IInv, LiveInv, SentInv, Made
  <2>5. QED
    BY <2>2, <2>3, <2>4 DEF IInv
<1>8. QED
  BY <1>1, <1>2, <1>3, <1>4, <1>5, <1>6, <1>7 DEF Next

----------------------------------------------------------------------------
(* The theorems.                                                              *)

\* A UUID is of one table, versions are known by their number, everything in the
\* database is kept by its root set, and a request that nothing has come before
\* is made of the rows that the server has.
THEOREM Invariance == Spec => []IInv
<1>1. Init => IInv
  BY InitIInv
<1>2. IInv /\ [Next]_vars => IInv'
  BY NextKeepsIInv
<1>3. QED
  BY <1>1, <1>2, PTL DEF Spec

\* References lead to rows, in the database and in the replica, and no more
\* requests wait than may.
THEOREM TypeCorrect == Spec => []TypeOK
<1>1. IInv => TypeOK
  <2> SUFFICES ASSUME IInv PROVE TypeOK
    OBVIOUS
  <2>1. PICK k \in Kinds : Known(k)
    BY DEF IInv, KindInv
  <2>2. ASSUME NEW rows \in {db.rows, replica.rows}, NEW u \in DOMAIN rows
        PROVE  /\ u < next
               /\ rows[u].table \in DOMAIN tables
               /\ DOMAIN rows[u].cols = DOMAIN Columns(rows[u].table)
               /\ RefsOf(rows[u]) \subseteq DOMAIN rows
    <3>1. GoodRows(k, rows)
      BY <2>1 DEF Known
    <3>2. RefsOf(rows[u]) \subseteq DOMAIN rows
      BY <3>1 DEF GoodRows
    <3>3. next \in Nat
      BY DEF IInv, BoundInv
    <3>4. QED
      BY <3>1, <3>2, <3>3, KnownRow
  <2>3. QED
    BY <2>2 DEF TypeOK, IInv, BoundInv, VersionInv, Version
<1>2. QED
  BY <1>1, Invariance, PTL

\* What is executed is the first of the requests.
LEMMA ExecutedRequest ==
  ASSUME IInv, [Next]_vars, NEW op, Executed(op), NEW q, q = Head(sent)
  PROVE  /\ q.op = op /\ Made(q)
         /\ db'.rows = Applied(db.rows, q.txn) /\ Sound(Applied(db.rows, q.txn))
         /\ \E k \in Kinds : GoodRows(k, db.rows) /\ GoodTxn(k, q.txn) /\ Planned(k, q)
<1>1. db' # db
  BY DEF Executed
<1>2. Execute
  BY <1>1 DEF Next, Post, Put, Delete, DeleteAll, Read, Commit, vars
<1>3. db'.rows = Applied(db.rows, q.txn) /\ Sound(Applied(db.rows, q.txn))
  BY <1>1, <1>2 DEF Execute, Data
<1>4. 1 \in DOMAIN sent /\ q = sent[1]
  BY TailOf DEF Executed, IInv, BoundInv
<1>5. Made(q)
  BY <1>4 DEF IInv, SentInv
<1>6. \E k \in Kinds : GoodRows(k, db.rows) /\ GoodTxn(k, q.txn) /\ Planned(k, q)
  BY <1>4 DEF IInv, KindInv, Known
<1>7. q.op = op
  BY DEF Executed
<1>8. QED
  BY <1>3, <1>5, <1>6, <1>7

\* The row of a creation is kept, if its parent is.
LEMMA CreationStays ==
  ASSUME NEW k, NEW rows, NEW q, GoodRows(k, rows), GoodTxn(k, q.txn), q.op = "create", Planned(k, q),
         NEW h, h = Applied(rows, q.txn), q.place.relation # "top", q.of \in DOMAIN h,
         KindOf(h[q.of].table, q.place) # "one"
  PROVE  q.row \in DOMAIN h
<1> DEFINE g == Executing(rows, q.txn)
           x == <<q.of, q.place.column>>
<1>1. DOMAIN h = Live(g) /\ \A u \in Live(g) : h[u] = g[u]
  BY DEF Applied, Collected
<1>2. Live(g) \subseteq DOMAIN g /\ Keeps(g, Live(g))
  BY LiveIsLeast
<1>3. /\ q.txn.deletes = {} /\ q.row \in DOMAIN q.txn.inserts
      /\ q.txn.inserts[q.row].table = q.place.table
      /\ q.of \in DOMAIN k /\ q.place \in Places(k[q.of]) /\ MayCreate(q.place)
      /\ q.place.relation = "child" /\ KindOf(k[q.of], q.place) # "one" =>
           x \in DOMAIN q.txn.writes /\ q.row \in Targets(Columns(k[q.of])[q.place.column], q.txn.writes[x])
  BY DEF Planned
<1>4. q.row \in DOMAIN g
  BY <1>3 DEF Executing
<1>5. \A u \in DOMAIN g : GoodRow(k, u, g[u])
  BY ExecutedIsGood
<1>6. q.of \in Live(g) /\ g[q.of].table = k[q.of] /\ DOMAIN g[q.of].cols = DOMAIN Columns(k[q.of])
  BY <1>1, <1>2, <1>5 DEF GoodRow
<1>7. KindOf(k[q.of], q.place) # "one"
  BY <1>1, <1>6
<1>8. CASE q.place.relation = "back"
  <2>1. tables[q.place.table].root
    BY <1>3, <1>8 DEF MayCreate
  <2>2. g[q.row].table = q.place.table
    <3>1. GoodRow(k, q.row, q.txn.inserts[q.row]) /\ GoodRow(k, q.row, g[q.row])
      BY <1>3, <1>4, <1>5 DEF GoodTxn
    <3>2. QED
      BY <1>3, <3>1 DEF GoodRow
  <2> HIDE DEF g
  <2>3. QED
    BY <1>1, <1>2, <1>4, <2>1, <2>2 DEF Keeps, IsRoot
<1>9. CASE q.place.relation = "child"
  <2>1. q.place.column \in DOMAIN Columns(k[q.of])
    BY <1>3, <1>9, PlaceFacts
  <2>2. x \in DOMAIN q.txn.writes /\ q.row \in Targets(Columns(k[q.of])[q.place.column], q.txn.writes[x])
    BY <1>3, <1>7, <1>9
  <2>3. g[q.of].cols[q.place.column] = q.txn.writes[x]
    <3> DEFINE row == IF q.of \in DOMAIN q.txn.inserts THEN q.txn.inserts[q.of] ELSE rows[q.of]
    <3>1. g[q.of] = Written(row, q.of, q.txn.writes) /\ GoodRow(k, q.of, row)
      BY <1>2, <1>6, ExecutingRow DEF GoodRows, GoodTxn
    <3> HIDE DEF row, g
    <3>2. /\ DOMAIN row = {"table", "name", "cols"}
          /\ DOMAIN row.cols = DOMAIN Columns(k[q.of])
      BY <3>1 DEF GoodRow
    <3>3. QED
      BY <2>1, <2>2, <3>1, <3>2, WrittenRow
  <2>4. q.row \in RefsOf(g[q.of])
    BY <1>6, <2>1, <2>2, <2>3, RefsAreHeld
  <2> HIDE DEF g
  <2>5. QED
    BY <1>1, <1>2, <1>4, <1>6, <2>4 DEF Keeps
<1>10. QED
  BY <1>3, <1>8, <1>9, PlaceFacts

\* The row of a creation is kept as long as its parent is.  When nothing has come
\* before it, a creation takes no row away, and its Location leads to the row if
\* no other has its name, but in the three cases that are excepted.
THEOREM Creations == Spec => CreationAdds
<1> DEFINE q == Head(sent)
           rows == db.rows
           kind == KindOf(rows[q.of].table, q.place)
           Kept == q.place.relation # "top" /\ q.of \in DOMAIN db'.rows /\ KindOf(db'.rows[q.of].table, q.place) # "one"
                     => q.row \in DOMAIN db'.rows
           Found == q.index \notin Unsafe /\ Alone(db'.rows, q.row) =>
                      Lookup(db'.rows, q.of, q.place, Unquoted(q.index)) = q.row
           Adds == \/ kind = "one"
                   \/ kind = "kv" /\ Lookup(rows, q.of, q.place, q.index) # None
                   \/ q.place.relation = "top" /\ ~tables[q.place.table].root /\ DOMAIN q.txn.writes = {}
                   \/ DOMAIN db'.rows = DOMAIN rows \cup {q.row} /\ Found
<1>1. ASSUME IInv, [Next]_vars, Executed("create") PROVE Kept /\ (Undisturbed => Adds)
  <2>1. /\ q.op = "create" /\ Made(q)
        /\ db'.rows = Applied(rows, q.txn) /\ Sound(Applied(rows, q.txn))
        /\ \E k \in Kinds : GoodRows(k, rows) /\ GoodTxn(k, q.txn) /\ Planned(k, q)
    BY <1>1, ExecutedRequest
  <2>2. PICK k \in Kinds : GoodRows(k, rows) /\ GoodTxn(k, q.txn) /\ Planned(k, q)
    BY <2>1
  <2>3. \A u \in DOMAIN k : u \in Nat /\ k[u] \in DOMAIN tables
    BY <1>1 DEF Kinds, IInv, BoundInv
  <2>4. Undisturbed => Creation(q, rows)
    BY <1>1, <2>1 DEF Made, Undisturbed
  <2>5. tables \in Schemas /\ Live(rows) = DOMAIN rows
    BY <1>1 DEF IInv, BoundInv, LiveInv
  <2>6. Sound(Applied(rows, q.txn)) /\ db'.rows = Applied(rows, q.txn) /\ q.op = "create"
    BY <2>1
  <2> HIDE DEF q, rows
  <2>7. ASSUME Undisturbed, Ordinary(q, rows)
        PROVE  DOMAIN db'.rows = DOMAIN rows \cup {q.row} /\ Found
    <3>1. /\ DOMAIN Applied(rows, q.txn) = DOMAIN rows \cup {q.row}
          /\ Alone(Applied(rows, q.txn), q.row) => Lookup(Applied(rows, q.txn), q.of, q.place, q.index) = q.row
      BY <2>2, <2>3, <2>4, <2>5, <2>6, <2>7, CreationSucceeds
    <3>2. q.index \notin Unsafe => Unquoted(q.index) = q.index
      BY DEF Unquoted
    <3>3. QED
      BY <2>6, <3>1, <3>2
  <2>8. Kept
    <3> SUFFICES ASSUME q.place.relation # "top", q.of \in DOMAIN db'.rows,
                        KindOf(db'.rows[q.of].table, q.place) # "one"
                 PROVE  q.row \in DOMAIN db'.rows
      OBVIOUS
    <3>1. QED
      BY <2>2, <2>6, CreationStays
  <2>9. QED
    BY <2>7, <2>8 DEF Ordinary
<1>2. IInv /\ [Next]_vars => [Executed("create") => Kept /\ (Undisturbed => Adds)]_vars
  BY <1>1
<1>3. QED
  BY <1>2, Invariance, PTL DEF CreationAdds, Spec

\* The schema does not change.
LEMMA ParentsStayed == Spec /\ ParentsStay => []ParentsStay
<1>1. ParentsStay /\ [Next]_vars => ParentsStay'
  <2> SUFFICES ASSUME ParentsStay, [Next]_vars PROVE ParentsStay'
    OBVIOUS
  <2>1. tables' = tables
    BY DEF Next, Post, Put, Delete, DeleteAll, Execute, Read, Commit, vars
  <2>2. QED
    BY <2>1, SameColumns
<1>2. QED
  BY <1>1, PTL DEF Spec

\* A deletion removes the child, or the row that refers to its parent, whatever
\* has come before it; when nothing has, it takes away what the row alone keeps,
\* but a row of the root set that others may refer to stays.
THEOREM Deletions == Spec /\ ParentsStay => DeletionRemoves
<1> DEFINE q == Head(sent)
           left == Collected([u \in DOMAIN db.rows \ {q.row} |-> db.rows[u]])
           Removes ==
             /\ q.place.relation # "top" => q.row \notin DOMAIN db'.rows
             /\ Undisturbed /\ ~(q.place.relation = "top" /\ tables[q.place.table].root /\ IsReferenced(q.place.table)) =>
                  DOMAIN db'.rows = DOMAIN left
<1>1. ASSUME IInv, ParentsStay, [Next]_vars, Executed("delete") PROVE Removes
  <2>1. /\ q.op = "delete" /\ Made(q)
        /\ db'.rows = Applied(db.rows, q.txn)
        /\ \E k \in Kinds : GoodRows(k, db.rows) /\ GoodTxn(k, q.txn)
    BY <1>1, ExecutedRequest
  <2>2. q.place.relation # "top" => q.row \notin DOMAIN db'.rows
    <3>1. q.place.relation # "top" => q.row \in q.txn.deletes
      BY <2>1 DEF Made
    <3>2. DOMAIN Applied(db.rows, q.txn) \subseteq DOMAIN Executing(db.rows, q.txn)
      BY LiveIsLeast DEF Applied, Collected
    <3>3. DOMAIN Executing(db.rows, q.txn) \cap q.txn.deletes = {}
      BY DEF Executing
    <3>4. QED
      BY <2>1, <3>1, <3>2, <3>3
  <2>3. ASSUME Undisturbed, ~Stays(q)
        PROVE  DOMAIN db'.rows = DOMAIN left
    <3>1. Deletion(q, db.rows)
      BY <2>1, <2>3 DEF Made, Undisturbed
    <3>2. PICK k \in Kinds : GoodRows(k, db.rows)
      BY <2>1
    <3>3. db'.rows = Applied(db.rows, q.txn)
      BY <2>1
    <3> HIDE DEF q
    <3>4. DOMAIN Applied(db.rows, q.txn) = DOMAIN Collected(Without(db.rows, q.row))
      BY <1>1, <2>3, <3>1, <3>2, DeletionSucceeds
    <3>5. QED
      BY <3>3, <3>4 DEF Without
  <2>4. QED
    BY <2>2, <2>3 DEF Stays
<1>2. IInv /\ ParentsStay /\ [Next]_vars => [Executed("delete") => Removes]_vars
  BY <1>1
<1>3. QED
  BY <1>2, Invariance, ParentsStayed, PTL DEF DeletionRemoves, Spec

----------------------------------------------------------------------------
(* Recursive functions.                                                       *)

LEMMA LeastNumber ==
  ASSUME NEW T \in SUBSET Nat, T # {}
  PROVE  \E n \in T : \A m \in T : ~(m < n)
<1> DEFINE R == {p \in Nat \X Nat : p[1] < p[2]}
<1>1. IsWellFoundedOn(R, Nat)
  BY NatLessThanWellFounded DEF OpToRel
<1>2. \A m, n \in Nat : m < n => <<m, n>> \in R
  OBVIOUS
<1> HIDE DEF R
<1>3. PICK n \in T : \A m \in T : <<m, n>> \notin R
  BY <1>1, WFMin
<1>4. QED
  BY <1>2, <1>3

\* The value of each element is made of those of the elements below it.
MadeFromBelow(S, V, M, rank, G) ==
  /\ V # {} /\ M \in Nat /\ rank \in [S -> 0 .. M] /\ G \in [S -> [[S -> V] -> V]]
  /\ \A v \in S : \A f, g \in [S -> V] :
       (\A w \in S : rank[w] < rank[v] => f[w] = g[w]) => G[v][f] = G[v][g]

AllMade(S, V, G, f) == f \in [S -> V] /\ \A v \in S : f[v] = G[v][f]

LEMMA Recursion ==
  ASSUME NEW S, NEW V, NEW M, NEW rank, NEW G, MadeFromBelow(S, V, M, rank, G)
  PROVE  \E f : AllMade(S, V, G, f)
<1> USE DEF MadeFromBelow
<1> DEFINE Upto(m) == \E f \in [S -> V] : \A v \in S : rank[v] < m => f[v] = G[v][f]
           T == {m \in 0 .. M + 1 : ~Upto(m)}
<1>1. Upto(0)
  <2>1. PICK x \in V : TRUE
    OBVIOUS
  <2>2. [v \in S |-> x] \in [S -> V] /\ \A v \in S : ~(rank[v] < 0)
    OBVIOUS
  <2>3. QED
    BY <2>2
<1>2. ASSUME NEW m \in 1 .. M + 1, Upto(m - 1)
      PROVE  Upto(m)
  <2>1. PICK f \in [S -> V] : \A v \in S : rank[v] < m - 1 => f[v] = G[v][f]
    BY <1>2
  <2> DEFINE g == [v \in S |-> IF rank[v] < m - 1 THEN f[v] ELSE G[v][f]]
  <2>2. g \in [S -> V]
    OBVIOUS
  <2>3. \A v \in S : rank[v] < m - 1 => g[v] = f[v]
    OBVIOUS
  <2>4. \A v \in S : g[v] = G[v][f]
    BY <2>1
  <2> HIDE DEF g
  <2>5. ASSUME NEW v \in S, rank[v] < m PROVE g[v] = G[v][g]
    <3>1. rank[v] \in Nat /\ \A w \in S : rank[w] \in Nat
      OBVIOUS
    <3>2. \A w \in S : rank[w] < rank[v] => g[w] = f[w]
      BY <2>3, <2>5, <3>1
    <3>3. QED
      BY <2>2, <2>4, <3>2
  <2>6. QED
    BY <2>2, <2>5
<1> HIDE DEF Upto
<1>3. T = {}
  <2> SUFFICES ASSUME T # {} PROVE FALSE
    OBVIOUS
  <2>1. PICK m \in T : \A k \in T : ~(k < m)
    <3>1. T \in SUBSET Nat
      OBVIOUS
    <3> HIDE DEF T
    <3>2. QED
      BY <3>1, LeastNumber
  <2>2. m \in 1 .. M + 1
    BY <1>1
  <2>3. m - 1 \in 0 .. M + 1 /\ m - 1 < m
    BY <2>2
  <2>4. Upto(m - 1)
    BY <2>1, <2>3
  <2>5. QED
    BY <1>2, <2>2, <2>4
<1>4. Upto(M + 1)
  BY <1>3
<1>5. PICK f \in [S -> V] : \A v \in S : rank[v] < M + 1 => f[v] = G[v][f]
  BY <1>4 DEF Upto
<1>6. \A v \in S : rank[v] < M + 1
  OBVIOUS
<1>7. QED
  BY <1>5, <1>6 DEF AllMade

\* Paths that are made from above: each begins anew, is that of the element above,
\* or that and a step more; a path from a root begins with the step.
FromAbove(S, M, rank, E, base, step, above, Begins) ==
  /\ M \in Nat /\ rank \in [S -> 0 .. M]
  /\ base \in [S -> Seq(E)] /\ step \in [S -> E] /\ Begins \in SUBSET S
  /\ \A v \in S \ Begins : above[v] \in S /\ rank[above[v]] < rank[v]

PathFromAbove(base, step, above, Begins, Skips, Roots, f, v) ==
  LET top == IF above[v] \in Roots THEN <<>> ELSE f[above[v]]
  IN IF v \in Begins THEN base[v] ELSE IF v \in Skips THEN top ELSE Append(top, step[v])

AllFromAbove(S, E, base, step, above, Begins, Skips, Roots, f) ==
  /\ f \in [S -> Seq(E)]
  /\ \A v \in S : f[v] = PathFromAbove(base, step, above, Begins, Skips, Roots, f, v)

LEMMA PathsFromAbove ==
  ASSUME NEW S, NEW M, NEW rank, NEW E, NEW base, NEW step, NEW above, NEW Begins, NEW Skips, NEW Roots,
         FromAbove(S, M, rank, E, base, step, above, Begins)
  PROVE  \E f : AllFromAbove(S, E, base, step, above, Begins, Skips, Roots, f)
<1> USE DEF FromAbove, PathFromAbove
<1> DEFINE V == Seq(E)
           At(v, f) == PathFromAbove(base, step, above, Begins, Skips, Roots, f, v)
           G == [v \in S |-> [f \in [S -> V] |-> At(v, f)]]
<1>1. <<>> \in V /\ \A s \in V : \A e \in E : Append(s, e) \in V
  OBVIOUS
<1>2. base \in [S -> V]
  OBVIOUS
<1> HIDE DEF V
<1>3. ASSUME NEW v \in S, NEW f \in [S -> V] PROVE At(v, f) \in V
  <2>1. CASE v \in Begins
    BY <1>2, <2>1
  <2>2. CASE v \notin Begins
    <3>1. f[above[v]] \in V /\ step[v] \in E
      BY <2>2
    <3> DEFINE top == IF above[v] \in Roots THEN <<>> ELSE f[above[v]]
    <3>2. top \in V
      BY <1>1, <3>1
    <3>3. Append(top, step[v]) \in V
      BY <1>1, <3>1, <3>2
    <3>4. QED
      BY <2>2, <3>2, <3>3
  <2>3. QED
    BY <2>1, <2>2
<1>4. ASSUME NEW v \in S, NEW f \in [S -> V], NEW g \in [S -> V],
             \A w \in S : rank[w] < rank[v] => f[w] = g[w]
      PROVE  At(v, f) = At(v, g)
  <2>1. v \notin Begins => f[above[v]] = g[above[v]]
    BY <1>4
  <2>2. QED
    BY <2>1
<1>5. \A v \in S : \A f \in [S -> V] : G[v][f] = At(v, f)
  OBVIOUS
<1> HIDE DEF At
<1>6. G \in [S -> [[S -> V] -> V]]
  BY <1>3
<1> HIDE DEF G
<1>7. \A v \in S : \A f, g \in [S -> V] :
        (\A w \in S : rank[w] < rank[v] => f[w] = g[w]) => G[v][f] = G[v][g]
  <2> SUFFICES ASSUME NEW v \in S, NEW f \in [S -> V], NEW g \in [S -> V],
                      \A w \in S : rank[w] < rank[v] => f[w] = g[w]
               PROVE  G[v][f] = G[v][g]
    OBVIOUS
  <2>1. At(v, f) = At(v, g)
    BY <1>4
  <2>2. G[v][f] = At(v, f)
    BY <1>5
  <2>3. G[v][g] = At(v, g)
    BY <1>5
  <2>4. QED
    BY <2>1, <2>2, <2>3
<1>8. PICK f : AllMade(S, V, G, f)
  <2>1. MadeFromBelow(S, V, M, rank, G)
    BY <1>1, <1>6, <1>7 DEF MadeFromBelow
  <2>2. QED
    BY <2>1, Recursion
<1>9. f \in [S -> V] /\ \A v \in S : f[v] = At(v, f)
  BY <1>5, <1>8 DEF AllMade
<1>10. QED
  BY <1>9 DEF At, V, AllFromAbove

----------------------------------------------------------------------------
(* Where a path leads.                                                        *)

\* The rows it leads over.
Over(rows, path, f) ==
  f = [n \in 0 .. Len(path) |-> IF n = 0 THEN SystemRow ELSE GoOn(rows, f[n - 1], path[n])]

LEMMA OneWay ==
  ASSUME NEW rows, NEW path, Len(path) \in Nat, NEW f, NEW g, Over(rows, path, f), Over(rows, path, g)
  PROVE  f[Len(path)] = g[Len(path)]
<1> DEFINE T == {n \in 0 .. Len(path) : f[n] # g[n]}
<1>1. f[0] = SystemRow /\ \A n \in 1 .. Len(path) : f[n] = GoOn(rows, f[n - 1], path[n])
  BY DEF Over
<1>2. g[0] = SystemRow /\ \A n \in 1 .. Len(path) : g[n] = GoOn(rows, g[n - 1], path[n])
  BY DEF Over
<1>3. T = {}
  <2> SUFFICES ASSUME T # {} PROVE FALSE
    OBVIOUS
  <2>1. PICK n \in T : \A k \in T : ~(k < n)
    <3>1. T \in SUBSET Nat
      OBVIOUS
    <3> HIDE DEF T
    <3>2. QED
      BY <3>1, LeastNumber
  <2>2. n # 0
    BY <1>1, <1>2
  <2>3. n - 1 \in 0 .. Len(path) /\ n - 1 < n /\ n \in 1 .. Len(path)
    BY <2>2
  <2>4. f[n - 1] = g[n - 1]
    BY <2>1, <2>3
  <2>5. QED
    BY <1>1, <1>2, <2>3, <2>4
<1>4. QED
  BY <1>3

Leads(rows, path, u) == \E E : path \in Seq(E) /\ \E f : Over(rows, path, f) /\ f[Len(path)] = u

LEMMA LeadsThere ==
  ASSUME NEW rows, NEW path, NEW u, Leads(rows, path, u)
  PROVE  Follow(rows, path) = u
<1>1. PICK f : Over(rows, path, f) /\ f[Len(path)] = u
  BY DEF Leads
<1>2. Len(path) \in Nat
  BY LenProperties DEF Leads
<1> DEFINE at == CHOOSE g : Over(rows, path, g)
<1>3. Over(rows, path, at)
  BY <1>1
<1>4. at[Len(path)] = u
  <2> HIDE DEF at
  <2>1. QED
    BY <1>1, <1>2, <1>3, OneWay
<1>5. Follow(rows, path) = at[Len(path)]
  BY DEF Follow, Over
<1>6. QED
  BY <1>4, <1>5

LEMMA LeadsFromSystem ==
  ASSUME NEW rows
  PROVE  Leads(rows, <<>>, SystemRow)
<1> DEFINE f == [n \in 0 .. 0 |-> SystemRow]
<1>1. Len(<<>>) = 0 /\ <<>> \in Seq({}) /\ f[0] = SystemRow
  OBVIOUS
<1>2. Over(rows, <<>>, f)
  BY <1>1 DEF Over
<1>3. QED
  BY <1>1, <1>2 DEF Leads

\* A step more leads where it goes on to.
LEMMA LeadsOn ==
  ASSUME NEW rows, NEW path, NEW u, Leads(rows, path, u), NEW step
  PROVE  Leads(rows, Append(path, step), GoOn(rows, u, step))
<1>1. PICK E : path \in Seq(E)
  BY DEF Leads
<1>2. PICK f : Over(rows, path, f) /\ f[Len(path)] = u
  BY DEF Leads
<1> DEFINE n == Len(path)
           longer == Append(path, step)
           g == [i \in 0 .. n + 1 |-> IF i = n + 1 THEN GoOn(rows, u, step) ELSE f[i]]
<1>3. /\ n \in Nat /\ longer \in Seq(E \cup {step}) /\ Len(longer) = n + 1
      /\ longer[n + 1] = step /\ \A i \in 1 .. n : longer[i] = path[i]
  <2>1. path \in Seq(E \cup {step})
    BY <1>1
  <2> HIDE DEF longer
  <2>2. QED
    BY <2>1, AppendProperties, LenProperties DEF longer
<1>4. f[0] = SystemRow /\ \A i \in 1 .. n : f[i] = GoOn(rows, f[i - 1], path[i])
  BY <1>2, <1>3 DEF Over
<1> HIDE DEF n, longer
<1>5. ASSUME NEW i \in 0 .. n + 1
      PROVE  g[i] = IF i = 0 THEN SystemRow ELSE GoOn(rows, g[i - 1], longer[i])
  <2>1. CASE i = 0
    BY <1>3, <1>4, <2>1
  <2>2. CASE i \in 1 .. n
    <3>1. g[i] = f[i] /\ g[i - 1] = f[i - 1]
      BY <1>3, <2>2
    <3>2. QED
      BY <1>3, <1>4, <2>2, <3>1
  <2>3. CASE i = n + 1
    <3>1. g[i] = GoOn(rows, u, step) /\ g[i - 1] = f[n] /\ i # 0
      BY <1>3, <2>3
    <3>2. QED
      BY <1>2, <1>3, <2>3, <3>1 DEF n
  <2>4. QED
    BY <1>3, <2>1, <2>2, <2>3
<1>6. Over(rows, longer, g)
  BY <1>3, <1>5 DEF Over
<1>7. g[Len(longer)] = GoOn(rows, u, step)
  BY <1>3
<1>8. QED
  BY <1>3, <1>6, <1>7 DEF Leads, longer

----------------------------------------------------------------------------
(* What is known of rows for their URIs.                                      *)

\* No table is above itself.
Acyclic ==
  \E M \in Nat : \E rank \in [DOMAIN tables -> 0 .. M] :
    \A t \in DOMAIN tables : Parent(t) # None => rank[Parent(t)] < rank[t]

\* System is below none, for neither reason.
SystemIsRoot ==
  /\ \A c \in DOMAIN Columns(System) : Columns(System)[c].relation # "parent"
  /\ \A t \in DOMAIN tables : \A c \in ChildColumns(t) : Columns(t)[c].to # System

\* A name in a path stands for one thing.
NamesDiffer == \A t \in DOMAIN tables : \A p, q \in Places(t) : StepName(p) = StepName(q) => p = q

\* A column of many children is called as their table in the plural.
ColumnsArePlural ==
  \A t \in DOMAIN tables : \A c \in ChildColumns(t) :
    Columns(t)[c].kind # "one" => c = tables[Columns(t)[c].to].plural

\* A row refers to one parent.
ParentsAreSingle ==
  \A t \in DOMAIN tables : \A c \in DOMAIN Columns(t) :
    Columns(t)[c].relation = "parent" => Columns(t)[c].kind = "one"

Linkable == Acyclic /\ SystemIsRoot /\ NamesDiffer /\ ColumnsArePlural /\ ParentsAreSingle

\* There is one row of System.
Rooted(rows) == SystemRow \in DOMAIN rows /\ \A u \in DOMAIN rows : rows[u].table = System <=> u = SystemRow

Wholesome(rows) == Sound(rows) /\ Rooted(rows)

\* It is not deleted or inserted again.
Spares(txn) ==
  /\ SystemRow \notin txn.deletes \cup DOMAIN txn.inserts
  /\ \A u \in DOMAIN txn.inserts : txn.inserts[u].table # System

RootInv ==
  /\ Wholesome(db.rows) /\ Wholesome(replica.rows)
  /\ \A i \in DOMAIN wire : Wholesome(wire[i].rows)
  /\ \A i \in DOMAIN sent : Spares(sent[i].txn)

LEMMA SameLinks ==
  ASSUME tables' = tables
  PROVE  /\ \A rows : Wholesome(rows)' <=> Wholesome(rows)
         /\ SystemIsRoot' <=> SystemIsRoot
         /\ Linkable' <=> Linkable
<1>1. \A rows : Wholesome(rows)' <=> Wholesome(rows)
  <2>1. \A rows : Sound(rows)' <=> Sound(rows)
    BY SameRows DEF Sound, RowsOf
  <2>2. QED
    BY <2>1 DEF Wholesome, Rooted
<1>2. \A t : ChildColumns(t)' = ChildColumns(t)
  BY SameColumns DEF ChildColumns
<1>3. SystemIsRoot' <=> SystemIsRoot
  BY <1>2, SameColumns DEF SystemIsRoot
<1>4. Acyclic' <=> Acyclic
  BY SameColumns DEF Acyclic
<1>5. NamesDiffer' <=> NamesDiffer
  BY SameColumns DEF NamesDiffer, StepName
<1>6. (ColumnsArePlural' <=> ColumnsArePlural) /\ (ParentsAreSingle' <=> ParentsAreSingle)
  BY <1>2, SameColumns DEF ColumnsArePlural, ParentsAreSingle
<1>7. QED
  BY <1>1, <1>3, <1>4, <1>5, <1>6 DEF Linkable

\* What a row refers to is there, and of the table of the column.
LEMMA HeldRow ==
  ASSUME NEW k, NEW rows, GoodRows(k, rows), NEW of \in DOMAIN rows, NEW c \in DOMAIN Columns(rows[of].table),
         NEW v \in Targets(Columns(rows[of].table)[c], rows[of].cols[c])
  PROVE  v \in DOMAIN rows /\ rows[v].table = Columns(rows[of].table)[c].to
<1>1. rows[of].table = k[of] /\ c \in DOMAIN rows[of].cols
  BY KnownRow
<1>2. k[v] = Columns(rows[of].table)[c].to
  BY <1>1, KnownRow DEF GoodValue
<1>3. v \in RefsOf(rows[of])
  BY <1>1, RefsAreHeld
<1>4. v \in DOMAIN rows
  BY <1>3 DEF GoodRows
<1>5. QED
  BY <1>2, <1>4, KnownRow

LEMMA PlaceBelow ==
  ASSUME tables \in Schemas, SystemIsRoot, NEW t \in DOMAIN tables, NEW place \in Places(t)
  PROVE  place.table \in DOMAIN tables \ {System}
<1>1. CASE place.relation = "child"
  <2>1. place.column \in ChildColumns(t) /\ place.table = Columns(t)[place.column].to
    BY <1>1, PlaceFacts DEF ChildColumns
  <2>2. QED
    BY <2>1, SchemaFacts DEF SystemIsRoot, ChildColumns
<1>2. CASE place.relation = "back"
  BY <1>2, PlaceFacts DEF SystemIsRoot, ParentColumns
<1>3. CASE place.relation = "top"
  BY <1>3, PlaceFacts
<1>4. QED
  BY <1>1, <1>2, <1>3, PlaceFacts

\* What a path leads to is there, and of the table of the place.
LEMMA FoundRow ==
  ASSUME NEW k, NEW rows, GoodRows(k, rows), NEW of \in DOMAIN rows,
         NEW place \in Places(rows[of].table), NEW index,
         NEW u, u = Lookup(rows, of, place, index), u # None
  PROVE  u \in DOMAIN rows /\ rows[u].table = place.table
<1> DEFINE t == rows[of].table
           found == IndexToRow(rows, place.table, index)
<1>1. found # None => found \in DOMAIN rows /\ rows[found].table = place.table
  BY DEF IndexToRow, RowsOf
<1> HIDE DEF found
<1>2. CASE KindOf(t, place) = "kv"
  <2>1. place.relation = "child"
    BY <1>2, PlaceFacts
  <2>2. /\ place.column \in DOMAIN Columns(t) /\ place.table = Columns(t)[place.column].to
        /\ Columns(t)[place.column].kind = "kv"
    BY <1>2, <2>1, PlaceFacts
  <2>3. u = KvIndexToRow(rows, of, place.column, index)
    BY <1>2, LookupOfKey
  <2>4. \E p \in rows[of].cols[place.column] : u = p[2]
    BY <2>3 DEF KvIndexToRow
  <2>5. u \in Targets(Columns(t)[place.column], rows[of].cols[place.column])
    BY <2>2, <2>4 DEF Targets
  <2>6. QED
    BY <2>2, <2>5, HeldRow
<1>3. CASE KindOf(t, place) = "one"
  <2>1. place.relation = "child"
    BY <1>3, PlaceFacts
  <2>2. /\ place.column \in DOMAIN Columns(t) /\ place.table = Columns(t)[place.column].to
        /\ Columns(t)[place.column].kind = "one"
    BY <1>3, <2>1, PlaceFacts
  <2>3. u \in rows[of].cols[place.column]
    <3> DEFINE held == rows[of].cols[place.column]
    <3>1. u = IF index # None \/ held = {} THEN None ELSE CHOOSE v \in held : TRUE
      BY <1>3, <2>1 DEF Lookup
    <3> HIDE DEF held
    <3>2. held # {} /\ u = CHOOSE v \in held : TRUE
      BY <3>1
    <3>3. QED
      BY <3>2 DEF held
  <2>4. u \in Targets(Columns(t)[place.column], rows[of].cols[place.column])
    BY <2>2, <2>3 DEF Targets
  <2>5. QED
    BY <2>2, <2>4, HeldRow
<1>4. CASE KindOf(t, place) \notin {"kv", "one"}
  <2>1. u = found
    BY <1>4 DEF Lookup, found
  <2>2. QED
    BY <1>1, <2>1
<1>5. QED
  BY <1>2, <1>3, <1>4

----------------------------------------------------------------------------
(* The row of System stays, and indexes are unique.                           *)

LEMMA CommitSpares ==
  ASSUME IInv, RootInv, NEW op, NEW of, NEW place, NEW index, NEW row, NEW txn,
         Commit(op, of, place, index, row, txn), Spares(txn)
  PROVE  RootInv'
<1>1. tables' = tables /\ db' = db /\ replica' = replica /\ wire' = wire
  BY DEF Commit
<1>2. \A i \in DOMAIN sent' : Spares(sent'[i].txn)
  <2> DEFINE q == [op |-> op, of |-> of, place |-> place, index |-> index,
                   row |-> row, txn |-> txn, base |-> replica.version]
  <2>1. q.txn = txn
    OBVIOUS
  <2>2. sent' = sent \/ sent' = Append(sent, q)
    BY DEF Commit
  <2> HIDE DEF q
  <2>3. CASE sent' = sent
    BY <2>3 DEF RootInv
  <2>4. CASE sent' = Append(sent, q)
    <3>1. \A i \in DOMAIN sent' : sent'[i] = q \/ (i \in DOMAIN sent /\ sent'[i] = sent[i])
      BY <2>4, AppendedTo DEF IInv, BoundInv
    <3>2. QED
      BY <2>1, <3>1 DEF RootInv
  <2>5. QED
    BY <2>2, <2>3, <2>4
<1>3. \A txn_1 : Spares(txn_1)' <=> Spares(txn_1)
  BY DEF Spares
<1>4. (\A i \in DOMAIN sent : Spares(sent[i].txn))'
  BY <1>2, <1>3
<1>5. QED
  BY <1>1, <1>4, SameLinks DEF RootInv

LEMMA PostSpares ==
  ASSUME IInv, RootInv, SystemIsRoot, Post
  PROVE  RootInv'
<1>1. PICK k \in Kinds : Known(k)
  BY DEF IInv, KindInv
<1>. PICK of \in DOMAIN replica.rows, name \in Names :
       \E place \in Places(replica.rows[of].table) : \E by \in ReferencedBy(place) :
         /\ MayCreate(place)
         /\ Commit("create", of, place, CreateIndex(of, place, name), next,
                   Txn([u \in {next} |-> NewRow(of, place, name)], CreationWrites(of, place, name, by), {}))
  BY DEF Post
<1>. PICK place \in Places(replica.rows[of].table) : \E by \in ReferencedBy(place) :
       /\ MayCreate(place)
       /\ Commit("create", of, place, CreateIndex(of, place, name), next,
                 Txn([u \in {next} |-> NewRow(of, place, name)], CreationWrites(of, place, name, by), {}))
  OBVIOUS
<1>2. PICK by \in ReferencedBy(place) :
       Commit("create", of, place, CreateIndex(of, place, name), next,
              Txn([u \in {next} |-> NewRow(of, place, name)], CreationWrites(of, place, name, by), {}))
  OBVIOUS
<1> DEFINE inserts == [u \in {next} |-> NewRow(of, place, name)]
           txn == Txn(inserts, CreationWrites(of, place, name, by), {})
<1>3. next # SystemRow
  <2>1. SystemRow \in DOMAIN k
    BY <1>1, KnownRow DEF RootInv, Wholesome, Rooted, Known
  <2>2. DOMAIN k = 0 .. next - 1 /\ next \in Nat
    BY DEF Kinds, IInv, BoundInv
  <2>3. QED
    BY <2>1, <2>2 DEF SystemRow
<1>4. NewRow(of, place, name).table = place.table
  BY DEF NewRow, Row
<1>5. place.table # System
  <2>1. replica.rows[of].table \in DOMAIN tables /\ tables \in Schemas
    BY <1>1, KnownRow DEF Known, IInv, BoundInv
  <2>2. QED
    BY <2>1, PlaceBelow
<1>6. Spares(txn)
  <2>1. txn.inserts = inserts /\ txn.deletes = {}
    BY DEF Txn
  <2>2. QED
    BY <1>3, <1>4, <1>5, <2>1 DEF Spares
<1> HIDE DEF inserts
<1>7. QED
  BY <1>2, <1>6, CommitSpares DEF inserts

LEMMA SparesAll ==
  ASSUME NEW writes, NEW gone, SystemRow \notin gone
  PROVE  Spares(Txn(NoRows, writes, gone))
BY DEF Spares, Txn, NoRows

LEMMA PutSpares ==
  ASSUME IInv, RootInv, Put
  PROVE  RootInv'
<1>1. \E u \in DOMAIN replica.rows : \E c, value :
        Commit("update", u, None, None, u, Txn(NoRows, SetColumn(u, c, value), {}))
  BY DEF Put
<1>2. QED
  BY <1>1, SparesAll, CommitSpares

LEMMA DeleteSpares ==
  ASSUME IInv, RootInv, SystemIsRoot, Delete
  PROVE  RootInv'
<1>1. PICK k \in Kinds : Known(k)
  BY DEF IInv, KindInv
<1>. PICK of \in DOMAIN replica.rows : \E place \in Places(replica.rows[of].table) : \E index \in Indexes(of, place) :
       LET u == Lookup(replica.rows, of, place, index) IN
       Commit("delete", of, place, index, u, DeletionOf(of, place, index, u))
  BY DEF Delete
<1>. PICK place \in Places(replica.rows[of].table) : \E index \in Indexes(of, place) :
       LET u == Lookup(replica.rows, of, place, index) IN
       Commit("delete", of, place, index, u, DeletionOf(of, place, index, u))
  OBVIOUS
<1>2. PICK index \in Indexes(of, place) :
       LET u == Lookup(replica.rows, of, place, index) IN
       Commit("delete", of, place, index, u, DeletionOf(of, place, index, u))
  OBVIOUS
<1> DEFINE u == Lookup(replica.rows, of, place, index)
           txn == DeletionOf(of, place, index, u)
<1>3. u # None
  BY DEF Indexes
<1>4. u # SystemRow
  <2>1. replica.rows[of].table \in DOMAIN tables /\ tables \in Schemas /\ GoodRows(k, replica.rows)
    BY <1>1, KnownRow DEF Known, IInv, BoundInv
  <2>2. place.table # System
    BY <2>1, PlaceBelow
  <2>3. u \in DOMAIN replica.rows /\ replica.rows[u].table = place.table
    <3> HIDE DEF u
    <3>1. u = Lookup(replica.rows, of, place, index)
      BY DEF u
    <3>2. QED
      BY <1>3, <2>1, <3>1, FoundRow
  <2>4. QED
    BY <2>2, <2>3 DEF RootInv, Wholesome, Rooted
<1> HIDE DEF u
<1>5. \E writes, gone : txn = Txn(NoRows, writes, gone) /\ gone \subseteq {u}
  BY DEF DeletionOf, DeleteTop
<1>6. Spares(txn)
  BY <1>4, <1>5, SparesAll
<1>7. QED
  BY <1>2, <1>6, CommitSpares DEF u

LEMMA DeleteAllSpares ==
  ASSUME IInv, RootInv, SystemIsRoot, DeleteAll
  PROVE  RootInv'
<1>1. PICK k \in Kinds : Known(k)
  BY DEF IInv, KindInv
<1>2. PICK of \in DOMAIN replica.rows : \E place \in Places(replica.rows[of].table) :
        \/ /\ place.relation = "child"
           /\ Commit("delete_all", of, place, None, None,
                Txn(NoRows, SetColumn(of, place.column, {}),
                    Targets(Columns(replica.rows[of].table)[place.column], replica.rows[of].cols[place.column])))
        \/ \E gone \in SUBSET RowsOf(replica.rows, place.table) :
             Commit("delete_all", of, place, None, None, Txn(NoRows, NoRows, gone))
  BY DEF DeleteAll
<1>3. PICK place \in Places(replica.rows[of].table) :
        \/ /\ place.relation = "child"
           /\ Commit("delete_all", of, place, None, None,
                Txn(NoRows, SetColumn(of, place.column, {}),
                    Targets(Columns(replica.rows[of].table)[place.column], replica.rows[of].cols[place.column])))
        \/ \E gone \in SUBSET RowsOf(replica.rows, place.table) :
             Commit("delete_all", of, place, None, None, Txn(NoRows, NoRows, gone))
  BY <1>2
<1> DEFINE t == replica.rows[of].table
           held == Targets(Columns(t)[place.column], replica.rows[of].cols[place.column])
<1>4. t \in DOMAIN tables /\ tables \in Schemas /\ GoodRows(k, replica.rows)
  BY <1>1, KnownRow DEF Known, IInv, BoundInv
<1>5. place.table # System
  BY <1>4, PlaceBelow
<1>6. \A v \in RowsOf(replica.rows, place.table) : v # SystemRow
  BY <1>5 DEF RootInv, Wholesome, Rooted, RowsOf
<1>7. CASE /\ place.relation = "child"
           /\ Commit("delete_all", of, place, None, None, Txn(NoRows, SetColumn(of, place.column, {}), held))
  <2>1. place.column \in DOMAIN Columns(t) /\ place.table = Columns(t)[place.column].to
    BY <1>7, PlaceFacts
  <2>2. held \subseteq RowsOf(replica.rows, place.table)
    BY <1>4, <2>1, HeldRow DEF RowsOf
  <2>3. SystemRow \notin held
    BY <1>6, <2>2
  <2> HIDE DEF held
  <2>4. QED
    BY <1>7, <2>3, SparesAll, CommitSpares
<1>8. CASE \E gone \in SUBSET RowsOf(replica.rows, place.table) :
             Commit("delete_all", of, place, None, None, Txn(NoRows, NoRows, gone))
  BY <1>6, <1>8, SparesAll, CommitSpares
<1>9. QED
  BY <1>3, <1>7, <1>8

\* The rows after a transaction have the row of System still.
LEMMA ExecutedIsRooted ==
  ASSUME NEW rows, Rooted(rows), NEW txn, Spares(txn), NEW k, GoodRows(k, rows), GoodTxn(k, txn)
  PROVE  Rooted(Applied(rows, txn))
<1> DEFINE f == Executing(rows, txn)
<1>1. \A u \in DOMAIN f : f[u].table = IF u \in DOMAIN txn.inserts THEN txn.inserts[u].table ELSE rows[u].table
  <2> SUFFICES ASSUME NEW u \in DOMAIN f
               PROVE  f[u].table = IF u \in DOMAIN txn.inserts THEN txn.inserts[u].table ELSE rows[u].table
    OBVIOUS
  <2> DEFINE row == IF u \in DOMAIN txn.inserts THEN txn.inserts[u] ELSE rows[u]
  <2>1. u \in DOMAIN txn.inserts \cup DOMAIN rows /\ f[u] = Written(row, u, txn.writes)
    BY ExecutingRow
  <2>2. DOMAIN row = {"table", "name", "cols"}
    BY <2>1 DEF GoodRows, GoodTxn, GoodRow
  <2> HIDE DEF row, f
  <2>3. f[u].table = row.table
    BY <2>1, <2>2, WrittenRow
  <2>4. QED
    BY <2>3 DEF row
<1>2. DOMAIN f = (DOMAIN txn.inserts \cup DOMAIN rows) \ txn.deletes
  BY DEF Executing
<1> HIDE DEF f
<1>3. SystemRow \in DOMAIN f /\ \A u \in DOMAIN f : f[u].table = System <=> u = SystemRow
  BY <1>1, <1>2 DEF Rooted, Spares
<1>4. SystemRow \in Live(f)
  BY <1>3, LiveIsLeast DEF Keeps, IsRoot
<1>5. Applied(rows, txn) = [u \in Live(f) |-> f[u]]
  BY DEF Applied, Collected, f
<1>6. QED
  BY <1>3, <1>4, <1>5, LiveIsLeast DEF Rooted

LEMMA ExecuteSpares ==
  ASSUME IInv, RootInv, Execute
  PROVE  RootInv'
<1> DEFINE rows == Applied(db.rows, Head(sent).txn)
<1>1. /\ sent # <<>> /\ sent' = Tail(sent) /\ wire' = Append(wire, db')
      /\ tables' = tables /\ replica' = replica
  BY DEF Execute
<1>2. db' = db \/ (db'.rows = rows /\ Sound(rows))
  BY DEF Execute, Data
<1>3. /\ 1 \in DOMAIN sent /\ Head(sent) = sent[1]
      /\ \A i \in DOMAIN sent' : i + 1 \in DOMAIN sent /\ sent'[i] = sent[i + 1]
  BY <1>1, TailOf DEF IInv, BoundInv
<1>4. \A i \in DOMAIN wire' : wire'[i] = db' \/ (i \in DOMAIN wire /\ wire'[i] = wire[i])
  BY <1>1, AppendedTo DEF IInv, BoundInv
<1>5. PICK k \in Kinds : Known(k)
  BY DEF IInv, KindInv
<1>6. Rooted(rows)
  <2>1. GoodRows(k, db.rows) /\ GoodTxn(k, Head(sent).txn) /\ Spares(Head(sent).txn) /\ Rooted(db.rows)
    BY <1>3, <1>5 DEF Known, RootInv, Wholesome
  <2>2. QED
    BY <2>1, ExecutedIsRooted
<1> HIDE DEF rows
<1>7. Wholesome(db'.rows)
  BY <1>2, <1>6 DEF RootInv, Wholesome
<1>8. \A i \in DOMAIN wire' : Wholesome(wire'[i].rows)
  BY <1>4, <1>7 DEF RootInv
<1>9. \A i \in DOMAIN sent' : Spares(sent'[i].txn)
  BY <1>3 DEF RootInv
<1>10. \A txn : Spares(txn)' <=> Spares(txn)
  BY DEF Spares
<1>11. Wholesome(db.rows)' /\ Wholesome(replica.rows)'
  <2>1. Wholesome(replica.rows)
    BY DEF RootInv
  <2>2. QED
    BY <1>1, <1>7, <2>1, SameLinks
<1>12. (\A i \in DOMAIN wire : Wholesome(wire[i].rows))'
  BY <1>1, <1>8, SameLinks
<1>13. (\A i \in DOMAIN sent : Spares(sent[i].txn))'
  BY <1>9, <1>10
<1>14. QED
  BY <1>11, <1>12, <1>13 DEF RootInv

LEMMA ReadSpares ==
  ASSUME IInv, RootInv, Read
  PROVE  RootInv'
<1>1. /\ wire # <<>> /\ wire' = Tail(wire) /\ replica' = Head(wire)
      /\ tables' = tables /\ db' = db /\ sent' = sent
  BY DEF Read
<1>2. /\ 1 \in DOMAIN wire /\ replica' = wire[1]
      /\ \A i \in DOMAIN wire' : i + 1 \in DOMAIN wire /\ wire'[i] = wire[i + 1]
  BY <1>1, TailOf DEF IInv, BoundInv
<1>3. Wholesome(db.rows)' /\ Wholesome(replica.rows)'
  BY <1>1, <1>2, SameLinks DEF RootInv
<1>4. (\A i \in DOMAIN wire : Wholesome(wire[i].rows))'
  BY <1>1, <1>2, SameLinks DEF RootInv
<1>5. (\A i \in DOMAIN sent : Spares(sent[i].txn))'
  BY <1>1 DEF RootInv, Spares
<1>6. QED
  BY <1>3, <1>4, <1>5 DEF RootInv

LEMMA RootInvariance == Spec /\ SystemIsRoot => [](RootInv /\ SystemIsRoot)
<1>1. Init => RootInv
  <2> SUFFICES ASSUME Init PROVE RootInv
    OBVIOUS
  <2> DEFINE rows == [u \in {SystemRow} |-> Row(System, None)]
  <2>1. db.rows = rows /\ replica = db /\ wire = <<>> /\ sent = <<>>
    BY DEF Init, Data
  <2>2. Row(System, None).table = System
    BY DEF Row
  <2>3. Rooted(rows)
    BY <2>2 DEF Rooted
  <2>4. Sound(rows)
    <3>1. IInv
      BY InitIInv
    <3>2. PICK k \in Kinds : GoodRows(k, db.rows)
      BY <3>1 DEF IInv, KindInv, Known
    <3> HIDE DEF rows
    <3>3. \A u \in DOMAIN rows : RefsOf(rows[u]) \subseteq DOMAIN rows
      BY <2>1, <3>2 DEF GoodRows
    <3>4. \A u, v \in DOMAIN rows : u = v
      BY DEF rows
    <3>5. QED
      BY <3>3, <3>4 DEF Sound, RowsOf
  <2>5. QED
    BY <2>1, <2>3, <2>4 DEF RootInv, Wholesome
<1>2. SystemIsRoot /\ [Next]_vars => SystemIsRoot'
  <2>1. [Next]_vars => tables' = tables
    BY DEF Next, Post, Put, Delete, DeleteAll, Execute, Read, Commit, vars
  <2>2. QED
    BY <2>1, SameLinks
<1>3. ASSUME IInv, RootInv, SystemIsRoot, [Next]_vars
      PROVE  RootInv'
  <2>1. CASE Post
    BY <1>3, <2>1, PostSpares
  <2>2. CASE Put
    BY <1>3, <2>2, PutSpares
  <2>3. CASE Delete
    BY <1>3, <2>3, DeleteSpares
  <2>4. CASE DeleteAll
    BY <1>3, <2>4, DeleteAllSpares
  <2>5. CASE Execute
    BY <1>3, <2>5, ExecuteSpares
  <2>6. CASE Read
    BY <1>3, <2>6, ReadSpares
  <2>7. CASE UNCHANGED vars
    <3>1. tables' = tables /\ db' = db /\ replica' = replica /\ sent' = sent /\ wire' = wire
      BY <2>7 DEF vars
    <3>2. \A rows : Wholesome(rows)' <=> Wholesome(rows)
      BY <3>1, SameLinks
    <3>3. QED
      BY <1>3, <3>1, <3>2 DEF RootInv, Spares
  <2>8. QED
    BY <1>3, <2>1, <2>2, <2>3, <2>4, <2>5, <2>6, <2>7 DEF Next
<1>4. QED
  BY <1>1, <1>2, <1>3, Invariance, PTL DEF Spec

----------------------------------------------------------------------------
(* A step down.                                                               *)

\* Rows that URIs are given for.
Ready(rows) == tables \in Schemas /\ Linkable /\ Wholesome(rows) /\ \E k \in Kinds : GoodRows(k, rows)

\* What the parent of a table is found by.
LEMMA ParentFacts ==
  ASSUME tables \in Schemas, Linkable, NEW t \in DOMAIN tables
  PROVE  /\ Parent(System) = None
         /\ Parent(t) = None /\ t # System =>
              /\ tables[t].key = "name"
              /\ Place("top", None, t) \in Places(System)
         /\ Parent(t) # None =>
              /\ Parent(t) \in DOMAIN tables
              /\ Parents(t) # {} =>
                   /\ tables[t].key = "name"
                   /\ ParentOrChildColumn(t) = ParentColumn(t, Parent(t))
                   /\ ParentColumn(t, Parent(t)) \in DOMAIN Columns(t)
                   /\ Columns(t)[ParentColumn(t, Parent(t))].to = Parent(t)
                   /\ Columns(t)[ParentColumn(t, Parent(t))].kind = "one"
                   /\ Place("back", None, t) \in Places(Parent(t))
              /\ Parents(t) = {} =>
                   /\ ParentOrChildColumn(t) \in DOMAIN Columns(Parent(t))
                   /\ ParentOrChildColumn(t) \in ChildColumns(Parent(t))
                   /\ Columns(Parent(t))[ParentOrChildColumn(t)].to = t
                   /\ Place("child", ParentOrChildColumn(t), t) \in Places(Parent(t))
<1>1. None \notin DOMAIN tables /\ System \in DOMAIN tables
  BY SchemaFacts
<1>2. /\ Parents(t) \subseteq DOMAIN tables /\ Owners(t) \subseteq DOMAIN tables
      /\ Parents(System) \subseteq DOMAIN tables /\ Owners(System) \subseteq DOMAIN tables
  BY DEF Parents, Owners
<1>3. Parent(System) = None
  <2>1. Parents(System) = {}
    BY DEF Linkable, SystemIsRoot, Parents, ParentColumns
  <2>2. Owners(System) = {}
    BY DEF Linkable, SystemIsRoot, Owners
  <2>3. QED
    BY <2>1, <2>2 DEF Parent
<1>4. ASSUME Parent(t) = None, t # System
      PROVE  tables[t].key = "name" /\ Place("top", None, t) \in Places(System)
  <2>1. Place("top", None, t) \in Places(System)
    BY <1>4 DEF Places
  <2>2. KindOf(System, Place("top", None, t)) = "list" /\ Place("top", None, t).table = t
    BY DEF KindOf, Place
  <2>3. QED
    BY <1>1, <2>1, <2>2, ListsAreNamed
<1>5. ASSUME Parent(t) # None, Parents(t) # {}
      PROVE  /\ Parent(t) \in DOMAIN tables
             /\ tables[t].key = "name"
             /\ ParentOrChildColumn(t) = ParentColumn(t, Parent(t))
             /\ ParentColumn(t, Parent(t)) \in DOMAIN Columns(t)
             /\ Columns(t)[ParentColumn(t, Parent(t))].to = Parent(t)
             /\ Columns(t)[ParentColumn(t, Parent(t))].kind = "one"
             /\ Place("back", None, t) \in Places(Parent(t))
  <2>1. Parent(t) \in Parents(t)
    BY <1>5 DEF Parent
  <2>2. ParentColumns(t, Parent(t)) # {}
    BY <2>1 DEF Parents
  <2>3. ParentColumn(t, Parent(t)) \in ParentColumns(t, Parent(t))
    BY <2>2 DEF ParentColumn
  <2>4. /\ ParentColumn(t, Parent(t)) \in DOMAIN Columns(t)
        /\ Columns(t)[ParentColumn(t, Parent(t))].to = Parent(t)
        /\ Columns(t)[ParentColumn(t, Parent(t))].relation = "parent"
    BY <2>3 DEF ParentColumns
  <2>5. Place("back", None, t) \in Places(Parent(t))
    BY <2>2 DEF Places
  <2>6. tables[t].key = "name"
    BY <2>4, SchemaFacts
  <2>7. QED
    BY <1>2, <1>5, <2>1, <2>4, <2>5, <2>6 DEF ParentOrChildColumn, Linkable, ParentsAreSingle
<1>6. ASSUME Parent(t) # None, Parents(t) = {}
      PROVE  /\ Parent(t) \in DOMAIN tables
             /\ ParentOrChildColumn(t) \in DOMAIN Columns(Parent(t))
             /\ ParentOrChildColumn(t) \in ChildColumns(Parent(t))
             /\ Columns(Parent(t))[ParentOrChildColumn(t)].to = t
             /\ Place("child", ParentOrChildColumn(t), t) \in Places(Parent(t))
  <2>1. Parent(t) \in Owners(t)
    BY <1>6 DEF Parent
  <2>2. \E c \in ChildColumns(Parent(t)) : Columns(Parent(t))[c].to = t
    BY <2>1 DEF Owners
  <2>3. /\ ParentOrChildColumn(t) \in ChildColumns(Parent(t))
        /\ Columns(Parent(t))[ParentOrChildColumn(t)].to = t
    BY <1>6, <2>2 DEF ParentOrChildColumn, OwnColumns
  <2>4. QED
    BY <1>2, <2>1, <2>3 DEF Places, ChildColumns
<1>7. QED
  BY <1>3, <1>4, <1>5, <1>6

\* The rows that hold a row, or that it refers to as its parents.
LEMMA ParentRowFacts ==
  ASSUME NEW rows, Ready(rows), NEW v \in DOMAIN rows, NEW t, t = rows[v].table, Parent(t) # None,
         NEW c, c = ParentOrChildColumn(t), NEW w \in ParentRows(rows, v, c)
  PROVE  /\ w \in DOMAIN rows /\ rows[w].table = Parent(t)
         /\ Parents(t) # {} => rows[v].cols[c] = {w}
         /\ Parents(t) = {} => v \in Targets(Columns(Parent(t))[c], rows[w].cols[c])
<1>1. PICK k \in Kinds : GoodRows(k, rows)
  BY DEF Ready
<1>2. t \in DOMAIN tables /\ tables \in Schemas
  BY <1>1, KnownRow DEF Ready
<1>3. CASE Parents(t) # {}
  <2>1. w \in rows[v].cols[c]
    BY <1>3 DEF ParentRows
  <2>2. c \in DOMAIN Columns(t) /\ Columns(t)[c].to = Parent(t) /\ Columns(t)[c].kind = "one"
    BY <1>2, <1>3, ParentFacts DEF Ready
  <2>3. w \in Targets(Columns(t)[c], rows[v].cols[c])
    BY <2>1, <2>2 DEF Targets
  <2>4. w \in DOMAIN rows /\ rows[w].table = Parent(t)
    BY <1>1, <2>2, <2>3, HeldRow
  <2>5. \A x \in rows[v].cols[c] : x = w
    BY <1>1, <2>1, <2>2, KnownRow DEF GoodValue
  <2>6. QED
    BY <1>3, <2>1, <2>4, <2>5
<1>4. CASE Parents(t) = {}
  BY <1>4 DEF ParentRows, RowsOf
<1>5. QED
  BY <1>3, <1>4

\* A name leads on to its place.
LEMMA GoOnIs ==
  ASSUME NEW rows, Ready(rows), NEW u \in DOMAIN rows, NEW place \in Places(rows[u].table), NEW index
  PROVE  GoOn(rows, u, Step(StepName(place), index)) = Lookup(rows, u, place, index)
<1>1. PICK k \in Kinds : GoodRows(k, rows)
  BY DEF Ready
<1>2. u # None /\ rows[u].table \in DOMAIN tables
  BY <1>1, KnownRow, NoneAssumption
<1> DEFINE s == Step(StepName(place), index)
           places == {p \in Places(rows[u].table) : StepName(p) = s.name}
<1>3. s.name = StepName(place) /\ s.index = index
  BY DEF Step
<1> HIDE DEF s
<1>4. places = {place}
  BY <1>2, <1>3 DEF Ready, Linkable, NamesDiffer
<1>5. GoOn(rows, u, s) = Lookup(rows, u, CHOOSE p \in places : TRUE, s.index)
  BY <1>2, <1>4 DEF GoOn
<1>6. (CHOOSE p \in places : TRUE) = place
  BY <1>4
<1>7. QED
  BY <1>3, <1>5, <1>6 DEF s

\* A row is found by its name if no other has it.
LEMMA NamedRow ==
  ASSUME NEW rows, Ready(rows), NEW v \in DOMAIN rows, Alone(rows, v), NEW t, t = rows[v].table, tables[t].key = "name"
  PROVE  IndexToRow(rows, t, rows[v].name) = v /\ v # None
<1>1. PICK k \in Kinds : GoodRows(k, rows)
  BY DEF Ready
<1>2. v # None
  BY <1>1, KnownRow, NoneAssumption
<1> DEFINE found == {u \in RowsOf(rows, t) : tables[t].key = "name" /\ rows[u].name = rows[v].name}
<1>3. found = {v}
  BY DEF RowsOf, Alone
<1>4. QED
  BY <1>2, <1>3 DEF IndexToRow

\* Where the step to a row leads from that above it.
LEMMA FoundByName ==
  ASSUME NEW rows, Ready(rows), NEW v \in DOMAIN rows, Alone(rows, v),
         NEW t, t = rows[v].table, tables[t].key = "name", NEW w \in DOMAIN rows, NEW place \in Places(rows[w].table), place.table = t,
         KindOf(rows[w].table, place) \notin {"kv", "one"},
         place.relation = "back" => rows[v].cols[ParentColumn(t, rows[w].table)] = {w}
  PROVE  GoOn(rows, w, Step(StepName(place), rows[v].name)) = v
<1>1. Lookup(rows, w, place, rows[v].name) = v
  BY NamedRow, LookupOfName
<1>2. QED
  BY <1>1, GoOnIs

LEMMA FoundByKey ==
  ASSUME NEW rows, Ready(rows), NEW v, Quotable(rows, v), NEW w \in DOMAIN rows, NEW place \in Places(rows[w].table),
         KindOf(rows[w].table, place) = "kv", NEW c, c = place.column,
         v \in Targets(Columns(rows[w].table)[c], rows[w].cols[c])
  PROVE  GoOn(rows, w, Step(StepName(place), KeyOf(rows, w, c, v))) = v /\ KeyOf(rows, w, c, v) \notin Unsafe
<1>1. PICK k \in Kinds : GoodRows(k, rows)
  BY DEF Ready
<1> DEFINE held == rows[w].cols[c]
           p == CHOOSE p \in held : p[2] = v
           found == {q \in held : q[1] = p[1]}
<1>2. place.relation = "child"
  BY PlaceFacts
<1>3. c \in DOMAIN Columns(rows[w].table) /\ Columns(rows[w].table)[c].kind = "kv"
  BY <1>2, PlaceFacts
<1>4. \A q, r \in held : q[1] = r[1] => q = r
  BY <1>1, <1>3, KnownRow DEF GoodValue
<1>5. p \in held /\ p[2] = v
  BY <1>3 DEF Targets
<1>6. KeyOf(rows, w, c, v) = p[1]
  BY DEF KeyOf
<1> HIDE DEF held, p
<1>7. found = {p}
  BY <1>4, <1>5
<1>8. KvIndexToRow(rows, w, c, p[1]) = v
  <2>1. KvIndexToRow(rows, w, c, p[1]) = IF found = {} THEN None ELSE (CHOOSE q \in found : TRUE)[2]
    BY DEF KvIndexToRow, held
  <2>2. (CHOOSE q \in found : TRUE) = p
    BY <1>7
  <2> HIDE DEF found
  <2>3. QED
    BY <1>5, <1>7, <2>1, <2>2
<1>9. p[1] \notin Unsafe
  BY <1>1, <1>3, <1>5, KnownRow DEF Quotable, held
<1>10. QED
  BY <1>6, <1>8, <1>9, GoOnIs, LookupOfKey

LEMMA FoundAlone ==
  ASSUME NEW rows, Ready(rows), NEW v, NEW w \in DOMAIN rows, NEW place \in Places(rows[w].table),
         KindOf(rows[w].table, place) = "one", NEW c, c = place.column,
         v \in Targets(Columns(rows[w].table)[c], rows[w].cols[c])
  PROVE  GoOn(rows, w, Step(StepName(place), None)) = v
<1>1. PICK k \in Kinds : GoodRows(k, rows)
  BY DEF Ready
<1> DEFINE held == rows[w].cols[c]
<1>2. place.relation = "child"
  BY PlaceFacts
<1>3. c \in DOMAIN Columns(rows[w].table) /\ Columns(rows[w].table)[c].kind = "one"
  BY <1>2, PlaceFacts
<1>4. \A x, y \in held : x = y
  BY <1>1, <1>3, KnownRow DEF GoodValue
<1>5. v \in held
  BY <1>3 DEF Targets
<1>6. Lookup(rows, w, place, None) = IF held = {} THEN None ELSE CHOOSE u \in held : TRUE
  BY <1>2 DEF Lookup
<1> HIDE DEF held
<1>7. Lookup(rows, w, place, None) = v
  BY <1>4, <1>5, <1>6
<1>8. QED
  BY <1>7, GoOnIs

----------------------------------------------------------------------------
(* The steps of URIs.                                                         *)

\* The row above, of which a URI goes on.
HasParent(rows, v) == ParentRows(rows, v, ParentOrChildColumn(rows[v].table)) # {}
Holder(rows, v) == CHOOSE w \in ParentRows(rows, v, ParentOrChildColumn(rows[v].table)) : TRUE

\* The steps from it to the row.
UriStep(rows, v) ==
  LET t == rows[v].table
      c == ParentOrChildColumn(t)
      index == RowToIndex(rows, v, Holder(rows, v))
  IN IF Parents(t) # {} THEN Step(tables[t].plural, index)
     ELSE Step(c, IF Columns(Parent(t))[c].kind = "one" THEN None ELSE index)

ReferenceStep(rows, v) == Step(tables[rows[v].table].plural, GetTableKey(rows, v))

LEMMA HolderFacts ==
  ASSUME NEW rows, Ready(rows), NEW v \in DOMAIN rows, Parent(rows[v].table) # None, HasParent(rows, v)
  PROVE  /\ Holder(rows, v) \in DOMAIN rows /\ rows[Holder(rows, v)].table = Parent(rows[v].table)
         /\ LET t == rows[v].table
                c == ParentOrChildColumn(t)
            IN  /\ Parents(t) # {} => rows[v].cols[c] = {Holder(rows, v)}
                /\ Parents(t) = {} => v \in Targets(Columns(Parent(t))[c], rows[Holder(rows, v)].cols[c])
<1>1. Holder(rows, v) \in ParentRows(rows, v, ParentOrChildColumn(rows[v].table))
  BY DEF Holder, HasParent
<1>2. QED
  BY <1>1, ParentRowFacts

\* A row that refers to its parent.
LEMMA StepBack ==
  ASSUME NEW rows, Ready(rows), NEW v \in DOMAIN rows, Alone(rows, v), NEW t, t = rows[v].table,
         Parent(t) # None, HasParent(rows, v), Parents(t) # {}
  PROVE  GoOn(rows, Holder(rows, v), Step(tables[t].plural, rows[v].name)) = v /\ tables[t].key = "name"
<1> DEFINE w == Holder(rows, v)
           place == Place("back", None, t)
<1>1. w \in DOMAIN rows /\ rows[w].table = Parent(t) /\ rows[v].cols[ParentOrChildColumn(t)] = {w}
  BY HolderFacts
<1>2. t \in DOMAIN tables
  BY KnownRow DEF Ready
<1>3. /\ tables[t].key = "name" /\ place \in Places(Parent(t))
      /\ ParentOrChildColumn(t) = ParentColumn(t, Parent(t))
  BY <1>2, ParentFacts DEF Ready
<1>4. /\ place.table = t /\ place.relation = "back" /\ StepName(place) = tables[t].plural
      /\ KindOf(rows[w].table, place) = "list"
  BY DEF Place, StepName, KindOf
<1> HIDE DEF w, place
<1>5. GoOn(rows, w, Step(StepName(place), rows[v].name)) = v
  BY <1>1, <1>3, <1>4, FoundByName
<1>6. QED
  BY <1>3, <1>4, <1>5 DEF w

\* A child.
LEMMA StepDown ==
  ASSUME NEW rows, Ready(rows), NEW v \in DOMAIN rows, Alone(rows, v), Quotable(rows, v), NEW t, t = rows[v].table,
         Parent(t) # None, HasParent(rows, v), Parents(t) = {}, NEW c, c = ParentOrChildColumn(t)
  PROVE  LET kind == Columns(Parent(t))[c].kind
             w == Holder(rows, v)
         IN  /\ kind = "one" => GoOn(rows, w, Step(c, None)) = v
             /\ kind = "list" => tables[t].key = "name" /\ GoOn(rows, w, Step(c, rows[v].name)) = v
             /\ kind = "kv" => tables[t].key = "uuid" /\ GoOn(rows, w, Step(c, Unquoted(KeyOf(rows, w, c, v)))) = v
             /\ kind # "one" => c = tables[t].plural
             /\ kind \in {"one", "list", "kv"}
             /\ c \in DOMAIN Columns(Parent(t))
<1> DEFINE kind == Columns(Parent(t))[c].kind
           w == Holder(rows, v)
           place == Place("child", c, t)
<1>1. w \in DOMAIN rows /\ rows[w].table = Parent(t) /\ v \in Targets(Columns(Parent(t))[c], rows[w].cols[c])
  BY HolderFacts
<1>2. t \in DOMAIN tables /\ tables \in Schemas
  BY KnownRow DEF Ready
<1>3. /\ Parent(t) \in DOMAIN tables /\ place \in Places(Parent(t))
      /\ c \in DOMAIN Columns(Parent(t)) /\ c \in ChildColumns(Parent(t)) /\ Columns(Parent(t))[c].to = t
  BY <1>2, ParentFacts DEF Ready
<1>4. /\ place.table = t /\ place.relation = "child" /\ place.column = c /\ StepName(place) = c
      /\ KindOf(rows[w].table, place) = kind
  BY <1>1 DEF Place, StepName, KindOf
<1> HIDE DEF w, place
<1>5. kind \in {"one", "list", "kv"} /\ (kind = "kv" <=> tables[t].key = "uuid") /\ tables[t].key \in {"name", "uuid"}
  BY <1>2, <1>3, SchemaFacts
<1>6. kind # "one" => c = tables[t].plural
  BY <1>3 DEF Ready, Linkable, ColumnsArePlural
<1>7. ASSUME kind = "one" PROVE GoOn(rows, w, Step(c, None)) = v
  <2>1. GoOn(rows, w, Step(StepName(place), None)) = v
    BY <1>1, <1>3, <1>4, <1>7, FoundAlone
  <2>2. QED
    BY <1>4, <2>1
<1>8. ASSUME kind = "list" PROVE GoOn(rows, w, Step(c, rows[v].name)) = v
  <2>1. tables[t].key = "name"
    BY <1>5, <1>8
  <2>2. GoOn(rows, w, Step(StepName(place), rows[v].name)) = v
    BY <1>1, <1>3, <1>4, <1>8, <2>1, FoundByName
  <2>3. QED
    BY <1>4, <2>2
<1>9. ASSUME kind = "kv" PROVE GoOn(rows, w, Step(c, Unquoted(KeyOf(rows, w, c, v)))) = v
  <2>1. GoOn(rows, w, Step(StepName(place), KeyOf(rows, w, c, v))) = v /\ KeyOf(rows, w, c, v) \notin Unsafe
    BY <1>1, <1>3, <1>4, <1>9, FoundByKey
  <2>2. QED
    BY <1>4, <2>1 DEF Unquoted
<1>10. QED
  BY <1>3, <1>5, <1>6, <1>7, <1>8, <1>9 DEF w

\* The steps that row_to_uri and get_reference_uri take lead to the row.
LEMMA UriStepLeads ==
  ASSUME NEW rows, Ready(rows), NEW v \in DOMAIN rows, Alone(rows, v), Quotable(rows, v),
         Parent(rows[v].table) # None, HasParent(rows, v)
  PROVE  GoOn(rows, Holder(rows, v), UriStep(rows, v)) = v
<1> DEFINE t == rows[v].table
           c == ParentOrChildColumn(t)
           w == Holder(rows, v)
           index == RowToIndex(rows, v, w)
           kind == Columns(Parent(t))[c].kind
<1>1. UriStep(rows, v) = IF Parents(t) # {} THEN Step(tables[t].plural, index)
                         ELSE Step(c, IF kind = "one" THEN None ELSE index)
  BY DEF UriStep
<1>2. tables[t].key = "name" => index = rows[v].name
  BY DEF RowToIndex
<1>3. tables[t].key = "uuid" /\ tables[t].plural \in DOMAIN Columns(Parent(t))
        /\ Columns(Parent(t))[tables[t].plural].kind = "kv"
        => index = Unquoted(KeyOf(rows, w, tables[t].plural, v))
  BY DEF RowToIndex
<1> HIDE DEF index
<1>4. CASE Parents(t) # {}
  BY <1>1, <1>2, <1>4, StepBack
<1>5. CASE Parents(t) = {}
  <2>1. /\ kind = "one" => GoOn(rows, w, Step(c, None)) = v
        /\ kind = "list" => tables[t].key = "name" /\ GoOn(rows, w, Step(c, rows[v].name)) = v
        /\ kind = "kv" => tables[t].key = "uuid" /\ GoOn(rows, w, Step(c, Unquoted(KeyOf(rows, w, c, v)))) = v
        /\ kind # "one" => c = tables[t].plural
        /\ kind \in {"one", "list", "kv"} /\ c \in DOMAIN Columns(Parent(t))
    BY <1>5, StepDown
  <2> HIDE DEF c, w
  <2>2. CASE kind = "one"
    BY <1>1, <1>5, <2>1, <2>2 DEF w
  <2>3. CASE kind = "list"
    BY <1>1, <1>2, <1>5, <2>1, <2>3 DEF w
  <2>4. CASE kind = "kv"
    BY <1>1, <1>3, <1>5, <2>1, <2>4 DEF w
  <2>5. QED
    BY <2>1, <2>2, <2>3, <2>4
<1>6. QED
  BY <1>4, <1>5

LEMMA ReferenceStepLeads ==
  ASSUME NEW rows, Ready(rows), NEW v \in DOMAIN rows, Alone(rows, v), Quotable(rows, v),
         Parent(rows[v].table) # None, HasParent(rows, v), ~OnlyChild(rows[v].table)
  PROVE  GoOn(rows, Holder(rows, v), ReferenceStep(rows, v)) = v
<1> DEFINE t == rows[v].table
           c == ParentOrChildColumn(t)
           w == Holder(rows, v)
           kind == Columns(Parent(t))[c].kind
           key == GetTableKey(rows, v)
<1>1. ReferenceStep(rows, v) = Step(tables[t].plural, key)
  BY DEF ReferenceStep
<1>2. key = IF Parents(t) = {} /\ kind = "kv" THEN Unquoted(KeyOf(rows, w, c, v)) ELSE rows[v].name
  BY DEF GetTableKey, Holder
<1> HIDE DEF key
<1>3. CASE Parents(t) # {}
  BY <1>1, <1>2, <1>3, StepBack
<1>4. CASE Parents(t) = {}
  <2>1. /\ kind = "list" => tables[t].key = "name" /\ GoOn(rows, w, Step(c, rows[v].name)) = v
        /\ kind = "kv" => tables[t].key = "uuid" /\ GoOn(rows, w, Step(c, Unquoted(KeyOf(rows, w, c, v)))) = v
        /\ kind # "one" => c = tables[t].plural
        /\ kind \in {"one", "list", "kv"}
    BY <1>4, StepDown
  <2>2. kind # "one"
    BY <1>4 DEF OnlyChild
  <2> HIDE DEF c, w
  <2>3. QED
    BY <1>1, <1>2, <1>4, <2>1, <2>2 DEF w
<1>5. QED
  BY <1>3, <1>4

\* At the top they are the same.
LEMMA TopStepLeads ==
  ASSUME NEW rows, Ready(rows), NEW v \in DOMAIN rows, Alone(rows, v),
         NEW t, t = rows[v].table, Parent(t) = None, t # System
  PROVE  /\ GoOn(rows, SystemRow, Step(tables[t].plural, RowToIndex(rows, v, None))) = v
         /\ ReferenceStep(rows, v) = Step(tables[t].plural, RowToIndex(rows, v, None))
<1> DEFINE place == Place("top", None, t)
<1>1. SystemRow \in DOMAIN rows /\ rows[SystemRow].table = System
  BY DEF Ready, Wholesome, Rooted
<1>2. t \in DOMAIN tables
  BY KnownRow DEF Ready
<1>3. tables[t].key = "name" /\ place \in Places(System)
  BY <1>2, ParentFacts DEF Ready
<1>4. /\ place.table = t /\ place.relation = "top" /\ StepName(place) = tables[t].plural
      /\ KindOf(System, place) = "list"
  BY DEF Place, StepName, KindOf
<1> HIDE DEF place
<1>5. GoOn(rows, SystemRow, Step(StepName(place), rows[v].name)) = v
  BY <1>1, <1>3, <1>4, FoundByName
<1>6. RowToIndex(rows, v, None) = rows[v].name /\ GetTableKey(rows, v) = rows[v].name
  BY <1>3 DEF RowToIndex, GetTableKey
<1>7. QED
  BY <1>4, <1>5, <1>6 DEF ReferenceStep

----------------------------------------------------------------------------
(* The URIs as what is above makes them.                                      *)

\* The bodies of the recursive functions of RowToUri and GetReferenceUri.
UriFrom(rows, uri, v) ==
  LET t == rows[v].table
      c == ParentOrChildColumn(t)
      of == CHOOSE w \in ParentRows(rows, v, c) : TRUE
      index == RowToIndex(rows, v, of)
      top == IF of = SystemRow THEN <<>> ELSE uri[of]
  IN IF t = System THEN <<>>
     ELSE IF Parent(t) = None THEN <<Step(tables[t].plural, RowToIndex(rows, v, None))>>
     ELSE IF ParentRows(rows, v, c) = {} THEN Nowhere
     ELSE IF System \notin Above(t) THEN top
     ELSE IF Parents(t) # {} THEN Append(top, Step(tables[t].plural, index))
     ELSE Append(top, Step(c, IF Columns(Parent(t))[c].kind = "one" THEN None ELSE index))

ReferenceFrom(rows, uri, v) ==
  LET t == rows[v].table
      step == Step(tables[t].plural, GetTableKey(rows, v))
  IN IF t = System THEN <<>>
     ELSE IF Parent(t) = None THEN <<step>>
     ELSE IF TraceRows(rows, v) = {} THEN Nowhere
     ELSE Append(uri[CHOOSE w \in TraceRows(rows, v) : TRUE], step)

\* A row that is not below another one.
Foremost(rows) == {v \in DOMAIN rows : Parent(rows[v].table) = None \/ ~HasParent(rows, v)}

\* The same where a plain reference may be taken for the row above.
Tracer(rows, v) == CHOOSE w \in TraceRows(rows, v) : TRUE
Untraced(rows) == {v \in DOMAIN rows : Parent(rows[v].table) = None \/ TraceRows(rows, v) = {}}

First(rows, v) ==
  LET t == rows[v].table
  IN IF t = System THEN <<>>
     ELSE IF Parent(t) = None THEN <<Step(tables[t].plural, RowToIndex(rows, v, None))>> ELSE Nowhere

FirstReference(rows, v) ==
  LET t == rows[v].table
  IN IF t = System THEN <<>> ELSE IF Parent(t) = None THEN <<ReferenceStep(rows, v)>> ELSE Nowhere

\* Rows may be counted from above.
Ranked(rows, M, rank) ==
  /\ M \in Nat /\ rank \in [DOMAIN rows -> 0 .. M]
  /\ \A v \in DOMAIN rows \ Foremost(rows) :
       Holder(rows, v) \in DOMAIN rows /\ rank[Holder(rows, v)] < rank[v]
  /\ \A v, w \in DOMAIN rows :
       Parent(rows[v].table) # None /\ rows[w].table = Parent(rows[v].table) => rank[w] < rank[v]

LEMMA RowsAreRanked ==
  ASSUME NEW rows, Ready(rows)
  PROVE  \E M, rank : Ranked(rows, M, rank)
<1>1. PICK M \in Nat : \E rank \in [DOMAIN tables -> 0 .. M] :
        \A t \in DOMAIN tables : Parent(t) # None => rank[Parent(t)] < rank[t]
  BY DEF Ready, Linkable, Acyclic
<1>2. PICK of \in [DOMAIN tables -> 0 .. M] :
        \A t \in DOMAIN tables : Parent(t) # None => of[Parent(t)] < of[t]
  BY <1>1
<1>3. \A v \in DOMAIN rows : rows[v].table \in DOMAIN tables
  BY KnownRow DEF Ready
<1> DEFINE rank == [v \in DOMAIN rows |-> of[rows[v].table]]
<1>4. rank \in [DOMAIN rows -> 0 .. M]
  BY <1>3
<1>5. ASSUME NEW v \in DOMAIN rows, NEW w \in DOMAIN rows,
             Parent(rows[v].table) # None, rows[w].table = Parent(rows[v].table)
      PROVE  rank[w] < rank[v]
  BY <1>2, <1>3, <1>5
<1> HIDE DEF rank
<1>6. ASSUME NEW v \in DOMAIN rows \ Foremost(rows)
      PROVE  Holder(rows, v) \in DOMAIN rows /\ rank[Holder(rows, v)] < rank[v]
  <2>1. Parent(rows[v].table) # None /\ HasParent(rows, v)
    BY DEF Foremost
  <2>2. Holder(rows, v) \in DOMAIN rows /\ rows[Holder(rows, v)].table = Parent(rows[v].table)
    BY <2>1, HolderFacts
  <2>3. QED
    BY <1>5, <2>1, <2>2
<1>7. QED
  BY <1>4, <1>5, <1>6 DEF Ranked

LEMMA UrisAre ==
  ASSUME NEW rows, Ready(rows), NEW v \in DOMAIN rows
  PROVE  /\ v \in Foremost(rows) => RowToUri(rows, v) = First(rows, v)
         /\ v \notin Foremost(rows) =>
              LET of == Holder(rows, v) IN
              RowToUri(rows, v) =
                IF System \notin Above(rows[v].table) THEN IF of = SystemRow THEN <<>> ELSE RowToUri(rows, of)
                ELSE Append(IF of = SystemRow THEN <<>> ELSE RowToUri(rows, of), UriStep(rows, v))
<1> DEFINE S == DOMAIN rows
           E == {UriStep(rows, w) : w \in S} \cup {Step(None, None)}
                \cup {Step(tables[rows[w].table].plural, RowToIndex(rows, w, None)) : w \in S}
           base == [w \in S |-> IF w \in Foremost(rows) THEN First(rows, w) ELSE <<>>]
           step == [w \in S |-> UriStep(rows, w)]
           above == [w \in S |-> Holder(rows, w)]
           Skips == {w \in S : System \notin Above(rows[w].table)}
           Top(f, w) == IF Holder(rows, w) = SystemRow THEN <<>> ELSE f[Holder(rows, w)]
           Body(f, w) == IF w \in Foremost(rows) THEN First(rows, w)
                         ELSE IF System \notin Above(rows[w].table) THEN Top(f, w)
                         ELSE Append(Top(f, w), UriStep(rows, w))
<1>1. PICK M, rank : Ranked(rows, M, rank)
  BY RowsAreRanked
<1>2. base \in [S -> Seq(E)]
  <2> SUFFICES ASSUME NEW w \in S PROVE base[w] \in Seq(E)
    OBVIOUS
  <2>1. /\ Step(None, None) \in E
        /\ Step(tables[rows[w].table].plural, RowToIndex(rows, w, None)) \in E
    OBVIOUS
  <2> HIDE DEF E
  <2>2. <<>> \in Seq(E) /\ \A e \in E : <<e>> \in Seq(E)
    OBVIOUS
  <2>3. First(rows, w) \in Seq(E)
    BY <2>1, <2>2 DEF First, Nowhere
  <2>4. QED
    BY <2>2, <2>3
<1>3. step \in [S -> E] /\ Foremost(rows) \in SUBSET S
  BY DEF Foremost
<1>4. FromAbove(S, M, rank, E, base, step, above, Foremost(rows))
  <2> HIDE DEF E, base, step
  <2>1. \A w \in S \ Foremost(rows) : above[w] \in S /\ rank[above[w]] < rank[w]
    BY <1>1 DEF Ranked
  <2> HIDE DEF above
  <2>2. QED
    BY <1>1, <1>2, <1>3, <2>1 DEF FromAbove, Ranked
<1>5. PICK f : AllFromAbove(S, E, base, step, above, Foremost(rows), Skips, {SystemRow}, f)
  <2> HIDE DEF S, E, base, step, above, Skips
  <2>1. QED
    BY <1>4, PathsFromAbove
<1>6. ASSUME NEW w \in S PROVE f[w] = Body(f, w)
  <2>1. /\ base[w] = IF w \in Foremost(rows) THEN First(rows, w) ELSE <<>>
        /\ step[w] = UriStep(rows, w) /\ above[w] = Holder(rows, w)
        /\ w \in Skips <=> System \notin Above(rows[w].table)
    OBVIOUS
  <2>2. f[w] = PathFromAbove(base, step, above, Foremost(rows), Skips, {SystemRow}, f, w)
    BY <1>5 DEF AllFromAbove
  <2> HIDE DEF base, step, above, Skips
  <2>3. QED
    BY <2>1, <2>2 DEF PathFromAbove
<1>7. ASSUME NEW uri, NEW w \in S PROVE UriFrom(rows, uri, w) = Body(uri, w)
  <2>1. Parent(System) = None
    <3>1. rows[w].table \in DOMAIN tables
      BY KnownRow DEF Ready
    <3>2. QED
      BY <3>1, ParentFacts DEF Ready
  <2> DEFINE t == rows[w].table
             of == Holder(rows, w)
             top == IF of = SystemRow THEN <<>> ELSE uri[of]
  <2>2. UriFrom(rows, uri, w) =
          IF t = System THEN <<>>
          ELSE IF Parent(t) = None THEN <<Step(tables[t].plural, RowToIndex(rows, w, None))>>
          ELSE IF ~HasParent(rows, w) THEN Nowhere
          ELSE IF System \notin Above(t) THEN top
          ELSE Append(top, UriStep(rows, w))
    <3>1. CASE Parents(t) # {}
      BY <3>1 DEF UriFrom, Holder, HasParent, UriStep
    <3>2. CASE Parents(t) = {}
      BY <3>2 DEF UriFrom, Holder, HasParent, UriStep
    <3>3. QED
      BY <3>1, <3>2
  <2>3. w \in Foremost(rows) <=> Parent(t) = None \/ ~HasParent(rows, w)
    BY DEF Foremost
  <2>4. First(rows, w) = IF t = System THEN <<>>
                         ELSE IF Parent(t) = None THEN <<Step(tables[t].plural, RowToIndex(rows, w, None))>> ELSE Nowhere
    BY DEF First
  <2> HIDE DEF of
  <2>5. QED
    BY <2>1, <2>2, <2>3, <2>4 DEF of
<1> DEFINE Is(g) == g = [w \in S |-> UriFrom(rows, g, w)]
           uri == CHOOSE g : Is(g)
<1> HIDE DEF E, base, step, above, Skips
<1>8. Is(f)
  BY <1>5, <1>6, <1>7 DEF AllFromAbove
<1>9. Is(uri)
  BY <1>8
<1>10. \A w : RowToUri(rows, w) = uri[w]
  BY DEF RowToUri, UriFrom
<1> HIDE DEF uri
<1>11. uri[v] = Body(uri, v)
  BY <1>7, <1>9
<1>12. CASE v \in Foremost(rows)
  BY <1>10, <1>11, <1>12
<1>13. CASE v \notin Foremost(rows)
  <2> DEFINE of == Holder(rows, v)
  <2>1. uri[v] = IF System \notin Above(rows[v].table) THEN Top(uri, v) ELSE Append(Top(uri, v), UriStep(rows, v))
    BY <1>11, <1>13
  <2>2. RowToUri(rows, v) = uri[v]
    BY <1>10
  <2>3. Top(uri, v) = IF of = SystemRow THEN <<>> ELSE RowToUri(rows, of)
    BY <1>10
  <2> HIDE DEF of, Top
  <2>4. QED
    BY <1>13, <2>1, <2>2, <2>3 DEF of
<1>14. QED
  BY <1>12, <1>13

\* It is a row of the table of the parent too.
LEMMA TraceFacts ==
  ASSUME NEW rows, Ready(rows), NEW v \in DOMAIN rows, Parent(rows[v].table) # None, NEW w \in TraceRows(rows, v)
  PROVE  w \in DOMAIN rows /\ rows[w].table = Parent(rows[v].table)
<1> DEFINE t == rows[v].table
<1>1. t \in DOMAIN tables /\ tables \in Schemas
  BY KnownRow DEF Ready
<1>2. CASE TraceColumns(t) = {}
  <2>1. Parents(t) # {}
    <3>1. Parents(t) = {} => ParentOrChildColumn(t) \in TraceColumns(t)
      BY <1>1, ParentFacts DEF Ready, TraceColumns, ChildColumns
    <3>2. QED
      BY <1>2, <3>1
  <2>2. ParentOrChildColumn(t) = ParentColumn(t, Parent(t))
    BY <2>1 DEF ParentOrChildColumn
  <2>3. w \in ParentRows(rows, v, ParentOrChildColumn(t))
    BY <1>2, <2>1, <2>2 DEF TraceRows, ParentRows
  <2>4. QED
    BY <2>3, ParentRowFacts
<1>3. CASE TraceColumns(t) # {}
  BY <1>3 DEF TraceRows, RowsOf
<1>4. QED
  BY <1>2, <1>3

\* If the parent refers to the table only as to its children, it is the row above.
LEMMA TracedRow ==
  ASSUME NEW rows, Ready(rows), NEW v \in DOMAIN rows, ~Referred(rows[v].table)
  PROVE  /\ GetReferenceUri(rows, v) = ReferencePath(rows, v)
         /\ Parent(rows[v].table) # None => TraceRows(rows, v) = ParentRows(rows, v, ParentOrChildColumn(rows[v].table))
<1> DEFINE t == rows[v].table
<1>1. t \in DOMAIN tables /\ tables \in Schemas
  BY KnownRow DEF Ready
<1>2. CASE Parent(t) = None
  BY <1>2 DEF GetReferenceUri
<1>3. CASE Parent(t) # None /\ Parents(t) # {}
  <2>1. TraceColumns(t) = {}
    BY <1>3 DEF Referred
  <2>2. ParentOrChildColumn(t) = ParentColumn(t, Parent(t))
    BY <1>3 DEF ParentOrChildColumn
  <2>3. QED
    BY <1>3, <2>1, <2>2 DEF GetReferenceUri, TraceRows, ParentRows
<1>4. CASE Parent(t) # None /\ Parents(t) = {}
  <2>1. TraceColumns(t) = OwnColumns(t)
    BY <1>4 DEF Referred
  <2>2. ParentOrChildColumn(t) = CHOOSE c \in OwnColumns(t) : TRUE
    BY <1>4 DEF ParentOrChildColumn
  <2>3. OwnColumns(t) # {}
    BY <1>1, <1>4, ParentFacts DEF Ready, OwnColumns
  <2>4. QED
    BY <1>4, <2>1, <2>2, <2>3 DEF GetReferenceUri, TraceRows, ParentRows
<1>5. QED
  BY <1>2, <1>3, <1>4

LEMMA ReferencesAre ==
  ASSUME NEW rows, Ready(rows), NEW v \in DOMAIN rows
  PROVE  /\ v \in Untraced(rows) => ReferencePath(rows, v) = FirstReference(rows, v)
         /\ v \notin Untraced(rows) =>
              ReferencePath(rows, v) = Append(ReferencePath(rows, Tracer(rows, v)), ReferenceStep(rows, v))
<1> DEFINE S == DOMAIN rows
           E == {ReferenceStep(rows, w) : w \in S} \cup {Step(None, None)}
           base == [w \in S |-> IF w \in Untraced(rows) THEN FirstReference(rows, w) ELSE <<>>]
           step == [w \in S |-> ReferenceStep(rows, w)]
           above == [w \in S |-> Tracer(rows, w)]
           Body(f, w) == IF w \in Untraced(rows) THEN FirstReference(rows, w)
                         ELSE Append(f[Tracer(rows, w)], ReferenceStep(rows, w))
<1>1. PICK M, rank : Ranked(rows, M, rank)
  BY RowsAreRanked
<1>2. base \in [S -> Seq(E)]
  <2> SUFFICES ASSUME NEW w \in S PROVE base[w] \in Seq(E)
    OBVIOUS
  <2>1. Step(None, None) \in E /\ ReferenceStep(rows, w) \in E
    OBVIOUS
  <2> HIDE DEF E
  <2>2. <<>> \in Seq(E) /\ \A e \in E : <<e>> \in Seq(E)
    OBVIOUS
  <2>3. FirstReference(rows, w) \in Seq(E)
    BY <2>1, <2>2 DEF FirstReference, Nowhere
  <2>4. QED
    BY <2>2, <2>3
<1>3. step \in [S -> E] /\ Untraced(rows) \in SUBSET S
  BY DEF Untraced
<1>4. FromAbove(S, M, rank, E, base, step, above, Untraced(rows))
  <2> HIDE DEF E, base, step
  <2>1. ASSUME NEW w \in S \ Untraced(rows) PROVE above[w] \in S /\ rank[above[w]] < rank[w]
    <3>1. Parent(rows[w].table) # None /\ Tracer(rows, w) \in TraceRows(rows, w)
      BY DEF Untraced, Tracer
    <3>2. Tracer(rows, w) \in S /\ rows[Tracer(rows, w)].table = Parent(rows[w].table)
      BY <3>1, TraceFacts
    <3>3. QED
      BY <1>1, <3>1, <3>2 DEF Ranked
  <2> HIDE DEF above
  <2>2. QED
    BY <1>1, <1>2, <1>3, <2>1 DEF FromAbove, Ranked
<1>5. PICK f : AllFromAbove(S, E, base, step, above, Untraced(rows), {}, {}, f)
  <2> HIDE DEF S, E, base, step, above
  <2>1. QED
    BY <1>4, PathsFromAbove
<1>6. ASSUME NEW w \in S PROVE f[w] = Body(f, w)
  <2>1. /\ base[w] = IF w \in Untraced(rows) THEN FirstReference(rows, w) ELSE <<>>
        /\ step[w] = ReferenceStep(rows, w) /\ above[w] = Tracer(rows, w)
    OBVIOUS
  <2>2. f[w] = PathFromAbove(base, step, above, Untraced(rows), {}, {}, f, w)
    BY <1>5 DEF AllFromAbove
  <2> HIDE DEF base, step, above
  <2>3. QED
    BY <2>1, <2>2 DEF PathFromAbove
<1>7. ASSUME NEW uri, NEW w \in S PROVE ReferenceFrom(rows, uri, w) = Body(uri, w)
  <2>1. Parent(System) = None
    <3>1. rows[w].table \in DOMAIN tables
      BY KnownRow DEF Ready
    <3>2. QED
      BY <3>1, ParentFacts DEF Ready
  <2> DEFINE t == rows[w].table
  <2>2. ReferenceFrom(rows, uri, w) =
          IF t = System THEN <<>>
          ELSE IF Parent(t) = None THEN <<ReferenceStep(rows, w)>>
          ELSE IF TraceRows(rows, w) = {} THEN Nowhere
          ELSE Append(uri[Tracer(rows, w)], ReferenceStep(rows, w))
    BY DEF ReferenceFrom, Tracer, ReferenceStep
  <2>3. w \in Untraced(rows) <=> Parent(t) = None \/ TraceRows(rows, w) = {}
    BY DEF Untraced
  <2>4. QED
    BY <2>1, <2>2, <2>3 DEF FirstReference
<1> DEFINE Is(g) == g = [w \in S |-> ReferenceFrom(rows, g, w)]
           uri == CHOOSE g : Is(g)
<1> HIDE DEF E, base, step, above
<1>8. Is(f)
  BY <1>5, <1>6, <1>7 DEF AllFromAbove
<1>9. Is(uri)
  BY <1>8
<1>10. \A w : ReferencePath(rows, w) = uri[w]
  BY DEF ReferencePath, ReferenceFrom
<1> HIDE DEF uri
<1>11. uri[v] = Body(uri, v)
  BY <1>7, <1>9
<1>12. QED
  BY <1>10, <1>11

\* What is above a row.
LEMMA AllAboveIs ==
  ASSUME NEW rows, Ready(rows), NEW v \in DOMAIN rows
  PROVE  AllAbove(rows, v) =
           IF Parent(rows[v].table) = None THEN {v}
           ELSE {v} \cup UNION {AllAbove(rows, w) : w \in ParentRows(rows, v, ParentOrChildColumn(rows[v].table))}
<1> DEFINE S == DOMAIN rows
           V == SUBSET S
           Tops == {w \in S : Parent(rows[w].table) = None}
           over == [w \in S |-> ParentRows(rows, w, ParentOrChildColumn(rows[w].table))]
           Body(f, w) == IF w \in Tops THEN {w} ELSE {w} \cup UNION {f[x] : x \in over[w]}
           G == [w \in S |-> [f \in [S -> V] |-> Body(f, w)]]
<1>1. PICK M, rank : Ranked(rows, M, rank)
  BY RowsAreRanked
<1>2. \A w \in S \ Tops : \A x \in over[w] : x \in S /\ rank[x] < rank[w]
  <2> SUFFICES ASSUME NEW w \in S \ Tops, NEW x \in over[w] PROVE x \in S /\ rank[x] < rank[w]
    OBVIOUS
  <2>1. Parent(rows[w].table) # None /\ x \in ParentRows(rows, w, ParentOrChildColumn(rows[w].table))
    OBVIOUS
  <2>2. x \in S /\ rows[x].table = Parent(rows[w].table)
    BY <2>1, ParentRowFacts
  <2>3. QED
    BY <1>1, <2>1, <2>2 DEF Ranked
<1>3. \A w \in S : over[w] = ParentRows(rows, w, ParentOrChildColumn(rows[w].table))
  OBVIOUS
<1>4. \A w \in S : w \in Tops <=> Parent(rows[w].table) = None
  OBVIOUS
<1> HIDE DEF Tops, over
<1>5. MadeFromBelow(S, V, M, rank, G)
  <2>1. \A w \in S : \A f \in [S -> V] : Body(f, w) \in V
    BY <1>2
  <2>2. V # {}
    OBVIOUS
  <2> HIDE DEF V
  <2>3. G \in [S -> [[S -> V] -> V]]
    BY <2>1
  <2>4. ASSUME NEW w \in S, NEW f \in [S -> V], NEW g \in [S -> V],
               \A x \in S : rank[x] < rank[w] => f[x] = g[x]
        PROVE  G[w][f] = G[w][g]
    <3>1. w \notin Tops => \A x \in over[w] : f[x] = g[x]
      BY <1>2, <2>4
    <3>2. w \notin Tops => {f[x] : x \in over[w]} = {g[x] : x \in over[w]}
      BY <3>1
    <3>3. Body(f, w) = Body(g, w)
      BY <3>2
    <3>4. QED
      BY <3>3
  <2> HIDE DEF G
  <2>5. M \in Nat /\ rank \in [S -> 0 .. M]
    BY <1>1 DEF Ranked
  <2>6. QED
    BY <2>2, <2>3, <2>4, <2>5 DEF MadeFromBelow
<1> HIDE DEF V
<1>6. PICK f : AllMade(S, V, G, f)
  <2> HIDE DEF G
  <2>1. QED
    BY <1>5, Recursion
<1>7. f \in [S -> V] /\ \A w \in S : f[w] = Body(f, w)
  BY <1>6 DEF AllMade
<1> HIDE DEF G
<1> DEFINE Uppers(w) == ParentRows(rows, w, ParentOrChildColumn(rows[w].table))
           With(g, w) == IF Parent(rows[w].table) = None THEN {w} ELSE {w} \cup UNION {g[x] : x \in Uppers(w)}
           Is(g) == g = [w \in S |-> With(g, w)]
           all == CHOOSE g : Is(g)
<1>8. Is(f)
  <2>1. \A w \in S : f[w] = With(f, w)
    BY <1>3, <1>4, <1>7
  <2>2. QED
    BY <1>7, <2>1
<1>9. Is(all)
  BY <1>8
<1>10. \A w : AllAbove(rows, w) = all[w]
  BY DEF AllAbove
<1> HIDE DEF all
<1>11. all[v] = With(all, v)
  BY <1>9
<1>12. {all[x] : x \in Uppers(v)} = {AllAbove(rows, x) : x \in Uppers(v)}
  BY <1>10
<1>13. QED
  BY <1>10, <1>11, <1>12

\* A row that has its place, and that names and keys lead to.
Sure(rows, v) == InPlace(rows, v) /\ Named(rows, v) /\ Keyed(rows, v)

LEMMA SureBelow ==
  ASSUME NEW rows, Ready(rows), NEW v \in DOMAIN rows, Sure(rows, v)
  PROVE  /\ Alone(rows, v) /\ Quotable(rows, v)
         /\ Parent(rows[v].table) # None => HasParent(rows, v) /\ Sure(rows, Holder(rows, v))
<1>1. v \in AllAbove(rows, v)
  BY AllAboveIs
<1>2. Alone(rows, v) /\ Quotable(rows, v)
  BY <1>1 DEF Sure, Named, Keyed
<1>3. ASSUME Parent(rows[v].table) # None
      PROVE  HasParent(rows, v) /\ Sure(rows, Holder(rows, v))
  <2>1. HasParent(rows, v)
    BY <1>1, <1>3 DEF Sure, InPlace, HasParent
  <2>2. Holder(rows, v) \in ParentRows(rows, v, ParentOrChildColumn(rows[v].table))
    BY <2>1 DEF HasParent, Holder
  <2>3. AllAbove(rows, Holder(rows, v)) \subseteq AllAbove(rows, v)
    BY <1>3, <2>2, AllAboveIs
  <2>4. QED
    BY <2>1, <2>3 DEF Sure, InPlace, Named, Keyed
<1>4. QED
  BY <1>2, <1>3

\* What is above a table.
LEMMA AboveIs ==
  ASSUME tables \in Schemas, Linkable, NEW t \in DOMAIN tables
  PROVE  Above(t) = IF Parent(t) = None THEN {t} ELSE {t} \cup Above(Parent(t))
<1> DEFINE S == DOMAIN tables
           V == SUBSET S
           Body(f, v) == IF Parent(v) = None THEN {v} ELSE {v} \cup f[Parent(v)]
           G == [v \in S |-> [f \in [S -> V] |-> Body(f, v)]]
<1>1. PICK M \in Nat : \E rank \in [S -> 0 .. M] : \A v \in S : Parent(v) # None => rank[Parent(v)] < rank[v]
  BY DEF Linkable, Acyclic
<1>2. PICK rank \in [S -> 0 .. M] : \A v \in S : Parent(v) # None => rank[Parent(v)] < rank[v]
  BY <1>1
<1>3. \A v \in S : Parent(v) # None => Parent(v) \in S
  BY ParentFacts
<1>4. MadeFromBelow(S, V, M, rank, G)
  <2>1. \A v \in S : \A f \in [S -> V] : Body(f, v) \in V
    BY <1>3
  <2>2. V # {}
    OBVIOUS
  <2> HIDE DEF V
  <2>3. G \in [S -> [[S -> V] -> V]]
    BY <2>1
  <2>4. ASSUME NEW v \in S, NEW f \in [S -> V], NEW g \in [S -> V],
               \A w \in S : rank[w] < rank[v] => f[w] = g[w]
        PROVE  G[v][f] = G[v][g]
    <3>1. Parent(v) # None => f[Parent(v)] = g[Parent(v)]
      BY <1>2, <1>3, <2>4
    <3>2. Body(f, v) = Body(g, v)
      BY <3>1
    <3>3. QED
      BY <3>2
  <2> HIDE DEF G
  <2>5. QED
    BY <1>2, <2>2, <2>3, <2>4 DEF MadeFromBelow
<1> HIDE DEF V
<1>5. PICK f : AllMade(S, V, G, f)
  <2> HIDE DEF G
  <2>1. QED
    BY <1>4, Recursion
<1>6. f \in [S -> V] /\ \A v \in S : f[v] = Body(f, v)
  BY <1>5 DEF AllMade
<1> HIDE DEF G
<1> DEFINE Is(g) == g = [v \in S |-> Body(g, v)]
           above == CHOOSE g : Is(g)
<1>7. Is(f)
  BY <1>6
<1>8. Is(above)
  BY <1>7
<1>9. \A v : Above(v) = above[v]
  BY DEF Above
<1> HIDE DEF above
<1>10. above[t] = Body(above, t)
  BY <1>8
<1>11. QED
  BY <1>9, <1>10

\* A row is led to from above.
UriLeads(rows, v) ==
  Sure(rows, v) /\ Whole(rows[v].table) => Leads(rows, RowToUri(rows, v), v)

ReferenceLeads(rows, v) ==
  Sure(rows, v) /\ Plural(rows[v].table) /\ Traced(rows[v].table) => Leads(rows, ReferencePath(rows, v), v)

LEMMA FirstLeads ==
  ASSUME NEW rows, Ready(rows), NEW v \in DOMAIN rows, Parent(rows[v].table) = None
  PROVE  UriLeads(rows, v) /\ ReferenceLeads(rows, v)
<1> DEFINE t == rows[v].table
           step == Step(tables[t].plural, RowToIndex(rows, v, None))
<1> SUFFICES ASSUME Sure(rows, v) PROVE UriLeads(rows, v) /\ ReferenceLeads(rows, v)
  BY DEF UriLeads, ReferenceLeads
<1>1. RowToUri(rows, v) = First(rows, v) /\ ReferencePath(rows, v) = FirstReference(rows, v)
  BY UrisAre, ReferencesAre DEF Foremost, Untraced
<1>2. CASE t = System
  <2>1. v = SystemRow
    BY <1>2 DEF Ready, Wholesome, Rooted
  <2>2. First(rows, v) = <<>> /\ FirstReference(rows, v) = <<>>
    BY <1>2 DEF First, FirstReference
  <2>3. QED
    BY <1>1, <2>1, <2>2, LeadsFromSystem DEF UriLeads, ReferenceLeads
<1>3. CASE t # System
  <2>1. GoOn(rows, SystemRow, step) = v /\ ReferenceStep(rows, v) = step
    BY <1>3, SureBelow, TopStepLeads
  <2>2. First(rows, v) = <<step>> /\ FirstReference(rows, v) = <<step>>
    BY <1>3, <2>1 DEF First, FirstReference
  <2> HIDE DEF step
  <2>3. Leads(rows, Append(<<>>, step), v)
    BY <2>1, LeadsFromSystem, LeadsOn
  <2>4. Append(<<>>, step) = <<step>>
    OBVIOUS
  <2>5. QED
    BY <1>1, <2>2, <2>3, <2>4 DEF UriLeads, ReferenceLeads
<1>4. QED
  BY <1>2, <1>3

LEMMA OnwardLeads ==
  ASSUME NEW rows, Ready(rows), NEW v \in DOMAIN rows, Parent(rows[v].table) # None,
         NEW of, of = Holder(rows, v), HasParent(rows, v) => UriLeads(rows, of) /\ ReferenceLeads(rows, of)
  PROVE  UriLeads(rows, v) /\ ReferenceLeads(rows, v)
<1> DEFINE t == rows[v].table
<1> SUFFICES ASSUME Sure(rows, v) PROVE UriLeads(rows, v) /\ ReferenceLeads(rows, v)
  BY DEF UriLeads, ReferenceLeads
<1>1. HasParent(rows, v) /\ Sure(rows, of) /\ Alone(rows, v) /\ Quotable(rows, v)
  BY SureBelow
<1>2. of \in DOMAIN rows /\ rows[of].table = Parent(t) /\ v \notin Foremost(rows)
  BY <1>1, HolderFacts DEF Foremost
<1>3. t \in DOMAIN tables /\ Parent(t) \in DOMAIN tables /\ Parent(System) = None
  <2>1. t \in DOMAIN tables
    BY KnownRow DEF Ready
  <2>2. QED
    BY <2>1, ParentFacts DEF Ready
<1>4. Above(t) = {t} \cup Above(Parent(t))
  BY <1>3, AboveIs DEF Ready
<1>5. UriLeads(rows, v)
  <2> SUFFICES ASSUME Whole(t) PROVE Leads(rows, RowToUri(rows, v), v)
    BY DEF UriLeads
  <2>1. System \in Above(t) /\ System \in Above(Parent(t))
    BY <1>3, <1>4 DEF Whole
  <2> DEFINE top == IF of = SystemRow THEN <<>> ELSE RowToUri(rows, of)
  <2>2. RowToUri(rows, v) = Append(top, UriStep(rows, v))
    BY <1>2, <2>1, UrisAre
  <2>3. Leads(rows, top, of)
    <3>1. of # SystemRow => Leads(rows, RowToUri(rows, of), of)
      BY <1>1, <1>2, <2>1 DEF UriLeads, Whole
    <3>2. QED
      BY <3>1, LeadsFromSystem
  <2> HIDE DEF top
  <2>4. Leads(rows, Append(top, UriStep(rows, v)), GoOn(rows, of, UriStep(rows, v)))
    BY <2>3, LeadsOn
  <2>5. GoOn(rows, of, UriStep(rows, v)) = v
    BY <1>1, UriStepLeads
  <2>6. QED
    BY <2>2, <2>4, <2>5
<1>6. ReferenceLeads(rows, v)
  <2> SUFFICES ASSUME Plural(t), Traced(t) PROVE Leads(rows, ReferencePath(rows, v), v)
    BY DEF ReferenceLeads
  <2>1. Plural(Parent(t)) /\ Traced(Parent(t)) /\ ~OnlyChild(t) /\ ~Referred(t)
    BY <1>4 DEF Plural, Traced
  <2>2. Leads(rows, ReferencePath(rows, of), of)
    BY <1>1, <1>2, <2>1 DEF ReferenceLeads
  <2>3. v \notin Untraced(rows) /\ Tracer(rows, v) = of
    BY <1>1, <2>1, TracedRow DEF Untraced, Tracer, Holder, HasParent
  <2>4. ReferencePath(rows, v) = Append(ReferencePath(rows, of), ReferenceStep(rows, v))
    BY <2>3, ReferencesAre
  <2>5. GoOn(rows, of, ReferenceStep(rows, v)) = v
    BY <1>1, <2>1, ReferenceStepLeads
  <2>6. QED
    BY <2>2, <2>4, <2>5, LeadsOn
<1>7. QED
  BY <1>5, <1>6

\* By the number of rows above.
LEMMA AllLead ==
  ASSUME NEW rows, Ready(rows), NEW v \in DOMAIN rows
  PROVE  UriLeads(rows, v) /\ ReferenceLeads(rows, v)
<1> DEFINE Good(w) == UriLeads(rows, w) /\ ReferenceLeads(rows, w)
           Bad == {w \in DOMAIN rows : ~Good(w)}
<1>1. PICK M, rank : Ranked(rows, M, rank)
  BY RowsAreRanked
<1> DEFINE T == {rank[w] : w \in Bad}
<1> SUFFICES ASSUME Bad # {} PROVE FALSE
  OBVIOUS
<1> HIDE DEF Good
<1>2. T \in SUBSET Nat /\ T # {}
  BY <1>1 DEF Ranked
<1>3. PICK w \in Bad : \A x \in Bad : ~(rank[x] < rank[w])
  <2>1. PICK n \in T : \A m \in T : ~(m < n)
    <3> HIDE DEF T
    <3>1. QED
      BY <1>2, LeastNumber
  <2>2. QED
    BY <2>1
<1>4. Parent(rows[w].table) # None
  BY FirstLeads DEF Good
<1>5. HasParent(rows, w) => Good(Holder(rows, w))
  <2>1. HasParent(rows, w) => Holder(rows, w) \in DOMAIN rows /\ rank[Holder(rows, w)] < rank[w]
    BY <1>1, <1>4 DEF Ranked, Foremost
  <2>2. QED
    BY <1>3, <2>1
<1>6. Good(w)
  BY <1>4, <1>5, OnwardLeads DEF Good
<1>7. QED
  BY <1>6

\* The URIs given for a row lead back to it, at any time and whatever the schema,
\* as long as names stand for one thing, columns of many children are called as
\* their table in the plural, rows refer to one parent and go back to System; if
\* the row has its place, it and the rows above it are alone in their names and
\* their keys need no quotes; the URI of GET but below a table without parent,
\* that of a notification but below an only child and below a table that its
\* parent refers to otherwise (row_to_uri, get_reference_uri; parse).
THEOREM Links == Spec /\ Linkable => []LinksLeadBack
<1>1. Linkable /\ [Next]_vars => Linkable'
  <2>1. [Next]_vars => tables' = tables
    BY DEF Next, Post, Put, Delete, DeleteAll, Execute, Read, Commit, vars
  <2>2. QED
    BY <2>1, SameLinks
<1>2. ASSUME IInv, RootInv, Linkable PROVE LinksLeadBack
  <2> DEFINE rows == replica.rows
  <2>1. Ready(rows)
    BY <1>2 DEF Ready, RootInv, IInv, BoundInv, KindInv, Known
  <2>2. ASSUME NEW u \in DOMAIN rows, Sure(rows, u)
        PROVE  /\ Whole(rows[u].table) => UriLeadsBack(rows, u)
               /\ Plural(rows[u].table) /\ Traced(rows[u].table) => ReferenceLeadsBack(rows, u)
    <3>1. UriLeads(rows, u) /\ ReferenceLeads(rows, u)
      BY <2>1, AllLead
    <3>2. Whole(rows[u].table) => UriLeadsBack(rows, u)
      BY <2>2, <3>1, LeadsThere DEF UriLeads, UriLeadsBack
    <3>3. ASSUME Plural(rows[u].table), Traced(rows[u].table) PROVE ReferenceLeadsBack(rows, u)
      <4>1. rows[u].table \in DOMAIN tables
        BY <2>1, KnownRow DEF Ready
      <4>2. ~Referred(rows[u].table)
        BY <2>1, <3>3, <4>1, AboveIs DEF Ready, Traced
      <4>3. GetReferenceUri(rows, u) = ReferencePath(rows, u)
        BY <2>1, <4>2, TracedRow
      <4>4. QED
        BY <2>2, <3>1, <3>3, <4>3, LeadsThere DEF ReferenceLeads, ReferenceLeadsBack
    <3>4. QED
      BY <3>2, <3>3
  <2>3. QED
    BY <2>2 DEF LinksLeadBack, Sure
<1>3. Linkable => SystemIsRoot
  BY DEF Linkable
<1>4. QED
  BY <1>1, <1>2, <1>3, Invariance, RootInvariance, PTL DEF Spec

=============================================================================
