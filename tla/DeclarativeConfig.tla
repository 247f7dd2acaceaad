-------------------------- MODULE DeclarativeConfig --------------------------
(***************************************************************************)
(* The full configuration: ops.dc.write and read with ops/_write.py,        *)
(* ops/_read.py, ops/utils.py and ops/validatoradapter.py, as               *)
(* ConfigController calls them for PUT and GET of full-configuration.       *)
(*                                                                         *)
(* The schema is a constant: tables, their children and one reference each. *)
(* A row has one configuration column, v.  Children are referenced from a   *)
(* column of their parent (kind "list", "kv", or "single", which may be      *)
(* empty) or refer to it ("back"), in the first column of their index.       *)
(* write() works on the replica and queues deletions until the   *)
(* validators have run; the order in which Python walks its dictionaries    *)
(* is the parameter order.  ovsdb-server checks references and indexes at   *)
(* commit and collects the rows nothing refers to.                          *)
(***************************************************************************)
EXTENDS Naturals, FiniteSets, SequencesExt

CONSTANTS
  Schema,      \* of a table: [top, indexed, mutable, kids, ref], see the MC module
  Orders,      \* orders in which tables, columns and indexes may be walked
  Inputs,      \* configurations a client may send
  InitialRows, \* what the database may be at first
  Verdicts,    \* what a validator may do: "error" and "raise", apart from passing
  Deleters,    \* the tables other clients delete rows of
  MaxWrites    \* bound: number of writes

ASSUME ConfigAssumption ==
  /\ Verdicts \subseteq {"error", "raise"}
  /\ Deleters \subseteq DOMAIN Schema
  /\ MaxWrites \in Nat

VARIABLES
  rows,      \* the database, and the replica: uuid -> row
  refList,   \* global_ref_list: <<table, index, parent in it>> -> uuid
  next,      \* the next uuid
  asked,     \* history: the configuration last written, if nothing changed since
  outcome,   \* what write returned for it
  ops,       \* history: the operations it had validated
  noted,     \* history: "late", it left children of new rows to the next write;
             \* "again", it gave children, that refer to their parent, it already had
  judged,    \* history: the worst its validators did
  writes

vars == <<rows, refList, next, asked, outcome, ops, noted, judged, writes>>

NoRow == 0
Empty == ""            \* an empty column, or no reference
NoConfig == [none |-> "none"]

\* The keys of d, and what walking a dictionary in an order means.
Walk(order, keys) == SelectSeq(order, LAMBDA k : k \in keys)
At(f, k, default) == IF k \in DOMAIN f THEN f[k] ELSE default
NoMap == [k \in {} |-> NoRow]
Set(f, k, v) == [x \in DOMAIN f \cup {k} |-> IF x = k THEN v ELSE f[x]]

----------------------------------------------------------------------------
(* Rows.                                                                    *)

Keys(t) == DOMAIN Schema[t].kids
Forward(t) == {key \in Keys(t) : Schema[t].kids[key].kind # "back"}

\* delete_row_check: not an immutable table, and of a configuration category.
Deletable(r) == Schema[r.table].mutable /\ r.owner = "config"

\* insert_row_check: an immutable table takes new rows only without an index.
Insertable(t) == Schema[t].mutable \/ ~Schema[t].indexed

\* get_backward_children.
Backward(rs, u, t) == {c \in DOMAIN rs : rs[c].table = t /\ rs[c].up = u}

KidsIn(rs, u, key) ==
  IF key \in Forward(rs[u].table) THEN {k.row : k \in rs[u].kids[key]}
  ELSE Backward(rs, u, Schema[rs[u].table].kids[key].table)

KidsOf(rs, u) == UNION {KidsIn(rs, u, key) : key \in Keys(rs[u].table)}

\* index_to_row: the index map of the replica.  It has rows that are to be
\* deleted, and not those just inserted.  The UUID of a parent is a string,
\* which is looked for among the names of its table and dropped: with what is
\* left of the index nothing is found.
IndexToRow(rs, t, index, up) ==
  LET found == {u \in DOMAIN rs : rs[u].table = t /\ rs[u].index = index}
  IN IF up = NoRow /\ Schema[t].indexed /\ found # {} THEN CHOOSE u \in found : TRUE ELSE NoRow

\* A table whose rows refer to their parent: its index is of two columns, and
\* to look for one of its rows by a UUID raises an exception.
RefersUp(t) == \E o \in DOMAIN Schema : \E key \in Keys(o) : Schema[o].kids[key] = [table |-> t, kind |-> "back"]

\* _index_to_row: global_ref_list has the rows inserted in this write and in
\* the ones before it.
IndexOrNewRow(S, t, index, up) ==
  LET u == IndexToRow(S.base, t, index, up)
  IN IF u # NoRow THEN u ELSE At(S.refList, <<t, index, up>>, NoRow)

AddOp(S, op, u) == [S EXCEPT !.ops = Append(@, [op |-> op, row |-> u])]

----------------------------------------------------------------------------
(* _write.py.  S is the write so far: the replica (base), the rows with the  *)
(* changes made, the operations to validate, refList, next, whether an        *)
(* exception was raised, and what is noted of it (a history).                 *)

RECURSIVE DeleteRow(_, _, _)

DeleteRows(S, us, order) ==
  FoldSet(LAMBDA u, acc : DeleteRow(acc, u, order), S, us)

\* Mutant: the row before its children.
DeleteRowParentFirst(S, u, order) ==
  DeleteRows(AddOp(S, "DELETE", u), {c \in KidsOf(S.rows, u) : Deletable(S.rows[c])}, order)

\* _delete_row: its deletable children first.
DeleteRow(S, u, order) ==
  LET kids == KidsOf(S.rows, u)
      gone == {c \in kids : Deletable(S.rows[c])}
      Self(S1) == IF gone = kids THEN AddOp(S1, "DELETE", u) ELSE S1
  IN Self(DeleteRows(S, gone, order))

Deleted(S, u) == \E i \in DOMAIN S.ops : S.ops[i] = [op |-> "DELETE", row |-> u]

\* Mutant: the children that are in the data are deleted as well.
EmptyChildColumnWhole(S, u, key, given, order) ==
  [S |-> DeleteRows(S, {c \in KidsIn(S.rows, u, key) : Deletable(S.rows[c])}, order), kept |-> {}]

\* Mutant: the deleted children stay in the column.
EmptyChildColumnDangling(S, u, key, given, order) ==
  LET column == S.rows[u].kids[key]
  IN [S |-> DeleteRows(S, {k.row : k \in {k \in column : k.slot \notin given}}, order), kept |-> column]

\* _empty_child_column: what stays in the column.
EmptyChildColumn(S, u, key, given, order) ==
  LET column == S.rows[u].kids[key]
      gone == {k \in column : k.slot \notin given /\ Deletable(S.rows[k.row])}
      Result(S1) == [S |-> S1, kept |-> {k \in column : k \notin gone \/ ~Deleted(S1, k.row)}]
  IN Result(DeleteRows(S, {k.row : k \in gone}, order))

NewRow(t, index, d, up) ==
  [table |-> t, index |-> index, v |-> d.v, ref |-> NoRow,
   kids |-> [key \in Forward(t) |-> {}], up |-> up, owner |-> "config"]

\* insert_row_check, and the new row in global_ref_list.
Insert(S, t, index, d, up) ==
  AddOp([S EXCEPT !.rows = Set(@, S.next, NewRow(t, index, d, up)),
                  !.refList = Set(@, <<t, index, up>>, S.next),
                  !.next = @ + 1], "POST", S.next)

\* Mutant: a column that is not in the data keeps its value.
UpdateGiven(S, u, d) ==
  IF d.v \in {S.rows[u].v, Empty} THEN S
  ELSE AddOp([S EXCEPT !.rows[u].v = d.v], "PUT", u)

\* set_config_columns: a column that is not in the data is emptied.
Update(S, u, d) ==
  IF S.rows[u].v = d.v THEN S
  ELSE AddOp([S EXCEPT !.rows[u].v = d.v], "PUT", u)

RECURSIVE SetupRow(_, _, _, _, _, _, _)

\* The children that are in the data, set up; the pairs of the new column.
SetupEach(S, t, given, prior, up, order) ==
  LET Add(kids, index, r) ==
        [S |-> r.S, kids |-> kids \cup {[slot |-> index, row |-> u] : u \in {r.row} \ {NoRow}}]
  IN FoldLeft(LAMBDA acc, index :
                Add(acc.kids, index,
                    SetupRow(acc.S, t, index, given[index], prior[index], up, order)),
              [S |-> S, kids |-> {}], Walk(order, DOMAIN given))

\* A child column: emptied of what is not in the data, the rest set up.
SetupForward(S, u, key, given, new, order) ==
  LET kid == Schema[S.rows[u].table].kids[key]
      column == S.rows[u].kids[key]
      prior == [i \in DOMAIN given |->
                  IF kid.kind = "kv" /\ \E k \in column : k.slot = i
                  THEN (CHOOSE k \in column : k.slot = i).row ELSE NoRow]
      Column(kept, R) ==
        [R.S EXCEPT !.rows[u].kids[key] =
           {k \in kept : k.slot \notin {j.slot : j \in R.kids}} \cup R.kids]
      Fill(E) == Column(E.kept, SetupEach(E.S, kid.table, given, prior, NoRow, order))
  IN IF kid.kind = "single" /\ Cardinality(DOMAIN given) > 1 THEN [S EXCEPT !.failed = TRUE]
     ELSE Fill(IF new \/ (kid.kind = "single" /\ given # NoMap) THEN [S |-> S, kept |-> {}]
               ELSE EmptyChildColumn(S, u, key, DOMAIN given, order))

\* Children that refer to their parent: only those of a row that was there, and
\* those it already has once more.  A parent that refers to its own, and a child
\* without index, raise an exception.
SetupBackward(S, u, key, given, new, order) ==
  LET t == Schema[S.rows[u].table].kids[key].table
      kids == Backward(S.rows, u, t)
      gone == {c \in kids : S.rows[c].index \notin DOMAIN given /\ Deletable(S.rows[c])}
      again == {c \in kids : S.rows[c].index \in DOMAIN given}
      S1 == IF again = {} THEN S ELSE [S EXCEPT !.noted = @ \cup {"again"}]
  IN IF given # NoMap /\ (RefersUp(S.rows[u].table) \/ (~new /\ ~Schema[t].indexed)) THEN [S EXCEPT !.failed = TRUE]
     ELSE IF new THEN IF given = NoMap THEN S ELSE [S EXCEPT !.noted = @ \cup {"late"}]
     ELSE SetupEach(DeleteRows(S1, gone, order), t, given,
                    [i \in DOMAIN given |-> NoRow], u, order).S

\* setup_row: the row given, found by its index, or inserted; its children.
SetupRow(S, t, index, d, given, up, order) ==
  LET old == IF given # NoRow THEN given ELSE IndexToRow(S.base, t, index, up)
      new == old = NoRow
      u == IF new THEN S.next ELSE old
      S1 == IF new THEN Insert(S, t, index, d, up) ELSE Update(S, u, d)
      Kids(acc, key) ==
        LET data == At(d.kids, key, NoMap)
        IN IF key \in Forward(t) THEN SetupForward(acc, u, key, data, new, order)
           ELSE SetupBackward(acc, u, key, data, new, order)
  IN IF new /\ ~Insertable(t) THEN [S |-> S, row |-> NoRow]
     ELSE [S |-> FoldLeft(Kids, S1, Walk(order, Keys(t))), row |-> u]

\* setup_table: a table that is not in the data is emptied; one that is has
\* the rows of the data set up.
SetupTable(S, t, data, order) ==
  IF t \notin DOMAIN data
  THEN DeleteRows(S, {u \in DOMAIN S.rows : S.rows[u].table = t /\ Deletable(S.rows[u])}, order)
  ELSE SetupEach(S, t, data[t], [i \in DOMAIN data[t] |-> NoRow], NoRow, order).S

RECURSIVE SetupReferences(_, _, _, _, _)

\* setup_row_references: an index that leads nowhere raises an exception.
SetupReferences(S, t, u, d, order) ==
  LET target == IF d.ref = Empty THEN NoRow ELSE IndexOrNewRow(S, Schema[t].ref, d.ref, NoRow)
      S1 == IF u \notin DOMAIN S.rows THEN S
            ELSE IF d.ref # Empty /\ target = NoRow THEN [S EXCEPT !.failed = TRUE]
            ELSE [S EXCEPT !.rows[u].ref = target]
      Child(kid, key, index) ==
        CASE kid.kind = "back" -> IndexOrNewRow(S, kid.table, index, u)
          [] kid.kind = "kv" -> (CHOOSE k \in S.rows[u].kids[key] : k.slot = index).row
          [] OTHER -> IndexOrNewRow(S, kid.table, index, NoRow)
      Kids(acc, key) ==
        FoldLeft(LAMBDA a, index :
                   SetupReferences(a, Schema[t].kids[key].table,
                                   Child(Schema[t].kids[key], key, index),
                                   d.kids[key][index], order),
                 acc, Walk(order, DOMAIN d.kids[key]))
  IN IF u = NoRow THEN S
     ELSE FoldLeft(Kids, S1, Walk(order, IF u \in DOMAIN S.rows THEN DOMAIN d.kids ELSE {}))

Tops == {t \in DOMAIN Schema : Schema[t].top}

\* dc.write up to the validators.
Prepare(data, order) ==
  LET tables == Walk(order, Tops)
      S0 == [base |-> rows, rows |-> rows, ops |-> <<>>, refList |-> refList,
             next |-> next, failed |-> FALSE, noted |-> {}]
      S1 == FoldLeft(LAMBDA acc, t : SetupTable(acc, t, data, order), S0, tables)
      Refs(acc, t) ==
        IF t \notin DOMAIN data THEN acc
        ELSE FoldLeft(LAMBDA a, index :
                        SetupReferences(a, t, IndexOrNewRow(a, t, index, NoRow),
                                        data[t][index], order),
                      acc, Walk(order, DOMAIN data[t]))
  IN FoldLeft(Refs, S1, tables)

----------------------------------------------------------------------------
(* validatoradapter.py, and the commit.                                      *)

\* exec_validators_with_ops: a deletion that does not pass is not made; an
\* error of validation ends the write, another exception is swallowed.
Validated(S, verdict) ==
  LET is(i, op, v) == S.ops[i].op = op /\ verdict[i] = v
      gone == {S.ops[i].row : i \in {j \in DOMAIN S.ops : is(j, "DELETE", "pass")}}
  IN [errors |-> \E i \in DOMAIN S.ops : verdict[i] = "error",
      rows |-> [u \in DOMAIN S.rows \ gone |-> S.rows[u]]]

\* The operations a validator may give a verdict on that makes a difference:
\* one error is as good as many, and an exception matters for a deletion only.
Judged(S, kind) ==
  CASE kind = "pass"  -> {{}}
    [] kind = "error" -> {{i} : i \in DOMAIN S.ops}
    [] kind = "raise" -> SUBSET {i \in DOMAIN S.ops : S.ops[i].op = "DELETE"} \ {{}}

RECURSIVE Live(_, _)
Live(rs, us) ==
  LET more == us \cup {rs[u].up : u \in {x \in us : rs[x].up # NoRow}}
              \cup UNION {{k.row : k \in UNION {rs[u].kids[key] : key \in DOMAIN rs[u].kids}} : u \in us}
  IN IF more = us THEN us ELSE Live(rs, more)

\* Strong references to rows that are gone, and equal indexes, are refused.
Consistent(rs) ==
  /\ \A u \in DOMAIN rs :
       /\ rs[u].up \in DOMAIN rs \cup {NoRow}
       /\ \A key \in DOMAIN rs[u].kids : \A k \in rs[u].kids[key] : k.row \in DOMAIN rs
  /\ \A u, w \in DOMAIN rs :
       u # w /\ Schema[rs[u].table].indexed =>
         <<rs[u].table, rs[u].index, rs[u].up>> # <<rs[w].table, rs[w].index, rs[w].up>>

\* Unreferenced rows are collected; a weak reference to a row that is gone
\* is dropped.
Committed(rs) ==
  LET root == {u \in DOMAIN rs : rs[u].up # NoRow \/ Schema[rs[u].table].top}
      live == Live(rs, root)
  IN [u \in live |-> [rs[u] EXCEPT !.ref = IF @ \in live THEN @ ELSE NoRow]]

\* dc.write: what it returns, and the rows it leaves.
Written(S, verdict) ==
  LET V == Validated(S, verdict)
  IN CASE S.failed \/ V.errors     -> [outcome |-> "error", rows |-> S.base]
       [] V.rows = S.base          -> [outcome |-> "unchanged", rows |-> S.base]
       [] ~Consistent(V.rows)      -> [outcome |-> "error", rows |-> S.base]
       [] OTHER                    -> [outcome |-> "success", rows |-> Committed(V.rows)]

----------------------------------------------------------------------------
(* _read.py.                                                                *)

RECURSIVE RowData(_, _, _)

\* The children of a key-value column: the n-th child that has data goes
\* under the n-th key.
KvChildren(slots, data) ==
  LET full == SelectSeq(slots, LAMBDA s : data[s] # NoConfig)
  IN [s \in {slots[n] : n \in DOMAIN full} |-> data[full[CHOOSE n \in DOMAIN full : slots[n] = s]]]

\* The others: those that have data, under their index.
IndexedChildren(rs, data) ==
  LET full == {u \in DOMAIN data : data[u] # NoConfig}
  IN [i \in {rs[u].index : u \in full} |-> data[CHOOSE u \in full : rs[u].index = i]]

\* get_row_data: nothing for a row that is not configuration, or without an
\* index and empty.  Empty columns and children are left out.
RowData(rs, u, order) ==
  LET t == rs[u].table
      KidData(us) == [c \in us |-> RowData(rs, c, order)]
      Slots(column) == Walk(order, {k.slot : k \in column})
      BySlot(column, data) ==
        [s \in {k.slot : k \in column} |-> data[(CHOOSE k \in column : k.slot = s).row]]
      Kids(key, data) ==
        IF Schema[t].kids[key].kind = "kv"
        THEN KvChildren(Slots(rs[u].kids[key]), BySlot(rs[u].kids[key], data))
        ELSE IndexedChildren(rs, data)
      Row(all) ==
        [v |-> rs[u].v, ref |-> IF rs[u].ref = NoRow THEN Empty ELSE rs[rs[u].ref].index,
         kids |-> [key \in {k \in Keys(t) : all[k] # NoMap} |-> all[key]]]
      Config(d) ==
        IF rs[u].owner # "config"
           \/ (~Schema[t].indexed /\ d = [v |-> Empty, ref |-> Empty, kids |-> NoMap])
        THEN NoConfig ELSE d
  IN Config(Row([key \in Keys(t) |-> Kids(key, KidData(KidsIn(rs, u, key)))]))

\* dc.read: the tables that have data.
ReadConfig(rs, order) ==
  LET Data(t) == IndexedChildren(rs, [u \in {x \in DOMAIN rs : rs[x].table = t} |->
                                       RowData(rs, u, order)])
      Full(all) == [t \in {x \in Tops : all[x] # NoMap} |-> all[t]]
  IN Full([t \in Tops |-> Data(t)])

----------------------------------------------------------------------------
(* The requests.                                                            *)

Init ==
  /\ rows \in InitialRows
  /\ refList = NoMap
  /\ next = 1 + Cardinality(DOMAIN rows)
  /\ asked = NoConfig
  /\ outcome = "none"
  /\ ops = <<>>
  /\ noted = {}
  /\ judged = "pass"
  /\ writes = 0

\* PUT full-configuration: an error aborts the transaction (ConfigController),
\* but global_ref_list keeps what was inserted.
Write(data) ==
  /\ writes < MaxWrites
  /\ writes' = writes + 1
  /\ \E order \in Orders :
       \E S \in {Prepare(data, order)} :
         /\ \E kind \in Verdicts \cup {"pass"} : \E bad \in Judged(S, kind) :
              \E W \in {Written(S, [i \in DOMAIN S.ops |-> IF i \in bad THEN kind ELSE "pass"])} :
                /\ rows' = W.rows
                /\ outcome' = W.outcome
                /\ judged' = kind
         /\ refList' = S.refList
         /\ next' = S.next
         /\ ops' = S.ops
         /\ noted' = S.noted
  /\ asked' = data

\* Another client of OVSDB deletes a row that nothing refers to strongly.
DeleteOne ==
  /\ \E u \in {x \in DOMAIN rows : rows[x].table \in Deleters} :
       LET rs == [x \in DOMAIN rows \ {u} |-> rows[x]]
       IN Consistent(rs) /\ rows' = Committed(rs)
  /\ asked' = NoConfig
  /\ outcome' = "none"
  /\ ops' = <<>>
  /\ noted' = {}
  /\ judged' = "pass"
  /\ UNCHANGED <<refList, next, writes>>

Next == (\E data \in Inputs : Write(data)) \/ DeleteOne

Spec == Init /\ [][Next]_vars

----------------------------------------------------------------------------
TypeOK ==
  /\ \A u \in DOMAIN rows : rows[u].table \in DOMAIN Schema /\ u < next
  /\ Consistent(rows)
  /\ \A k \in DOMAIN refList : refList[k] < next
  /\ outcome \in {"none", "success", "unchanged", "error"}
  /\ writes \in 0 .. MaxWrites

Running(data) == \E order \in Orders : ReadConfig(rows, order) = data

\* A configuration written with success is the running configuration: rows,
\* children and references that are not in it are gone, and what is in it is
\* there, at any depth, whatever order the dictionaries are walked in and
\* whatever became of the writes before; but for the children of new rows that
\* refer to their parent, which setup_row leaves to the next write, and for
\* deletions whose validator raises anything but ValidationError.  (Of Inputs
\* that name the rows at the top of the tables they hold: PutOverwrites.)
Overwritten ==
  outcome \in {"success", "unchanged"} /\ "late" \notin noted /\ judged # "raise" => Running(asked)

\* "PUT is not an append, but is an overwrite operation", of every write
\* (DECLARATIVECONFIG.md).
PutOverwrites == outcome \in {"success", "unchanged"} => Running(asked)

\* What is read can be written back: it is accepted, and keeps every row that is
\* not empty, with its value.
ReadIsAccepted ==
  \A order \in Orders :
    \A S \in {Prepare(ReadConfig(rows, order), order)} :
      \A W \in {Written(S, [i \in DOMAIN S.ops |-> "pass"])} :
        /\ W.outcome # "error"
        /\ \A u \in DOMAIN rows :
             rows[u].v # Empty => u \in DOMAIN W.rows /\ W.rows[u].v = rows[u].v

\* It is unless it has a child that refers to its parent.
RoundTrip ==
  (\A u \in DOMAIN rows : rows[u].up # NoRow => rows[u].owner # "config") => ReadIsAccepted

\* A write is rejected by a validator, or for a child that refers to its parent
\* and is there already; never because of what else was in the database, or in a
\* write that was rejected, before, nor in any order of what it gives; validators
\* that raise have made a row stay that others do without.
RejectedForCause == judged = "pass" /\ "again" \notin noted => outcome # "error"

\* A row is deleted once, with all its children and after them, at any depth:
\* a row keeps its parent as long as it stays.
DeletedWithChildren ==
  [][\A i \in DOMAIN ops' : ops'[i].op = "DELETE" =>
       /\ \A j \in DOMAIN ops' : j # i => ops'[j] # ops'[i]
       /\ \A c \in KidsOf(rows, ops'[i].row) :
            \E j \in 1 .. i - 1 : ops'[j] = [op |-> "DELETE", row |-> c]]_vars

=============================================================================
