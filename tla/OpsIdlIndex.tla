----------------------------- MODULE OpsIdlIndex -----------------------------
(***************************************************************************)
(* The index map of a table of the replica: ops/opsidl.py.  OpsIdl hooks    *)
(* into the processing of updates and keeps, for each table, a map from      *)
(* the value of its first index to the row.  An index may hold a reference  *)
(* to a row of another table, here its parent, and stands in the map with   *)
(* the UUID of that row.                                                    *)
(*                                                                         *)
(* An update says what one transaction of OVSDB did; Idl.run processes its  *)
(* rows in the arbitrary order of a dictionary, and nothing else of the     *)
(* daemon runs until all of them are processed.                             *)
(***************************************************************************)
EXTENDS Integers, FiniteSets

CONSTANTS
  Uuids, Parents,   \* UUIDs of rows, and of rows of the table referred to
  Names,            \* the values of the other index column
  None

Index == Names \X Parents

ASSUME IndexAssumption == None \notin Uuids \cup Index

VARIABLES
  table,      \* tables[...].rows: the index of each row, None without a row
  parents,    \* the rows of the other table
  index_map,  \* the row of each index, None without an entry
  batch,      \* what is left of the update being processed
  fresh,      \* the UUIDs that OVSDB has not given to any row yet
  reused      \* history: the indexes that one transaction of the session took
              \* from a row and gave to another

vars == <<table, parents, index_map, batch, fresh, reused>>

Idle == batch = {}
Rows(t) == {u \in Uuids : t[u] # None}

Init ==
  /\ table = [u \in Uuids |-> None]
  /\ parents = {}
  /\ index_map = [i \in Index |-> None]
  /\ batch = {}
  /\ fresh = Uuids \cup Parents
  /\ reused = {}

----------------------------------------------------------------------------
(* OVSDB.  No two rows have the same index, and a row keeps its parent in    *)
(* the database: the two go in one transaction.                             *)

Change == [op : {"create", "modify"}, uuid : Uuids, index : Index]
          \cup [op : {"delete"}, uuid : Uuids]
          \cup [op : {"create parent", "delete parent"}, parent : Parents]

Indexes(t) == {t[u] : u \in Rows(t)}

Creations(new) == {[op |-> "create", uuid |-> u, index |-> new[u]] : u \in DOMAIN new}
Deletions(gone) == {[op |-> "delete", uuid |-> u] : u \in gone}
OfParents(op, ps) == {[op |-> op, parent |-> p] : p \in ps}

\* What a transaction, or the first answer of a session, makes of the table:
\* it keeps the rows of `keep` and adds those of `new`.
Consistent(keep, new, alive) ==
  LET i(u) == IF u \in DOMAIN new THEN new[u] ELSE table[u]
  IN  /\ \A u, v \in keep \cup DOMAIN new : u # v => i(u) # i(v)
      /\ \A u \in keep \cup DOMAIN new : i(u)[2] \in alive

\* One transaction of any client, our own ones included.
Transact(gone, new, modified, dead, born) ==
  /\ Idle
  /\ Consistent(Rows(table) \ gone, new, (parents \ dead) \cup born)
  /\ batch' = Deletions(gone) \cup Creations(new)
              \cup {[op |-> "modify", uuid |-> u, index |-> table[u]] : u \in modified}
              \cup OfParents("delete parent", dead) \cup OfParents("create parent", born)
  /\ fresh' = fresh \ (DOMAIN new \cup born)
  /\ reused' = reused \cup ({new[u] : u \in DOMAIN new} \cap Indexes(table))
  /\ UNCHANGED <<table, parents, index_map>>

----------------------------------------------------------------------------
(* The replica.                                                             *)

\* _Idl__clear, before the first answer of a session is processed.
Clear ==
  /\ table' = [u \in Uuids |-> None]
  /\ parents' = {}
  /\ index_map' = [i \in Index |-> None]

\* A new session: its first answer creates whatever OVSDB now holds.
Reconnect(gone, new, dead, born) ==
  /\ Idle
  /\ Consistent(Rows(table) \ gone, new, (parents \ dead) \cup born)
  /\ Clear
  /\ batch' = Creations([u \in (Rows(table) \ gone) \cup DOMAIN new |->
                          IF u \in DOMAIN new THEN new[u] ELSE table[u]])
              \cup OfParents("create parent", (parents \ dead) \cup born)
  /\ fresh' = fresh \ (DOMAIN new \cup born)
  /\ reused' = {}

\* _row_to_index_lookup: a parent that is gone already is not in the index.
RowToIndex(u) ==
  IF table[u][2] \in parents THEN table[u] ELSE None

\* Mutant: the entry stays.
MapWithDeleted(u) == index_map

\* Mutant: the index is looked for without its reference.
MapWithoutName(u) ==
  [i \in Index |-> IF i[1] = table[u][1] THEN None ELSE index_map[i]]

\* _update_index_map(ROW_DELETE): whatever row has the entry.
MapWithoutRow(u) ==
  [i \in Index |-> IF i = RowToIndex(u) THEN None ELSE index_map[i]]

\* Mutant: the map holds the index itself.
MapWithIndex(u, index) == [index_map EXCEPT ![index] = index]

\* _update_index_map(ROW_CREATE)
MapWithRow(u, index) == [index_map EXCEPT ![index] = u]

\* _Idl__process_update, for one row: its creation, its deletion, or a
\* modification, which does not concern the map.
ProcessUpdate(c) ==
  /\ c \in batch
  /\ batch' = batch \ {c}
  /\ \/ /\ c.op = "delete"
        /\ table' = [table EXCEPT ![c.uuid] = None]
        /\ index_map' = MapWithoutRow(c.uuid)
     \/ /\ c.op = "create"
        /\ table' = [table EXCEPT ![c.uuid] = c.index]
        /\ index_map' = MapWithRow(c.uuid, c.index)
     \/ /\ c.op = "modify"
        /\ UNCHANGED <<table, index_map>>
  /\ UNCHANGED <<parents, fresh, reused>>

\* The same for a row of the table referred to.
ProcessParent(c) ==
  /\ c \in batch
  /\ batch' = batch \ {c}
  /\ \/ /\ c.op = "create parent"
        /\ parents' = parents \cup {c.parent}
     \/ /\ c.op = "delete parent"
        /\ parents' = parents \ {c.parent}
  /\ UNCHANGED <<table, index_map, fresh, reused>>

\* Functions from a few of the fresh UUIDs to indexes.
NewRows == UNION {[S -> Index] : S \in SUBSET (fresh \cap Uuids)}

Next ==
  \/ \E new \in NewRows, gone, modified \in SUBSET Rows(table),
       dead \in SUBSET parents, born \in SUBSET (fresh \cap Parents) :
       /\ modified \cap gone = {}
       /\ Transact(gone, new, modified, dead, born)
  \/ \E new \in NewRows, gone \in SUBSET Rows(table),
       dead \in SUBSET parents, born \in SUBSET (fresh \cap Parents) :
       Reconnect(gone, new, dead, born)
  \/ \E c \in batch : ProcessUpdate(c) \/ ProcessParent(c)

Spec == Init /\ [][Next]_vars

----------------------------------------------------------------------------

\* index_to_row_lookup, with an index formed from rows of the replica.
IndexToRow(i) == index_map[i]

Requested == {i \in Index : i[2] \in parents}

TypeOK ==
  /\ table \in [Uuids -> Index \cup {None}]
  /\ parents \subseteq Parents
  /\ index_map \in [Index -> Uuids \cup {None}]
  /\ batch \subseteq Change
  /\ fresh \subseteq Uuids \cup Parents
  /\ reused \subseteq Index

\* A lookup between updates returns no row that is gone and no row of another
\* index (ops/utils.py index_to_row and lookup_subscriber_by_name use what it
\* returns unseen).  Entries of rows whose parent left the replica before them
\* do stay in the map, but nobody can form their index again.
LookupIsSound ==
  Idle => \A i \in Requested : IndexToRow(i) # None => table[IndexToRow(i)] = i

\* A row of the replica is found under its index, unless a transaction of this
\* session deleted a row of that index and created another: then the order in
\* which the update is processed decides.
LookupIsComplete ==
  Idle => \A u \in Rows(table) :
            table[u] \in reused \/ IndexToRow(table[u]) = u

\* index_to_row_lookup: "This subroutine fetches the row reference using
\* index_values", of every row of the replica.
LookupFetches ==
  Idle => \A u \in Rows(table) : IndexToRow(table[u]) = u
=============================================================================
