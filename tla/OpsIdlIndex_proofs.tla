------------------------- MODULE OpsIdlIndex_proofs -------------------------
(* Proofs about OpsIdlIndex, for any rows, parents and names.               *)
EXTENDS OpsIdlIndex, TLAPS

Pending == {p \in Parents : [op |-> "create parent", parent |-> p] \in batch}

\* What is fresh is nowhere yet.
FreshIsUnknown ==
  /\ (parents \cup Pending) \cap fresh = {}
  /\ \A c \in batch : c.op = "create" => c.index[2] \notin fresh
  /\ \A u \in Uuids : table[u] # None => table[u][2] \notin fresh /\ u \notin fresh
  /\ \A i \in Index : index_map[i] # None => i[2] \notin fresh

\* An update creates a row once, and only one that is not there; it deletes no
\* row of a parent that it creates.
UpdateIsTrue ==
  /\ \A c \in batch : c.op = "create" => table[c.uuid] = None /\ c.uuid \notin fresh
  /\ \A c, d \in batch : c.op = "create" /\ d.op \in {"create", "delete"} =>
        c = d \/ c.uuid # d.uuid
  /\ \A c \in batch : c.op = "delete" /\ table[c.uuid] # None =>
        table[c.uuid][2] \notin Pending

\* An entry leads to a row of its index, even while an update is processed,
\* unless its parent has left the replica.
EntriesLead ==
  \A i \in Index : index_map[i] # None /\ i[2] \in parents \cup Pending =>
     table[index_map[i]] = i

IInv == TypeOK /\ FreshIsUnknown /\ UpdateIsTrue /\ EntriesLead

\* Two rows have the same index only if it was reused, be they in the replica
\* or about to be created.
IndexIsUnique ==
  /\ \A u, v \in Rows(table) : u # v /\ table[u] = table[v] => table[u] \in reused
  /\ \A c \in batch, u \in Rows(table) :
       c.op = "create" /\ c.index = table[u] => table[u] \in reused
  /\ \A c, d \in batch :
       c.op = "create" /\ d.op = "create" /\ c.index = d.index => c = d

\* Every row has its entry, even while an update is processed, unless its
\* index was reused.
RowsAreFound ==
  \A u \in Rows(table) : table[u] \in reused \/ index_map[table[u]] = u

Complete == IndexIsUnique /\ RowsAreFound

LEMMA InitIInv == Init => IInv
<1> SUFFICES ASSUME Init PROVE IInv
  OBVIOUS
<1> USE IndexAssumption DEF Init
<1>1. TypeOK
  BY DEF TypeOK
<1>2. FreshIsUnknown /\ UpdateIsTrue /\ EntriesLead
  BY DEF FreshIsUnknown, UpdateIsTrue, EntriesLead, Pending
<1>3. QED BY <1>1, <1>2 DEF IInv

LEMMA TransactKeepsIInv ==
  ASSUME IInv, NEW new \in NewRows,
         NEW gone \in SUBSET Rows(table), NEW modified \in SUBSET Rows(table),
         NEW dead \in SUBSET parents, NEW born \in SUBSET (fresh \cap Parents),
         Transact(gone, new, modified, dead, born)
  PROVE  IInv'
<1> USE IndexAssumption DEF IInv
<1> DEFINE rows == DOMAIN new
<1>1. /\ rows \subseteq fresh \cap Uuids
      /\ \A u \in rows : new[u] \in Index
  BY DEF NewRows
<1>2. /\ batch' = Deletions(gone) \cup Creations(new)
              \cup {[op |-> "modify", uuid |-> u, index |-> table[u]] : u \in modified}
              \cup OfParents("delete parent", dead) \cup OfParents("create parent", born)
      /\ fresh' = fresh \ (rows \cup born)
      /\ reused' = reused \cup ({new[u] : u \in rows} \cap Indexes(table))
      /\ UNCHANGED <<table, parents, index_map>>
  BY DEF Transact
<1>3. ASSUME NEW c \in batch'
      PROVE  \/ c.op = "delete" /\ c \in Change /\ c.uuid \in gone
             \/ /\ c.op = "create" /\ c \in Change /\ c.uuid \in rows
                /\ c = [op |-> "create", uuid |-> c.uuid, index |-> new[c.uuid]]
                /\ c.index = new[c.uuid]
             \/ c.op = "modify" /\ c \in Change
             \/ c.op = "delete parent" /\ c \in Change
             \/ c.op = "create parent" /\ c \in Change /\ c.parent \in born
  <2>1. CASE c \in Deletions(gone)
    <3>1. PICK u \in gone : c = [op |-> "delete", uuid |-> u]
      BY <2>1 DEF Deletions
    <3>2. QED BY <3>1 DEF Change, Rows
  <2>2. CASE c \in Creations(new)
    <3>1. PICK u \in rows : c = [op |-> "create", uuid |-> u, index |-> new[u]]
      BY <2>2 DEF Creations
    <3>2. QED BY <3>1, <1>1 DEF Change
  <2>3. CASE c \in {[op |-> "modify", uuid |-> u, index |-> table[u]] : u \in modified}
    <3>1. PICK u \in modified : c = [op |-> "modify", uuid |-> u, index |-> table[u]]
      BY <2>3
    <3>2. u \in Uuids /\ table[u] \in Index
      BY DEF Rows, TypeOK
    <3>3. QED BY <3>1, <3>2 DEF Change
  <2>4. CASE c \in OfParents("delete parent", dead)
    <3>1. PICK q \in dead : c = [op |-> "delete parent", parent |-> q]
      BY <2>4 DEF OfParents
    <3>2. QED BY <3>1 DEF Change, TypeOK
  <2>5. CASE c \in OfParents("create parent", born)
    <3>1. PICK q \in born : c = [op |-> "create parent", parent |-> q]
      BY <2>5 DEF OfParents
    <3>2. QED BY <3>1 DEF Change
  <2>6. QED BY <1>2, <2>1, <2>2, <2>3, <2>4, <2>5
<1>4. Pending' \subseteq born
  BY <1>3 DEF Pending
<1>5. ASSUME NEW u \in rows PROVE new[u][2] \in (parents \ dead) \cup born
  BY <1>5, <1>1 DEF Transact, Consistent
<1>6. TypeOK'
  <2>1. reused' \subseteq Index
    BY <1>1, <1>2 DEF TypeOK
  <2>2. QED BY <1>2, <1>3, <2>1 DEF TypeOK
<1>7. FreshIsUnknown'
  <2>1. (parents' \cup Pending') \cap fresh' = {}
    BY <1>2, <1>4 DEF FreshIsUnknown
  <2>2. ASSUME NEW c \in batch', c.op = "create" PROVE c.index[2] \notin fresh'
    <3>1. c.uuid \in rows /\ c.index = new[c.uuid]
      BY <2>2, <1>3
    <3>2. QED BY <3>1, <1>2, <1>5 DEF FreshIsUnknown
  <2>3. QED BY <1>2, <2>1, <2>2 DEF FreshIsUnknown
<1>8. UpdateIsTrue'
  <2>1. \A u \in rows : u \in fresh /\ table[u] = None
    BY <1>1 DEF FreshIsUnknown
  <2>2. \A u \in gone : table[u] # None
    BY DEF Rows
  <2>3. ASSUME NEW c \in batch', c.op = "create"
        PROVE  table'[c.uuid] = None /\ c.uuid \notin fresh'
    BY <2>3, <1>2, <1>3, <2>1
  <2>4. ASSUME NEW c \in batch', NEW d \in batch', c.op = "create",
               d.op \in {"create", "delete"}, c.uuid = d.uuid
        PROVE  c = d
    <3>1. CASE d.op = "create"
      BY <2>4, <3>1, <1>3
    <3>2. CASE d.op = "delete"
      BY <2>4, <3>2, <1>3, <2>1, <2>2
    <3>3. QED BY <2>4, <3>1, <3>2
  <2>5. ASSUME NEW c \in batch', c.op = "delete", table'[c.uuid] # None
        PROVE  table'[c.uuid][2] \notin Pending'
    BY <2>5, <1>2, <1>3, <1>4 DEF FreshIsUnknown, Rows
  <2>6. QED BY <2>3, <2>4, <2>5 DEF UpdateIsTrue
<1>9. EntriesLead'
  BY <1>2, <1>4 DEF EntriesLead, FreshIsUnknown
<1>10. QED BY <1>6, <1>7, <1>8, <1>9

LEMMA ReconnectKeepsIInv ==
  ASSUME IInv, NEW new \in NewRows, NEW gone \in SUBSET Rows(table),
         NEW dead \in SUBSET parents, NEW born \in SUBSET (fresh \cap Parents),
         Reconnect(gone, new, dead, born)
  PROVE  IInv'
<1> USE IndexAssumption DEF IInv
<1> DEFINE all == [u \in (Rows(table) \ gone) \cup DOMAIN new |->
                     IF u \in DOMAIN new THEN new[u] ELSE table[u]]
           alive == (parents \ dead) \cup born
<1>1. /\ DOMAIN new \subseteq fresh \cap Uuids
      /\ \A u \in DOMAIN new : new[u] \in Index
  BY DEF NewRows
<1>2. /\ batch' = Creations(all) \cup OfParents("create parent", alive)
      /\ fresh' = fresh \ (DOMAIN new \cup born)
      /\ table' = [u \in Uuids |-> None]
      /\ parents' = {}
      /\ index_map' = [i \in Index |-> None]
      /\ reused' = {}
  BY DEF Reconnect, Clear
<1>3. \A u \in DOMAIN all :
        u \in Uuids /\ all[u] \in Index /\ all[u][2] \in alive /\ u \notin fresh'
  BY <1>1, <1>2 DEF Reconnect, Consistent, Rows, TypeOK, FreshIsUnknown
<1>4. ASSUME NEW c \in batch'
      PROVE  \/ /\ c.op = "create" /\ c \in Change /\ c.uuid \in DOMAIN all
                /\ c = [op |-> "create", uuid |-> c.uuid, index |-> all[c.uuid]]
                /\ c.index = all[c.uuid]
             \/ c.op = "create parent" /\ c \in Change /\ c.parent \in alive
  <2>1. CASE c \in Creations(all)
    <3>1. PICK u \in DOMAIN all : c = [op |-> "create", uuid |-> u, index |-> all[u]]
      BY <2>1 DEF Creations
    <3>2. QED BY <3>1, <1>3 DEF Change
  <2>2. CASE c \in OfParents("create parent", alive)
    <3>1. PICK q \in alive : c = [op |-> "create parent", parent |-> q]
      BY <2>2 DEF OfParents
    <3>2. QED BY <3>1 DEF Change, TypeOK
  <2>3. QED BY <1>2, <2>1, <2>2
<1>5. alive \cap fresh' = {} /\ Pending' \subseteq alive
  BY <1>2, <1>4 DEF FreshIsUnknown, Pending
<1>6. TypeOK'
  BY <1>2, <1>4 DEF TypeOK
<1>7. FreshIsUnknown'
  <2> HIDE DEF all, alive
  <2>1. ASSUME NEW c \in batch', c.op = "create" PROVE c.index[2] \notin fresh'
    <3>1. c.uuid \in DOMAIN all /\ c.index = all[c.uuid]
      BY <2>1, <1>4
    <3>2. QED BY <3>1, <1>3, <1>5
  <2>2. QED BY <1>2, <1>5, <2>1 DEF FreshIsUnknown
<1>8. UpdateIsTrue'
  <2> HIDE DEF all, alive
  <2>1. \A c \in batch' : c.op # "delete"
    BY <1>4
  <2>2. \A c \in batch' : c.op = "create" =>
          /\ c.uuid \in DOMAIN all
          /\ c = [op |-> "create", uuid |-> c.uuid, index |-> all[c.uuid]]
    BY <1>4
  <2>3. \A c \in batch' : c.op = "create" => table'[c.uuid] = None /\ c.uuid \notin fresh'
    BY <2>2, <1>2, <1>3
  <2>4. QED BY <2>1, <2>2, <2>3 DEF UpdateIsTrue
<1>9. EntriesLead'
  BY <1>2 DEF EntriesLead
<1>10. QED BY <1>6, <1>7, <1>8, <1>9

LEMMA ProcessKeepsIInv ==
  ASSUME IInv, NEW c \in batch, ProcessUpdate(c) \/ ProcessParent(c)
  PROVE  IInv'
<1> USE IndexAssumption DEF IInv
<1>1. /\ batch' \subseteq batch /\ c \notin batch' /\ fresh' = fresh /\ c \in Change
      /\ reused' = reused
      /\ Pending' \subseteq Pending
  BY DEF ProcessUpdate, ProcessParent, TypeOK, Pending
<1>2. CASE ProcessUpdate(c) /\ c.op = "create"
  <2>1. /\ c.uuid \in Uuids /\ c.index \in Index
        /\ table' = [table EXCEPT ![c.uuid] = c.index]
        /\ index_map' = [index_map EXCEPT ![c.index] = c.uuid]
        /\ parents' = parents
    BY <1>1, <1>2 DEF ProcessUpdate, MapWithRow, Change
  <2>2. TypeOK'
    BY <1>1, <2>1 DEF TypeOK
  <2>3. FreshIsUnknown'
    BY <1>1, <1>2, <2>1 DEF FreshIsUnknown, UpdateIsTrue, TypeOK
  <2>4. UpdateIsTrue'
    <3>1. \A d \in batch' : d.op \in {"create", "delete"} => d.uuid # c.uuid
      BY <1>1, <1>2 DEF UpdateIsTrue
    <3>2. \A d \in batch' : d.op \in {"create", "delete"} => table'[d.uuid] = table[d.uuid]
      BY <3>1, <1>1, <2>1, ZenonT(60) DEF TypeOK, Change
    <3>3. QED BY <1>1, <3>2 DEF UpdateIsTrue
  <2>5. EntriesLead'
    BY <1>1, <1>2, <2>1 DEF EntriesLead, UpdateIsTrue, TypeOK
  <2>6. QED BY <2>2, <2>3, <2>4, <2>5
<1>3. CASE ProcessUpdate(c) /\ c.op = "delete"
  <2>1. /\ c.uuid \in Uuids
        /\ table' = [table EXCEPT ![c.uuid] = None]
        /\ index_map' = [i \in Index |-> IF i = RowToIndex(c.uuid) THEN None ELSE index_map[i]]
        /\ parents' = parents
    BY <1>1, <1>3 DEF ProcessUpdate, MapWithoutRow, Change
  <2>2. TypeOK'
    BY <1>1, <2>1 DEF TypeOK
  <2>3. FreshIsUnknown'
    BY <1>1, <2>1 DEF FreshIsUnknown, TypeOK
  <2>4. UpdateIsTrue'
    <3>1. \A d \in batch' : d.op \in {"create", "delete"} =>
            table'[d.uuid] \in {table[d.uuid], None}
      <4>1. \A d \in batch' : d.op \in {"create", "delete"} => d.uuid \in Uuids
        BY <1>1, ZenonT(60) DEF TypeOK, Change
      <4>2. \A u \in Uuids : table'[u] \in {table[u], None}
        BY <1>1, <2>1 DEF TypeOK
      <4>3. QED BY <4>1, <4>2
    <3>2. QED BY <1>1, <3>1 DEF UpdateIsTrue
  <2>5. EntriesLead'
    <3> SUFFICES ASSUME NEW i \in Index, index_map'[i] # None, i[2] \in parents \cup Pending
                 PROVE  table'[index_map'[i]] = i
      BY <1>1, <2>1 DEF EntriesLead
    <3>1. index_map'[i] = index_map[i] /\ i # RowToIndex(c.uuid) /\ table[index_map[i]] = i
      BY <2>1 DEF EntriesLead
    <3>2. index_map[i] # c.uuid
      <4> SUFFICES ASSUME index_map[i] = c.uuid PROVE FALSE
        OBVIOUS
      <4>1. table[c.uuid] = i /\ i # None
        BY <3>1
      <4>2. i[2] \notin Pending
        BY <4>1, <1>3 DEF UpdateIsTrue
      <4>3. QED BY <3>1, <4>1, <4>2 DEF RowToIndex
    <3>3. QED BY <2>1, <3>1, <3>2 DEF TypeOK
  <2>6. QED BY <2>2, <2>3, <2>4, <2>5
<1>4. CASE ProcessUpdate(c) /\ c.op = "modify"
  <2>1. UNCHANGED <<table, index_map, parents>>
    BY <1>4 DEF ProcessUpdate
  <2>2. QED BY <1>1, <2>1 DEF TypeOK, FreshIsUnknown, UpdateIsTrue, EntriesLead
<1>5. CASE ProcessParent(c)
  <2>1. /\ UNCHANGED <<table, index_map>>
        /\ parents' \subseteq parents \cup Pending
        /\ parents' \subseteq Parents
    BY <1>1, <1>5 DEF ProcessParent, Pending, Change, TypeOK
  <2>2. TypeOK'
    BY <1>1, <2>1 DEF TypeOK
  <2>3. FreshIsUnknown' /\ UpdateIsTrue' /\ EntriesLead'
    BY <1>1, <2>1 DEF FreshIsUnknown, UpdateIsTrue, EntriesLead
  <2>4. QED BY <2>2, <2>3
<1>6. QED BY <1>2, <1>3, <1>4, <1>5 DEF ProcessUpdate

LEMMA NextKeepsIInv == IInv /\ [Next]_vars => IInv'
<1> SUFFICES ASSUME IInv, [Next]_vars PROVE IInv'
  OBVIOUS
<1>1. CASE Next
  BY <1>1, TransactKeepsIInv, ReconnectKeepsIInv, ProcessKeepsIInv DEF Next
<1>2. CASE UNCHANGED vars
  BY <1>2 DEF vars, IInv, TypeOK, FreshIsUnknown, UpdateIsTrue, EntriesLead, Pending
<1>3. QED BY <1>1, <1>2

\* A change of a parent creates no row.
LEMMA ParentsAreOther ==
  ASSUME NEW ps, NEW op \in {"create parent", "delete parent"},
         NEW c \in OfParents(op, ps)
  PROVE  c.op # "create"
<1>1. PICK p \in ps : c = [op |-> op, parent |-> p]
  BY DEF OfParents
<1>2. c.op = op
  BY <1>1
<1>3. QED BY <1>2

LEMMA InitComplete == Init => Complete
BY IndexAssumption DEF Init, Complete, IndexIsUnique, RowsAreFound, Rows

LEMMA TransactKeepsComplete ==
  ASSUME IInv, Complete, NEW new \in NewRows,
         NEW gone \in SUBSET Rows(table), NEW modified \in SUBSET Rows(table),
         NEW dead \in SUBSET parents, NEW born \in SUBSET (fresh \cap Parents),
         Transact(gone, new, modified, dead, born)
  PROVE  Complete'
<1>1. /\ UNCHANGED <<table, parents, index_map>>
      /\ reused' = reused \cup ({new[u] : u \in DOMAIN new} \cap Indexes(table))
      /\ Consistent(Rows(table) \ gone, new, (parents \ dead) \cup born)
  BY DEF Transact
<1>2. ASSUME NEW c \in batch', c.op = "create"
      PROVE  \E u \in DOMAIN new : c = [op |-> "create", uuid |-> u, index |-> new[u]]
  <2>1. c \in Creations(new)
    <3>1. c \notin Deletions(gone)
      BY <1>2 DEF Deletions
    <3>2. c \notin OfParents("delete parent", dead) \cup OfParents("create parent", born)
      BY <1>2, ParentsAreOther
    <3>3. c \notin {[op |-> "modify", uuid |-> u, index |-> table[u]] : u \in modified}
      BY <1>2
    <3>4. QED BY <1>2, <3>1, <3>2, <3>3 DEF Transact
  <2>2. QED BY <2>1 DEF Creations
<1>3. Rows(table)' = Rows(table)
  BY <1>1 DEF Rows
<1>4. ASSUME NEW c \in batch', NEW u \in Rows(table), c.op = "create", c.index = table[u]
      PROVE  table[u] \in reused'
  <2>1. PICK v \in DOMAIN new : c = [op |-> "create", uuid |-> v, index |-> new[v]]
    BY <1>2, <1>4
  <2>2. c.index = new[v]
    BY <2>1
  <2>3. table[u] \in {new[w] : w \in DOMAIN new} \cap Indexes(table)
    BY <1>4, <2>2 DEF Indexes
  <2>4. QED BY <1>1, <2>3
<1>5. ASSUME NEW c \in batch', NEW d \in batch',
             c.op = "create", d.op = "create", c.index = d.index
      PROVE  c = d
  <2>1. PICK u \in DOMAIN new : c = [op |-> "create", uuid |-> u, index |-> new[u]]
    BY <1>2, <1>5
  <2>2. PICK v \in DOMAIN new : d = [op |-> "create", uuid |-> v, index |-> new[v]]
    BY <1>2, <1>5
  <2>3. new[u] = new[v]
    BY <1>5, <2>1, <2>2
  <2>4. u = v
    BY <1>1, <2>3 DEF Consistent
  <2>5. QED BY <2>1, <2>2, <2>4
<1>6. reused \subseteq reused'
  BY <1>1
<1>7. IndexIsUnique'
  BY <1>1, <1>3, <1>4, <1>5, <1>6 DEF Complete, IndexIsUnique
<1>8. RowsAreFound'
  BY <1>1, <1>3, <1>6 DEF Complete, RowsAreFound
<1>9. QED BY <1>7, <1>8 DEF Complete

LEMMA ReconnectKeepsComplete ==
  ASSUME IInv, NEW new \in NewRows, NEW gone \in SUBSET Rows(table),
         NEW dead \in SUBSET parents, NEW born \in SUBSET (fresh \cap Parents),
         Reconnect(gone, new, dead, born)
  PROVE  Complete'
<1> DEFINE all == [u \in (Rows(table) \ gone) \cup DOMAIN new |->
                     IF u \in DOMAIN new THEN new[u] ELSE table[u]]
<1>1. Rows(table)' = {}
  BY DEF Reconnect, Clear, Rows
<1>2. \A u, v \in DOMAIN all : all[u] = all[v] => u = v
  BY DEF Reconnect, Consistent
<1>3. ASSUME NEW c \in batch', c.op = "create"
      PROVE  \E u \in DOMAIN all : c = [op |-> "create", uuid |-> u, index |-> all[u]]
  <2>1. c \in Creations(all)
    <3>1. c \notin OfParents("create parent", (parents \ dead) \cup born)
      BY <1>3, ParentsAreOther
    <3>2. QED BY <1>3, <3>1 DEF Reconnect
  <2>2. QED BY <2>1 DEF Creations
<1>4. ASSUME NEW c \in batch', NEW d \in batch',
             c.op = "create", d.op = "create", c.index = d.index
      PROVE  c = d
  <2> HIDE DEF all
  <2>1. PICK u \in DOMAIN all : c = [op |-> "create", uuid |-> u, index |-> all[u]]
    BY <1>3, <1>4
  <2>2. PICK v \in DOMAIN all : d = [op |-> "create", uuid |-> v, index |-> all[v]]
    BY <1>3, <1>4
  <2>3. QED BY <1>2, <1>4, <2>1, <2>2
<1>5. QED BY <1>1, <1>4 DEF Complete, IndexIsUnique, RowsAreFound

LEMMA ProcessKeepsComplete ==
  ASSUME IInv, Complete, NEW c \in batch, ProcessUpdate(c) \/ ProcessParent(c)
  PROVE  Complete'
<1> USE IndexAssumption DEF Complete
<1>1. /\ batch' \subseteq batch /\ c \notin batch' /\ reused' = reused /\ c \in Change
      /\ TypeOK
  BY DEF ProcessUpdate, ProcessParent, TypeOK, IInv
<1>2. CASE ProcessUpdate(c) /\ c.op = "create"
  <2>1. /\ c.uuid \in Uuids /\ c.index \in Index
        /\ table' = [table EXCEPT ![c.uuid] = c.index]
        /\ index_map' = [index_map EXCEPT ![c.index] = c.uuid]
    BY <1>1, <1>2 DEF ProcessUpdate, MapWithRow, Change
  <2>2. /\ table'[c.uuid] = c.index
        /\ \A u \in Rows(table)' : u # c.uuid => u \in Rows(table) /\ table'[u] = table[u]
    BY <1>1, <2>1 DEF TypeOK, Rows
  <2>3. \A u \in Rows(table) : c.index = table[u] => table[u] \in reused
    BY <1>2 DEF IndexIsUnique
  <2>4. \A d \in batch' : d.op = "create" => d.index # c.index
    BY <1>1, <1>2 DEF IndexIsUnique
  <2>5. IndexIsUnique'
    <3>1. \A u, v \in Rows(table)' :
            u # v /\ table'[u] = table'[v] => table'[u] \in reused
      BY <2>2, <2>3 DEF IndexIsUnique
    <3>2. \A d \in batch', u \in Rows(table)' :
            d.op = "create" /\ d.index = table'[u] => table'[u] \in reused
      BY <1>1, <2>2, <2>4 DEF IndexIsUnique
    <3>3. \A d, e \in batch' :
            d.op = "create" /\ e.op = "create" /\ d.index = e.index => d = e
      BY <1>1 DEF IndexIsUnique
    <3>4. QED BY <1>1, <3>1, <3>2, <3>3 DEF IndexIsUnique
  <2>6. RowsAreFound'
    <3> SUFFICES ASSUME NEW u \in Rows(table)', table'[u] \notin reused
                 PROVE  index_map'[table'[u]] = u
      BY <1>1 DEF RowsAreFound
    <3>1. CASE u = c.uuid
      BY <1>1, <2>1, <2>2, <3>1 DEF TypeOK
    <3>2. CASE u # c.uuid
      <4>1. u \in Rows(table) /\ table'[u] = table[u] /\ index_map[table[u]] = u
        BY <2>2, <3>2 DEF RowsAreFound
      <4>2. table[u] # c.index
        BY <2>3, <4>1
      <4>3. table[u] \in Index
        BY <1>1, <4>1 DEF TypeOK, Rows
      <4>4. QED BY <1>1, <2>1, <4>1, <4>2, <4>3 DEF TypeOK
    <3>3. QED BY <3>1, <3>2
  <2>7. QED BY <2>5, <2>6
<1>3. CASE ProcessUpdate(c) /\ c.op = "delete"
  <2>1. /\ c.uuid \in Uuids
        /\ table' = [table EXCEPT ![c.uuid] = None]
        /\ index_map' = [i \in Index |-> IF i = RowToIndex(c.uuid) THEN None ELSE index_map[i]]
    BY <1>1, <1>3 DEF ProcessUpdate, MapWithoutRow, Change
  <2>2. /\ \A u \in Rows(table)' : u \in Rows(table) /\ u # c.uuid /\ table'[u] = table[u]
    BY <1>1, <2>1 DEF TypeOK, Rows
  <2>3. IndexIsUnique'
    BY <1>1, <2>2 DEF IndexIsUnique
  <2>4. RowsAreFound'
    <3> SUFFICES ASSUME NEW u \in Rows(table)', table'[u] \notin reused
                 PROVE  index_map'[table'[u]] = u
      BY <1>1 DEF RowsAreFound
    <3>1. u \in Rows(table) /\ u # c.uuid /\ table'[u] = table[u] /\ table[u] \in Index
      BY <1>1, <2>2 DEF TypeOK, Rows
    <3>2. index_map[table[u]] = u
      BY <3>1 DEF RowsAreFound
    <3>3. table[u] # RowToIndex(c.uuid)
      <4> SUFFICES ASSUME table[u] = RowToIndex(c.uuid) PROVE FALSE
        OBVIOUS
      <4>1. table[c.uuid] = table[u]
        BY <3>1 DEF RowToIndex
      <4>2. c.uuid \in Rows(table)
        BY <2>1, <3>1, <4>1 DEF Rows
      <4>3. QED BY <3>1, <4>1, <4>2 DEF IndexIsUnique
    <3>4. QED BY <2>1, <3>1, <3>2, <3>3
  <2>5. QED BY <2>3, <2>4
<1>4. CASE UNCHANGED <<table, index_map>>
  <2>1. Rows(table)' = Rows(table)
    BY <1>4 DEF Rows
  <2>2. IndexIsUnique'
    BY <1>1, <1>4, <2>1 DEF IndexIsUnique
  <2>3. RowsAreFound'
    BY <1>1, <1>4, <2>1 DEF RowsAreFound
  <2>4. QED BY <2>2, <2>3
<1>5. QED BY <1>2, <1>3, <1>4 DEF ProcessUpdate, ProcessParent

LEMMA NextKeepsComplete == IInv /\ Complete /\ [Next]_vars => Complete'
<1> SUFFICES ASSUME IInv, Complete, [Next]_vars PROVE Complete'
  OBVIOUS
<1>1. CASE Next
  BY <1>1, TransactKeepsComplete, ReconnectKeepsComplete, ProcessKeepsComplete DEF Next
<1>2. CASE UNCHANGED vars
  BY <1>2 DEF vars, Complete, IndexIsUnique, RowsAreFound, Rows
<1>3. QED BY <1>1, <1>2

\* The index map keeps its inductive invariant, whatever transactions do and
\* however often the session is made again.
THEOREM Invariance == Spec => []IInv
BY InitIInv, NextKeepsIInv, PTL DEF Spec

\* Every variable of the index map keeps its type (ops/opsidl.py).
THEOREM TypeCorrectness == Spec => []TypeOK
<1>1. IInv => TypeOK
  BY DEF IInv
<1>2. QED BY Invariance, <1>1, PTL

\* index_to_row_lookup returns no row that is gone and no row of another
\* index, in whatever order the rows of an update are processed.
THEOREM LookupsAreSound == Spec => []LookupIsSound
<1>1. IInv => LookupIsSound
  BY DEF IInv, LookupIsSound, EntriesLead, IndexToRow, Requested
<1>2. QED BY Invariance, <1>1, PTL

\* index_to_row_lookup finds every row of the replica, but for the indexes that
\* one transaction of the session took from a row and gave to another.
THEOREM LookupsAreComplete == Spec => []LookupIsComplete
<1>1. Complete => LookupIsComplete
  BY DEF Complete, RowsAreFound, LookupIsComplete, IndexToRow
<1>2. Spec => []Complete
  BY InitComplete, NextKeepsComplete, Invariance, PTL DEF Spec
<1>3. QED BY <1>1, <1>2, PTL
=============================================================================
