------------------------------ MODULE Reading ------------------------------
(***************************************************************************)
(* GET of an OVSDB resource (get.py), from the checks of RequestLifecycle   *)
(* to its answer, while the rows it reads come and go and other requests    *)
(* use the same schema.  The coroutine is suspended while columns are       *)
(* fetched on demand: before any row is read, and, with a depth of two or   *)
(* more, before the rows a row refers to are.                               *)
(*                                                                         *)
(* A resource is a row, the table of a collection, a column of its parent,  *)
(* or the rows that refer to their parent.  The rows read have a column of  *)
(* references whose category depends on the row (as the next hops of a      *)
(* route do), and columns that are fetched; what other columns hold is left *)
(* out, and so are the rows referred to.  The IDL is external: a fetch ends *)
(* when its reply is read, or in TRY_AGAIN with the session.  So is Python: *)
(* iterating over a dictionary whose size has changed raises RuntimeError;  *)
(* if as many came as went, what is still ahead is up to the hash table.    *)
(***************************************************************************)
EXTENDS RequestLifecycle, FiniteSets

CONSTANTS
  Rows,         \* rows the resource may have
  StatusRows,   \* those whose references are status, not configuration
  None,
  MaxChanges    \* changes of the replica while the request is suspended

ASSUME ReadingAssumption == StatusRows \subseteq Rows /\ MaxChanges \in Nat

Categories == {"configuration", "status"}
CategoryOf(r) == IF r \in StatusRows THEN "status" ELSE "configuration"
Kinds == {"row", "table", "column", "back"}

VARIABLES
  get,       \* the kind of resource, the depth, and whether its table is fetched
  stage,     \* "idle", "fetch", "list" or "nested": where get.py is
  fetch,     \* status of the transaction that fetches
  rows,      \* the rows of the resource in the replica
  size,      \* of the dictionary when the iteration began
  touched,   \* rows have changed since the coroutine was suspended
  todo,      \* rows still to be read
  current,   \* the row whose references are fetched
  listed,    \* rows read, with the category the references were put in
  category,  \* of the references, in the schema that all requests share
  answer,    \* the rows answered, and the page asked for
  changes,   \* how often rows have changed
  there,     \* history: rows that were there all along
  ever,      \* history: rows that have been there
  fresh,     \* history: rows whose columns this request has fetched
  unusual    \* history: a fetch "failed", rows "swapped", categories "mixed"

dataVars == <<rows, changes, there, ever, fresh>>
readVars == <<get, stage, fetch, size, touched, todo, current, listed, category,
              answer, unusual, dataVars>>

ReadingInit ==
  /\ Init
  /\ get = [kind |-> None, depth |-> 0, onDemand |-> FALSE]
  /\ stage = "idle" /\ fetch = None
  /\ rows = {} /\ size = 0 /\ touched = FALSE
  /\ todo = {} /\ current = None
  /\ listed = <<>>
  /\ category = "configuration"
  /\ answer = [rows |-> <<>>, offset |-> None, limit |-> None]
  /\ changes = 0
  /\ there = {} /\ ever = {} /\ fresh = {}
  /\ unusual = {}

----------------------------------------------------------------------------
(* The request.                                                             *)

\* With depth 0 a collection is a list of URIs, and no row is read.
OfUris(g) == g.kind # "row" /\ g.depth = 0

\* Mutant: the categories are those some earlier row has left.
UpdateNothing(r) == category' = category

\* update_category_keys, of the dictionaries of the schema itself.
UpdateCategoryKeys(r) == category' = CategoryOf(r)

\* fetch_readonly_columns, or _for_table, for the rows of the resource: its
\* status is logged, whatever it is; without a connection it is final at once.
FetchColumns ==
  \/ /\ fetch' = "incomplete"
     /\ stage' = "fetch"
     /\ UNCHANGED unusual
  \/ /\ fetch' = "try_again"
     /\ stage' = "list"
     /\ unusual' = unusual \cup {"failed"}

\* get_resource, up to the first fetch.  The row of a path is there; the rows
\* of a column, and those that refer to their parent, are collected now.
Begin ==
  /\ pc = "run" /\ sent = 0 /\ handler = "ovsdb" /\ method = "GET"
  /\ stage = "idle"
  /\ get' \in [kind : Kinds, depth : 0 .. 2, onDemand : BOOLEAN]
  /\ rows' \in SUBSET Rows
  /\ there' = rows' /\ ever' = rows'
  /\ size' = Cardinality(rows')
  /\ IF get'.kind = "row"
     THEN \E r \in rows' : todo' = {r} /\ UpdateCategoryKeys(r)
     ELSE todo' = rows' /\ UNCHANGED category
  /\ \/ /\ get'.onDemand /\ ~OfUris(get')
        /\ FetchColumns
     \/ /\ ~get'.onDemand \/ OfUris(get')
        /\ stage' = "list"
        /\ UNCHANGED <<fetch, unusual>>
  /\ UNCHANGED <<vars, touched, current, listed, answer, changes, fresh>>

Answer(code) ==
  /\ Run("ovsdb")
  /\ method = "GET"
  /\ Reply(code)

\* Arguments, a method that is not allowed, nothing there.
Refuse ==
  /\ stage = "idle"
  /\ \E code \in {400, 404, 500} : Answer(code)
  /\ UNCHANGED readVars

\* Resumed after the first fetch: a table is iterated over as it is now.
Resume ==
  /\ stage = "fetch"
  /\ fetch # "incomplete"
  /\ stage' = "list"
  /\ touched' = FALSE
  /\ IF get.kind = "table" THEN todo' = rows /\ size' = Cardinality(rows)
     ELSE UNCHANGED <<todo, size>>
  /\ UNCHANGED <<vars, get, fetch, current, listed, category, answer, unusual,
                 dataVars>>

Add(r, c) == listed' = Append(listed, [row |-> r, category |-> c])

\* get_row_json, up to the fetch of the rows referred to, if there is one;
\* the rows of a column are read without.
ReadRow(r) ==
  /\ stage = "list"
  /\ r \in todo
  /\ todo' = todo \ {r}
  /\ \/ /\ OfUris(get)
        /\ Add(r, None)
        /\ UNCHANGED <<stage, fetch, current, category, unusual>>
     \/ /\ ~OfUris(get)
        /\ r \in rows
        /\ UpdateCategoryKeys(r)
        /\ Add(r, category')
        /\ UNCHANGED <<stage, fetch, current, unusual>>
     \/ /\ get.onDemand /\ get.depth = 2 /\ get.kind # "column"
        /\ r \in rows
        /\ UpdateCategoryKeys(r)
        /\ fetch' = "incomplete"
        /\ stage' = "nested"
        /\ current' = r
        /\ UNCHANGED <<listed, unusual>>
  /\ UNCHANGED <<vars, get, size, touched, answer, dataVars>>

\* Mutant: the error ends the request without an answer.
ReadGoneSilently ==
  /\ stage = "list"
  /\ todo \ rows # {}
  /\ stage' = "idle" /\ pc' = "done" /\ ran' = TRUE
  /\ UNCHANGED <<handler, method, refusals, sent, audit, txn, get, fetch, size,
                 touched, todo, current, listed, category, answer, unusual,
                 dataVars>>

\* A row that is gone raises KeyError.
ReadGone ==
  /\ stage = "list"
  /\ ~OfUris(get)
  /\ todo \ rows # {}
  /\ Answer(500)
  /\ stage' = "idle"
  /\ UNCHANGED <<get, fetch, size, touched, todo, current, listed, category,
                 answer, unusual, dataVars>>

\* The references of a row are read, and put in the category they have now.  A
\* new session has a dictionary of its own, and the old one is iterated over.
ResumeRow ==
  /\ stage = "nested"
  /\ fetch # "incomplete"
  /\ Add(current, category)
  /\ stage' = "list"
  /\ touched' = FALSE
  /\ current' = None
  /\ IF get.kind = "table" /\ touched
     THEN \/ /\ Cardinality(rows) = size
             /\ todo' \in SUBSET rows
             /\ unusual' = unusual \cup {"swapped"}
          \/ UNCHANGED <<todo, unusual>>
     ELSE UNCHANGED <<todo, unusual>>
  /\ UNCHANGED <<vars, get, fetch, size, category, answer, dataVars>>

\* The row or one it refers to is gone, or the dictionary's size has changed.
ResumeGone ==
  /\ stage = "nested"
  /\ fetch # "incomplete"
  /\ Answer(500)
  /\ stage' = "idle"
  /\ UNCHANGED <<get, fetch, size, touched, todo, current, listed, category,
                 answer, unusual, dataVars>>

\* paginate_get_results, with limit counted from the offset.
From(offset) == IF offset = None THEN 0 ELSE offset

\* Mutant: limit is an index, not a number of rows.
ToIndex(list, offset, limit) == IF limit = None THEN Len(list) ELSE limit

To(list, offset, limit) ==
  IF limit = None THEN Len(list) ELSE From(offset) + limit

PageError(list, offset, limit) ==
  /\ <<offset, limit>> # <<None, None>>
  /\ \/ From(offset) > Len(list)
     \/ From(offset) >= To(list, offset, limit)

Least(a, b) == IF a < b THEN a ELSE b

Paginate(list, offset, limit) ==
  SubSeq(list, From(offset) + 1, Least(To(list, offset, limit), Len(list)))

\* Pages are of collections of rows; the answer of none is not looked at.
FinishReading ==
  /\ stage = "list"
  /\ todo = {}
  /\ stage' = "idle"
  /\ \E offset \in {None, 0, 1, 2}, limit \in {None, 0, 1, 2} :
       /\ get.kind = "row" \/ get.depth = 0 => <<offset, limit>> = <<None, None>>
       /\ IF listed # <<>> /\ PageError(listed, offset, limit)
          THEN Answer(400) /\ UNCHANGED answer
          ELSE /\ Answer(200)
               /\ answer' = [rows |-> Paginate(listed, offset, limit),
                             offset |-> offset, limit |-> limit]
  /\ UNCHANGED <<get, fetch, size, touched, todo, current, listed, category,
                 unusual, dataVars>>

----------------------------------------------------------------------------
(* What happens while the request is suspended.                             *)

Suspended == pc = "run" /\ stage \in {"fetch", "nested"}

\* Rows come and go in the replica, with the updates of the session or a new
\* one.  A row that comes back has not been fetched.
Change ==
  /\ Suspended
  /\ changes < MaxChanges
  /\ changes' = changes + 1
  /\ rows' \in SUBSET Rows \ {rows}
  /\ touched' = TRUE
  /\ there' = there \cap rows'
  /\ ever' = ever \cup rows'
  /\ fresh' = fresh \cap rows'
  /\ UNCHANGED <<vars, get, stage, fetch, size, todo, current, listed, category,
                 answer, unusual>>

\* Mutant: as for a column, the fetch of rows names the table of the parent.
FetchedOfParent == IF get.kind = "table" THEN rows ELSE {}

\* The rows whose columns the first fetch asks for: a whole table, or the rows
\* collected.  That of a column asks for columns of the parent's table.
Fetched ==
  CASE get.kind = "table" -> rows
    [] get.kind = "column" -> {}
    [] OTHER -> todo \cap rows

FetchEnds ==
  /\ Suspended
  /\ fetch = "incomplete"
  /\ \/ /\ fetch' = "success"
        /\ fresh' = IF stage = "fetch" THEN fresh \cup Fetched ELSE fresh
        /\ UNCHANGED unusual
     \/ /\ fetch' = "try_again"
        /\ unusual' = unusual \cup IF stage = "fetch" THEN {"failed"} ELSE {}
        /\ UNCHANGED fresh
  /\ UNCHANGED <<vars, get, stage, rows, size, touched, todo, current, listed,
                 category, answer, changes, there, ever>>

\* Another request reads or writes a row of the table.
OtherRequest ==
  /\ Suspended
  /\ category' \in Categories \ {category}
  /\ unusual' = unusual \cup IF stage = "nested" THEN {"mixed"} ELSE {}
  /\ UNCHANGED <<vars, get, stage, fetch, size, touched, todo, current, listed,
                 answer, dataVars>>

----------------------------------------------------------------------------
HandleUnaided ==
  \/ Unaided /\ UNCHANGED readVars
  \/ Begin \/ Refuse \/ Resume \/ ReadGone \/ ResumeRow \/ ResumeGone \/ FinishReading
  \/ \E r \in Rows : ReadRow(r)

Handle == HandleUnaided \/ (Woken /\ UNCHANGED readVars)

ReadingNext ==
  \/ Handle \/ Change \/ FetchEnds \/ OtherRequest
  \/ Done /\ UNCHANGED readVars

\* The loop runs the handler.  A fetch is a transaction as that of a write, and
\* may be passed over as well.
ReadingSpec ==
  /\ ReadingInit /\ [][ReadingNext]_<<vars, readVars>>
  /\ WF_<<vars, readVars>>(HandleUnaided)

----------------------------------------------------------------------------
Read200 == pc = "done" /\ handler = "ovsdb" /\ method = "GET" /\ sent = 200

AnsweredRows == {answer.rows[i].row : i \in DOMAIN answer.rows}

\* Although rows come and go while it is suspended, a GET lists no row twice,
\* none that was never there, and all that were there all along, or as many of
\* them as the page asked for holds; unless a table is iterated over and as
\* many rows came as went.
PagesAreFull ==
  Read200 /\ get.kind # "row" /\ "swapped" \notin unusual =>
    LET n == Len(answer.rows)
        rest == Cardinality(there) - From(answer.offset)
    IN /\ Cardinality(AnsweredRows) = n
       /\ AnsweredRows \subseteq ever
       /\ n >= rest \/ n = answer.limit

\* "Fetch all read-only columns prior to retrieving row data" (get.py): every
\* row read that was there all along has been fetched, unless the fetch failed,
\* but for the rows of a column.
FetchedBeforeRead ==
  Read200 /\ get.onDemand /\ ~OfUris(get) /\ get.kind # "column" /\ "failed" \notin unusual =>
    AnsweredRows \cap there \subseteq fresh

\* The references of every row are in the category that the row's own value
\* gives them, though all requests share the schema the category is kept in,
\* unless one changed it while the references were fetched.
CategoriesAreTheirs ==
  Read200 /\ ~OfUris(get) /\ "mixed" \notin unusual =>
    \A i \in DOMAIN answer.rows :
      answer.rows[i].category = CategoryOf(answer.rows[i].row)

\* The same of every GET, which the code does not ensure.
CategoriesAreAlwaysTheirs ==
  Read200 /\ ~OfUris(get) =>
    \A i \in DOMAIN answer.rows :
      answer.rows[i].category = CategoryOf(answer.rows[i].row)

\* A handler waits for a transaction, of its own or of a fetch.
Waits == pc = "waiting" \/ (Suspended /\ fetch = "incomplete")

\* Every request is answered, or waits for ever for a transaction that the
\* manager does not tell it the end of: nothing that prepare() or the method goes
\* through can leave a client without an answer otherwise.
AnsweredOrWaits == <>(pc = "done" /\ sent # 0) \/ <>[]Waits

\* A GET in steps is a GET of RequestLifecycle.
ImplementsLifecycle == Spec
=============================================================================
