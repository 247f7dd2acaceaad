-------------------------------- MODULE ApiDoc --------------------------------
(***************************************************************************)
(* The generator of the API document, opslib/apidocgen.py, run on the       *)
(* schema that RestSchema parses: the operations of every path, the answers *)
(* they announce, and the definitions they refer to.  Texts are left out.   *)
(*                                                                         *)
(* A path is a sequence of [name, id]: a resource name, and whether an id   *)
(* follows.  genAPI calls itself for the children of a table: the calls     *)
(* that are still to be made are kept in a set.                             *)
(***************************************************************************)
EXTENDS RestSchema, SequencesExt

CONSTANT Plural  \* normalizeName: table -> its plural name

ASSUME PluralAssumption == \A f \in Files : \A t \in DOMAIN f : Plural[t] # None

VARIABLES
  paths,    \* path -> set of operations
  defined,  \* the definitions made: <<kind, table>>
  used,     \* the definitions referred to
  calls,    \* calls of genAPI to be made
  doc       \* "none", "tables", "done"

docVars == <<paths, defined, used, calls, doc>>
vars == <<parserVars, docVars>>

Step(name, id) == [name |-> name, id |-> id]

----------------------------------------------------------------------------
(* Answers.                                                                 *)

Common == {401, 403, 404, 405, 412, 500, 503}
Answers(method) ==
  Common \cup
  CASE method = "GET"              -> {200, 304, 406}
    [] method = "POST"             -> {201, 400, 406, 415}
    [] method \in {"PUT", "PATCH"} -> {200, 400, 406, 415}
    [] method = "DELETE"           -> {204}

\* What the server answers to an operation that succeeds.
Success(method) ==
  CASE method = "GET" -> 200 [] method = "POST" -> 201 [] method = "PUT" -> 200 [] OTHER -> 204

----------------------------------------------------------------------------
(* Operations.                                                              *)

\* Parameters of a GET: conditions and depth, and for a list all that selects
\* from it.
GetParams(t, instance) ==
  {"If-None-Match", "depth"} \cup
  IF instance THEN {"selector"}
  ELSE {"sort", "offset", "limit", "keys"}
       \cup {c \in DOMAIN file[t].columns :
               /\ c \in tables[t].config \cup tables[t].stats \cup tables[t].status \cup DOMAIN tables[t].references
               /\ ~file[t].columns[c].dict \/ c \in DOMAIN tables[t].references}

Op(method, params, refs) ==
  [method |-> method, params |-> params, ids |-> {}, answers |-> Answers(method), refs |-> refs]

\* genGetResource, genPostResource.
ListOps(t) ==
  {Op("GET", GetParams(t, FALSE), {<<"Resource", None>>}),
   Op("POST", {"data"}, {<<IF parent[t] = None THEN "ConfigReferenced" ELSE "ConfigOnly", t>>})}

\* genGetInstance, genPutInstance, genPatchInstance.
InstanceOps(t) ==
  {op \in {Op("GET", GetParams(t, TRUE), {<<"All", t>>}),
           Op("PUT", {"If-Match", "data"}, {<<"ConfigOnly", t>>}),
           Op("PATCH", {"If-Match", "data"}, {<<"PatchDocument", None>>})} :
     tables[t].config # {} \/ (op.method = "GET" /\ tables[t].status \cup tables[t].stats # {})}

\* genDelInstance.
DeleteOps == {Op("DELETE", {"If-Match"}, {})}

----------------------------------------------------------------------------
(* getDefinition.                                                           *)

Kinds == {"Config", "ConfigFull", "ConfigInstance", "ConfigData", "Status", "Stats", "All",
          "ConfigOnly", "ConfigReferenced"}

\* Mutant: a column stands for the table it refers to.
SubtablesNamed(t) == {c \in children[t] : c \in DOMAIN tables[t].references => tables[t].references[c].category # "status"}

\* The children whose data the full configuration refers to.
Subtables(t) ==
  {IF c \in DOMAIN tables[t].references THEN tables[t].references[c].target ELSE c :
     c \in {d \in children[t] : d \in DOMAIN tables[t].references => tables[t].references[d].category # "status"}}

\* System has the referenced tables of the top too.
TopsReferenced == {t \in DOMAIN tables : parent[t] = None /\ \E c \in DOMAIN refMap : refMap[c] = t}

DefinitionRefs(t) ==
  {<<kind, t>> : kind \in {"Config", "Status", "Stats", "ConfigFull", "ConfigInstance"}}
  \cup {<<"Resource", None>>, <<"ReferencedBy", None>>}
  \cup {<<"ConfigData", u>> : u \in Subtables(t) \cup IF t = System THEN TopsReferenced ELSE {}}

----------------------------------------------------------------------------
(* genAPI.                                                                  *)

\* Resources without parent, and those that refer to it, are many.
IsPlural(call) ==
  /\ call.name # None
  /\ call.of # None /\ call.name \in DOMAIN tables[call.of].references =>
       tables[call.of].references[call.name].plural

Call(t, name, of, prefix) == [table |-> t, name |-> name, of |-> of, prefix |-> prefix]

PathOf(call, id) ==
  IF call.name = None THEN call.prefix ELSE Append(call.prefix, Step(call.name, id))

\* Children in a column are named for it, the others for their table.
ChildCalls(t, prefix) ==
  {Call(tables[t].references[c].target, c, t, prefix) : c \in children[t] \cap DOMAIN tables[t].references}
  \cup {Call(u, Plural[u], t, prefix) : u \in children[t] \ DOMAIN tables[t].references}

\* The ids of a path are named for their distance from its end: {ppid}, {pid}, {id}.
Ids(path) == {Len(path) - i : i \in {j \in DOMAIN path : path[j].id}}

\* Mutant: the own id is left out.
CoreParamsParents(call, own) ==
  {Len(call.prefix) + 1 - i : i \in {j \in DOMAIN call.prefix : call.prefix[j].id}}

\* genCoreParams: an id for every parent that is many, and one of its own.
CoreParams(call, own) ==
  {Len(call.prefix) + 1 - i : i \in {j \in DOMAIN call.prefix : call.prefix[j].id}} \cup IF own THEN {0} ELSE {}

WithIds(ops, call, own) == {[op EXCEPT !.ids = CoreParams(call, own)] : op \in ops}

\* Mutant: the operations of a row replace those of the list.
OperationsReplaced(call) ==
  [p \in {PathOf(call, IsPlural(call))} |->
     WithIds(InstanceOps(call.table) \cup IF IsPlural(call) THEN DeleteOps ELSE {}, call, IsPlural(call))]

\* Those of a row, and of the list of rows when there are many.
Operations(call) ==
  [p \in {PathOf(call, FALSE), PathOf(call, IsPlural(call))} |->
     IF p # PathOf(call, IsPlural(call)) THEN WithIds(ListOps(call.table), call, FALSE)
     ELSE WithIds(InstanceOps(call.table) \cup IF IsPlural(call) THEN DeleteOps ELSE {}, call, IsPlural(call))]

\* The paths with operations of some of them put in.
With(ops) ==
  [p \in DOMAIN ops \cup DOMAIN paths |-> IF p \in DOMAIN ops THEN ops[p] ELSE paths[p]]

GenAPI(call) ==
  /\ doc = "tables"
  /\ call \in calls
  /\ paths' = With(Operations(call))
  /\ defined' = defined \cup Kinds \X {call.table}
  /\ used' = used \cup DefinitionRefs(call.table) \cup UNION {op.refs : op \in UNION {Operations(call)[p] : p \in DOMAIN Operations(call)}}
  /\ calls' = (calls \ {call})
              \cup IF call.name = None THEN {} ELSE ChildCalls(call.table, PathOf(call, IsPlural(call)))
  /\ UNCHANGED <<parserVars, doc>>

----------------------------------------------------------------------------
(* getFullAPI.                                                              *)

\* System, its children in columns, and the tables of the top.
Start ==
  /\ doc = "none"
  /\ phase = "done"
  /\ doc' = "tables"
  /\ defined' = {<<"PatchDocument", None>>}
  /\ calls' = {Call(System, None, None, <<>>)}
              \cup {Call(tables[System].references[c].target, c, System, <<>>) :
                      c \in children[System] \cap DOMAIN tables[System].references}
              \cup {Call(t, Plural[t], None, <<>>) : t \in {u \in DOMAIN tables \ {System} : parent[u] = None}}
  /\ UNCHANGED <<parserVars, paths, used>>

\* The full configuration, login and logout, logs and the account.  Login
\* and logout announce answers of their own.
FixedOps ==
  {"full-configuration"} \X
    {Op("GET", {"type"}, {<<"ConfigFull", System>>}), Op("PUT", {"type", "data"}, {<<"ConfigFull", System>>}),
     Op("PATCH", {"type", "data"}, {<<"ConfigFull", System>>})}
  \cup {"login"} \X {[Op("POST", {"username", "password"}, {<<"Error", None>>}) EXCEPT !.answers = {201, 400}]}
  \cup {"logout"} \X {[Op("POST", {}, {<<"Error", None>>}) EXCEPT !.answers = {200, 400, 401}]}
  \cup {"logs"} \X
    {Op("GET", {"priority", "after-cursor", "since", "until", "offset", "limit", "MESSAGE", "MESSAGE_ID",
                "PRIORITY", "SYSLOG_IDENTIFIER", "_PID", "_GID", "_UID"}, {<<"LogEntry", None>>})}
  \cup {"account"} \X
    {Op("GET", {}, {<<"StatusOnly", "Account">>}), Op("PUT", {"data"}, {<<"ConfigOnly", "Account">>})}

Fixed ==
  [p \in {<<Step(x[1], FALSE)>> : x \in FixedOps} |-> {x[2] : x \in {y \in FixedOps : p = <<Step(y[1], FALSE)>>}}]

\* genCustomDef.
AccountDefinitions == {"Config", "Status", "Stats", "All", "ConfigOnly", "StatusOnly"} \X {"Account"}

Finish ==
  /\ doc = "tables"
  /\ calls = {}
  /\ doc' = "done"
  /\ paths' = With(Fixed)
  /\ defined' = defined \cup AccountDefinitions \cup {<<"LogEntry", None>>, <<"Error", None>>, <<"Resource", None>>, <<"ReferencedBy", None>>}
  /\ used' = used \cup {<<"Error", None>>} \cup UNION {x[2].refs : x \in FixedOps}
  /\ UNCHANGED <<parserVars, calls>>

----------------------------------------------------------------------------
Init ==
  /\ InitParser
  /\ paths = <<>>
  /\ defined = {}
  /\ used = {}
  /\ calls = {}
  /\ doc = "none"

Generate == Start \/ (\E call \in calls : GenAPI(call)) \/ Finish

Next == (Parse /\ UNCHANGED docVars) \/ Generate

Spec == Init /\ [][Next]_vars 

----------------------------------------------------------------------------
(* Where the server takes a path (parse).                                   *)

Nowhere == [table |-> None, place |-> None, many |-> FALSE]

\* A column of the table that is a child, else the plural name of a child, else
\* of a table at the top.
PlaceOf(t, step) ==
  IF step.name \in tables[t].columns \cap children[t]
  THEN [table |-> tables[t].references[step.name].target, many |-> tables[t].references[step.name].plural,
        place |-> Place(t, "child", step.name)]
  ELSE LET us == {u \in DOMAIN tables : Plural[u] = step.name /\ (u \in children[t] \/ (t = System /\ parent[u] = None))}
           u == CHOOSE v \in us : TRUE
       IN IF us = {} THEN Nowhere
          ELSE [table |-> u, many |-> TRUE,
                place |-> Place(t, IF u \in children[t] THEN "back" ELSE "top", None)]

\* An id is one segment of the path: the value of the only column of the index
\* that is no parent, or, in a column of the parent, what the rows are listed by
\* there.  A table that is identified by its parents alone is not served.
Takes(t, relation, id) ==
  /\ tables[t].indexes # {}
  /\ id => IF tables[t].indexes = {"uuid"} THEN relation = "child" ELSE Cardinality(tables[t].indexes) = 1

Find(here, id) ==
  IF here.table # None /\ ~Takes(here.table, here.place.relation, id) THEN Nowhere ELSE here

\* One of many is found by its id, and an only child has none.
Resolve(path) ==
  LET found[n \in 0 .. Len(path)] ==
        IF n = 0 THEN [table |-> System, place |-> Place(System, None, None), many |-> FALSE]
        ELSE IF found[n - 1].table = None \/ (n > 1 /\ found[n - 1].many # path[n - 1].id) THEN Nowhere
        ELSE Find(PlaceOf(found[n - 1].table, path[n]), path[n].id)
  IN found[Len(path)]

\* Does the path lead to one row?
IsInstance(path) == path = <<>> \/ (Last(path).id = Resolve(path).many)

Served == {p \in DOMAIN paths : p \notin DOMAIN Fixed}

DocTypeOK ==
  /\ \A p \in DOMAIN paths : \A op \in paths[p] : op.method \in {"GET", "POST", "PUT", "PATCH", "DELETE"}
  /\ \A call \in calls : call.table \in DOMAIN tables
  /\ doc \in {"none", "tables", "done"}
  /\ doc # "none" => phase = "done"

\* Whatever a definition or an operation refers to is defined, for every
\* table that is documented and whatever the categories of its columns.
NothingDangles == doc = "done" => used \subseteq defined

\* Does the server serve every table on the way there, by an id where the path
\* has one?
Told(path) ==
  \A n \in DOMAIN path :
    LET at == Resolve(SubSeq(path, 1, n - 1))
        here == PlaceOf(at.table, path[n])
    IN at.table # None => Find(here, path[n].id) = here

\* The path of an operation leads the server to the table it documents, to one
\* row or to all as the operation needs, and the ids in it are its parameters;
\* but for the ids of tables the server finds no row of by one id.
PathsLeadThere ==
  \A p \in {q \in Served : Told(q)} :
    /\ Resolve(p).table # None
    /\ p # <<>> => (Last(p).id => Resolve(p).many)
    /\ \A op \in paths[p] :
         /\ \A r \in op.refs : r \in Kinds \X DOMAIN tables => r[2] = Resolve(p).table
         /\ op.method \in {"PUT", "PATCH", "DELETE"} => IsInstance(p)
         /\ op.method = "POST" => ~IsInstance(p)
         /\ op.ids = Ids(p)

\* The document has an id for the rows of every table, and the server no such
\* path for some of them: PathsLeadThere without its exception.
IdsAreTaken == \A p \in Served : Resolve(p).table # None

\* Are rows of the table served at a place, by their ids where there are many?
IsServed(t, place) ==
  Takes(t, place.relation, place.column # None => tables[place.of].references[place.column].plural)

\* Wherever the server finds rows of a table under a row that is documented,
\* there is a path to each of them, and one to all of them where they are many.
NothingIsLeftOut ==
  doc = "done" =>
    \A t \in DOMAIN tables : \A x \in {y \in Reachable(t) : IsServed(t, y)} :
      \A p \in {q \in Served : Resolve(q).table = x.of /\ IsInstance(q)} :
        LET below == {q \in Served : Len(q) = Len(p) + 1 /\ SubSeq(q, 1, Len(p)) = p /\ Resolve(q).table = t}
        IN /\ \E q \in below : IsInstance(q)
           /\ \A q \in below : Resolve(q).many => \E r \in below : Last(r) = Step(Last(q).name, FALSE)

\* A documented operation is one that the server does not refuse.
DocumentedIsServed ==
  \A p \in {q \in Served : Told(q)} :
    LET found == Resolve(p)
    IN \A op \in paths[p] : Allowed(op.method, found.table, found.place)

\* The answer to an operation on a table that succeeds is documented.
SuccessIsDocumented == \A p \in Served : \A op \in paths[p] : Success(op.method) \in op.answers

=============================================================================
