# TLA+ models of ops-restd

`ops-restd` is the REST daemon of OpenSwitch: one Tornado process that serves
the switch's OVSDB database over HTTPS and WebSockets.  This directory holds
its formal models, the TLC configurations that check them on small instances,
and the TLAPS proofs of the properties that hold for every instance.

    tlasany OvsdbManager.tla
    tlc -config ManagerSafety.cfg MCOvsdbManager.tla
    tlc -config RequestLifecycle.cfg Reading.tla
    tlapm OvsdbManager_proofs.tla

`PROJECT.json` lists runs, mutants, theorems, hazards, and the source lines
every definition stands for.  A mutant is an operator of the module itself,
marked `Mutant:`, that a plausible mistake would turn the definition below it
into, and that the property named with it catches.

1. Inventory. 2. Modules. 3. Runs. 4. Divergences. 5. Proofs. 6. Not modelled.
7. Plan.

## 1. Inventory

The daemon is single-threaded.  All concurrency is the interleaving of IOLoop
callbacks: a handler runs until it yields on a `tornado.locks.Event`, and what
it read before may have changed when it resumes.  Its data is a local replica
of OVSDB kept by the OVS Python IDL (not part of the repository).

| Component | State | Operations | What is hard | What makes it correct | Module |
|---|---|---|---|---|---|
| Connection manager and transactions (`opsrest/manager.py`, `transaction.py`) | `connected`, `curr_seqno`, descriptor handler, two timers, `txn_list`, callbacks | `idl_init`, `idl_reconnect`, `idl_run`, `check_transactions`, `monitor_transaction` | replies without updates, lost connections, transactions outstanding across them, a list changed while it is enumerated | nobody suspended is forgotten; statuses are not stale; the IDL will always be run again | `OvsdbManager`, `TxnService` |
| REST handlers (`handlers/*.py`) | one transaction per request, `resource_path`, headers sent | `prepare`, the method handlers, `transaction_complete`, `on_exception`, `process_if_match`, `on_finish` | a request refused and still run; several ways to finish; checks against the replica | one answer, and a true one; conditional writes are conditional | `RequestLifecycle`, `ConditionalWrites` |
| Resource code (`post.py`, `put.py`, `patch.py`, `delete.py`, `verify.py`, `utils/utils.py`) | rows under construction in `Idl.txn` | create, update, patch, delete a row and the references to it | columns written back whole from the replica; garbage collection; references on either side | what was answered is in the database, and nothing else went | `Resources`, `ConditionalWrites` |
| Reading (`get.py`, `utils/getutils.py`) | none of its own | GET of a row, table or column, depth, pages | suspension while on-demand columns are fetched; boundary arithmetic | the page asked for, of rows as they are | `Reading` |
| Dynamic categories (`utils.py:update_category_keys`, `resource.py`) | the schema's dictionaries, shared by all requests | move a column to the category its row says | one request leaves the schema changed for the next | a row's categories depend on that row only | `Reading` |
| URI parsing (`parse.py`) | none | path to chain of resources | three relations, with names, keys and only children | the URIs the daemon gives lead back | `Resources`, `ApiDoc` |
| WebSocket subscribers (`handlers/websocket/*`) | socket registry in memory, subscriber rows in OVSDB | open, close, send | close during open, restarts, two stores out of step | a subscriber row for each open socket and only for those | `Subscribers` |
| Notifications (`opsrest/notifications/*`) | subscriptions by uuid and by table, rows of each collection | create, add, remove a subscription; compute and send changes | sequence numbers, batches of changes, exceptions half way, reconnection | every change of a subscribed resource is told once, and truly | `Notifications` |
| Index map (`ops/opsidl.py`) | `index_map` of each table | maintained by each update of the replica | order of delete and create in a batch | it is the inverse of the rows' indexes | `OpsIdlIndex` |
| Declarative configuration (`ops/dc.py`, `_write.py`, `_read.py`, `utils.py`, `validatoradapter.py`) | `global_ref_list`, rows under construction | read and write the whole configuration | state kept between writes; deletion postponed to validation; dictionaries in any order | what is written is what runs; what is read can be written | `DeclarativeConfig` |
| Schema parser (`opslib/restparser.py`) and API documents (`opslib/apidocgen.py`) | tables, then constant | parse; generate paths, operations, definitions | dictionaries in any order; the same rules stated twice | parents are found; the document is that of the server | `RestSchema`, `ApiDoc` |
| Validators (`opsvalidator/*`), custom resources, audit log, start-up, notification monitor | | | | | section 6 |

Interactions: handlers, WebSockets, fetches of on-demand columns
(`utils.py:1072-1120`) and the configuration controller all commit through
`OvsdbConnectionManager`; the manager's CHANGES callbacks drive notifications;
notifications write to WebSockets; validators are called by resource code and
by the declarative configuration; all handlers share one schema object.

How the modules are composed:

    TxnService  <---refines---  OvsdbManager
        ^ INSTANCE
    Subscribers                                  the commits of a socket
    RequestLifecycle <--refines-- Reading        a GET, in steps, with the replica
    RestSchema <--EXTENDS-- ApiDoc               the document of the parsed schema

The others stand alone: the part of the manager they rest on is stated in them
by one action each (a server that executes, a replica that is read, a session
that is made again) with exactly the liberties `OvsdbManager` has.

## 2. Modules

External code (the IDL, ovsdb-server, Python's dictionaries, Tornado) is
modelled as the code uses it, and marked so in `PROJECT.json`.

### OvsdbManager

The core: the write path from a handler to OVSDB and back, under any
interleaving of requests and any behaviour of the connection.

| State | Code |
|---|---|
| `pc`, `answer` | where the coroutine of `post`, `put`, `patch` or `delete` is, and the class of what it answered |
| `status`, `event` | `OvsdbTransaction.status` (cached by `commit()`) and `.event` |
| `txnStatus` | `_status` of the IDL's own transaction, which moves in `Idl.run` |
| `txnList`, `timer` | `transactions.txn_list`, `txn_timeout_handle` |
| `scan`, `txnIncomplete` | position of `enumerate` and the local of `check_transactions` |
| `connected`, `fd`, `retry` | `connected`, the handler of `ovs_socket`, and the method `timeout_handle` calls |
| `slot`, `link`, `wire` | `Idl.txn`, the JSON-RPC session, and messages on the socket |
| `sent`, `decision` | ovsdb-server: transactions received, and what it did |

One action is one callback of the IOLoop, with everything it calls.  The loop
of `check_transactions` is one step per element (`CheckNext`), because `pop`
shifts the list under `enumerate`; every other callback waits for its end, and
only the server and the connection move in between.  A sent commit is
INCOMPLETE until `Idl.run` reads its reply, an update moves `change_seqno`, a
reply alone does not; a new session turns what is outstanding into TRY_AGAIN;
`Idl.run` asserts that no transaction is under construction.

A request is a model value; its data only decides whether the resource code
raises.  `Rejected` stands for any `APIException` and `ValueErrorRaised` for a
`ValueError` (e.g. `str()` of a non-ASCII index in `utils.py:609`), which the
handlers answer without `abort()`.  The transaction stays in `slot` then, and
no other is made (`NotMade` is every error before there is a transaction, the
500 of that one included) until a request that fails while it waits clears
`Idl.txn` with its own `abort()`.  `LossModes` says how a connection may be
lost: always by an error event with nothing left to read; with `"unread"` also
with updates left in the buffer; with `"send"` also detected by a commit, which
closes the socket.

### TxnService

What the daemon promises a client, with no transport: one answer, `success`
only for what the database did, definite failures only for what it did not and
never will.  `try_again` leaves the outcome open.  `OvsdbManager` implements
it with the identity mapping of `pc`, `answer`, `sent` and `decision`.  It is
also the interface through which `Subscribers` commits.

### Subscribers

The WebSockets of `handlers/websocket` and their rows of
`Notification_Subscriber`.  `_open` inserts the row and tells the socket its
URI; `_on_close` deletes the row if `lookup_subscriber_by_name` finds it.
Both wait for their commits, so a close may come in the middle of an open.

| State | Code |
|---|---|
| `socket` | the Tornado connection; `ending` is between `self.close()` and `on_close` |
| `websockets` | `WSBaseHandler.websockets` |
| `subscribed` | `write_message` of the subscriber's URI has been called on an open socket |
| `pc`, `answer`, `sent`, `decision` | the two commits of each socket, as in `TxnService` |
| `status` | the transaction's status in the IDL; `dead` after a restart |
| `replica`, `wire`, `snapshot`, `link` | what the IDL's lookup sees, what is still to be read, the reply of the monitor request, the connection |
| `rows` | the rows in OVSDB |

Every commit is a step of `Txn == INSTANCE TxnService WITH Requests <- Commits`
(`Submit`, `Refuse`, `Decide`, `Report`) joined with what it does to rows and
replica.  Liberties: descriptors and timers are left out, so a handler may
resume as soon as its status is final and a lost connection is noticed at any
later moment; sockets have ids of their own (they are UUIDs); the rows of
subscribers that are not WebSockets are left out, as no WebSocket handler
touches them, and `opsplugins/notification_subscriber.py` refuses REST requests
that would add or delete a WebSocket's.

### OpsIdlIndex

`OpsIdl` hooks into the processing of updates and keeps, per table, a map from
the value of its first index to the row.  `table`, `parents` and `index_map`
are the replica and the map; `batch` is what is left of the update being
processed, row by row in any order (`Create`, `Modify`, `Delete` and those of
the parents), `Transact` a transaction of OVSDB as it arrives, `NewSession` a
reconnection.  An index may hold a reference to a row of another table, so that
it cannot be computed once that row is gone.  UUIDs are not used twice
(`fresh`).  Index columns are immutable in OVSDB and do not change.

### Notifications

Subscriptions to a row or to the rows of a collection of one table, and what
their subscribers are told.  `rows` and `subs` are the two tables of the
replica, `track`, `subTrack` and `stale` what `track_get()` returns and whether
its sequence number is new, `served` and `rows_to_uri` the state of
`NotificationHandler`, and `view` the client's.  `IdlRun` is one `Idl.run` with
any changes, `Reconnect` the first of a new session, after which
`idl_establish_connection` runs no CHANGES callbacks.  The two callbacks run in
either order (`StartCheck`, `StartChanges`), one subscription a step
(`CheckSubscription`, `ChangesOf`); that a failing subscription stops the
callback (`Fail`) or itself only (`Mismatch`) follows the `try` blocks.
Their coroutines never wait, as `get_row_json` is called without fetching.

`unusual` counts, as a history, the updates of the kinds that section 4 says
lose messages.

### RequestLifecycle

What any handler does with a request from `prepare` to `on_finish`: which check
refuses it, whether `prepare` goes on after that, what the method runs, what is
sent first, and what the audit log is given.  `refusals` collects the checks of
`prepare` that have failed; `sent` is the status that went out, after which a
second `finish` is an error that Tornado catches; `txn` is the end of the
transaction of a write; the handlers are those of OVSDB resources, custom
resources, login and logout.  A write ends as `OvsdbManager` shows it to, if its
handler is woken (`Woken`), which is not assumed.  The Location of a POST is set
after the commit and inside its `try` (`ovsdbapi.py:159`): where the header does
not take the index, the answer is 400 although the row is there
(`LocationRefused`).

### Reading

`RequestLifecycle` with a GET of rows in steps: `Begin` up to the first fetch
of on-demand columns, `Resume`, `ReadRow` and, where the rows it refers to are
fetched, `ResumeRow`, then `FinishReading` with the page.  While it is
suspended rows come and go (`Change`), a fetch succeeds or ends with its
session (`FetchEnds`), and other requests move a column between the
dictionaries of the shared schema (`OtherRequest`).  A table is iterated over
as a dictionary of the replica, while the rows of a column and those that
refer to their parent are collected before the fetch.  Python refuses to go on
iterating over a dictionary whose size has changed; if as many rows came as
went, which ones are skipped is up to the hash table (`swapped`).  After a new
session it goes on over the old dictionary, undisturbed.

### ConditionalWrites

Clients that GET one row and write it back by PUT with If-Match or by PATCH.
`process_if_match` and `patch_resource` look at the replica; the transaction
that follows carries no condition.  `db`, `replica` and `wire` are the row at
the server, at the daemon and in between; `flight` the transactions that the
server has not executed; `Reconnect` a new session.

### Resources

POST, PUT of references and DELETE, and the URIs of the rows.  A schema gives
each table its columns of references: children in a list, under a key or
alone, parents that rows refer to, plain references; and the parent columns
that are in its index (`scope`).  The parser drops these (`restparser.py:578`),
so that two rows of one name may be below two parents, and a path leads to the
first of the name or nowhere (`verify_index`).  Names that a path or a header
does not hold as they are (`Unsafe`) come unquoted out of a path and are not
quoted in every URI and Location (`utils.py:601`, `:652`, `:804`).  A request is checked
against the replica and becomes a transaction (`Post`, `Put`, `Delete`,
`DeleteAll`): the rows it inserts and deletes and the columns it writes, each
with the whole value the replica had plus or minus one.  `Execute` is
ovsdb-server: all or nothing, strong references, garbage collection.  `Read`
brings the replica up to date.  `Follow` is `parse_url_path`; `RowToUri` and
`GetReferenceUri` are the two functions that make the URI of a row.  The first
drops what it has at a row without parent (`utils.py:1007`), the second takes
any column of the parent that refers to the table for the one of its children
(`TraceColumns`, `utils.py:984`).  `IsReferenced` reads `reference_map`, in which
the first table with a column of some name is the only one that counts
(`restparser.py:598`).

Left out: children without an index in a list, which are addressed by their
place in it; references under keys that are not children; indexes of several
names; types, ranges and weak references.  DELETE of a whole collection at the top always ends with an
error (`delete.py:84`), so there is no such action.

### DeclarativeConfig

PUT of `full-configuration` (`Write`) and its GET (`ReadConfig`).  `Prepare` is
`dc.write` up to the validators: tables, rows, children and references in the
order in which Python walks the dictionaries (`Orders`); `Validated` executes
the validators, with any verdict of `Verdicts`, and deletes what passes;
`Written` is the outcome with the server's checks and garbage collection.
`refList` is `global_ref_list`, which outlives a write.  `DeleteOne` is another
client of OVSDB.  A row has one configuration column and one reference; its
children are in a list, under keys, alone, or refer to it.

A row that refers to its parent has the parent in its index, and `_write.py:438`
looks for it with the text of the parent's UUID: `index_to_row` takes that for a
name of the parent's table, drops it, and what is left of the index is never
found (`IndexToRow`).  The child is inserted once more, and the server refuses
two of one index; only in `global_ref_list`, whose key is that text too, is it
found.  For a parent that refers to its own parent the lookup raises
(`RefersUp`).

`ops`, `noted` and `judged` are histories: what was validated; whether a new
row had children that refer to it, which only the next write makes (`"late"`),
or a row such children that it already had (`"again"`); and the worst verdict.

Left out: columns that must hold a child (1..1).

### RestSchema and ApiDoc

`RestSchema` is the parser of the extended schema, as it walks columns and
relationships in any order (`ParseTable`, `WalkRelationship`, ...), and the rules
that parser and handlers each have for which tables REST adds rows to.
`ApiDoc` continues it with `genAPI`: `paths` with their operations, `defined`
and `used` definitions, and the recursive calls still to be made.  `Resolve`
is where `parse` takes a documented path: an id is one segment, and is taken
only for a table with one column in its index that is no parent, or in a column
of the parent (`Takes`); of a table without index at the top, or that refers to
its parent, no row is found by an id (`parse.py:193-221`).  A table with a parent column to
`System` gets no path, as no schema of a switch has one.

### MC modules

They give the constants: `MCOvsdbManager`, `MCSubscribers`, `MCOpsIdlIndex`,
`MCNotifications` symmetry sets and small functions; `MCApiDoc`,
`MCResources`, `MCDeclarativeConfig` schemas, inputs and first databases.

## 3. Runs

| Run | Instance | Question |
|---|---|---|
| `manager_safety` | 3 requests (one bad), both loss modes, 2 unread updates | are wake-ups, list, statuses, answers and polling right in every interleaving, and is `TxnService` implemented; is the IDL always heard through exactly one of descriptor and timer, and if not, why |
| `manager_answers` | 2 requests, plain losses | is a request answered that is alone, or while checks keep starting; deadlock is checked |
| `manager_skipped` | 2 requests | **violated**: divergence 1 |
| `subscribers_safety` | 2 sockets, rejected commits, losses, 1 restart | has a told socket its row; does a deleted row stay deleted |
| `subscribers_live` | 2 sockets, losses | is each open socket told or closed in the end, and does its row go after it |
| `index_safety` | 4 rows, 2 parents, 2 names | does a lookup find the row asked for, and no other |
| `notifications` | 3 rows in 2 collections, 2 subscriptions, 2 changes of each kind an update | is each subscription served, and told every change, truly |
| `request_lifecycle` | 4 handlers, all methods, all checks; 3 rows, one change | what is run, told and audited; is a request answered that waits for no transaction; which rows a GET lists, and in which categories; does a GET in steps implement one in a step |
| `conditional_writes` | 2 clients, 2 columns, 2 values, 2 writes | are updates lost; does a client read its own writes |
| `config` | 1 top table with three kinds of children and one with three levels and a child alone; 2 orders, 2 writes | is what was written what runs, and can what was read be written |
| `api_documented` | 9 schemas, any order of walking | are parents and mutability right; does the document agree with the server |
| `resources` | 7 schemas, 4 rows, 4 writes, 2 requests at a time, 2 names of which one needs quotes | what did a request that succeeded do; where do URIs lead |

State counts range from a thousand (`api_documented`, where the schemas are the
instances) to two million (`notifications`); none takes more than two minutes
with two workers.

Every module has a type invariant.  Those of the state machines of section 5 are
theorems; they and the others hold in the instances above and are not repeated
in the configurations, as they say little else.

### Bounds

- Manager: two requests are the fewest that make `pop` skip one; with the third
  a skipped, a completed and a fresh request coexist.  `MaxWire` bounds only
  the updates of other clients that are unread; replies are bounded by the
  requests, and reading any prefix of the wire covers every way `Idl.run` may
  batch.  Symmetry is over the requests that are not bad, and used for safety
  only.
- Subscribers: two sockets share one connection and one wire, so that the
  reading of one socket's update may be separated from the other's by any
  event; a socket never reads another's row.  One restart suffices for a commit
  sent before it and a socket opened after it.
- Index: with two names and two parents there are indexes that share either;
  four UUIDs let a row be replaced twice, or two at once, and session follow.
- Notifications: two rows in one collection and one in the other, so that an
  update may bring a row of the collection together with one that is not, and
  two changes of the same table in one update.  `MaxUnusual = 1` lets the
  messages of such an update, and of all later ones, be judged for truth.
- Reading: with three rows one may leave, one come and one stay, and pages of
  one or two rows have something before and after them.
- Conditional writes: two writes overlap, or do not; a third client's write is
  as good as one of the second's.
- Configuration: two writes, because state is kept between writes
  (`global_ref_list`, children left to the next); two orders that are the
  reverse of each other for every pair that matters; a validator may reject
  any write, after it has left its rows in `global_ref_list`.  The inputs are
  those that section 4 does not show to go wrong for one reason each: they name
  the rows at the top of a table they do not leave out, move no child to
  another parent, give every child under a key some data, and refer to rows
  they hold; the rows at first are configuration.
- Resources: two requests at a time are what a stale replica takes; four rows
  are a parent, its child, another and one that refers to it, or two parents
  with a child of one name each; four writes build that up and change it.

`CHECK_DEADLOCK FALSE` is said where the daemon can really go deaf (hazards at
`manager.py:134`, `transaction.py:35`, `ovsdbapi.py:166`) or where a bound or the end of all
sockets, files and requests leaves nothing to do.

### Fairness

`FairSpec` of `OvsdbManager`: the IOLoop runs every ready event and timer in
each turn, so `ReadEvent`, `ErrorEvent`, `Resume` and the retry timer get
strong fairness (they may be disabled for the duration of a pass of
`check_transactions`); the transaction timer is removed and re-armed by each
check, so it gets weak fairness only.  The server executes what it receives,
and a session that is retried is accepted some day; without that no liveness
holds for any client of a database.

`FairSpec` of `Subscribers` assumes the same of server, IOLoop and connection,
thus also what divergences 1 and 2 show the manager may fail to do: its liveness
is that of the WebSocket code given a manager that answers.  A client need not
ever close a socket, but one the daemon has closed is reported to `on_close`
(Tornado does).

`ReadingSpec` and `Spec` of `RequestLifecycle`: weak fairness of the steps a
handler takes without waiting (`Unaided`, `HandleUnaided`), which the loop runs.
That a waiting handler is woken, or a fetch ends, is not assumed, as divergence 1
has the manager pass completed transactions over: `AnsweredOrWaits` says that
nothing else keeps a request from being answered.

### Histories

Some properties exclude, by a history variable, what section 4 shows the code
not to ensure; each exclusion names one kind of event and nothing that merely
happens at the same time.  `reused` (an index taken from one row and given to another in
one transaction), `unusual` of `Notifications` (an update that is not plain, a
new session) and of `Reading` (a fetch that failed, as many rows gone as came,
categories changed during a fetch of references), `overlap` (a write sent
while another is under way), `noted` (new rows with children that refer to them,
or such children that are there already), `judged` (a validator that raises).

## 4. Divergences seen while modelling

`manager_skipped` is a run of `PROJECT.json`.  The others each have a
configuration here that TLC finds violated; what of the same question does hold
is a property of a run.  `ReadingDiverges`, `ApiDiverges` and `ResourcesDiverge`
list several properties, each of which is violated: TLC stops at the first, and
without it at the next.

| | Configuration | Module | Property | What the code does |
|---|---|---|---|---|
| 1 | `ManagerSkipped` | `MCOvsdbManager` | `CompletedIsAnswered` | `check_transactions` pops while enumerating (`manager.py:184-191`): a completed transaction that follows another is not seen in that pass, and if nothing was INCOMPLETE no timer is started; its client waits for some other commit or update.  DESIGN.md:86 promises a check of every transaction. |
| 2 | `ManagerDrained` | `MCOvsdbManager` | `SeqnoChangeMeansReestablished` | `idl_reconnect` takes any change of `change_seqno` for a new connection (`manager.py:133-141`); updates drained from a dying socket are one.  `connected` is then set while the session is down, with neither descriptor nor timer. |
| 3 | `SubscribersLeft` | `MCSubscribers` | `ClosedIsCleaned` | `_on_close` looks its row up in the replica (`websocket/notifications.py:107`): a client that closes after OVSDB has the row and before the daemon has read the update leaves it there.  tests/ops-restd_test.md:229 fails a daemon that does. |
| 4 | `IndexReplaced` | `MCOpsIdlIndex` | `LookupFetches` | A deleted row takes the entry of its index with it whatever row it leads to (`opsidl.py:59`): replaced within one transaction, the live row is lost until the next session. |
| 5 | `NotificationsLost` | `MCNotifications` | `EveryChangeIsTold` | A row of another collection or one modified ends the changes of a whole subscription (`subscription.py:265`); a row modified and deleted in one run raises KeyError for all (`:123`); what changed while reconnecting is never reported (`manager.py:152`).  tests/ops-restd_test.md:484, 671, 1485. |
| 6 | `NotificationsUnserved` | `MCNotifications` | `EverySubscriberIsServed` | A subscription created and deleted before the callback runs ends it with KeyError (`notifications/handler.py:212`); other new ones are not served.  tests/ops-restd_test.md:346. |
| 7 | `ConditionalLost` | `ConditionalWrites` | `PreconditionHolds` | If-Match is compared with the replica and not by the transaction (`handlers/base.py:187`): of two conditional writes on their way, the second undoes the first.  So does PATCH (`patch.py:177`). |
| 8 | `ReadingDiverges` | `Reading` | `CategoriesAreAlwaysTheirs` | The categories of a row are set before the fetch of the rows it refers to and used after it (`get.py:191`, `:367`); another request changes them in between.  test_ops-restd_ct_dynamic_categories.py:251 expects the category of the row. |
| 9 | `ConfigKept` | `MCDeclarativeConfig` | `PutOverwrites` | `setup_table` deletes the rows of a top table only if the whole table is missing (`_write.py:134`): a row that is missing from a table with other rows stays.  DECLARATIVECONFIG.md:40: "PUT is not an append, but is an overwrite operation". |
| 10 | `ConfigNewParent` | `MCDeclarativeConfig` | `PutOverwrites` | Children that refer to a row that this write inserts are dropped, with success (`_write.py:397`). |
| 11 | `ConfigMoved` | `MCDeclarativeConfig` | `RejectedForCause` | A child that moves to another parent is found in the index map although it is to be deleted (`_write.py:352`); the write fails, in one order of the parents. |
| 12 | `ConfigBackward` | `MCDeclarativeConfig` | `ReadIsAccepted` | A child that refers to its parent is looked for with the text of the parent's UUID (`_write.py:438`), which `index_to_row` takes for a name (`ops/utils.py:141`): never found, it is inserted again and refused by its index.  A configuration that holds one can be read and not be written.  DECLARATIVECONFIG.md:48. |
| 13 | `ConfigRaised` | `MCDeclarativeConfig` | `PutOverwrites` | A validator that raises anything but ValidationError has a deletion skipped and no error reported (`validatoradapter.py:63`). |
| 14 | `ConfigStale` | `MCDeclarativeConfig` | `PutOverwrites` | `global_ref_list` resolves a reference to a row that has been deleted since (`_write.py:275`); the write succeeds without it. |
| 15 | `ConfigCounted` | `MCDeclarativeConfig` | `RoundTrip` | After a child without data, later ones are read under the key of the one before (`_read.py:77`). |
| 16 | `ConfigOrphaned` | `MCDeclarativeConfig` | `DeletedWithChildren` | A grandchild that stays does not keep the row at the top of it (`_write.py:96`); the comment at `:99` says otherwise. |
| 17 | `ApiDiverges` | `MCApiDoc` | `ImmutableIsNotCreated` | A root table without index is immutable for the parser (`restparser.py:696`) and not for POST and DELETE (`verify.py:77`). |
| 18 | `ApiDiverges` | `MCApiDoc` | `DocumentedIsServed` | POST and DELETE are documented for tables whose column or index is not configuration, and always refused (`apidocgen.py:912`). |
| 19 | `ApiDiverges` | `MCApiDoc` | `SuccessIsDocumented` | PATCH answers 204 (`ovsdbapi.py:308`); the document has 200 (`apidocgen.py:145`). |
| 20 | `ResourcesDiverge` | `MCResources` | `UrisLeadBack` | `row_to_uri` starts the path anew at a row without parent (`utils.py:1007`): everything below it gets the URI of that row. |
| 21 | `ResourcesDiverge` | `MCResources` | `ReferencesLeadBack` | The reference URI below an only child names an index that no path has (`utils.py:674`). |
| 22 | `ResourcesDiverge` | `MCResources` | `DeletedIsGone` | DELETE of a row of the root set that others may refer to removes the references and not the row (`delete.py:95`). |
| 23 | `ResourcesDiverge` | `MCResources` | `CreationKeeps` | POST under a key that is taken replaces the child and answers 201 (`utils.py:142`). |
| 24 | `ResourcesDiverge` | `MCResources` | `CreatedIsThere` | POST of a row that nothing is asked to refer to, in a table without root, is answered 201 and collected (`verify.py:732`); so is POST of an only child that is there, whose column cannot take two (`utils.py:169`). |
| 25 | `ResourcesDiverge` | `MCResources` | `CreationAlwaysKeeps` | Of two creations under one parent at a time, the second takes the reference of the first away (`utils.py:168`). |
| 26 | `ReadingDiverges` | `Reading` | `DoneIsTold` | The Location of a POST is set inside the `try` of the commit (`ovsdbapi.py:158-161`): if the header does not take it, the client is answered 400 although the row was created. |
| 27 | `ApiDiverges` | `MCApiDoc` | `IdsAreTaken` | The document has a path with an id for the rows of every table (`apidocgen.py:940`); for a table without index at the top, or that refers to its parent, the parser goes on with the id as if it were a name and answers 404 (`parse.py:193-221`). |
| 28 | `ResourcesDiverge` | `MCResources` | `SharedNamesLeadBack` | The parser takes the parent out of an index (`restparser.py:578`), so rows of one name may be below two parents; `verify_index` looks at the first of that name in the table only (`parse.py:242`), and the others have no URI that leads to them. |
| 29 | `ResourcesDiverge` | `MCResources` | `KeysLeadBack` | Keys of key-value columns stand in URIs as they are (`utils.py:652`, `:804`): one with a slash leads nowhere. |
| 30 | `ResourcesDiverge` | `MCResources` | `ReferredLeadBack` | `get_reference_uri` takes the first column of the parent that refers to the table, a plain reference too (`utils.py:984`): the URI of a row the parent does not refer to ends there. |
| 31 | `ResourcesDiverge` | `MCResources` | `LocationLeadsThere` | The Location of a new row holds a single index as it is (`utils.py:601`), and leads nowhere also if an older row has its name below another parent (`parse.py:242`). |

Noticed while reading, and not modelled.  `get.py`: `get_column_json` passes the
parent's table to the fetch (367), so on-demand columns of the rows of a column
are not fetched, and rows at the third level never are; a path does not check
that a list child belongs to that parent, only that it exists.  And while reading
`_write.py`: a column that must hold a child (1..1) asks `delete_row_check` with
the table of the parent (463), so whether the child may go depends on that; a
table that refers to its parent and has no index is refused in a full
configuration (`:437`, ValueError).  Each write of a full configuration registers
all validator plugins again (`validator.py:43`), so `g_validators` grows.

## 5. Proofs

`OvsdbManager_proofs` proves, for any set of requests, any `BadRequests`,
`LossModes` and `MaxWire`:

- `Invariance`: `IInv`, inductive.  The safety properties are not inductive by
  themselves: that a status is current needs what the IDL may still do to it
  (`PhaseStatus`), that answers are true needs that statuses and the replies
  still on the wire are what the server decided (`StatusMatchesDecision`,
  `WireMatchesDecision`), that nobody is woken twice needs `ListedOnce`, and
  that a fresh request starts clean is `NewIsFresh`.  The proof has one lemma
  per group of callbacks: handlers, checks, the IDL, the environment.
- `TypeCorrectness`, `WakeupsAreKept`, `ListHasNoDuplicates`,
  `SignalledStatusIsCurrent`, `AnswersAreTrue`: consequences of `IInv`.
- `ListIsPolled`: needs also what a pass in progress knows (`PollInv`).
- `ConnectionIsHeard`: `HeardOnce`, for any `BadRequests` and `LossModes`.
  `ConnInv` ties descriptor, timer, session and wire together, and says of each
  state in which nothing will run the IDL which of the three ways led to it
  (`LeakedTxn`, `TakenForNew`, `FoundByCommit`): there is no fourth.
- `Refinement`: `Spec => ImplementsTxnService`, by a lemma that maps each
  callback to a step of `TxnService` or a stutter.

`Subscribers_proofs` proves, for any set of sockets, any `Failures` and any
`MaxRestarts`:

- `Invariance`: `IInv`.  `SubscriberIsThere` relates what a socket was told to
  what the server holds, several steps apart: it needs that a status, an
  answer and the contents of replica and snapshot never run ahead of what
  OVSDB decided (`SuccessIsApplied`), that a deletion is committed only for a
  closed socket whose insertion was applied (`DeleteAfterInsert`: this is why
  the lookup, which divergence 3 is about, must not be dropped), that a commit
  not made has no effect (`NewIsFresh`), and that the rows are those inserted
  and not deleted (`RowsMatchDecisions`).
- `TypeCorrectness`, `SubscribersExist`, `DeletionsLast`: consequences.

`OpsIdlIndex_proofs` proves, for any sets of UUIDs, parents and names:

- `Invariance`: `IInv`.  An entry whose row is gone may stay in the map, when
  its index could not be computed because the parent in it went first; it is
  never found, as UUIDs are not used again (`FreshIsUnknown`).  So every entry
  must lead to a row of its index as long as the parent in the index is there
  or about to come (`EntriesLead`), and what is left of an update must be what
  its transaction did (`UpdateIsTrue`).
- `LookupsAreSound`: a consequence.
- `LookupsAreComplete`: from `Complete`, the conjunction of `IndexIsUnique` (no
  two rows, there or to come, have an index that was not `reused`) and
  `RowsAreFound` (a row whose index was not is in the map under it), which
  `IInv` and each step preserve.
- `TypeCorrectness`.

`Reading_proofs` proves of `RequestLifecycle`, which `Reading` extends, for
every handler, method, set of failing checks and end of a transaction:

- `Invariance`: `IInv`.  Which checks a request may have failed when its method
  is run is not in the properties; `PrepareInv` says it for every stage of
  `prepare`, which goes on after some failures and not after others.  Once
  something is sent, it is the status of the first refusal (`FirstInv`), and
  the log holds what was sent and nothing else (`AuditInv`).
- `NothingRefusedRuns`, `FirstIsTold`, `WritesAreToldAsDone`, `TypeCorrect`:
  consequences.  The third has the one case in which what was done is not told
  so: the Location of a POST that a header does not take (divergence 26).

and of `Reading`, for any set of rows, of on-demand columns and any number of
changes:

- `ReadingRefines`: a GET in steps takes the steps of `RequestLifecycle`, or
  none of its own (`StepRefines`): the safety part of `ImplementsLifecycle`.
  `ReadingTells` is what follows for the three properties of the life cycle.
- `ReadingInvariance`: `RInv`.  What is listed and what is still to be read
  share no row, and together hold every row that was there all along, until as
  many rows came as went during an iteration (`ListInv`); such a row has been
  fetched when it is read, unless a fetch failed (`FreshInv`); the category of
  the row being read is its own until another request comes into a fetch of
  references (`CategoryInv`).
- `Pages`, `Fetches`, `CategoriesOfRows`: consequences, with the exceptions
  that the properties name (`swapped`, `failed`, `mixed`).  `PageIsFull` is the
  arithmetic of the page, for every offset and limit.

`Resources_proofs` proves, for every set of schemas, any names and any number of
rows, requests and transactions:

- `Invariance`: `IInv`.  A request is made of the rows of the replica and
  executed on those of the server, and what relates the two is `VersionInv`: a
  version is known by its number, so a request whose `base` is the version of
  the server was made of the rows it has (`SentInv`).  `Creation` and `Deletion`
  say what such a request is, for all the ways a resource hangs together with
  others: which columns it writes and what they held.  Requests on their way
  name rows that may be gone by now, so a UUID is of one table wherever it occurs
  (`KindInv`), in the database, in the replica, in updates and in transactions;
  this also bounds what a column of one may hold.  Everything in the database is
  kept by the root set (`LiveInv`).
- `Creations`: `CreationAdds`, an action property.  A creation writes its row
  into the column of its parent or a reference to its parent into the row
  (`Planned`), whatever else was executed before it, so it is kept as long as
  the parent is; it may take other rows away then (divergence 25).  On the rows
  it was made from it only adds references: garbage collection keeps the least
  set with the root set and all it refers to (`LiveIsLeast`, `LiveWith`), so
  nothing is collected.  Its Location finds it if the row is `Alone` in its name
  and the name is not `Unsafe`; the server only checks that no two rows have the
  same name and the same parents in their index, which is not what the parser
  looks for (divergences 28 and 31).
- `Deletions`: `DeletionRemoves`, an action property, of schemas with
  `ParentsStay`: a table that rows of others call their parent is in the root
  set, or has a parent itself.  A row at the top is not deleted but left to be
  collected, and a column of parents does not take being emptied
  (`delete_all_references`), so in another schema the row would stay.  All the
  schemas of the run satisfy it.  References to the row and no others are
  removed, so what is collected is what it alone kept (`LiveWithout`).
- `Links`: `LinksLeadBack`, of schemas that are `Linkable`: no table is above
  itself (`Acyclic`), System is below none (`SystemIsRoot`), a name in a path
  stands for one thing below a table (`NamesDiffer`), a column of many children
  is called as their table in the plural (`ColumnsArePlural`: `row_to_index`
  looks for the key in the column of that name, and `get_reference_uri` names
  every table so), and a row refers to one parent (`ParentsAreSingle`).  Each is
  needed: without it the functions of `utils.py` and the parser disagree, or
  do not end.  All the schemas of `resources` are `Linkable`.

  It speaks of the rows for which the two functions and the parser can agree,
  and divergences 20, 21 and 28 to 30 show each condition to be needed: the row
  and those above it have their place (`InPlace`, which a PUT can take away), are
  the only ones of their names (`Named`) and under keys that need no quotes
  (`Keyed`).  The URI of GET is right of tables below System or without parent
  (`Whole`), that of notifications of tables below no only child (`Plural`) and
  none that its parent refers to otherwise too (`Traced`).  These conditions hold
  of the row above if they hold of the row (`SureBelow`, by `AllAboveIs`), and
  for such a table `get_reference_uri` does find the parent (`TracedRow`).

  What is needed of all rows is `RootInv`, inductive with `IInv`: there is one
  row of System and no request deletes it or inserts another.  The proof goes
  down from System by the rank of the tables (`AllLead`): the URI of a row is
  that of the row above it and a step more (`UrisAre`, `ReferencesAre`), a path
  that goes on by that step leads to the row (`UriStepLeads`,
  `ReferenceStepLeads`, `LeadsOn`), whichever of the three relations and of the
  three kinds of column it is.  That the recursive functions of the model are
  what their equations say is proved, once for all of them (`Recursion`).  It
  holds in every state, also while requests are under way.
- `TypeCorrect`.

`ConditionalWrites_proofs` proves, for any clients, columns, values and number
of writes:

- `Invariance`: `IInv`.  What decides is that the versions on the wire lead in
  order from that of the replica to that of the server (`OrderInv`), that a
  reply follows the update of its transaction, so that whoever is answered
  reads what it wrote (`ReplyInv`), and that a write that is the only one under
  way is based on the row it will change (`FlightInv`).
- `NothingIsLost`, `Monotonic` (an action property), `TypeCorrect`.

`Notifications_proofs` proves, for any rows, subscriptions, limits of changes
and of unusual updates:

- `Invariance`: `IInv`.  Between updates the properties say what the client
  knows; the invariant says it in the middle of a callback too, where for each
  subscription either its turn is to come, and then its view differs from the
  rows by what `track` holds (`UntoldInv`), or it has been and the view is right
  (`ToldInv`).  The same for the creation of subscriptions (`ServedInv`,
  `NewInv`).  In a plain update a row changes once, and several rows only by
  creation or deletion in one collection: what the loops over changes need
  (`PlainInv`).
- `Subscriptions`, `Views`: consequences, while `unusual` is 0.
- `Messages`: `MessagesAreTrue`, an action property that holds of every update,
  plain or not.

`ApiDoc_proofs` proves, for every set of schema files, every order of walking
them and every order of the calls of `genAPI`:

- `Parents`: `ParentIsFound` of every file in which the parent columns of a
  table name one parent (`OneParent`).  A child column gives a parent only where
  there is none, and a parent column decides whenever it is walked
  (`DecidedInv`).
- `Mutable`: `MutableMayBeCreated` of every file that is `Uniform`: the parser
  looks at any one of the columns that hold children, the handlers at the one
  the URI names, so these must all be configuration or none; a table with a
  parent column is in the root set, and no column is named like a table.
- `Definitions`: `NothingDangles` of every file in which no table has a parent
  column for System (`TopOfColumns`), as no schema of a switch has: `getFullAPI`
  calls `genAPI` for the children of System in columns only.  Without it the
  property is false.  While calls are still to be made, what is used is defined
  or will be (`DocInv`).

- `Documented`: `PathsLeadThere`, of the paths with no id but where the parser
  takes one (`Told`; divergence 27), of every file that is `Unambiguous`: below a
  table, a name stands for one thing (columns are not named like tables, plural
  names differ, and the plural name of a table is no column of the table it
  calls its parent).  Otherwise the parser of paths takes the column first and
  the document has the table.  The path of a call is its prefix and one step
  more, so the invariant (`PathInv`) says of each prefix that it leads to the
  table whose children are called for (`Within`), and `ResolveOnward` takes it
  one step further: what `Resolve` does to the path up to there does not depend
  on the steps after it (`SameWay`, `PathIsFollowed`).
- `Complete`: `NothingIsLeftOut`, of the rows that the parser finds by one id
  where there are many (`IsServed`), of every such file that is also `Rooted`
  (System is nobody's child, and the parent of what its columns hold and of no
  table's choice) and has `NoneReserved` (no name under System is that of a
  fixed path: the last step of `getFullAPI` writes `/login`, `/logs` and the
  others over what is there).  `CompleteInv`: every path to one row is of a call
  that was made, and the calls for its children were made or are still to be.

`Resolve` is a recursive function on the length of the path.  That it is one is
proved and not assumed (`StepByStep`): there is a function that does each step,
by the least length for which there is none (`LeastNumber`, from the library's
`WFMin`), and any two agree up to any length by the least one at which they
differ.

These hypotheses say what the parser takes for granted of its input and never
tests; all the files of `api_documented` satisfy every one of them.

Assumptions on constants are named in the modules that declare them, and TLC
evaluates each on the instances of the runs.  They say what kind of thing a
constant is (bounds are numbers, bad requests are requests, `None` is no row and
no name, the target of a reference is a table of the file); beyond that only
that a UUID is not also a collection (`NotificationAssumption`), that System
has a relationship (`SchemaAssumption` of `RestSchema`), as the table of the
switch has, and what section 2 says `Resources` leaves out (its
`SchemaAssumption`: rows without a name are children under a key, and no others
are; what an index has besides the name are parents).

Only model-checked, and why:

- Liveness under fairness (`AnsweredOrWaits`, `AloneIsAnswered`,
  `CompletedIsAnsweredIfChecked`, `OpenEnds`, `SubscriberIsCleaned`, the fairness that `ImplementsLifecycle` carries over):
  out of the prover's reach, as is ENABLED.
- `DeclarativeConfig` (`Overwritten`, `RejectedForCause`, `RoundTrip` and the
  action property `DeletedWithChildren`): its walk over dictionaries, in any order
  and to any depth, is written with RECURSIVE operators that carry the whole
  transaction along, as `_write.py` does; the prover has no SMT backend in a
  module that reaches one, and what such a walk computes is an induction over the
  dictionaries.

## 6. Not modelled

- Checks of the types and ranges of data (`verify.py`), filters, sorting and
  selection of keys (`getutils.py`), the operations of a JSON patch
  (`patch.py`): functions of one request's data without state or interleaving.
  That one of them refuses a request is a step of `RequestLifecycle`.
- Validators: plugins outside the repository; their verdicts are a parameter of
  `DeclarativeConfig` and a failure in the other modules.
- `start()` and `stop()` of the connection manager: `start` is `idl_init` with
  a retry for whatever fails before it, and `stop` is called by `start` alone
  to begin from nothing.
- Custom controllers of accounts and logs: a socket to the password server and
  a run of `journalctl`.  Their handler is in `RequestLifecycle`.
- PAM login and cookies: not in the repository; the decision is a step of
  `RequestLifecycle`.
- Application start, command line, certificates, static content: wiring.
- Audit log and JSON helpers: output; that the log is given the status sent is
  `ToldAsDone`.
- `notifications/monitor.py`: unused, its construction is commented out in
  `notifications/handler.py`.
- `cfgd.py`, the daemon that restores the startup configuration: blocking I/O
  in sequence around the same `dc.read` and `dc.write`.

## 7. Plan

Every invariant and every action property of the runs but those of
`DeclarativeConfig` is now a theorem.  For these, the walk over the tables and
the rows has to be stated as functions of what each of them adds to the
transaction, in the way `Follow` and `Resolve` now are; then, that a write deletes
nothing but what its input leaves out (`Overwritten`) and is refused for a cause
only (`RejectedForCause`) are proofs by the rank of a table, like `Links`.
