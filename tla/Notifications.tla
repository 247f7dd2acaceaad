---------------------------- MODULE Notifications ----------------------------
(***************************************************************************)
(* Notifications: opsrest/notifications.  A client subscribes to a row or   *)
(* to a collection of rows by adding a row to Notification_Subscription;    *)
(* NotificationHandler learns of it, and of every change it has to report,  *)
(* from the change tracking of the IDL, in two callbacks that the manager   *)
(* runs in no particular order whenever Idl.run has moved change_seqno.     *)
(* They are coroutines, but nothing that they yield ever waits: get_row_json *)
(* is called without fetch_readonly.                                        *)
(*                                                                         *)
(* The resources of one table, the subscriptions of one client.  Sequence   *)
(* numbers matter only as far as they exceed curr_seqno: `track` has the    *)
(* changes that do, `stale` the rows that are tracked with old ones.        *)
(***************************************************************************)
EXTENDS Integers, FiniteSets

CONSTANTS
  Rows, Collections, Subs,
  CollectionOf,   \* the collection of each row
  Target,         \* the row or collection of each subscription
  MaxChanges,     \* bounds: resources, and subscriptions, that change in
  MaxSubChanges,  \* one Idl.run;
  MaxUnusual      \* updates that are not plain, and new sessions

ASSUME NotificationAssumption ==
  /\ Rows \cap Collections = {}
  /\ CollectionOf \in [Rows -> Collections]
  /\ Target \in [Subs -> Rows \cup Collections]
  /\ MaxChanges \in Nat /\ MaxSubChanges \in Nat /\ MaxUnusual \in Nat

VARIABLES
  \* the replica
  rows,           \* "unborn", "a" or "b" (its contents), "gone"
  subs,           \* the same of the rows of Notification_Subscription
  track,          \* track_get(): the new changes of each resource
  subTrack,       \* track_get(SUBSCRIPTION_TABLE)
  stale,          \* resources tracked with a sequence number that is not new
  \* NotificationHandler
  served,         \* _subscriptions, and with one table _subscriptions_by_table
  rows_to_uri,    \* CollectionSubscription.rows_to_uri
  \* run_callbacks
  todo,           \* the callbacks to run
  callback,       \* the one that runs: "check", "changes" or "none"
  pending,        \* the subscriptions it still has to look at
  outbox,         \* subscriber_notifications: <<subscription, row, contents>>
  \* the client
  view,           \* what it was last told of each row
  \* history
  unusual         \* how many updates were not plain, or the first of a session

replicaVars == <<rows, subs, track, subTrack, stale>>
handlerVars == <<served, rows_to_uri>>
callbackVars == <<todo, callback, pending, outbox>>
vars == <<replicaVars, handlerVars, callbackVars, view, unusual>>

Contents == {"a", "b"}
Idle == todo = {} /\ callback = "none"

IsRow(s) == Target[s] \in Rows
Scope(s) == IF IsRow(s) THEN {Target[s]} ELSE {r \in Rows : CollectionOf[r] = Target[s]}
Live(r) == rows[r] \in Contents
Members(s) == {r \in Scope(s) : Live(r)}

Init ==
  /\ rows \in [Rows -> {"unborn", "a"}]
  /\ subs = [s \in Subs |-> "unborn"]
  /\ track = [r \in Rows |-> {}]
  /\ subTrack = [s \in Subs |-> {}]
  /\ stale = {}
  /\ served = {}
  /\ rows_to_uri = [s \in Subs |-> {}]
  /\ todo = {} /\ callback = "none" /\ pending = {} /\ outbox = {}
  /\ view = [s \in Subs |-> [r \in Rows |-> "unknown"]]
  /\ unusual = 0

----------------------------------------------------------------------------
(* Idl.run.                                                                 *)

\* What one run can do to a row: the contents it leaves and the changes it
\* tracks, of which there may be two.  UUIDs are not used again.
Changes(x) ==
  CASE x = "unborn" -> {<<"a", {"create"}>>, <<"gone", {"create", "delete"}>>}
    [] x \in Contents -> {<<"gone", {"delete"}>>, <<"gone", {"update", "delete"}>>}
                         \cup {<<y, {"update"}>> : y \in Contents \ {x}}
    [] x = "gone" -> {}

\* Rows of Notification_Subscription are not modified.
SubChanges(x) == {c \in Changes(x) : "update" \notin c[2]}

AllChanges == UNION {Changes(x) : x \in {"unborn", "a", "b"}}
AllSubChanges == UNION {SubChanges(x) : x \in {"unborn", "a"}}

After(old, f) == [r \in DOMAIN old |-> IF r \in DOMAIN f THEN f[r][1] ELSE old[r]]
Tracked(old, f) == [r \in DOMAIN old |-> IF r \in DOMAIN f THEN f[r][2] ELSE {}]
Few(S, n) == {T \in SUBSET S : Cardinality(T) <= n}

\* The changes of a few resources and of a few subscriptions that can happen.
RowUpdates ==
  {f \in UNION {[B -> AllChanges] : B \in Few(Rows, MaxChanges)} :
     \A r \in DOMAIN f : f[r] \in Changes(rows[r])}

SubUpdates ==
  {g \in UNION {[S -> AllSubChanges] : S \in Few(Subs, MaxSubChanges)} :
     \A s \in DOMAIN g : g[s] \in SubChanges(subs[s])}

\* NotificationSubscriptionValidator: a new subscription is to a resource that
\* there is, and to none that the client subscribes to already.
Accepted(g) ==
  \A s \in DOMAIN g : subs[s] = "unborn" =>
    /\ IsRow(s) => rows[Target[s]] # "unborn"
    /\ \A v \in Subs \ {s} :
         Target[v] = Target[s] => subs[v] # "a" /\ v \notin DOMAIN g

Updates(f, g) ==
  /\ Accepted(g)
  /\ rows' = After(rows, f)
  /\ subs' = After(subs, g)

\* The updates that the callbacks are made for: nothing changes twice, and a row
\* is modified, or rows of another collection added, in a run of their own.
Plain(f, g) ==
  /\ \A r \in DOMAIN f : Cardinality(f[r][2]) = 1
  /\ \A s \in DOMAIN g : Cardinality(g[s][2]) = 1
  /\ \A q, r \in DOMAIN f : q # r =>
       f[r][2] # {"update"} /\ CollectionOf[q] = CollectionOf[r]

\* idl_check_and_update, up to its callbacks.  The table is tracked while it
\* has subscriptions.
IdlRun(f, g) ==
  /\ DOMAIN f \cup DOMAIN g # {}
  /\ Updates(f, g)
  /\ track' = IF served = {} THEN track ELSE Tracked(rows, f)
  /\ subTrack' = Tracked(subs, g)
  /\ todo' = {"check", "changes"}
  /\ unusual' = IF Plain(f, g) THEN unusual ELSE unusual + 1
  /\ unusual' <= MaxUnusual
  /\ UNCHANGED <<stale, handlerVars, callback, pending, outbox, view>>

\* A session is made again: its first update creates all rows anew, with the
\* number that idl_establish_connection makes curr_seqno, and runs no callback.
Reconnect(f, g) ==
  /\ Updates(f, g)
  /\ unusual < MaxUnusual
  /\ unusual' = unusual + 1
  /\ stale' = IF served = {} THEN stale ELSE {r \in Rows : rows'[r] \in Contents}
  /\ UNCHANGED <<track, subTrack, handlerVars, callbackVars, view>>

----------------------------------------------------------------------------
(* subscription_changes_check_callback.                                     *)

StartCheck ==
  /\ callback = "none" /\ "check" \in todo
  /\ callback' = "check"
  /\ todo' = todo \ {"check"}
  /\ pending' = {s \in Subs : subTrack[s] # {}}
  /\ UNCHANGED <<replicaVars, handlerVars, outbox, view, unusual>>

\* get_initial_values_and_notify and add_subscription.
Serve(s) ==
  /\ view' = [view EXCEPT ![s] = [r \in Rows |->
                IF r \in Members(s) THEN rows[r] ELSE view[s][r]]]
  /\ rows_to_uri' = [rows_to_uri EXCEPT ![s] = IF IsRow(s) THEN {} ELSE Members(s)]
  /\ served' = served \cup {s}

\* Mutant: the exception is not caught.
CreateOrRaise(s) ==
  IF IsRow(s) /\ ~Live(Target[s])
  THEN UNCHANGED <<handlerVars, view>> /\ pending' = {}
  ELSE Serve(s) /\ pending' = pending \ {s}

\* create_subscription, for a subscription found in the replica.  An exception
\* is logged, and there is no subscription.
Create(s) ==
  /\ IF IsRow(s) /\ ~Live(Target[s]) THEN UNCHANGED <<handlerVars, view>> ELSE Serve(s)
  /\ pending' = pending \ {s}

\* remove_subscription
Remove(s) == served' = served \ {s}

\* One subscription of table_changes.  The row of an added one is read outside
\* the try: without it, the KeyError ends the callback.
CheckSubscription(s) ==
  /\ callback = "check" /\ s \in pending
  /\ \/ /\ "create" \in subTrack[s] /\ subs[s] = "a"
        /\ Create(s)
     \/ /\ "create" \in subTrack[s] /\ subs[s] # "a"
        /\ pending' = {}
        /\ UNCHANGED <<handlerVars, view>>
     \/ /\ "create" \notin subTrack[s]
        /\ Remove(s)
        /\ pending' = pending \ {s}
        /\ UNCHANGED <<rows_to_uri, view>>
  /\ UNCHANGED <<replicaVars, todo, callback, outbox, unusual>>

----------------------------------------------------------------------------
(* subscribed_changes_callback.                                             *)

StartChanges ==
  /\ callback = "none" /\ "changes" \in todo
  /\ callback' = "changes"
  /\ todo' = todo \ {"changes"}
  /\ pending' = IF stale = {} /\ \A r \in Rows : track[r] = {} THEN {} ELSE served
  /\ UNCHANGED <<replicaVars, handlerVars, outbox, view, unusual>>

\* An exception that is not of the subscription's making ends the callback
\* before anything is sent.
Fail == pending' = {} /\ outbox' = {}

\* NotificationMismatch ends one subscription.
Mismatch(s) == pending' = pending \ {s} /\ UNCHANGED outbox

\* What get_changes returns is added to the notifications (_add_updates).
Tell(s, messages) ==
  /\ outbox' = outbox \cup {<<s, m[1], m[2]>> : m \in messages}
  /\ pending' = pending \ {s}

\* Mutant: a row that is gone is not reported.
RowChangesModified(s) ==
  LET r == Target[s]
  IN  /\ IF "update" \in track[r] THEN Tell(s, {<<r, rows[r]>>}) ELSE Mismatch(s)
      /\ UNCHANGED rows_to_uri

\* RowSubscription.get_changes: modified comes before deleted, and reads the row.
RowChanges(s) ==
  LET r == Target[s]
  IN  /\ IF "update" \in track[r]
         THEN IF Live(r) THEN Tell(s, {<<r, rows[r]>>}) ELSE Fail
         ELSE IF "delete" \in track[r] THEN Tell(s, {<<r, "unknown">>})
         ELSE Mismatch(s)
      /\ UNCHANGED rows_to_uri

\* Mutant: any row of the table is taken for one of the collection.
AnyPart(s, R) == R

\* The rows whose URI begins with that of the collection.
PartOf(s, R) == R \cap Scope(s)

\* CollectionSubscription.get_changes.  Rows are looked at in any order, and
\* rows_to_uri has taken those before the one that ends it: an added row that
\* is gone, one of another collection, or one neither added nor deleted.
CollectionChanges(s) ==
  LET added == {r \in Rows : "create" \in track[r]}
      deleted == {r \in Rows : "delete" \in track[r]} \ added
      broken == {r \in added : ~Live(r)}
      fine == PartOf(s, added \ broken)
      other == (added \ (broken \cup fine))
               \cup {r \in Rows \ (added \cup deleted) : track[r] # {} \/ r \in stale}
      known == deleted \cap rows_to_uri[s]
      Taken(P) == [rows_to_uri EXCEPT ![s] = (@ \cup (fine \cap P)) \ (known \cap P)]
  IN  IF broken \cup other = {}
      THEN /\ rows_to_uri' = Taken(Rows)
           /\ Tell(s, {<<r, rows[r]>> : r \in fine} \cup {<<r, "unknown">> : r \in known})
      ELSE /\ \E P \in SUBSET (fine \cup known) : rows_to_uri' = Taken(P)
           /\ \/ broken # {} /\ Fail
              \/ other # {} /\ Mismatch(s)

ChangesOf(s) ==
  /\ callback = "changes" /\ s \in pending
  /\ IF IsRow(s) THEN RowChanges(s) ELSE CollectionChanges(s)
  /\ UNCHANGED <<replicaVars, served, todo, callback, view, unusual>>

\* The end of a callback: notify_subscriber sends what was collected.  After
\* the last callback, track_clear_all, and curr_seqno is change_seqno.
EndCallback ==
  /\ callback # "none" /\ pending = {}
  /\ callback' = "none"
  /\ view' = [s \in Subs |-> [r \in Rows |->
                IF \E m \in outbox : m[1] = s /\ m[2] = r
                THEN (CHOOSE m \in outbox : m[1] = s /\ m[2] = r)[3]
                ELSE view[s][r]]]
  /\ outbox' = {}
  /\ IF todo = {}
     THEN /\ track' = [r \in Rows |-> {}]
          /\ subTrack' = [s \in Subs |-> {}]
          /\ stale' = {}
     ELSE UNCHANGED <<track, subTrack, stale>>
  /\ UNCHANGED <<rows, subs, handlerVars, todo, pending, unusual>>

Next ==
  \/ Idle /\ \E f \in RowUpdates, g \in SubUpdates : IdlRun(f, g) \/ Reconnect(f, g)
  \/ StartCheck \/ StartChanges \/ EndCallback
  \/ \E s \in Subs : CheckSubscription(s) \/ ChangesOf(s)

Spec == Init /\ [][Next]_vars

----------------------------------------------------------------------------

TypeOK ==
  /\ rows \in [Rows -> Contents \cup {"unborn", "gone"}]
  /\ subs \in [Subs -> {"unborn", "a", "gone"}]
  /\ track \in [Rows -> SUBSET {"create", "update", "delete"}]
  /\ subTrack \in [Subs -> SUBSET {"create", "delete"}]
  /\ stale \subseteq Rows
  /\ served \subseteq Subs
  /\ rows_to_uri \in [Subs -> SUBSET Rows]
  /\ todo \subseteq {"check", "changes"}
  /\ callback \in {"none", "check", "changes"}
  /\ pending \subseteq Subs
  /\ outbox \subseteq Subs \X Rows \X (Contents \cup {"unknown"})
  /\ view \in [Subs -> [Rows -> Contents \cup {"unknown"}]]

\* What a client has been told agrees with the replica once the callbacks have
\* run: the rows of its collections, the contents of its rows.
Current(s) ==
  \A r \in Scope(s) :
     IF IsRow(s) THEN view[s][r] = (IF Live(r) THEN rows[r] ELSE "unknown")
                 ELSE (view[s][r] # "unknown") <=> Live(r)

\* As long as updates are plain, every client is told every change of what it
\* subscribed to, however subscriptions come and go with the changes.
ViewIsCurrent == Idle /\ unusual = 0 => \A s \in served : Current(s)

\* "The test case is considered failing if deleting a monitored resource does
\* not trigger a notification" (tests/ops-restd_test.md), whatever comes with it.
EveryChangeIsTold == Idle => \A s \in served : Current(s)

\* Every subscription to a resource that is still there is served, and none
\* that was deleted: neither its messages nor the tracking of its table outlive
\* it (subscription_changes_check_callback, remove_subscription).
Served(s) ==
  /\ subs[s] = "a" /\ (IsRow(s) => Live(Target[s])) => s \in served
  /\ s \in served => subs[s] = "a"

SubscribedAreServed == Idle /\ unusual = 0 => \A s \in Subs : Served(s)

\* "... failing if subscribing does not trigger a notification" (the same),
\* whatever happens to other subscriptions in the same update.
EverySubscriberIsServed == Idle => \A s \in Subs : Served(s)

\* Whatever is lost, a message is true when it is sent, and about a resource of
\* its subscription.
MessagesAreTrue ==
  [][\A s \in Subs, r \in Rows : view'[s][r] # view[s][r] =>
       /\ r \in Scope(s)
       /\ view'[s][r] = IF Live(r) THEN rows[r] ELSE "unknown"]_vars
=============================================================================
