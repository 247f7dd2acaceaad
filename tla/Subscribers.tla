----------------------------- MODULE Subscribers -----------------------------
(***************************************************************************)
(* WebSocket subscribers: opsrest/handlers/websocket/base.py and            *)
(* notifications.py.  An open socket owns a row of Notification_Subscriber;  *)
(* the handler inserts it in _open and deletes it in _on_close, both        *)
(* coroutines that wait for their commit.  The registry of sockets is in    *)
(* memory, the rows are in OVSDB, and REST clients may neither add nor      *)
(* delete such a row (opsplugins/notification_subscriber.py).               *)
(*                                                                         *)
(* Commits go through the connection manager, of which this module uses     *)
(* what TxnService promises and OvsdbManager implements; what is added is    *)
(* the content: which rows there are, and which the replica shows.          *)
(***************************************************************************)
EXTENDS Integers, SequencesExt

CONSTANTS
  Sockets,      \* WebSocket connections; each has an id of its own
  Failures,     \* what may go wrong: see FailureKinds
  MaxRestarts   \* bound: restarts of the daemon

FailureKinds == {"reject", "lose", "restart"}

ASSUME SubscriberAssumption ==
  /\ Failures \subseteq FailureKinds
  /\ MaxRestarts \in Nat

VARIABLES
  \* the sockets
  socket,       \* "new", "open", "ending" (the daemon called close), "closed"
  websockets,   \* WSBaseHandler.websockets
  subscribed,   \* the sockets that were sent the URI of their subscriber
  \* the commits, as TxnService has them
  pc, answer, sent, decision,
  status,       \* the IDL's status of each commit; "dead" after a restart
  \* the IDL
  link,         \* "up", "lost" (not noticed yet), "down", "monitoring"
  wire,         \* executed commits whose update and reply are not yet read
  snapshot,     \* the answer to the monitor request of the present session
  replica,      \* the sockets whose row the replica shows
  \* OVSDB
  rows,         \* the sockets that have a row
  restarts

socketVars == <<socket, websockets, subscribed>>
commitVars == <<pc, answer, sent, decision, status>>
idlVars    == <<link, wire, snapshot, replica>>
vars == <<socketVars, commitVars, idlVars, rows, restarts>>

Insert(w) == <<w, "insert">>
Delete(w) == <<w, "delete">>
Commits == Sockets \X {"insert", "delete"}

Txn == INSTANCE TxnService WITH Requests <- Commits

Init ==
  /\ socket = [w \in Sockets |-> "new"]
  /\ websockets = {}
  /\ subscribed = {}
  /\ Txn!Init
  /\ status = [r \in Commits |-> "none"]
  /\ link = "up"
  /\ wire = <<>>
  /\ snapshot = {}
  /\ replica = {}
  /\ rows = {}
  /\ restarts = 0

----------------------------------------------------------------------------
(* commit(), and the wait for it.                                           *)

CommitIncomplete(r) ==
  /\ link # "down"
  /\ Txn!Submit(r)
  /\ sent' = IF link = "lost" THEN sent ELSE sent \cup {r}
  /\ status' = [status EXCEPT ![r] = "incomplete"]

\* Mutant: a commit that could not be sent counts as UNCHANGED.
CommitUnsent(r) ==
  /\ link \in {"lost", "down"}
  /\ Txn!Refuse(r, "unchanged")
  /\ UNCHANGED status

CommitFailed(r) ==
  /\ link \in {"lost", "down"}
  /\ Txn!Refuse(r, "try_again")
  /\ UNCHANGED status

\* The handler resumes with the final status of its commit.
Resumed(r) ==
  /\ status[r] \in {"success", "error", "try_again"}
  /\ Txn!Report(r, status[r])
  /\ UNCHANGED status

----------------------------------------------------------------------------
(* The handler.                                                             *)

\* open and _open.  A failed commit ends in _handle_open_fail.
Open(w) ==
  /\ socket[w] = "new"
  /\ websockets' = websockets \cup {w}
  /\ \/ /\ CommitIncomplete(Insert(w))
        /\ socket' = [socket EXCEPT ![w] = "open"]
     \/ /\ CommitFailed(Insert(w))
        /\ socket' = [socket EXCEPT ![w] = "ending"]
  /\ UNCHANGED <<subscribed, idlVars, rows, restarts>>

\* Mutant: every answer but ERROR is taken for the row's existence.
TellUnlessError(w) ==
  subscribed' = IF answer'[Insert(w)] # "error" /\ socket[w] = "open"
                THEN subscribed \cup {w} ELSE subscribed

\* The URI is sent, unless write_message raises because the socket is closed.
Tell(w) ==
  subscribed' = IF answer'[Insert(w)] = "success" /\ socket[w] = "open"
                THEN subscribed \cup {w} ELSE subscribed

\* Mutant: only ERROR is a failure.
HandleOpenError(w) ==
  socket' = IF status[Insert(w)] = "error" /\ socket[w] = "open"
            THEN [socket EXCEPT ![w] = "ending"] ELSE socket

\* _handle_open_fail closes the socket, unless it was closed before.
HandleOpenFail(w) ==
  socket' = IF status[Insert(w)] # "success" /\ socket[w] = "open"
            THEN [socket EXCEPT ![w] = "ending"] ELSE socket

\* _open after its yield.
OpenResumes(w) ==
  /\ Resumed(Insert(w))
  /\ Tell(w)
  /\ HandleOpenFail(w)
  /\ UNCHANGED <<websockets, idlVars, rows, restarts>>

\* Mutants: _on_close deletes without looking the row up; on_close returns
\* early for a socket that has been answered.
FoundUnseen(w) == TRUE

FoundUntold(w) == w \in replica \ subscribed

\* lookup_subscriber_by_name
Found(w) == w \in replica

\* on_close and _on_close: the client, or the network, closes the socket.
OnClose(w) ==
  /\ socket[w] \in {"open", "ending"}
  /\ socket' = [socket EXCEPT ![w] = "closed"]
  /\ websockets' = websockets \ {w}
  /\ IF Found(w)
     THEN CommitIncomplete(Delete(w)) \/ CommitFailed(Delete(w))
     ELSE UNCHANGED commitVars
  /\ UNCHANGED <<subscribed, idlVars, rows, restarts>>

\* _on_close after its yield: the outcome is logged.
CloseResumes(w) ==
  /\ Resumed(Delete(w))
  /\ UNCHANGED <<socketVars, idlVars, rows, restarts>>

----------------------------------------------------------------------------
(* OVSDB and the connection, as OvsdbManager has them.                      *)

Deliver(r) ==
  wire' = IF link \in {"up", "monitoring"} THEN Append(wire, r) ELSE wire

ServerApplies(w, op) ==
  /\ Txn!Decide(<<w, op>>, "applied")
  /\ rows' = IF op = "insert" THEN rows \cup {w} ELSE rows \ {w}
  /\ Deliver(<<w, op>>)
  /\ UNCHANGED <<socketVars, status, link, snapshot, replica, restarts>>

ServerRejects(r) ==
  /\ "reject" \in Failures
  /\ Txn!Decide(r, "rejected")
  /\ Deliver(r)
  /\ UNCHANGED <<socketVars, status, link, snapshot, replica, rows, restarts>>

\* The rows that the first n messages insert or delete.
Read(n, op) ==
  {w \in Sockets : \E i \in 1 .. n : /\ wire[i] = <<w, op>>
                                     /\ decision[wire[i]] = "applied"}

\* Idl.run reads n messages: updates, and the replies that are waited for.
IdlRun ==
  /\ link = "up"
  /\ \E n \in 1 .. Len(wire) :
       /\ replica' = (replica \cup Read(n, "insert")) \ Read(n, "delete")
       /\ status' = [r \in Commits |->
            IF status[r] = "incomplete" /\ \E i \in 1 .. n : wire[i] = r
            THEN IF decision[r] = "applied" THEN "success" ELSE "error"
            ELSE status[r]]
       /\ wire' = SubSeq(wire, n + 1, Len(wire))
  /\ UNCHANGED <<socketVars, pc, answer, sent, decision, link, snapshot, rows,
                 restarts>>

LoseConnection ==
  /\ "lose" \in Failures
  /\ link \in {"up", "monitoring"}
  /\ link' = "lost"
  /\ wire' = <<>>
  /\ UNCHANGED <<socketVars, commitVars, snapshot, replica, rows, restarts>>

NoticeLoss ==
  /\ link = "lost"
  /\ link' = "down"
  /\ UNCHANGED <<socketVars, commitVars, wire, snapshot, replica, rows,
                 restarts>>

\* A new session: what is outstanding ends in TRY_AGAIN.
Reconnect ==
  /\ link = "down"
  /\ link' = "monitoring"
  /\ snapshot' = rows
  /\ status' = [r \in Commits |->
                  IF status[r] = "incomplete" THEN "try_again" ELSE status[r]]
  /\ UNCHANGED <<socketVars, pc, answer, sent, decision, wire, replica, rows,
                 restarts>>

\* The reply to the monitor request replaces the replica.
Monitored ==
  /\ link = "monitoring"
  /\ link' = "up"
  /\ replica' = snapshot
  /\ UNCHANGED <<socketVars, commitVars, wire, snapshot, rows, restarts>>

\* The daemon is started anew: sockets, registry and coroutines are gone.
Restart ==
  /\ "restart" \in Failures
  /\ restarts < MaxRestarts
  /\ restarts' = restarts + 1
  /\ socket' = [w \in Sockets |->
                  IF socket[w] = "new" THEN "new" ELSE "closed"]
  /\ websockets' = {}
  /\ status' = [r \in Commits |->
                  IF pc[r] = "waiting" THEN "dead" ELSE status[r]]
  /\ link' = "down"
  /\ wire' = <<>>
  /\ snapshot' = {}
  /\ replica' = {}
  /\ UNCHANGED <<subscribed, pc, answer, sent, decision, rows>>

----------------------------------------------------------------------------
Handler(w) == Open(w) \/ OpenResumes(w) \/ OnClose(w) \/ CloseResumes(w)

Next ==
  \/ \E w \in Sockets : \/ Handler(w)
                        \/ \E op \in {"insert", "delete"} : ServerApplies(w, op)
  \/ \E r \in Commits : ServerRejects(r)
  \/ IdlRun
  \/ LoseConnection
  \/ NoticeLoss
  \/ Reconnect
  \/ Monitored
  \/ Restart

Spec == Init /\ [][Next]_vars

\* OVSDB answers, the IOLoop runs what is ready, a lost connection is made
\* again, and a socket the daemon closes is reported closed.
Fairness ==
  /\ \A w \in Sockets :
       /\ SF_vars(OpenResumes(w)) /\ SF_vars(CloseResumes(w))
       /\ WF_vars(socket[w] = "ending" /\ OnClose(w))
       /\ \A op \in {"insert", "delete"} : WF_vars(ServerApplies(w, op))
  /\ SF_vars(IdlRun)
  /\ WF_vars(NoticeLoss) /\ WF_vars(Reconnect) /\ SF_vars(Monitored)

FairSpec == Spec /\ Fairness

----------------------------------------------------------------------------
(* Properties.                                                              *)

TypeOK ==
  /\ socket \in [Sockets -> {"new", "open", "ending", "closed"}]
  /\ websockets \subseteq Sockets
  /\ subscribed \subseteq Sockets
  /\ pc \in [Commits -> {"new", "waiting", "answered"}]
  /\ answer \in [Commits -> {"none", "success", "error", "try_again"}]
  /\ sent \subseteq Commits
  /\ decision \in [Commits -> {"undecided", "applied", "rejected"}]
  /\ status \in [Commits ->
       {"none", "incomplete", "success", "error", "try_again", "dead"}]
  /\ link \in {"up", "lost", "down", "monitoring"}
  /\ wire \in Seq(Commits)
  /\ snapshot \subseteq Sockets
  /\ replica \subseteq Sockets
  /\ rows \subseteq Sockets
  /\ restarts \in Nat

\* A client that was sent the URI of its subscriber finds the row there until
\* its socket closes, whatever happens to the daemon's connection.
SubscriberIsThere ==
  \A w \in subscribed : socket[w] # "closed" => w \in rows

\* A subscriber whose deletion succeeded does not come back: the insertion,
\* which may have been answered TRY_AGAIN, cannot be executed after it.
DeletedForGood ==
  \A w \in Sockets : answer[Delete(w)] = "success" => w \notin rows

\* Every opened socket is either told its subscriber or closed in the end.
OpenEnds ==
  \A w \in Sockets :
    (socket[w] = "open") ~> (w \in subscribed \/ socket[w] = "closed")

\* No connection is ever lost, no daemon restarted and no commit refused.
Undisturbed == link = "up" /\ \A r \in Commits : decision[r] # "rejected"

\* Undisturbed, the row of a subscriber goes once its socket is closed.
SubscriberIsCleaned ==
  []Undisturbed =>
    \A w \in Sockets :
      (w \in subscribed /\ socket[w] = "closed") ~> (w \notin rows)

\* Nothing of w's is under way any more.
Quiet(w) ==
  \A op \in {"insert", "delete"} :
    <<w, op>> \notin sent /\ pc[<<w, op>>] # "waiting"

\* "WebSocket disconnect cleans subscriber data" (tests/ops-restd_test.md): a
\* row that OVSDB had when its socket closed is gone when the handlers are done.
ClosedIsCleaned ==
  \A w \in Sockets :
    [](w \in rows /\ socket[w] = "open" =>
       [](socket[w] = "closed" /\ Quiet(w) => w \notin rows))

----------------------------------------------------------------------------
(* The strengthening that makes the safety properties inductive.            *)

\* A commit that is not made leaves no trace.
NewIsFresh ==
  \A r \in Commits : pc[r] = "new" =>
    /\ r \notin sent
    /\ decision[r] = "undecided"

\* What the IDL and the handlers call a success, OVSDB has done.
SuccessIsApplied ==
  /\ \A r \in Commits :
       status[r] = "success" \/ answer[r] = "success" => decision[r] = "applied"
  /\ \A w \in subscribed \cup snapshot \cup replica :
       decision[Insert(w)] = "applied"

\* A deletion is committed only for a closed socket with an inserted row.
DeleteAfterInsert ==
  \A w \in Sockets : pc[Delete(w)] # "new" =>
    decision[Insert(w)] = "applied" /\ socket[w] = "closed"

\* The rows are those inserted and not deleted.
RowsMatchDecisions ==
  \A w \in Sockets :
    w \in rows <=> /\ decision[Insert(w)] = "applied"
                   /\ decision[Delete(w)] # "applied"

IInv ==
  /\ TypeOK
  /\ NewIsFresh
  /\ SuccessIsApplied
  /\ DeleteAfterInsert
  /\ RowsMatchDecisions
=============================================================================
