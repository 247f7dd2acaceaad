---------------------------- MODULE OvsdbManager ----------------------------
(***************************************************************************)
(* The write path of the REST daemon: opsrest/manager.py                    *)
(* (OvsdbConnectionManager), opsrest/transaction.py and the part of         *)
(* opsrest/handlers/ovsdbapi.py that creates, commits, monitors and         *)
(* completes a transaction.                                                 *)
(*                                                                         *)
(* The daemon is one Tornado IOLoop: a callback runs to its end, or to its  *)
(* next yield that really suspends, before another starts.  The loop over   *)
(* txn_list in check_transactions is one step per element here, and every   *)
(* other callback waits for its end (LoopIdle); only the OVSDB server and   *)
(* the connection move in between.                                          *)
(*                                                                         *)
(* The OVS Python IDL and ovsdb-server are not part of the repository.  They *)
(* are modelled as the code uses them: a commit that could be sent stays    *)
(* INCOMPLETE until Idl.run reads its reply, an update bumps change_seqno,  *)
(* a transaction outstanding across a reconnection ends in TRY_AGAIN, and   *)
(* Idl.run asserts that no transaction is under construction.               *)
(***************************************************************************)
EXTENDS Integers, SequencesExt

CONSTANTS
  Requests,      \* requests that write, each with one OvsdbTransaction
  BadRequests,   \* those whose data makes the resource code raise ValueError
  LossModes,     \* how a lost connection may show: see LossKinds
  MaxWire,       \* bound: other writers stop while this much is unread
  NoTxn          \* no transaction: Idl.txn is None

\* "unread": updates may be left on the socket when the peer goes away.
\* "send": a commit may find the loss first, which closes the socket.
LossKinds == {"unread", "send"}

ASSUME ManagerAssumption ==
  /\ BadRequests \subseteq Requests
  /\ LossModes \subseteq LossKinds
  /\ MaxWire \in Nat
  /\ NoTxn \notin Requests

VARIABLES
  \* the handlers
  pc,             \* "new", "waiting" at the yield, or "answered"
  answer,         \* the class of the answer written to the client
  \* the transactions
  status,         \* OvsdbTransaction.status, assigned by commit() only
  event,          \* OvsdbTransaction.event
  txnStatus,      \* _status of the wrapped ovs.db.idl.Transaction
  \* the manager
  txnList,        \* transactions.txn_list
  timer,          \* txn_timeout_handle is not None
  scan,           \* check_transactions: position of enumerate, 0 outside it
  txnIncomplete,  \* check_transactions: txn_incomplete
  connected,      \* connected
  fd,             \* ovs_socket has a handler in the IOLoop
  retry,          \* what timeout_handle calls: "none", "init", "reconnect"
  \* the IDL
  slot,           \* Idl.txn, the transaction under construction
  link,           \* the session: "up", "lost" (peer gone, not noticed),
                  \* "down" (noticed, no rpc), "monitoring" (reply awaited)
  wire,           \* messages on the socket, not yet read by Idl.run
  \* the OVSDB server
  sent,           \* transactions sent and not executed
  decision        \* what the server did with each transaction

handlerVars == <<pc, answer>>
txnVars     == <<status, event, txnStatus>>
checkVars   == <<txnList, timer, scan, txnIncomplete>>
connVars    == <<connected, fd, retry>>
idlVars     == <<slot, link, wire>>
serverVars  == <<sent, decision>>
vars == <<handlerVars, txnVars, checkVars, connVars, idlVars, serverVars>>

----------------------------------------------------------------------------
Statuses == {"none", "uncommitted", "incomplete", "unchanged", "success",
             "error", "try_again", "aborted"}
Final(s) == s \notin {"none", "uncommitted", "incomplete"}

\* Answers given at once, and answers that report a commit's status.
Answers == {"none", "unavailable", "invalid", "bad_request",
            "unchanged", "success", "error", "try_again"}

Update == [txn |-> NoTxn, status |-> "none"]
Reply(r, s) == [txn |-> r, status |-> s]
Messages == {Update} \cup {Reply(r, s) : r \in Requests,
                                         s \in {"success", "error"}}

LoopIdle == scan = 0

Init ==
  /\ pc = [r \in Requests |-> "new"]
  /\ answer = [r \in Requests |-> "none"]
  /\ status = [r \in Requests |-> "none"]
  /\ event = [r \in Requests |-> FALSE]
  /\ txnStatus = [r \in Requests |-> "none"]
  /\ txnList = <<>>
  /\ timer = FALSE
  /\ scan = 0
  /\ txnIncomplete = FALSE
  /\ connected = FALSE
  /\ fd = FALSE
  /\ retry = "init"
  /\ slot = NoTxn
  /\ link = "down"
  /\ wire = <<>>
  /\ sent = {}
  /\ decision = [r \in Requests |-> "undecided"]

----------------------------------------------------------------------------
(* The handlers of POST, PUT, PATCH and DELETE.                             *)

Answer(r, a) ==
  /\ pc' = [pc EXCEPT ![r] = "answered"]
  /\ answer' = [answer EXCEPT ![r] = a]

\* prepare: 503 while the manager is not connected.
Unavailable(r) ==
  /\ LoopIdle
  /\ pc[r] = "new"
  /\ ~connected
  /\ Answer(r, "unavailable")
  /\ UNCHANGED <<txnVars, checkVars, connVars, idlVars, serverVars>>

\* No transaction is made: the body is not JSON, or the Transaction of
\* get_new_transaction asserts that no other is under construction.
NotMade(r) ==
  /\ LoopIdle
  /\ pc[r] = "new"
  /\ connected
  /\ Answer(r, "invalid")
  /\ UNCHANGED <<txnVars, checkVars, connVars, idlVars, serverVars>>

\* The resource code raises an APIException: on_exception aborts.
Rejected(r) ==
  /\ LoopIdle
  /\ pc[r] = "new"
  /\ connected
  /\ slot = NoTxn
  /\ txnStatus' = [txnStatus EXCEPT ![r] = "aborted"]
  /\ Answer(r, "invalid")
  /\ UNCHANGED <<status, event, checkVars, connVars, idlVars, serverVars>>

\* The resource code raises ValueError: 400, and nothing aborts self.txn.
ValueErrorRaised(r) ==
  /\ LoopIdle
  /\ pc[r] = "new"
  /\ connected
  /\ slot = NoTxn
  /\ r \in BadRequests
  /\ txnStatus' = [txnStatus EXCEPT ![r] = "uncommitted"]
  /\ slot' = r
  /\ Answer(r, "bad_request")
  /\ UNCHANGED <<status, event, checkVars, connVars, link, wire, serverVars>>

\* commit() with nothing to do, or that could not be sent: answered at once.
CommitEnded(r, s) ==
  /\ LoopIdle
  /\ pc[r] = "new"
  /\ connected
  /\ slot = NoTxn
  /\ txnStatus' = [txnStatus EXCEPT ![r] = s]
  /\ status' = [status EXCEPT ![r] = s]
  /\ Answer(r, s)
  /\ UNCHANGED <<event, checkVars, idlVars, serverVars>>

CommitUnchanged(r) ==
  /\ CommitEnded(r, "unchanged")
  /\ UNCHANGED connVars

CommitTryAgain(r) ==
  /\ CommitEnded(r, "try_again")
  /\ \/ link = "down" /\ UNCHANGED connVars
     \/ /\ link = "lost"
        /\ "send" \in LossModes
        /\ fd' = FALSE
        /\ UNCHANGED <<connected, retry>>

\* manager.monitor_transaction.
MonitorTransaction(r) ==
  /\ txnList' = Append(txnList, r)
  /\ timer' = TRUE

\* Mutant: the handler answers with the status of commit() without waiting.
CommitSentNotAwaited(r) ==
  /\ LoopIdle
  /\ pc[r] = "new"
  /\ connected
  /\ slot = NoTxn
  /\ link # "down"
  /\ txnStatus' = [txnStatus EXCEPT ![r] = "incomplete"]
  /\ status' = [status EXCEPT ![r] = "incomplete"]
  /\ sent' = IF link = "lost" THEN sent ELSE sent \cup {r}
  /\ MonitorTransaction(r)
  /\ Answer(r, status'[r])
  /\ UNCHANGED <<event, scan, txnIncomplete, connVars, idlVars, decision>>

\* commit() sent: the handler monitors the transaction and yields.
CommitSent(r) ==
  /\ LoopIdle
  /\ pc[r] = "new"
  /\ connected
  /\ slot = NoTxn
  /\ link # "down"
  /\ txnStatus' = [txnStatus EXCEPT ![r] = "incomplete"]
  /\ status' = [status EXCEPT ![r] = "incomplete"]
  /\ sent' = IF link = "lost" THEN sent ELSE sent \cup {r}
  /\ MonitorTransaction(r)
  /\ pc' = [pc EXCEPT ![r] = "waiting"]
  /\ UNCHANGED <<answer, event, scan, txnIncomplete, connVars, idlVars, decision>>

\* transaction_complete answers with the status commit() cached; the Location
\* of a POST, which may still be refused after it, is in RequestLifecycle.
\* Mutants: only ERROR is looked for; after TRY_AGAIN the request starts over.
CompleteWithoutTryAgain(r) ==
  Answer(r, IF status[r] = "error" THEN "error" ELSE "success")

CompleteOrRetry(r) ==
  IF status[r] = "try_again"
  THEN pc' = [pc EXCEPT ![r] = "new"] /\ UNCHANGED answer
  ELSE Answer(r, status[r])

TransactionComplete(r) == Answer(r, status[r])

\* The handler resumes after the event and completes.  An error status ends
\* in on_exception, whose abort() empties Idl.txn; TRY_AGAIN, whose text is
\* not JSON, does so for DELETE only.
Resume(r) ==
  /\ LoopIdle
  /\ pc[r] = "waiting"
  /\ event[r]
  /\ TransactionComplete(r)
  /\ \/ status[r] \in {"error", "try_again"} /\ slot' = NoTxn
     \/ status[r] # "error" /\ UNCHANGED slot
  /\ UNCHANGED <<txnVars, checkVars, connVars, link, wire, serverVars>>

----------------------------------------------------------------------------
(* manager.check_transactions                                               *)

BeginCheck ==
  /\ scan' = 1
  /\ txnIncomplete' = FALSE
  /\ timer' = FALSE

\* txn_timeout_handle expires.
TimerFires ==
  /\ LoopIdle
  /\ timer
  /\ BeginCheck
  /\ UNCHANGED <<handlerVars, txnVars, txnList, connVars, idlVars, serverVars>>

\* OvsdbTransaction.commit, once more.
\* Mutants: the cached status is kept; TRY_AGAIN is taken for ERROR.
CommitAgainCached(tx) == UNCHANGED status

CommitAgainOrFail(tx) ==
  status' = [status EXCEPT ![tx] = IF txnStatus[tx] = "try_again" THEN "error"
                                   ELSE txnStatus[tx]]

CommitAgain(tx) == status' = [status EXCEPT ![tx] = txnStatus[tx]]

\* What the loop does with a complete transaction.
\* Mutant: no event.set().
SignalForgotten(tx) == txnList' = RemoveAt(txnList, scan) /\ UNCHANGED event

Signal(tx) ==
  /\ txnList' = RemoveAt(txnList, scan)
  /\ event' = [event EXCEPT ![tx] = TRUE]

\* The body of the loop.  pop() shifts the rest of the list under enumerate.
CheckNext ==
  /\ scan \in 1 .. Len(txnList)
  /\ LET tx == txnList[scan] IN
     /\ CommitAgain(tx)
     /\ \/ /\ Final(status'[tx])
           /\ Signal(tx)
           /\ UNCHANGED txnIncomplete
        \/ /\ ~Final(status'[tx])
           /\ txnIncomplete' = TRUE
           /\ UNCHANGED <<txnList, event>>
  /\ scan' = scan + 1
  /\ UNCHANGED <<handlerVars, txnStatus, timer, connVars, idlVars, serverVars>>

\* Mutant: the pass ends without starting the timer again.
EndCheckWithoutTimer ==
  /\ scan > Len(txnList)
  /\ scan' = 0
  /\ UNCHANGED <<handlerVars, txnVars, txnList, timer, txnIncomplete, connVars,
                 idlVars, serverVars>>

EndCheck ==
  /\ scan > Len(txnList)
  /\ scan' = 0
  /\ timer' = txnIncomplete
  /\ UNCHANGED <<handlerVars, txnVars, txnList, txnIncomplete, connVars,
                 idlVars, serverVars>>

----------------------------------------------------------------------------
(* Idl.run, and the manager's calls of it.                                  *)

\* What reading the first n messages does to the transactions.
StatusAfter(n) ==
  [r \in Requests |->
     IF txnStatus[r] = "incomplete" /\ \E i \in 1 .. n : wire[i].txn = r
     THEN wire[CHOOSE i \in 1 .. n : wire[i].txn = r].status
     ELSE txnStatus[r]]

\* change_seqno moves when one of them is an update.
SeqnoChanged(n) == \E i \in 1 .. n : wire[i] = Update

DropRead(n) == SubSeq(wire, n + 1, Len(wire))

\* idl_run with READ, idl_check_and_update.
ReadEvent ==
  /\ LoopIdle
  /\ fd
  /\ link = "up"
  /\ slot = NoTxn
  /\ \E n \in 1 .. Len(wire) :
       /\ txnStatus' = StatusAfter(n)
       /\ wire' = DropRead(n)
       /\ IF SeqnoChanged(n) /\ txnList # <<>>
          THEN BeginCheck
          ELSE UNCHANGED <<scan, txnIncomplete, timer>>
  /\ UNCHANGED <<handlerVars, status, event, txnList, connVars, slot, link,
                 serverVars>>

\* How the session may move in one Idl.run that reads n messages, and whether
\* change_seqno moves.  A new session aborts what is outstanding.
SessionRun(n, seqnoChanged) ==
  \/ /\ link = "lost"
     /\ link' \in {"lost", "down"}
     /\ txnStatus' = StatusAfter(n)
     /\ wire' = IF link' = "down" THEN <<>> ELSE DropRead(n)
     /\ seqnoChanged = SeqnoChanged(n)
  \/ /\ link = "down"
     /\ n = 0
     /\ \/ UNCHANGED <<link, txnStatus>>
        \/ /\ link' = "monitoring"
           /\ txnStatus' = [r \in Requests |->
                              IF txnStatus[r] = "incomplete" THEN "try_again"
                              ELSE txnStatus[r]]
     /\ seqnoChanged = FALSE
     /\ UNCHANGED wire
  \/ /\ link = "monitoring"
     /\ n = 0
     /\ link' \in {"monitoring", "up"}
     /\ seqnoChanged = (link' = "up")
     /\ UNCHANGED <<txnStatus, wire>>

\* Mutant: only the first connection registers the descriptor.
EstablishConnectionOnce ==
  /\ connected' = TRUE
  /\ retry' = "none"
  /\ fd' = (retry = "init")

\* idl_establish_connection.  Without an rpc, _session.rpc.stream raises
\* AttributeError after connected and curr_seqno are set.
EstablishConnection ==
  /\ connected' = TRUE
  /\ retry' = "none"
  /\ fd' = (link' # "down")

\* idl_init and idl_reconnect, by the name retry gives them.  error.Error
\* schedules another try; the AssertionError of Idl.run is not caught.
IdlInitOrReconnect(which) ==
  \/ /\ slot # NoTxn
     /\ retry' = "none"
     /\ fd' = FALSE
     /\ UNCHANGED <<connected, txnStatus, link, wire>>
  \/ /\ slot = NoTxn
     /\ \E n \in 0 .. Len(wire), seqnoChanged \in BOOLEAN :
          /\ SessionRun(n, seqnoChanged)
          /\ IF seqnoChanged
             THEN EstablishConnection
             ELSE /\ connected' = IF which = "init" THEN connected ELSE FALSE
                  /\ retry' = which
                  /\ fd' = FALSE
  \/ /\ slot = NoTxn
     /\ retry' = which
     /\ fd' = FALSE
     /\ UNCHANGED <<connected, txnStatus, link, wire>>

\* idl_run with ERROR: the handler of the descriptor goes, then idl_reconnect.
ErrorEvent ==
  /\ LoopIdle
  /\ fd
  /\ link = "lost"
  /\ IdlInitOrReconnect("reconnect")
  /\ UNCHANGED <<handlerVars, status, event, checkVars, slot, serverVars>>

\* timeout_handle expires.
RetryTimer ==
  /\ LoopIdle
  /\ retry # "none"
  /\ IdlInitOrReconnect(retry)
  /\ UNCHANGED <<handlerVars, status, event, checkVars, slot, serverVars>>

----------------------------------------------------------------------------
(* The OVSDB server, its other clients, and the connection.                 *)

\* A reply reaches the daemon only in the session that sent the transaction.
Deliver(r, msgs) ==
  wire' = IF link \in {"up", "monitoring"} /\ txnStatus[r] = "incomplete"
          THEN wire \o msgs ELSE wire

\* The update precedes the reply; a fetch of on-demand columns has none.
ServerApplies(r) ==
  /\ r \in sent
  /\ sent' = sent \ {r}
  /\ decision' = [decision EXCEPT ![r] = "applied"]
  /\ \/ Deliver(r, <<Update, Reply(r, "success")>>)
     \/ Deliver(r, <<Reply(r, "success")>>)
  /\ UNCHANGED <<handlerVars, txnVars, checkVars, connVars, slot, link>>

ServerRejects(r) ==
  /\ r \in sent
  /\ sent' = sent \ {r}
  /\ decision' = [decision EXCEPT ![r] = "rejected"]
  /\ Deliver(r, <<Reply(r, "error")>>)
  /\ UNCHANGED <<handlerVars, txnVars, checkVars, connVars, slot, link>>

ServerExecutes(r) == ServerApplies(r) \/ ServerRejects(r)

\* Another client writes.  MaxWire is a bound of the model.
OtherWriter ==
  /\ link = "up"
  /\ Len(wire) < MaxWire
  /\ wire' = Append(wire, Update)
  /\ UNCHANGED <<handlerVars, txnVars, checkVars, connVars, slot, link,
                 serverVars>>

LoseConnection ==
  /\ link \in {"up", "monitoring"}
  /\ link' = "lost"
  /\ wire' = IF "unread" \in LossModes /\ link = "up" THEN wire ELSE <<>>
  /\ UNCHANGED <<handlerVars, txnVars, checkVars, connVars, slot, serverVars>>

----------------------------------------------------------------------------
Handler(r) ==
  \/ Unavailable(r)
  \/ NotMade(r)
  \/ Rejected(r)
  \/ ValueErrorRaised(r)
  \/ CommitUnchanged(r)
  \/ CommitTryAgain(r)
  \/ CommitSent(r)
  \/ Resume(r)

Next ==
  \/ \E r \in Requests : Handler(r) \/ ServerExecutes(r)
  \/ TimerFires
  \/ CheckNext
  \/ EndCheck
  \/ ReadEvent
  \/ ErrorEvent
  \/ RetryTimer
  \/ OtherWriter
  \/ LoseConnection

Spec == Init /\ [][Next]_vars

\* The loop runs every ready callback and event in each iteration, so a
\* callback that is ready again and again runs (SF); the txn timer is removed
\* and re-armed by each check, so only an undisturbed one is sure to fire
\* (WF).  The server executes what it receives, and a retried session is
\* eventually accepted and monitored.
Fairness ==
  /\ \A r \in Requests : SF_vars(Resume(r)) /\ WF_vars(ServerExecutes(r))
  /\ WF_vars(CheckNext) /\ WF_vars(EndCheck)
  /\ WF_vars(TimerFires)
  /\ SF_vars(ReadEvent)
  /\ SF_vars(ErrorEvent)
  /\ SF_vars(RetryTimer /\ link' = "down" /\ link = "lost")
  /\ SF_vars(RetryTimer /\ link' = "monitoring" /\ link = "down")
  /\ SF_vars(RetryTimer /\ link' = "up")

FairSpec == Spec /\ Fairness

----------------------------------------------------------------------------
(* Properties.                                                              *)

TypeOK ==
  /\ pc \in [Requests -> {"new", "waiting", "answered"}]
  /\ answer \in [Requests -> Answers]
  /\ status \in [Requests -> Statuses]
  /\ event \in [Requests -> BOOLEAN]
  /\ txnStatus \in [Requests -> Statuses]
  /\ txnList \in Seq(Requests)
  /\ timer \in BOOLEAN
  /\ scan \in Nat
  /\ txnIncomplete \in BOOLEAN
  /\ connected \in BOOLEAN
  /\ fd \in BOOLEAN
  /\ retry \in {"none", "init", "reconnect"}
  /\ slot \in Requests \cup {NoTxn}
  /\ link \in {"up", "lost", "down", "monitoring"}
  /\ wire \in Seq(Messages)
  /\ sent \in SUBSET Requests
  /\ decision \in [Requests -> {"undecided", "applied", "rejected"}]

Listed(r) == \E i \in 1 .. Len(txnList) : txnList[i] = r

\* No lost wake-up: a handler suspended at the yield is either still in
\* txn_list, where a check can find it, or its event is set; never both, and
\* nobody else is in the list or signalled while unanswered.
NoLostWakeup ==
  \A r \in Requests :
    /\ pc[r] = "waiting" => (Listed(r) <=> ~event[r])
    /\ Listed(r) => pc[r] = "waiting"

\* A transaction is in txn_list at most once, so pop(index) removes the whole
\* of it and no event is set for a request that still is in the list.
ListedOnce ==
  \A i, j \in 1 .. Len(txnList) : txnList[i] = txnList[j] => i = j

\* The status a handler reads after its yield, cached by the last commit(),
\* is final and still the one the IDL holds, however long the resumption took.
SignalIsCurrent ==
  \A r \in Requests :
    event[r] => Final(status[r]) /\ status[r] = txnStatus[r]

\* The answer tells the truth about the database: success only for what the
\* server applied, and any definite failure only for what it never applies
\* (an answer made of TRY_AGAIN leaves the outcome open).
AnswerMatchesDatabase ==
  \A r \in Requests :
    /\ answer[r] = "success" => decision[r] = "applied"
    /\ answer[r] \in {"unavailable", "invalid", "bad_request", "unchanged"} =>
         r \notin sent /\ decision[r] = "undecided"
    /\ answer[r] = "error" => decision[r] = "rejected"

\* Transactions stay in txn_list without a timer only when a check has already
\* completed some other transaction: as long as none has been, every pass of
\* check_transactions over a non-empty list re-arms the timer.
PolledUnlessSignalled ==
  LoopIdle /\ txnList # <<>> /\ ~timer => \E r \in Requests : event[r]

\* How the daemon goes deaf to OVSDB: Idl.run found a transaction that was not
\* aborted; updates left on a dead socket were taken for a new session; or a
\* commit was the first to find the loss, and closed the socket.
LeakedTxn == \E r \in BadRequests : answer[r] = "bad_request"
TakenForNew == "unread" \in LossModes /\ connected /\ link = "down"
FoundByCommit ==
  /\ "send" \in LossModes /\ connected /\ link = "lost"
  /\ \E r \in Requests : answer[r] = "try_again"

\* Between callbacks exactly one thing will run the IDL again, the handler of
\* the socket or the retry timer: never both, always one while the session is
\* up, and none only after one of these three.
HeardOnce ==
  LoopIdle =>
    /\ ~(fd /\ retry # "none")
    /\ ~fd /\ retry = "none" =>
         link # "up" /\ (LeakedTxn \/ TakenForNew \/ FoundByCommit)

\* manager.py, idl_reconnect: "If the seqno change the ovsdb connection is
\* restablished."
SeqnoChangeMeansReestablished ==
  [][RetryTimer \/ ErrorEvent => (connected' /\ retry' = "none" => link' = "up")]_vars

\* Every monitored transaction that is complete for the IDL is removed from
\* txn_list and its handler notified and answered (DESIGN.md, Design).
CompletedIsAnswered ==
  \A r \in Requests :
    (pc[r] = "waiting" /\ Final(txnStatus[r])) ~> (pc[r] = "answered")

\* The same as long as checks keep starting, whatever the loop in
\* check_transactions skips and however the requests interleave.
CompletedIsAnsweredIfChecked ==
  ([]<>(scan > 0)) => CompletedIsAnswered

\* As long as no two transactions are in txn_list at once, a suspended request
\* is eventually answered, whatever the connection does.
AloneIsAnswered ==
  ([](Len(txnList) <= 1)) =>
    \A r \in Requests : (pc[r] = "waiting") ~> (pc[r] = "answered")

\* The manager and its handlers implement what TxnService promises to clients.
Service == INSTANCE TxnService

ImplementsTxnService == Service!Spec

----------------------------------------------------------------------------
(* The strengthening that makes the safety properties inductive.            *)

\* What holds of a request the handler has not taken up yet.
NewIsFresh ==
  \A r \in Requests : pc[r] = "new" =>
    txnStatus[r] = "none" /\ ~event[r] /\ answer[r] = "none"

\* How far a request is bounds what the IDL says of its transaction.
PhaseStatus ==
  \A r \in Requests :
    /\ pc[r] = "waiting" =>
         /\ txnStatus[r] \in {"incomplete", "success", "error", "try_again"}
         /\ answer[r] = "none"
    /\ pc[r] = "answered" => answer[r] # "none"
    /\ answer[r] \in {"success", "error", "try_again"} =>
         txnStatus[r] = answer[r]
    /\ answer[r] \in {"unavailable", "invalid", "bad_request", "unchanged"} =>
         txnStatus[r] \in {"none", "uncommitted", "aborted", "unchanged"}

\* The IDL's statuses, and the replies still on the wire, are what the server
\* decided; it decides only what was sent, once.
StatusMatchesDecision ==
  \A r \in Requests :
    /\ txnStatus[r] = "success" => decision[r] = "applied"
    /\ txnStatus[r] = "error" => decision[r] = "rejected"
    /\ txnStatus[r] \in {"none", "uncommitted", "aborted", "unchanged"} =>
         r \notin sent /\ decision[r] = "undecided"
    /\ r \in sent => decision[r] = "undecided"

WireMatchesDecision ==
  \A i \in 1 .. Len(wire) : wire[i].txn # NoTxn =>
    decision[wire[i].txn] = IF wire[i].status = "success"
                            THEN "applied" ELSE "rejected"

IInv ==
  /\ TypeOK
  /\ NoLostWakeup
  /\ ListedOnce
  /\ SignalIsCurrent
  /\ NewIsFresh
  /\ PhaseStatus
  /\ StatusMatchesDecision
  /\ WireMatchesDecision
=============================================================================
