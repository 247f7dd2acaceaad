------------------------- MODULE Subscribers_proofs -------------------------
(* Proofs about Subscribers, for any sockets, failures and restarts. *)
EXTENDS Subscribers, SequenceTheorems, TLAPS

LEMMA CommitsOf ==
  ASSUME NEW w \in Sockets
  PROVE  /\ Insert(w) \in Commits /\ Delete(w) \in Commits
         /\ Insert(w) # Delete(w)
         /\ \A v \in Sockets : /\ Insert(v) = Insert(w) => v = w
                               /\ Delete(v) = Delete(w) => v = w
                               /\ Insert(v) # Delete(w)
  BY DEF Insert, Delete, Commits

LEMMA InitIInv == Init => IInv
<1> SUFFICES ASSUME Init PROVE IInv
  OBVIOUS
<1> USE DEF Init, Txn!Init
<1>1. TypeOK
  BY EmptySeq DEF TypeOK
<1>2. NewIsFresh /\ SuccessIsApplied
  BY DEF NewIsFresh, SuccessIsApplied
<1>3. DeleteAfterInsert /\ RowsMatchDecisions
  BY CommitsOf DEF DeleteAfterInsert, RowsMatchDecisions
<1>4. QED BY <1>1, <1>2, <1>3 DEF IInv

\* What a commit that starts changes, whether or not it could be sent.
LEMMA CommitStarts ==
  ASSUME TypeOK, NEW r \in Commits, CommitIncomplete(r) \/ CommitFailed(r)
  PROVE  /\ pc[r] = "new"
         /\ pc' \in [Commits -> {"new", "waiting", "answered"}]
         /\ pc'[r] # "new"
         /\ \A q \in Commits \ {r} : pc'[q] = pc[q]
         /\ answer' \in [Commits -> {"none", "success", "error", "try_again"}]
         /\ \A q \in Commits : answer'[q] \in {answer[q], "try_again"}
         /\ status' \in [Commits -> {"none", "incomplete", "success", "error",
                                     "try_again", "dead"}]
         /\ \A q \in Commits : status'[q] \in {status[q], "incomplete"}
         /\ sent' \subseteq sent \cup {r}
         /\ UNCHANGED decision
<1>1. CASE CommitIncomplete(r)
  BY <1>1 DEF CommitIncomplete, Txn!Submit, TypeOK
<1>2. CASE CommitFailed(r)
  BY <1>2 DEF CommitFailed, Txn!Refuse, Txn!Answer, TypeOK
<1>3. QED BY <1>1, <1>2

\* What a handler that resumes changes.
LEMMA CommitEnds ==
  ASSUME TypeOK, SuccessIsApplied, NEW r \in Commits, Resumed(r)
  PROVE  /\ pc[r] = "waiting"
         /\ pc' = [pc EXCEPT ![r] = "answered"]
         /\ answer' = [answer EXCEPT ![r] = status[r]]
         /\ status[r] \in {"success", "error", "try_again"}
         /\ status[r] = "success" => decision[r] = "applied"
         /\ UNCHANGED <<status, sent, decision>>
  BY DEF Resumed, Txn!Report, Txn!Answer, SuccessIsApplied

LEMMA HandlerKeepsIInv ==
  ASSUME IInv, NEW w \in Sockets, Handler(w)
  PROVE  IInv'
<1> USE DEF IInv
<1> USE CommitsOf
<1>1. CASE Open(w)
  <2>1. CommitIncomplete(Insert(w)) \/ CommitFailed(Insert(w))
    BY <1>1 DEF Open
  <2>2. /\ socket[w] = "new"
        /\ socket' \in [Sockets -> {"new", "open", "ending", "closed"}]
        /\ \A v \in Sockets \ {w} : socket'[v] = socket[v]
        /\ websockets' \subseteq Sockets
        /\ UNCHANGED <<subscribed, idlVars, rows, restarts>>
    BY <1>1 DEF Open, TypeOK
  <2>3. TypeOK'
    BY <2>1, <2>2, CommitStarts DEF TypeOK, idlVars
  <2>4. NewIsFresh' /\ SuccessIsApplied' /\ RowsMatchDecisions'
    BY <2>1, <2>2, CommitStarts
    DEF NewIsFresh, SuccessIsApplied, RowsMatchDecisions, idlVars
  <2>5. DeleteAfterInsert'
    BY <2>1, <2>2, CommitStarts DEF DeleteAfterInsert
  <2>6. QED BY <2>3, <2>4, <2>5
<1>2. CASE OpenResumes(w)
  <2>1. Resumed(Insert(w))
    BY <1>2 DEF OpenResumes
  <2>2. /\ socket' \in [Sockets -> {"new", "open", "ending", "closed"}]
        /\ \A v \in Sockets : socket[v] = "closed" => socket'[v] = "closed"
    BY <1>2 DEF OpenResumes, HandleOpenFail, TypeOK
  <2>3. /\ subscribed' \subseteq subscribed \cup {w}
        /\ w \in subscribed' => w \in subscribed \/ status[Insert(w)] = "success"
    BY <1>2, <2>1, CommitEnds DEF OpenResumes, Tell, TypeOK
  <2>4. UNCHANGED <<websockets, idlVars, rows, restarts>>
    BY <1>2 DEF OpenResumes
  <2>5. TypeOK'
    BY <2>1, <2>2, <2>3, <2>4, CommitEnds DEF TypeOK, idlVars
  <2>6. NewIsFresh' /\ RowsMatchDecisions'
    BY <2>1, <2>4, CommitEnds DEF TypeOK, NewIsFresh, RowsMatchDecisions
  <2>7. SuccessIsApplied'
    BY <2>1, <2>3, <2>4, CommitEnds DEF TypeOK, SuccessIsApplied, idlVars
  <2>8. DeleteAfterInsert'
    BY <2>1, <2>2, CommitEnds DEF TypeOK, DeleteAfterInsert
  <2>9. QED BY <2>5, <2>6, <2>7, <2>8
<1>3. CASE OnClose(w)
  <2>1. /\ socket' = [socket EXCEPT ![w] = "closed"]
        /\ websockets' \subseteq websockets
        /\ UNCHANGED <<subscribed, idlVars, rows, restarts>>
    BY <1>3 DEF OnClose
  <2>2. CASE Found(w) /\ (CommitIncomplete(Delete(w)) \/ CommitFailed(Delete(w)))
    <3>1. decision[Insert(w)] = "applied"
      BY <2>2 DEF Found, SuccessIsApplied
    <3>2. TypeOK'
      BY <2>1, <2>2, CommitStarts DEF TypeOK, idlVars
    <3>3. NewIsFresh' /\ SuccessIsApplied' /\ RowsMatchDecisions'
      BY <2>1, <2>2, CommitStarts
      DEF NewIsFresh, SuccessIsApplied, RowsMatchDecisions, idlVars
    <3>4. DeleteAfterInsert'
      BY <2>1, <2>2, <3>1, CommitStarts DEF TypeOK, DeleteAfterInsert
    <3>5. QED BY <3>2, <3>3, <3>4
  <2>3. CASE UNCHANGED commitVars
    <3>1. TypeOK'
      BY <2>1, <2>3 DEF TypeOK, idlVars, commitVars
    <3>2. NewIsFresh' /\ SuccessIsApplied' /\ RowsMatchDecisions'
      BY <2>1, <2>3
      DEF NewIsFresh, SuccessIsApplied, RowsMatchDecisions, idlVars, commitVars
    <3>3. DeleteAfterInsert'
      BY <2>1, <2>3 DEF TypeOK, DeleteAfterInsert, commitVars
    <3>4. QED BY <3>1, <3>2, <3>3
  <2>4. QED BY <1>3, <2>2, <2>3 DEF OnClose
<1>4. CASE CloseResumes(w)
  <2>1. Resumed(Delete(w)) /\ UNCHANGED <<socketVars, idlVars, rows, restarts>>
    BY <1>4 DEF CloseResumes
  <2>2. TypeOK'
    BY <2>1, CommitEnds DEF TypeOK, idlVars, socketVars
  <2>3. NewIsFresh' /\ RowsMatchDecisions'
    BY <2>1, CommitEnds DEF TypeOK, NewIsFresh, RowsMatchDecisions
  <2>4. SuccessIsApplied'
    BY <2>1, CommitEnds DEF TypeOK, SuccessIsApplied, idlVars, socketVars
  <2>5. DeleteAfterInsert'
    BY <2>1, CommitEnds DEF TypeOK, DeleteAfterInsert, socketVars
  <2>6. QED BY <2>2, <2>3, <2>4, <2>5
<1>5. QED BY <1>1, <1>2, <1>3, <1>4 DEF Handler

LEMMA ServerKeepsIInv ==
  ASSUME IInv,
         \/ \E w \in Sockets, op \in {"insert", "delete"} : ServerApplies(w, op)
         \/ \E r \in Commits : ServerRejects(r)
  PROVE  IInv'
<1> USE DEF IInv
<1>1. PICK r \in Commits, d \in {"applied", "rejected"} :
        /\ Txn!Decide(r, d) /\ Deliver(r)
        /\ d = "rejected" => UNCHANGED rows
        /\ \A w \in Sockets :
             /\ d = "applied" /\ r = Insert(w) => rows' = rows \cup {w}
             /\ d = "applied" /\ r = Delete(w) => rows' = rows \ {w}
        /\ UNCHANGED <<socketVars, status, link, snapshot, replica, restarts>>
  <2>1. ASSUME NEW w \in Sockets, ServerApplies(w, "insert")
        PROVE  /\ Txn!Decide(Insert(w), "applied") /\ Deliver(Insert(w))
               /\ rows' = rows \cup {w}
               /\ UNCHANGED <<socketVars, status, link, snapshot, replica,
                              restarts>>
    BY <2>1 DEF ServerApplies, Insert
  <2>2. ASSUME NEW w \in Sockets, ServerApplies(w, "delete")
        PROVE  /\ Txn!Decide(Delete(w), "applied") /\ Deliver(Delete(w))
               /\ rows' = rows \ {w}
               /\ UNCHANGED <<socketVars, status, link, snapshot, replica,
                              restarts>>
    BY <2>2 DEF ServerApplies, Delete
  <2>3. ASSUME NEW r \in Commits, ServerRejects(r)
        PROVE  /\ Txn!Decide(r, "rejected") /\ Deliver(r)
               /\ UNCHANGED <<socketVars, status, link, snapshot, replica, rows,
                              restarts>>
    BY <2>3 DEF ServerRejects
  <2>4. QED BY <2>1, <2>2, <2>3, CommitsOf
<1>2. /\ decision[r] = "undecided" /\ r \in sent
      /\ decision' = [decision EXCEPT ![r] = d]
      /\ sent' = sent \ {r}
      /\ UNCHANGED <<pc, answer>>
  BY <1>1 DEF Txn!Decide
<1>3. wire' \in Seq(Commits)
  BY <1>1, AppendProperties DEF Deliver, TypeOK
<1>4. rows' \subseteq Sockets
  <2>1. PICK w \in Sockets : r = Insert(w) \/ r = Delete(w)
    BY DEF Commits, Insert, Delete
  <2>2. QED BY <1>1, <2>1 DEF TypeOK
<1>5. TypeOK'
  BY <1>1, <1>2, <1>3, <1>4 DEF TypeOK, socketVars
<1>6. NewIsFresh'
  BY <1>2 DEF TypeOK, NewIsFresh
<1>7. SuccessIsApplied'
  BY <1>1, <1>2, CommitsOf DEF TypeOK, SuccessIsApplied, socketVars
<1>8. DeleteAfterInsert'
  BY <1>1, <1>2, CommitsOf DEF TypeOK, DeleteAfterInsert, socketVars
<1>9. RowsMatchDecisions'
  <2> SUFFICES ASSUME NEW w \in Sockets
               PROVE  w \in rows' <=> /\ decision'[Insert(w)] = "applied"
                                      /\ decision'[Delete(w)] # "applied"
    BY DEF RowsMatchDecisions
  <2>1. CASE r = Insert(w)
    <3>1. decision[Delete(w)] = "undecided"
      BY <1>2, <2>1, CommitsOf DEF DeleteAfterInsert, NewIsFresh
    <3>2. QED BY <1>1, <1>2, <2>1, <3>1, CommitsOf DEF TypeOK, RowsMatchDecisions
  <2>2. CASE r = Delete(w)
    <3>1. decision[Insert(w)] = "applied"
      BY <1>2, <2>2, CommitsOf DEF DeleteAfterInsert, NewIsFresh
    <3>2. QED BY <1>1, <1>2, <2>2, <3>1, CommitsOf DEF TypeOK, RowsMatchDecisions
  <2>3. CASE r # Insert(w) /\ r # Delete(w)
    <3>1. decision'[Insert(w)] = decision[Insert(w)]
          /\ decision'[Delete(w)] = decision[Delete(w)]
      BY <1>2, <2>3, CommitsOf DEF TypeOK
    <3>2. w \in rows' <=> w \in rows
      <4>1. PICK v \in Sockets : r = Insert(v) \/ r = Delete(v)
        BY DEF Commits, Insert, Delete
      <4>2. v # w
        BY <2>3, <4>1
      <4>3. QED BY <1>1, <4>1, <4>2
    <3>3. QED BY <3>1, <3>2 DEF RowsMatchDecisions
  <2>4. QED BY <2>1, <2>2, <2>3
<1>10. QED BY <1>5, <1>6, <1>7, <1>8, <1>9

LEMMA ConnectionKeepsIInv ==
  ASSUME IInv, LoseConnection \/ NoticeLoss \/ Reconnect \/ Monitored \/ IdlRun
  PROVE  IInv'
<1> USE DEF IInv
<1>1. UNCHANGED <<socketVars, pc, answer, sent, decision, rows, restarts>>
  BY DEF LoseConnection, NoticeLoss, Reconnect, Monitored, IdlRun, commitVars
<1>2. /\ status' \in [Commits -> {"none", "incomplete", "success", "error",
                                  "try_again", "dead"}]
      /\ \A r \in Commits :
           status'[r] = "success" => status[r] = "success"
                                     \/ decision[r] = "applied"
  <2>1. CASE LoseConnection \/ NoticeLoss \/ Monitored
    BY <2>1 DEF LoseConnection, NoticeLoss, Monitored, commitVars, TypeOK
  <2>2. CASE Reconnect
    BY <2>2 DEF Reconnect, TypeOK
  <2>3. CASE IdlRun
    BY <2>3 DEF IdlRun, TypeOK
  <2>4. QED BY <2>1, <2>2, <2>3
<1>3. /\ snapshot' \subseteq Sockets
      /\ \A w \in snapshot' : decision[Insert(w)] = "applied"
  BY DEF LoseConnection, NoticeLoss, Reconnect, Monitored, IdlRun, TypeOK,
         SuccessIsApplied, RowsMatchDecisions
<1>4. /\ replica' \subseteq Sockets
      /\ \A w \in replica' : decision[Insert(w)] = "applied"
  BY DEF LoseConnection, NoticeLoss, Reconnect, Monitored, IdlRun, TypeOK,
         SuccessIsApplied, Read, Insert
<1>5. wire' \in Seq(Commits)
  <2>1. ASSUME NEW n \in 1 .. Len(wire)
        PROVE  SubSeq(wire, n + 1, Len(wire)) \in Seq(Commits)
    <3>1. Len(wire) \in Nat /\ n + 1 \in 1 .. Len(wire) + 1
      BY LenProperties DEF TypeOK
    <3>2. QED BY <3>1, SubSeqProperties DEF TypeOK
  <2>2. QED
    BY <2>1, EmptySeq
    DEF LoseConnection, NoticeLoss, Reconnect, Monitored, IdlRun, TypeOK
<1>6. link' \in {"up", "lost", "down", "monitoring"}
  BY DEF LoseConnection, NoticeLoss, Reconnect, Monitored, IdlRun, TypeOK
<1>7. TypeOK'
  BY <1>1, <1>2, <1>3, <1>4, <1>5, <1>6 DEF TypeOK, socketVars
<1>8. NewIsFresh' /\ DeleteAfterInsert' /\ RowsMatchDecisions'
  BY <1>1 DEF NewIsFresh, DeleteAfterInsert, RowsMatchDecisions, socketVars
<1>9. SuccessIsApplied'
  BY <1>1, <1>2, <1>3, <1>4 DEF SuccessIsApplied, socketVars
<1>10. QED BY <1>7, <1>8, <1>9

LEMMA RestartKeepsIInv ==
  ASSUME IInv, Restart
  PROVE  IInv'
<1> USE DEF IInv, Restart
<1>1. TypeOK'
  BY EmptySeq DEF TypeOK
<1>2. NewIsFresh' /\ RowsMatchDecisions'
  BY DEF NewIsFresh, RowsMatchDecisions
<1>3. SuccessIsApplied'
  BY DEF SuccessIsApplied, TypeOK
<1>4. DeleteAfterInsert'
  BY DEF DeleteAfterInsert, TypeOK
<1>5. QED BY <1>1, <1>2, <1>3, <1>4

LEMMA NextKeepsIInv == IInv /\ [Next]_vars => IInv'
<1> SUFFICES ASSUME IInv, [Next]_vars PROVE IInv'
  OBVIOUS
<1>1. ASSUME NEW w \in Sockets, Handler(w) PROVE IInv'
  BY <1>1, HandlerKeepsIInv
<1>2. CASE \/ \E w \in Sockets, op \in {"insert", "delete"} :
                ServerApplies(w, op)
           \/ \E r \in Commits : ServerRejects(r)
  BY <1>2, ServerKeepsIInv
<1>3. CASE LoseConnection \/ NoticeLoss \/ Reconnect \/ Monitored \/ IdlRun
  BY <1>3, ConnectionKeepsIInv
<1>4. CASE Restart
  BY <1>4, RestartKeepsIInv
<1>5. CASE UNCHANGED vars
  <2> USE <1>5 DEF vars, socketVars, commitVars, idlVars, IInv
  <2>1. TypeOK'
    BY DEF TypeOK
  <2>2. NewIsFresh' /\ SuccessIsApplied'
    BY DEF NewIsFresh, SuccessIsApplied
  <2>3. DeleteAfterInsert' /\ RowsMatchDecisions'
    BY DEF DeleteAfterInsert, RowsMatchDecisions
  <2>4. QED BY <2>1, <2>2, <2>3
<1>6. QED BY <1>1, <1>2, <1>3, <1>4, <1>5 DEF Next

\* IInv holds in every reachable state: rows, replica and successes agree with
\* what OVSDB decided, and a deletion follows its insertion.
THEOREM Invariance == Spec => []IInv
  BY InitIInv, NextKeepsIInv, PTL DEF Spec

\* Every variable of Subscribers keeps its type.
THEOREM TypeCorrectness == Spec => []TypeOK
<1>1. IInv => TypeOK
  BY DEF IInv
<1>2. QED BY <1>1, Invariance, PTL

\* A client that was sent its subscriber's URI finds the row while its socket
\* is open, through lost connections, TRY_AGAIN and restarts.
THEOREM SubscribersExist == Spec => []SubscriberIsThere
<1>1. IInv => SubscriberIsThere
  <2> SUFFICES ASSUME IInv, NEW w \in subscribed, socket[w] # "closed"
               PROVE  w \in rows
    BY DEF SubscriberIsThere
  <2> USE CommitsOf DEF IInv
  <2>1. w \in Sockets /\ decision[Insert(w)] = "applied"
    BY DEF TypeOK, SuccessIsApplied
  <2>2. pc[Delete(w)] = "new"
    BY <2>1 DEF DeleteAfterInsert
  <2>3. decision[Delete(w)] = "undecided"
    BY <2>1, <2>2 DEF NewIsFresh
  <2>4. QED BY <2>1, <2>3 DEF RowsMatchDecisions
<1>2. QED BY <1>1, Invariance, PTL

\* A row whose deletion succeeded is not inserted again.
THEOREM DeletionsLast == Spec => []DeletedForGood
<1>1. IInv => DeletedForGood
  <2> SUFFICES ASSUME IInv, NEW w \in Sockets, answer[Delete(w)] = "success"
               PROVE  w \notin rows
    BY DEF DeletedForGood
  <2>1. decision[Delete(w)] = "applied"
    BY CommitsOf DEF IInv, SuccessIsApplied
  <2>2. QED BY <2>1 DEF IInv, RowsMatchDecisions
<1>2. QED BY <1>1, Invariance, PTL
=============================================================================
