------------------------ MODULE OvsdbManager_proofs ------------------------
(***************************************************************************)
(* Theorems about OvsdbManager, for any set of requests, any way a          *)
(* connection is lost and any bound on the wire.                            *)
(***************************************************************************)
EXTENDS OvsdbManager, SequenceTheorems, TLAPS

\* pop(index): the element goes, the others keep their order.
LEMMA RemoveAtProperties ==
  ASSUME NEW S, NEW s \in Seq(S), NEW k \in 1 .. Len(s)
  PROVE  /\ RemoveAt(s, k) \in Seq(S)
         /\ Len(RemoveAt(s, k)) = Len(s) - 1
         /\ \A i \in 1 .. Len(s) - 1 :
              RemoveAt(s, k)[i] = IF i < k THEN s[i] ELSE s[i + 1]
<1>1. Len(s) \in Nat /\ k \in 1 .. Len(s) /\ \A i \in 1 .. Len(s) : s[i] \in S
  BY LenProperties, ElementOfSeq
<1> DEFINE a == SubSeq(s, 1, k - 1)
           b == SubSeq(s, k + 1, Len(s))
<1>2. /\ a \in Seq(S) /\ Len(a) = k - 1
      /\ \A i \in 1 .. k - 1 : a[i] = s[i]
  <2>1. 1 \in Int /\ k - 1 \in Int /\ \A i \in 1 .. k - 1 : s[i] \in S
    BY <1>1
  <2>2. /\ a \in Seq(S)
        /\ Len(a) = IF 1 <= k - 1 THEN (k - 1) - 1 + 1 ELSE 0
        /\ \A i \in 1 .. (k - 1) - 1 + 1 : a[i] = s[1 + i - 1]
    BY <2>1, SubSeqProperties
  <2> HIDE DEF a
  <2>3. QED BY <1>1, <2>2
<1>3. /\ b \in Seq(S) /\ Len(b) = Len(s) - k
      /\ \A i \in 1 .. Len(s) - k : b[i] = s[k + i]
  <2>1. k + 1 \in Int /\ Len(s) \in Int /\ \A i \in k + 1 .. Len(s) : s[i] \in S
    BY <1>1
  <2>2. /\ b \in Seq(S)
        /\ Len(b) = IF k + 1 <= Len(s) THEN Len(s) - (k + 1) + 1 ELSE 0
        /\ \A i \in 1 .. Len(s) - (k + 1) + 1 : b[i] = s[(k + 1) + i - 1]
    BY <2>1, SubSeqProperties
  <2> HIDE DEF b
  <2>3. QED BY <1>1, <2>2
<1>4. RemoveAt(s, k) = a \o b
  BY DEF RemoveAt
<1> HIDE DEF a, b
<1>5. /\ a \o b \in Seq(S)
      /\ Len(a \o b) = Len(a) + Len(b)
      /\ \A i \in 1 .. Len(a) + Len(b) :
           (a \o b)[i] = IF i <= Len(a) THEN a[i] ELSE b[i - Len(a)]
  BY <1>2, <1>3, ConcatProperties
<1>6. ASSUME NEW i \in 1 .. Len(s) - 1
      PROVE  (a \o b)[i] = IF i < k THEN s[i] ELSE s[i + 1]
  <2>1. CASE i < k
    BY <2>1, <1>1, <1>2, <1>3, <1>5
  <2>2. CASE ~(i < k)
    <3>1. (a \o b)[i] = b[i - (k - 1)] /\ i - (k - 1) \in 1 .. Len(s) - k
      BY <2>2, <1>1, <1>2, <1>3, <1>5
    <3>2. b[i - (k - 1)] = s[k + (i - (k - 1))]
      BY <3>1, <1>3
    <3>3. QED BY <3>1, <3>2, <2>2, <1>1
  <2>3. QED BY <2>1, <2>2
<1>7. QED BY <1>1, <1>2, <1>3, <1>4, <1>5, <1>6

\* Idl.run consumes a prefix of the wire.
LEMMA DropReadProperties ==
  ASSUME wire \in Seq(Messages), NEW n \in 0 .. Len(wire)
  PROVE  /\ DropRead(n) \in Seq(Messages)
         /\ Len(DropRead(n)) = Len(wire) - n
         /\ \A i \in 1 .. Len(wire) - n : DropRead(n)[i] = wire[n + i]
<1>1. Len(wire) \in Nat /\ \A i \in 1 .. Len(wire) : wire[i] \in Messages
  BY LenProperties, ElementOfSeq
<1>2. n + 1 \in Int /\ Len(wire) \in Int
      /\ \A i \in n + 1 .. Len(wire) : wire[i] \in Messages
  BY <1>1
<1> DEFINE b == SubSeq(wire, n + 1, Len(wire))
<1>3. /\ b \in Seq(Messages)
      /\ Len(b) = IF n + 1 <= Len(wire) THEN Len(wire) - (n + 1) + 1 ELSE 0
      /\ \A i \in 1 .. Len(wire) - (n + 1) + 1 : b[i] = wire[(n + 1) + i - 1]
  BY <1>2, SubSeqProperties
<1> HIDE DEF b
<1>4. DropRead(n) = b
  BY DEF DropRead, b
<1>5. QED BY <1>1, <1>3, <1>4

\* Reading a prefix changes only statuses that were INCOMPLETE, and to what a
\* reply on the wire says.
LEMMA StatusAfterProperties ==
  ASSUME TypeOK, NEW n \in 0 .. Len(wire)
  PROVE  /\ StatusAfter(n) \in [Requests -> Statuses]
         /\ \A r \in Requests :
              \/ StatusAfter(n)[r] = txnStatus[r]
              \/ /\ txnStatus[r] = "incomplete"
                 /\ StatusAfter(n)[r] \in {"success", "error"}
                 /\ \E i \in 1 .. Len(wire) :
                      wire[i].txn = r /\ wire[i].status = StatusAfter(n)[r]
<1>1. Len(wire) \in Nat /\ \A i \in 1 .. Len(wire) : wire[i] \in Messages
  BY LenProperties, ElementOfSeq DEF TypeOK
<1>2. ASSUME NEW r \in Requests
      PROVE  \/ StatusAfter(n)[r] = txnStatus[r]
             \/ /\ txnStatus[r] = "incomplete"
                /\ StatusAfter(n)[r] \in {"success", "error"}
                /\ \E i \in 1 .. Len(wire) :
                     wire[i].txn = r /\ wire[i].status = StatusAfter(n)[r]
  <2>1. CASE txnStatus[r] = "incomplete" /\ \E i \in 1 .. n : wire[i].txn = r
    <3> DEFINE c == CHOOSE i \in 1 .. n : wire[i].txn = r
    <3>1. c \in 1 .. n /\ wire[c].txn = r
      BY <2>1
    <3>2. StatusAfter(n)[r] = wire[c].status
      BY <2>1 DEF StatusAfter
    <3> HIDE DEF c
    <3>3. c \in 1 .. Len(wire) /\ wire[c] \in Messages
      BY <3>1, <1>1
    <3>4. wire[c].status \in {"success", "error"}
      BY <3>1, <3>3, ManagerAssumption DEF Messages, Update, Reply
    <3>5. QED BY <2>1, <3>1, <3>2, <3>3, <3>4
  <2>2. CASE ~(txnStatus[r] = "incomplete" /\ \E i \in 1 .. n : wire[i].txn = r)
    BY <2>2 DEF StatusAfter
  <2>3. QED BY <2>1, <2>2
<1>3. StatusAfter(n) = [r \in Requests |-> StatusAfter(n)[r]]
  BY DEF StatusAfter
<1>4. \A r \in Requests : StatusAfter(n)[r] \in Statuses
  BY <1>2 DEF TypeOK, Statuses
<1>5. QED BY <1>2, <1>3, <1>4

----------------------------------------------------------------------------
(* The inductive invariant.                                                 *)

LEMMA InitIInv == Init => IInv
<1> SUFFICES ASSUME Init PROVE IInv
  OBVIOUS
<1>1. TypeOK
  BY EmptySeq DEF Init, TypeOK, Answers, Statuses
<1>2. NoLostWakeup /\ ListedOnce /\ SignalIsCurrent
  BY DEF Init, NoLostWakeup, ListedOnce, SignalIsCurrent, Listed
<1>3. NewIsFresh /\ PhaseStatus /\ StatusMatchesDecision /\ WireMatchesDecision
  BY DEF Init, NewIsFresh, PhaseStatus, StatusMatchesDecision,
         WireMatchesDecision
<1>4. QED BY <1>1, <1>2, <1>3 DEF IInv

\* A handler that answers without waiting: the transaction, if any, is final
\* or abandoned, and neither the list nor the server hears of it.
LEMMA AnsweredAtOnce ==
  ASSUME IInv, NEW r \in Requests, pc[r] = "new",
         NEW t \in {"none", "uncommitted", "aborted", "unchanged", "try_again"},
         NEW a \in {"unavailable", "invalid", "bad_request", "unchanged",
                    "try_again"},
         a = "try_again" <=> t = "try_again",
         Answer(r, a),
         txnStatus' = [txnStatus EXCEPT ![r] = t],
         \/ status' = status
         \/ status' = [status EXCEPT ![r] = t],
         slot' \in Requests \cup {NoTxn}, fd' \in BOOLEAN,
         UNCHANGED <<event, checkVars, connected, retry, link, wire, serverVars>>
  PROVE  IInv'
<1> USE DEF IInv, Answer, checkVars, serverVars
<1>1. TypeOK'
  BY DEF TypeOK, Statuses, Answers
<1>2. NoLostWakeup'
  BY DEF NoLostWakeup, Listed, TypeOK
<1>3. ListedOnce'
  BY DEF ListedOnce
<1>4. SignalIsCurrent'
  BY DEF SignalIsCurrent, NewIsFresh, TypeOK
<1>5. NewIsFresh' /\ PhaseStatus'
  BY DEF NewIsFresh, PhaseStatus, TypeOK
<1>6. StatusMatchesDecision'
  BY DEF NewIsFresh, StatusMatchesDecision, TypeOK
<1>7. WireMatchesDecision'
  BY DEF WireMatchesDecision
<1>8. QED BY <1>1, <1>2, <1>3, <1>4, <1>5, <1>6, <1>7

LEMMA HandlerKeepsIInv ==
  ASSUME IInv, NEW r \in Requests, Handler(r)
  PROVE  IInv'
<1>1. CASE Unavailable(r) \/ NotMade(r)
  <2>1. txnStatus' = [txnStatus EXCEPT ![r] = "none"]
    BY <1>1 DEF Unavailable, NotMade, txnVars, IInv, NewIsFresh, TypeOK
  <2>2. QED
    BY <1>1, <2>1, AnsweredAtOnce
    DEF Unavailable, NotMade, txnVars, idlVars, connVars, IInv, TypeOK
<1>2. CASE Rejected(r)
  BY <1>2, AnsweredAtOnce DEF Rejected, connVars, idlVars, IInv, TypeOK
<1>3. CASE ValueErrorRaised(r)
  BY <1>3, AnsweredAtOnce DEF ValueErrorRaised, connVars, IInv, TypeOK
<1>4. CASE CommitUnchanged(r)
  BY <1>4, AnsweredAtOnce
  DEF CommitUnchanged, CommitEnded, connVars, idlVars, IInv, TypeOK
<1>5. CASE CommitTryAgain(r)
  BY <1>5, AnsweredAtOnce
  DEF CommitTryAgain, CommitEnded, connVars, idlVars, IInv, TypeOK
<1>6. CASE CommitSent(r)
  <2> USE <1>6 DEF CommitSent, MonitorTransaction, connVars, idlVars, IInv
  <2>1. /\ txnList' \in Seq(Requests)
        /\ Len(txnList) \in Nat
        /\ Len(txnList') = Len(txnList) + 1
        /\ \A i \in 1 .. Len(txnList) :
             txnList'[i] = txnList[i] /\ txnList[i] \in Requests
        /\ txnList'[Len(txnList) + 1] = r
    BY AppendProperties, LenProperties, ElementOfSeq DEF TypeOK
  <2>2. ~Listed(r)
    BY DEF NoLostWakeup
  <2>3. \A q \in Requests : Listed(q)' <=> (Listed(q) \/ q = r)
    BY <2>1 DEF Listed
  <2>4. TypeOK'
    BY <2>1 DEF TypeOK, Statuses
  <2>5. NoLostWakeup'
    BY <2>3 DEF NoLostWakeup, NewIsFresh, TypeOK
  <2>6. ListedOnce'
    BY <2>1, <2>2 DEF ListedOnce, Listed
  <2>7. SignalIsCurrent'
    BY DEF SignalIsCurrent, NewIsFresh, TypeOK
  <2>8. NewIsFresh' /\ PhaseStatus'
    BY DEF NewIsFresh, PhaseStatus, TypeOK
  <2>9. StatusMatchesDecision'
    BY DEF NewIsFresh, StatusMatchesDecision, TypeOK
  <2>10. WireMatchesDecision'
    BY DEF WireMatchesDecision
  <2>11. QED BY <2>4, <2>5, <2>6, <2>7, <2>8, <2>9, <2>10
<1>7. CASE Resume(r)
  <2> USE <1>7 DEF Resume, TransactionComplete, Answer, txnVars, checkVars, connVars, serverVars, IInv
  <2>1. status[r] = txnStatus[r]
        /\ status[r] \in {"success", "error", "try_again"}
    BY DEF SignalIsCurrent, PhaseStatus, Final
  <2>2. TypeOK'
    BY <2>1 DEF TypeOK, Answers
  <2>3. NoLostWakeup' /\ ListedOnce' /\ SignalIsCurrent'
    BY DEF NoLostWakeup, ListedOnce, SignalIsCurrent, Listed, TypeOK
  <2>4. NewIsFresh' /\ PhaseStatus'
    BY <2>1 DEF NewIsFresh, PhaseStatus, TypeOK
  <2>5. StatusMatchesDecision' /\ WireMatchesDecision'
    BY DEF StatusMatchesDecision, WireMatchesDecision
  <2>6. QED BY <2>2, <2>3, <2>4, <2>5
<1>8. QED
  BY <1>1, <1>2, <1>3, <1>4, <1>5, <1>6, <1>7 DEF Handler

LEMMA CheckKeepsIInv ==
  ASSUME IInv, TimerFires \/ CheckNext \/ EndCheck
  PROVE  IInv'
<1>1. CASE TimerFires \/ EndCheck
  <2> USE <1>1 DEF TimerFires, EndCheck, BeginCheck, handlerVars, txnVars,
                   connVars, idlVars, serverVars, IInv
  <2>0. scan' \in Nat /\ timer' \in BOOLEAN /\ txnIncomplete' \in BOOLEAN
    <3>1. scan' = 1 \/ scan' = 0
      OBVIOUS
    <3>2. timer' \in BOOLEAN /\ txnIncomplete' \in BOOLEAN
      BY ZenonT(30) DEF TypeOK
    <3>3. QED BY <3>1, <3>2
  <2>1. TypeOK'
    BY <2>0 DEF TypeOK
  <2>2. NoLostWakeup' /\ ListedOnce' /\ SignalIsCurrent'
    BY DEF NoLostWakeup, ListedOnce, SignalIsCurrent, Listed
  <2>3. /\ NewIsFresh' /\ PhaseStatus'
        /\ StatusMatchesDecision' /\ WireMatchesDecision'
    BY DEF NewIsFresh, PhaseStatus, StatusMatchesDecision, WireMatchesDecision
  <2>4. QED BY <2>1, <2>2, <2>3
<1>2. CASE CheckNext
  <2> USE <1>2
      DEF CheckNext, CommitAgain, Signal, handlerVars, connVars, idlVars,
          serverVars, IInv
  <2> DEFINE tx == txnList[scan]
  <2>1. tx \in Requests /\ Len(txnList) \in Nat /\ pc[tx] = "waiting"
    BY ElementOfSeq, LenProperties DEF TypeOK, NoLostWakeup, Listed
  <2>2. status' = [status EXCEPT ![tx] = txnStatus[tx]]
    OBVIOUS
  <2> status'[tx] = txnStatus[tx]
    BY <2>1, <2>2 DEF TypeOK
  <2> txnIncomplete' \in BOOLEAN
    BY ZenonT(30) DEF TypeOK
  <2> scan' \in Nat
    BY DEF TypeOK
  <2>3. CASE ~Final(txnStatus[tx])
    <3> USE <2>3
    <3>1. UNCHANGED <<txnList, event>> /\ ~event[tx]
      BY <2>1 DEF SignalIsCurrent
    <3>2. TypeOK'
      BY <2>1, <2>2, <3>1 DEF TypeOK
    <3>3. NoLostWakeup' /\ ListedOnce'
      BY <3>1 DEF NoLostWakeup, ListedOnce, Listed
    <3>4. SignalIsCurrent'
      BY <2>1, <2>2, <3>1 DEF SignalIsCurrent, TypeOK
    <3>5. NewIsFresh' /\ PhaseStatus'
      BY <3>1 DEF NewIsFresh, PhaseStatus
    <3>6. StatusMatchesDecision' /\ WireMatchesDecision'
      BY DEF StatusMatchesDecision, WireMatchesDecision
    <3>7. QED BY <3>2, <3>3, <3>4, <3>5, <3>6
  <2>4. CASE Final(txnStatus[tx])
    <3>1. /\ txnList' = RemoveAt(txnList, scan)
          /\ event' = [event EXCEPT ![tx] = TRUE]
          /\ UNCHANGED txnIncomplete
      BY <2>4
    <3>2. /\ txnList' \in Seq(Requests)
          /\ Len(txnList') = Len(txnList) - 1
          /\ \A i \in 1 .. Len(txnList) - 1 :
               txnList'[i] = IF i < scan THEN txnList[i] ELSE txnList[i + 1]
      <4>1. txnList \in Seq(Requests) /\ scan \in 1 .. Len(txnList)
        BY DEF TypeOK
      <4> HIDE <1>2 DEF CheckNext, CommitAgain, Signal, IInv
      <4>2. QED BY <4>1, <3>1, RemoveAtProperties
    <3>3. \A q \in Requests : Listed(q)' <=> (Listed(q) /\ q # tx)
      <4> SUFFICES ASSUME NEW q \in Requests
                   PROVE  Listed(q)' <=> (Listed(q) /\ q # tx)
        OBVIOUS
      <4>1. ASSUME Listed(q)' PROVE Listed(q) /\ q # tx
        <5>1. PICK i \in 1 .. Len(txnList) - 1 : txnList'[i] = q
          BY <4>1, <3>2 DEF Listed
        <5>2. CASE i < scan
          BY <5>1, <5>2, <3>2, <2>1 DEF ListedOnce, Listed
        <5>3. CASE ~(i < scan)
          <6>1. i + 1 \in 1 .. Len(txnList) /\ i + 1 # scan
                /\ txnList[i + 1] = q
            BY <5>1, <5>3, <3>2, <2>1
          <6>2. QED BY <6>1, <2>1 DEF ListedOnce, Listed
        <5>4. QED BY <5>2, <5>3
      <4>2. ASSUME Listed(q), q # tx PROVE Listed(q)'
        <5>1. PICK i \in 1 .. Len(txnList) : txnList[i] = q
          BY <4>2 DEF Listed
        <5>2. i # scan
          BY <5>1, <4>2
        <5>3. CASE i < scan
          <6>1. i \in 1 .. Len(txnList) - 1 /\ txnList'[i] = q
            BY <5>1, <5>3, <3>2, <2>1
          <6>2. QED BY <6>1, <3>2 DEF Listed
        <5>4. CASE i > scan
          <6>1. i - 1 \in 1 .. Len(txnList) - 1 /\ ~(i - 1 < scan)
                /\ (i - 1) + 1 = i
            BY <5>4, <2>1
          <6>2. txnList'[i - 1] = q
            BY <6>1, <5>1, <3>2
          <6>3. QED BY <6>1, <6>2, <3>2 DEF Listed
        <5>5. QED BY <5>2, <5>3, <5>4, <2>1
      <4>3. QED BY <4>1, <4>2
    <3>4. TypeOK'
      BY <2>1, <2>2, <3>1, <3>2 DEF TypeOK
    <3>5. NoLostWakeup'
      BY <2>1, <3>1, <3>3 DEF NoLostWakeup, TypeOK
    <3>6. ListedOnce'
      <4> SUFFICES ASSUME NEW i \in 1 .. Len(txnList) - 1,
                          NEW j \in 1 .. Len(txnList) - 1,
                          txnList'[i] = txnList'[j]
                   PROVE  i = j
        BY <3>2 DEF ListedOnce
      <4> DEFINE old(k) == IF k < scan THEN k ELSE k + 1
      <4>1. /\ old(i) \in 1 .. Len(txnList) /\ old(j) \in 1 .. Len(txnList)
            /\ txnList[old(i)] = txnList[old(j)]
        BY <3>2, <2>1
      <4>2. old(i) = old(j)
        BY <4>1 DEF ListedOnce
      <4>3. QED BY <4>2, <2>1
    <3>7. SignalIsCurrent'
      BY <2>1, <2>2, <2>4, <3>1 DEF SignalIsCurrent, TypeOK
    <3>8. NewIsFresh' /\ PhaseStatus'
      BY <2>1, <3>1 DEF NewIsFresh, PhaseStatus, TypeOK
    <3>9. StatusMatchesDecision' /\ WireMatchesDecision'
      BY DEF StatusMatchesDecision, WireMatchesDecision
    <3>10. QED BY <3>4, <3>5, <3>6, <3>7, <3>8, <3>9
  <2>5. QED BY <2>3, <2>4
<1>3. QED BY <1>1, <1>2

\* What one call of Idl.run may do to the statuses and to the wire.
IdlRuns ==
  /\ wire' \in Seq(Messages)
  /\ \A i \in 1 .. Len(wire') : \E j \in 1 .. Len(wire) : wire'[i] = wire[j]
  /\ txnStatus' \in [Requests -> Statuses]
  /\ \A r \in Requests :
       \/ txnStatus'[r] = txnStatus[r]
       \/ txnStatus[r] = "incomplete" /\ txnStatus'[r] = "try_again"
       \/ /\ txnStatus[r] = "incomplete"
          /\ txnStatus'[r] \in {"success", "error"}
          /\ \E i \in 1 .. Len(wire) :
               wire[i].txn = r /\ wire[i].status = txnStatus'[r]

LEMMA ReadingRuns ==
  ASSUME TypeOK, NEW n \in 0 .. Len(wire),
         txnStatus' = StatusAfter(n),
         wire' = DropRead(n) \/ wire' = <<>>
  PROVE  IdlRuns
<1>1. /\ StatusAfter(n) \in [Requests -> Statuses]
      /\ \A r \in Requests :
           \/ StatusAfter(n)[r] = txnStatus[r]
           \/ /\ txnStatus[r] = "incomplete"
              /\ StatusAfter(n)[r] \in {"success", "error"}
              /\ \E i \in 1 .. Len(wire) :
                   wire[i].txn = r /\ wire[i].status = StatusAfter(n)[r]
  BY StatusAfterProperties
<1>2. wire \in Seq(Messages) /\ Len(wire) \in Nat
  BY LenProperties DEF TypeOK
<1>3. /\ wire' \in Seq(Messages)
      /\ \A i \in 1 .. Len(wire') : \E j \in 1 .. Len(wire) : wire'[i] = wire[j]
  <2>1. CASE wire' = DropRead(n)
    <3>1. /\ wire' \in Seq(Messages)
          /\ Len(wire') = Len(wire) - n
          /\ \A i \in 1 .. Len(wire) - n : wire'[i] = wire[n + i]
      BY <2>1, <1>2, DropReadProperties
    <3>2. QED BY <3>1, <1>2
  <2>2. CASE wire' = <<>>
    BY <2>2, EmptySeq
  <2>3. QED BY <2>1, <2>2
<1>4. QED BY <1>1, <1>3 DEF IdlRuns

LEMMA IdlRunsKeepsIInv ==
  ASSUME IInv, IdlRuns, UNCHANGED <<handlerVars, status, event, txnList, slot,
                                    serverVars>>,
         timer' \in BOOLEAN, txnIncomplete' \in BOOLEAN, scan' \in Nat,
         connected' \in BOOLEAN, fd' \in BOOLEAN,
         retry' \in {"none", "init", "reconnect"},
         link' \in {"up", "lost", "down", "monitoring"}
  PROVE  IInv'
<1> USE DEF IInv, handlerVars, serverVars
<1>1. TypeOK'
  BY DEF TypeOK, IdlRuns
<1>2. NoLostWakeup' /\ ListedOnce'
  BY DEF NoLostWakeup, ListedOnce, Listed
<1>3. SignalIsCurrent'
  BY DEF SignalIsCurrent, IdlRuns, Final
<1>4. NewIsFresh' /\ PhaseStatus'
  BY DEF NewIsFresh, PhaseStatus, IdlRuns
<1>5. StatusMatchesDecision'
  <2> SUFFICES ASSUME NEW r \in Requests, txnStatus'[r] # txnStatus[r]
               PROVE  /\ txnStatus'[r] = "success" => decision[r] = "applied"
                      /\ txnStatus'[r] = "error" => decision[r] = "rejected"
                      /\ txnStatus'[r] \in {"success", "error", "try_again"}
    BY DEF StatusMatchesDecision
  <2>1. CASE txnStatus'[r] = "try_again"
    BY <2>1
  <2>2. CASE txnStatus'[r] # "try_again"
    <3>1. PICK i \in 1 .. Len(wire) :
                 wire[i].txn = r /\ wire[i].status = txnStatus'[r]
      BY <2>2 DEF IdlRuns
    <3>2. decision[r] = IF txnStatus'[r] = "success" THEN "applied"
                        ELSE "rejected"
      BY <3>1, ManagerAssumption DEF WireMatchesDecision
    <3>3. QED BY <2>2, <3>2 DEF IdlRuns
  <2>3. QED BY <2>1, <2>2
<1>6. WireMatchesDecision'
  BY DEF WireMatchesDecision, IdlRuns
<1>7. QED BY <1>1, <1>2, <1>3, <1>4, <1>5, <1>6

LEMMA IdlStepKeepsIInv ==
  ASSUME IInv, ReadEvent \/ ErrorEvent \/ RetryTimer
  PROVE  IInv'
<1> USE DEF IInv
<1>1. CASE ReadEvent
  <2>1. PICK n \in 1 .. Len(wire) :
          /\ txnStatus' = StatusAfter(n)
          /\ wire' = DropRead(n)
          /\ \/ BeginCheck
             \/ UNCHANGED <<scan, txnIncomplete, timer>>
    BY <1>1 DEF ReadEvent
  <2>2. n \in 0 .. Len(wire)
    BY LenProperties DEF TypeOK
  <2>3. IdlRuns
    BY <2>1, <2>2, ReadingRuns
  <2>4. timer' \in BOOLEAN /\ txnIncomplete' \in BOOLEAN
    BY <2>1, ZenonT(30) DEF TypeOK, BeginCheck
  <2>5. scan' \in Nat
    BY <2>1 DEF TypeOK, BeginCheck
  <2>6. /\ UNCHANGED <<handlerVars, status, event, txnList, slot, serverVars>>
        /\ connected' \in BOOLEAN /\ fd' \in BOOLEAN
        /\ retry' \in {"none", "init", "reconnect"}
        /\ link' \in {"up", "lost", "down", "monitoring"}
    BY <1>1, ZenonT(30) DEF ReadEvent, TypeOK, connVars
  <2>7. QED BY <2>3, <2>4, <2>5, <2>6, IdlRunsKeepsIInv
<1>2. CASE ErrorEvent \/ RetryTimer
  <2>1. PICK which \in {"init", "reconnect"} : IdlInitOrReconnect(which)
    BY <1>2 DEF ErrorEvent, RetryTimer, TypeOK
  <2>2. UNCHANGED <<handlerVars, status, event, checkVars, slot, serverVars>>
    BY <1>2 DEF ErrorEvent, RetryTimer
  <2>3. timer' \in BOOLEAN /\ txnIncomplete' \in BOOLEAN /\ scan' \in Nat
    BY <2>2, ZenonT(30) DEF checkVars, TypeOK
  <2>4. ASSUME txnStatus' = txnStatus, wire' = wire
        PROVE  IdlRuns
    BY <2>4 DEF IdlRuns, TypeOK
  <2>5. CASE UNCHANGED <<connected, txnStatus, link, wire>>
             /\ retry' \in {"none", "init", "reconnect"} /\ fd' = FALSE
    <3>1. connected' \in BOOLEAN /\ fd' \in BOOLEAN
          /\ link' \in {"up", "lost", "down", "monitoring"}
      BY <2>5, ZenonT(30) DEF TypeOK
    <3>2. UNCHANGED <<handlerVars, status, event, txnList, slot, serverVars>>
      BY <2>2 DEF checkVars
    <3>3. QED BY <2>3, <2>4, <2>5, <3>1, <3>2, IdlRunsKeepsIInv
  <2>6. CASE \E n \in 0 .. Len(wire), seqnoChanged \in BOOLEAN :
               /\ SessionRun(n, seqnoChanged)
               /\ IF seqnoChanged
                  THEN EstablishConnection
                  ELSE /\ connected' = IF which = "init" THEN connected
                                       ELSE FALSE
                       /\ retry' = which
                       /\ fd' = FALSE
    <3>1. PICK n \in 0 .. Len(wire), seqnoChanged \in BOOLEAN :
               /\ SessionRun(n, seqnoChanged)
               /\ IF seqnoChanged
                  THEN EstablishConnection
                  ELSE /\ connected' = IF which = "init" THEN connected
                                       ELSE FALSE
                       /\ retry' = which
                       /\ fd' = FALSE
      BY <2>6
    <3>2. connected' \in BOOLEAN /\ fd' \in BOOLEAN
          /\ retry' \in {"none", "init", "reconnect"}
      BY <3>1, ZenonT(30) DEF EstablishConnection, TypeOK
    <3>3. link' \in {"up", "lost", "down", "monitoring"}
      BY <3>1 DEF SessionRun, TypeOK
    <3>4. IdlRuns
      <4>1. CASE link = "lost"
        BY <4>1, <3>1, ReadingRuns DEF SessionRun
      <4>2. CASE link = "down" /\ txnStatus' # txnStatus
        BY <4>2, <3>1 DEF SessionRun, IdlRuns, TypeOK, Statuses
      <4>3. CASE link # "lost" /\ txnStatus' = txnStatus
        BY <4>3, <3>1, <2>4 DEF SessionRun
      <4>4. QED BY <4>1, <4>2, <4>3, <3>1 DEF SessionRun
    <3>5. UNCHANGED <<handlerVars, status, event, txnList, slot, serverVars>>
      BY <2>2 DEF checkVars
    <3>6. QED BY <2>3, <3>2, <3>3, <3>4, <3>5, IdlRunsKeepsIInv
  <2>7. QED BY <2>1, <2>5, <2>6 DEF IdlInitOrReconnect
<1>3. QED BY <1>1, <1>2

\* A reply joins the wire with the decision it reports.
LEMMA DeliveredKeepsWire ==
  ASSUME IInv, NEW r \in sent, NEW s \in {"success", "error"},
         decision' = [decision EXCEPT ![r] = IF s = "success" THEN "applied"
                                             ELSE "rejected"],
         NEW msgs \in {<<Update, Reply(r, s)>>, <<Reply(r, s)>>},
         Deliver(r, msgs)
  PROVE  wire' \in Seq(Messages) /\ WireMatchesDecision'
<1> USE DEF IInv
<1>1. r \in Requests /\ decision[r] = "undecided" /\ wire \in Seq(Messages)
      /\ decision \in [Requests -> {"undecided", "applied", "rejected"}]
  BY DEF TypeOK, StatusMatchesDecision
<1>2. Update \in Messages /\ Reply(r, s) \in Messages
  BY <1>1 DEF Messages
<1>3. ASSUME NEW m \in Messages, m.txn # NoTxn,
             decision[m.txn] = IF m.status = "success" THEN "applied"
                               ELSE "rejected"
      PROVE  decision'[m.txn] = IF m.status = "success" THEN "applied"
                                ELSE "rejected"
  <2>1. m.txn # r
    BY <1>1, <1>3
  <2>2. m.txn \in Requests
    BY <1>3 DEF Messages, Update, Reply
  <2>3. QED BY <1>1, <1>3, <2>1, <2>2
<1>4. CASE wire' = wire
  <2>1. \A i \in 1 .. Len(wire) : wire[i] \in Messages
    BY <1>1, ElementOfSeq
  <2>2. QED BY <1>1, <1>3, <1>4, <2>1 DEF WireMatchesDecision
<1>5. CASE wire' = wire \o msgs
  <2>1. /\ msgs \in Seq(Messages) /\ Len(msgs) \in Nat
        /\ \A i \in 1 .. Len(msgs) : msgs[i] \in {Update, Reply(r, s)}
    <3> DEFINE u == Update
               m == Reply(r, s)
    <3>1. u \in Messages /\ m \in Messages
      BY <1>2
    <3> HIDE DEF u, m
    <3>2. CASE msgs = <<u, m>>
      BY <3>1, <3>2 DEF u, m
    <3>3. CASE msgs = <<m>>
      BY <3>1, <3>3 DEF m
    <3>4. QED BY <3>2, <3>3 DEF u, m
  <2>2. /\ wire' \in Seq(Messages)
        /\ Len(wire) \in Nat
        /\ Len(wire') = Len(wire) + Len(msgs)
        /\ \A i \in 1 .. Len(wire) + Len(msgs) :
             wire'[i] = IF i <= Len(wire) THEN wire[i]
                        ELSE msgs[i - Len(wire)]
    BY <1>1, <1>5, <2>1, ConcatProperties, LenProperties
  <2>3. ASSUME NEW i \in 1 .. Len(wire'), wire'[i].txn # NoTxn
        PROVE  decision'[wire'[i].txn] =
                 IF wire'[i].status = "success" THEN "applied" ELSE "rejected"
    <3>1. CASE i <= Len(wire)
      <4>1. wire'[i] = wire[i] /\ wire[i] \in Messages /\ i \in 1 .. Len(wire)
        BY <3>1, <2>2, <1>1, ElementOfSeq
      <4>2. QED BY <4>1, <2>3, <1>3 DEF WireMatchesDecision
    <3>2. CASE ~(i <= Len(wire))
      <4>1. i - Len(wire) \in 1 .. Len(msgs) /\ wire'[i] = msgs[i - Len(wire)]
        BY <3>2, <2>1, <2>2
      <4>2. wire'[i] \in {Update, Reply(r, s)}
        BY <4>1, <2>1
      <4>3. wire'[i].txn = r /\ wire'[i].status = s
        BY <4>2, <2>3 DEF Update, Reply
      <4>4. QED BY <4>3, <1>1
    <3>3. QED BY <3>1, <3>2
  <2>4. QED BY <2>2, <2>3 DEF WireMatchesDecision
<1>6. QED BY <1>4, <1>5 DEF Deliver

LEMMA EnvironmentKeepsIInv ==
  ASSUME IInv,
         \/ \E r \in Requests : ServerExecutes(r)
         \/ OtherWriter
         \/ LoseConnection
  PROVE  IInv'
<1> USE DEF IInv
<1>1. ASSUME NEW r \in Requests, ServerExecutes(r)
      PROVE  IInv'
  <2>1. r \in sent /\ sent' = sent \ {r}
        /\ UNCHANGED <<handlerVars, txnVars, checkVars, connVars, slot, link>>
    BY <1>1 DEF ServerExecutes, ServerApplies, ServerRejects
  <2>2. PICK s \in {"success", "error"} :
          /\ decision' = [decision EXCEPT ![r] = IF s = "success"
                                                 THEN "applied" ELSE "rejected"]
          /\ \E msgs \in {<<Update, Reply(r, s)>>, <<Reply(r, s)>>} :
               Deliver(r, msgs)
    BY <1>1 DEF ServerExecutes, ServerApplies, ServerRejects
  <2>3. wire' \in Seq(Messages) /\ WireMatchesDecision'
    BY <2>1, <2>2, DeliveredKeepsWire
  <2> USE <2>1, <2>2 DEF handlerVars, txnVars, checkVars, connVars
  <2>4. TypeOK'
    BY <2>3 DEF TypeOK
  <2>5. NoLostWakeup' /\ ListedOnce' /\ SignalIsCurrent'
    BY DEF NoLostWakeup, ListedOnce, SignalIsCurrent, Listed
  <2>6. NewIsFresh' /\ PhaseStatus'
    BY DEF NewIsFresh, PhaseStatus
  <2>7. StatusMatchesDecision'
    BY DEF StatusMatchesDecision, TypeOK
  <2>8. QED BY <2>3, <2>4, <2>5, <2>6, <2>7
<1>2. ASSUME UNCHANGED <<handlerVars, txnVars, checkVars, connVars, slot,
                         serverVars>>,
             link' \in {"up", "lost", "down", "monitoring"},
             wire' \in Seq(Messages), WireMatchesDecision'
      PROVE  IInv'
  <2> USE <1>2 DEF handlerVars, txnVars, checkVars, connVars, serverVars
  <2>1. TypeOK'
    BY DEF TypeOK
  <2>2. NoLostWakeup' /\ ListedOnce' /\ SignalIsCurrent'
    BY DEF NoLostWakeup, ListedOnce, SignalIsCurrent, Listed
  <2>3. NewIsFresh' /\ PhaseStatus' /\ StatusMatchesDecision'
    BY DEF NewIsFresh, PhaseStatus, StatusMatchesDecision
  <2>4. QED BY <2>1, <2>2, <2>3
<1>3. CASE OtherWriter
  <2>1. Update \in Messages /\ wire \in Seq(Messages) /\ decision' = decision
    BY <1>3 DEF OtherWriter, serverVars, Messages, TypeOK
  <2>2. /\ wire' \in Seq(Messages)
        /\ Len(wire) \in Nat
        /\ Len(wire') = Len(wire) + 1
        /\ \A i \in 1 .. Len(wire) : wire'[i] = wire[i]
        /\ wire'[Len(wire) + 1] = Update
    BY <1>3, <2>1, AppendProperties, LenProperties DEF OtherWriter
  <2>3. WireMatchesDecision'
    <3>1. ASSUME NEW i \in 1 .. Len(wire'), wire'[i].txn # NoTxn
          PROVE  i \in 1 .. Len(wire) /\ wire'[i] = wire[i]
      BY <3>1, <2>2 DEF Update
    <3>2. QED BY <3>1, <2>1 DEF WireMatchesDecision
  <2>4. QED BY <1>2, <1>3, <2>2, <2>3 DEF OtherWriter, TypeOK
<1>4. CASE LoseConnection
  <2>1. wire' = wire \/ wire' = <<>>
    BY <1>4 DEF LoseConnection
  <2>2. wire' \in Seq(Messages) /\ WireMatchesDecision'
    BY <1>4, <2>1, EmptySeq
    DEF LoseConnection, serverVars, WireMatchesDecision, TypeOK
  <2>3. QED BY <1>2, <1>4, <2>2 DEF LoseConnection
<1>5. QED BY <1>1, <1>3, <1>4

LEMMA NextKeepsIInv == IInv /\ [Next]_vars => IInv'
<1> SUFFICES ASSUME IInv, [Next]_vars PROVE IInv'
  OBVIOUS
<1>1. ASSUME NEW r \in Requests, Handler(r) PROVE IInv'
  BY <1>1, HandlerKeepsIInv
<1>2. CASE TimerFires \/ CheckNext \/ EndCheck
  BY <1>2, CheckKeepsIInv
<1>3. CASE ReadEvent \/ ErrorEvent \/ RetryTimer
  BY <1>3, IdlStepKeepsIInv
<1>4. CASE \/ \E r \in Requests : ServerExecutes(r)
           \/ OtherWriter
           \/ LoseConnection
  BY <1>4, EnvironmentKeepsIInv
<1>5. CASE UNCHANGED vars
  <2> USE <1>5 DEF vars, handlerVars, txnVars, checkVars, connVars, idlVars,
                   serverVars, IInv
  <2>1. TypeOK'
    BY DEF TypeOK
  <2>2. NoLostWakeup' /\ ListedOnce' /\ SignalIsCurrent'
    BY DEF NoLostWakeup, ListedOnce, SignalIsCurrent, Listed
  <2>3. /\ NewIsFresh' /\ PhaseStatus'
        /\ StatusMatchesDecision' /\ WireMatchesDecision'
    BY DEF NewIsFresh, PhaseStatus, StatusMatchesDecision, WireMatchesDecision
  <2>4. QED BY <2>1, <2>2, <2>3
<1>6. QED BY <1>1, <1>2, <1>3, <1>4, <1>5 DEF Next

\* IInv holds in every reachable state: type correctness, the list and the
\* events in step with the suspended handlers, statuses in step with OVSDB.
THEOREM Invariance == Spec => []IInv
  BY InitIInv, NextKeepsIInv, PTL DEF Spec

----------------------------------------------------------------------------
(* The safety properties.                                                   *)

\* Every variable of the manager model keeps its type, for any constants.
THEOREM TypeCorrectness == Spec => []TypeOK
<1>1. IInv => TypeOK
  BY DEF IInv
<1>2. QED BY <1>1, Invariance, PTL

\* No handler suspended at "yield self.txn.event.wait()" is forgotten: it is
\* in txn_list or its event is set, and is in the list only while it waits.
THEOREM WakeupsAreKept == Spec => []NoLostWakeup
<1>1. IInv => NoLostWakeup
  BY DEF IInv
<1>2. QED BY <1>1, Invariance, PTL

\* pop(index) never leaves a second copy of a transaction behind.
THEOREM ListHasNoDuplicates == Spec => []ListedOnce
<1>1. IInv => ListedOnce
  BY DEF IInv
<1>2. QED BY <1>1, Invariance, PTL

\* A status read after the yield is final and not stale.
THEOREM SignalledStatusIsCurrent == Spec => []SignalIsCurrent
<1>1. IInv => SignalIsCurrent
  BY DEF IInv
<1>2. QED BY <1>1, Invariance, PTL

\* Success is answered only for what OVSDB applied, a definite failure only
\* for what it has not applied and will not.
THEOREM AnswersAreTrue == Spec => []AnswerMatchesDatabase
<1>1. IInv => AnswerMatchesDatabase
  BY DEF IInv, PhaseStatus, StatusMatchesDecision, AnswerMatchesDatabase
<1>2. QED BY <1>1, Invariance, PTL

----------------------------------------------------------------------------
(* The transaction timer.                                                   *)

\* During a pass in which nothing has been signalled yet, every transaction
\* visited so far was INCOMPLETE; between passes the timer runs.
PollInv ==
  /\ PolledUnlessSignalled
  /\ scan > 1 => txnIncomplete \/ \E r \in Requests : event[r]

\* Without a completed transaction no pass leaves txn_list without its timer.
THEOREM ListIsPolled == Spec => []PolledUnlessSignalled
<1> USE DEF PollInv, PolledUnlessSignalled, LoopIdle
<1>1. Init => PollInv
  BY DEF Init
<1>2. IInv /\ PollInv /\ [Next]_vars => PollInv'
  <2> SUFFICES ASSUME IInv, PollInv, [Next]_vars PROVE PollInv'
    OBVIOUS
  <2> USE DEF checkVars, txnVars
  <2>0. scan \in Nat /\ Len(txnList) \in Nat /\ event \in [Requests -> BOOLEAN]
    BY LenProperties DEF IInv, TypeOK
  <2>1. ASSUME NEW r \in Requests, Handler(r) PROVE PollInv'
    <3>1. CASE CommitSent(r)
      BY <3>1 DEF CommitSent, MonitorTransaction
    <3>2. CASE ~CommitSent(r)
      <4>1. UNCHANGED <<checkVars, event>>
        BY <2>1, <3>2
        DEF Handler, Unavailable, NotMade, Rejected, ValueErrorRaised, CommitUnchanged,
            CommitTryAgain, CommitEnded, Resume
      <4>2. QED BY <4>1
    <3>3. QED BY <3>1, <3>2
  <2>2. CASE TimerFires
    BY <2>2 DEF TimerFires, BeginCheck
  <2>3. CASE CheckNext
    <3> DEFINE tx == txnList[scan]
    <3>1. tx \in Requests
      BY <2>3, ElementOfSeq DEF CheckNext, IInv, TypeOK
    <3>2. scan' = scan + 1 /\ scan' # 0
      BY <2>3, <2>0 DEF CheckNext
    <3> status'[tx] = txnStatus[tx]
      BY <2>3, <3>1 DEF CheckNext, CommitAgain, IInv, TypeOK
    <3>3. CASE Final(txnStatus[tx])
      <4>1. event'[tx]
        BY <2>3, <2>0, <3>1, <3>3 DEF CheckNext, Signal
      <4>2. QED BY <3>1, <3>2, <4>1
    <3>4. CASE ~Final(txnStatus[tx])
      <4>1. txnIncomplete'
        BY <2>3, <3>4 DEF CheckNext
      <4>2. QED BY <3>2, <4>1
    <3>5. QED BY <3>3, <3>4
  <2>4. CASE EndCheck
    <3>1. scan' = 0 /\ timer' = txnIncomplete /\ UNCHANGED <<txnList, event>>
      BY <2>4 DEF EndCheck
    <3>2. ASSUME txnList # <<>> PROVE scan > 1
      <4>1. Len(txnList) # 0
        BY <3>2, EmptySeq DEF IInv, TypeOK
      <4>2. QED BY <4>1, <2>0, <2>4 DEF EndCheck
    <3>3. QED BY <3>1, <3>2
  <2>5. CASE ReadEvent
    BY <2>5 DEF ReadEvent, BeginCheck
  <2>6. CASE \/ ErrorEvent \/ RetryTimer \/ OtherWriter \/ LoseConnection
             \/ \E r \in Requests : ServerExecutes(r)
             \/ UNCHANGED vars
    <3>1. UNCHANGED <<checkVars, event>>
      BY <2>6
      DEF ErrorEvent, RetryTimer, OtherWriter, LoseConnection, ServerExecutes,
          ServerApplies, ServerRejects, vars
    <3>2. QED BY <3>1
  <2>7. QED BY <2>1, <2>2, <2>3, <2>4, <2>5, <2>6 DEF Next
<1>3. PollInv => PolledUnlessSignalled
  OBVIOUS
<1>4. QED BY <1>1, <1>2, <1>3, Invariance, PTL DEF Spec

----------------------------------------------------------------------------
(* The connection.                                                          *)

\* Causes of an IDL that nothing will run again.
Deaf == LeakedTxn \/ TakenForNew \/ FoundByCommit

\* The pieces of the connection move together, whatever is leaked or lost.
ConnInv ==
  /\ slot # NoTxn => slot \in BadRequests /\ answer[slot] = "bad_request"
  /\ ~(fd /\ retry # "none")
  /\ fd => link \in {"up", "lost"}
  /\ link = "up" => fd
  /\ link = "lost" /\ "unread" \notin LossModes => wire = <<>>
  /\ ~fd /\ retry = "none" => Deaf

\* An answer is final.
LEMMA AnswersStay ==
  ASSUME IInv, NEW r \in Requests, Handler(r), NEW q \in Requests, answer[q] # "none"
  PROVE  answer'[q] = answer[q]
<1>1. pc[q] = "answered"
  BY DEF IInv, TypeOK, NewIsFresh, PhaseStatus
<1>2. pc[r] # "answered"
  BY DEF Handler, Unavailable, NotMade, Rejected, ValueErrorRaised, CommitUnchanged, CommitTryAgain,
         CommitEnded, CommitSent, Resume
<1>3. answer' = answer \/ \E a : answer' = [answer EXCEPT ![r] = a]
  BY DEF Handler, Unavailable, NotMade, Rejected, ValueErrorRaised, CommitUnchanged, CommitTryAgain,
         CommitEnded, CommitSent, Resume, TransactionComplete, Answer
<1>4. QED BY <1>1, <1>2, <1>3 DEF IInv, TypeOK

\* Once deaf, the daemon stays so for the same reason.
LEMMA DeafStays ==
  ASSUME IInv, NEW r \in Requests, Handler(r), Deaf, UNCHANGED <<link, connected>>
  PROVE  Deaf'
<1>1. CASE LeakedTxn
  <2>1. PICK q \in BadRequests : answer[q] = "bad_request"
    BY <1>1 DEF LeakedTxn
  <2>2. answer'[q] = "bad_request"
    BY <2>1, AnswersStay, ManagerAssumption
  <2>3. QED BY <2>1, <2>2 DEF Deaf, LeakedTxn
<1>2. CASE TakenForNew
  BY <1>2 DEF Deaf, TakenForNew
<1>3. CASE FoundByCommit
  <2>1. PICK q \in Requests : answer[q] = "try_again"
    BY <1>3 DEF FoundByCommit
  <2>2. answer'[q] = "try_again"
    BY <2>1, AnswersStay
  <2>3. QED BY <1>3, <2>2 DEF Deaf, FoundByCommit
<1>4. QED BY <1>1, <1>2, <1>3 DEF Deaf

\* What the handlers do to the connection: a commit that finds it lost takes the
\* descriptor away, and a ValueError leaves its transaction in the IDL.
LEMMA HandlerKeepsConn ==
  ASSUME IInv, ConnInv, NEW r \in Requests, Handler(r)
  PROVE  ConnInv'
<1> USE DEF ConnInv
<1>1. UNCHANGED <<link, wire, connected, retry>>
  BY DEF Handler, Unavailable, NotMade, Rejected, ValueErrorRaised, CommitUnchanged, CommitTryAgain,
         CommitEnded, CommitSent, Resume, idlVars, connVars
<1>2. slot' # NoTxn => slot' \in BadRequests /\ answer'[slot'] = "bad_request"
  <2>1. CASE ValueErrorRaised(r)
    BY <2>1 DEF ValueErrorRaised, Answer, IInv, TypeOK
  <2>2. CASE ~ValueErrorRaised(r)
    <3>1. slot' \in {NoTxn, slot}
      BY <2>2 DEF Handler, Unavailable, NotMade, Rejected, CommitUnchanged, CommitTryAgain,
                  CommitEnded, CommitSent, Resume, idlVars
    <3>2. QED BY <3>1, AnswersStay, ManagerAssumption
  <2>3. QED BY <2>1, <2>2
<1>3. CASE fd' = fd
  BY <1>1, <1>2, <1>3, DeafStays
<1>4. CASE fd' # fd
  <2>1. /\ CommitTryAgain(r) /\ link = "lost" /\ "send" \in LossModes /\ fd' = FALSE
        /\ connected
    BY <1>4 DEF Handler, Unavailable, NotMade, Rejected, ValueErrorRaised, CommitUnchanged,
                CommitTryAgain, CommitEnded, CommitSent, Resume, connVars
  <2>2. answer'[r] = "try_again"
    BY <2>1 DEF CommitTryAgain, CommitEnded, Answer, IInv, TypeOK
  <2>3. Deaf'
    BY <1>1, <2>1, <2>2 DEF Deaf, FoundByCommit
  <2>4. QED BY <1>1, <1>2, <2>1, <2>3
<1>5. QED BY <1>3, <1>4

\* What idl_init and idl_reconnect do to it.
LEMMA RunKeepsConn ==
  ASSUME IInv, ConnInv, ErrorEvent \/ RetryTimer
  PROVE  ConnInv'
<1> USE DEF ConnInv
<1>1. PICK which \in {"init", "reconnect"} :
        IdlInitOrReconnect(which) /\ slot' = slot /\ answer' = answer
  BY DEF ErrorEvent, RetryTimer, IInv, TypeOK, handlerVars
<1>2. link # "up"
  BY DEF ErrorEvent, RetryTimer
<1>3. CASE slot # NoTxn /\ fd' = FALSE /\ UNCHANGED <<connected, txnStatus, link, wire>>
  <2>1. LeakedTxn'
    BY <1>1, <1>3 DEF LeakedTxn
  <2>2. QED BY <1>1, <1>2, <1>3, <2>1 DEF Deaf
<1>4. CASE UNCHANGED <<connected, txnStatus, link, wire>> /\ retry' = which /\ fd' = FALSE
  BY <1>1, <1>2, <1>4
<1>5. ASSUME NEW n \in 0 .. Len(wire), NEW seqnoChanged \in BOOLEAN,
             SessionRun(n, seqnoChanged),
             IF seqnoChanged THEN EstablishConnection ELSE retry' = which /\ fd' = FALSE
      PROVE  ConnInv'
  <2>1. CASE link = "lost"
    <3>1. /\ link' \in {"lost", "down"}
          /\ wire' = IF link' = "down" THEN <<>> ELSE DropRead(n)
          /\ seqnoChanged = SeqnoChanged(n)
      BY <1>5, <2>1 DEF SessionRun
    <3>2. ASSUME "unread" \notin LossModes
          PROVE  wire' = <<>> /\ ~seqnoChanged
      <4>1. wire = <<>> /\ n = 0
        BY <1>5, <2>1, <3>2, EmptySeq
      <4>2. QED BY <3>1, <4>1 DEF SeqnoChanged, DropRead
    <3>3. CASE ~seqnoChanged
      BY <1>1, <1>5, <3>1, <3>2, <3>3
    <3>4. CASE seqnoChanged
      <4>1. connected' /\ retry' = "none" /\ (fd' <=> link' # "down") /\ "unread" \in LossModes
        BY <1>5, <3>2, <3>4 DEF EstablishConnection
      <4>2. link' = "down" => Deaf'
        BY <4>1 DEF Deaf, TakenForNew
      <4>3. QED BY <1>1, <3>1, <4>1, <4>2
    <3>5. QED BY <3>3, <3>4
  <2>2. CASE link = "down"
    BY <1>1, <1>5, <2>2 DEF SessionRun
  <2>3. CASE link = "monitoring"
    BY <1>1, <1>5, <2>3 DEF SessionRun, EstablishConnection
  <2>4. QED BY <1>2, <2>1, <2>2, <2>3 DEF IInv, TypeOK
<1>6. QED BY <1>1, <1>3, <1>4, <1>5 DEF IdlInitOrReconnect

\* The IDL is heard through exactly one of the descriptor and the retry timer
\* while the session is up, and the daemon goes deaf to OVSDB only in the three
\* ways named, whatever requests leak and however the connection is lost.
THEOREM ConnectionIsHeard == Spec => []HeardOnce
<1>1. Init => ConnInv
  BY DEF Init, ConnInv
<1>2. IInv /\ ConnInv /\ [Next]_vars => ConnInv'
  <2> SUFFICES ASSUME IInv, ConnInv, [Next]_vars PROVE ConnInv'
    OBVIOUS
  <2>1. ASSUME NEW r \in Requests, Handler(r) PROVE ConnInv'
    BY <2>1, HandlerKeepsConn
  <2>2. CASE TimerFires \/ CheckNext \/ EndCheck \/ UNCHANGED vars
    <3>1. UNCHANGED <<handlerVars, connVars, idlVars>>
      BY <2>2 DEF TimerFires, CheckNext, EndCheck, vars
    <3>2. QED BY <3>1 DEF handlerVars, connVars, idlVars, ConnInv, Deaf, LeakedTxn,
                          TakenForNew, FoundByCommit
  <2>3. CASE ReadEvent
    <3>1. UNCHANGED <<answer, slot, link, connected, fd, retry>> /\ link = "up"
      BY <2>3 DEF ReadEvent, connVars, handlerVars
    <3>2. QED BY <3>1 DEF ConnInv, Deaf, LeakedTxn, TakenForNew, FoundByCommit
  <2>4. CASE ErrorEvent \/ RetryTimer
    BY <2>4, RunKeepsConn
  <2>5. CASE \/ \E r \in Requests : ServerExecutes(r)
             \/ OtherWriter
    <3>1. UNCHANGED <<answer, slot, link, connected, fd, retry>>
      BY <2>5
      DEF ServerExecutes, ServerApplies, ServerRejects, OtherWriter, connVars, handlerVars
    <3>2. link \notin {"up", "monitoring"} => UNCHANGED wire
      BY <2>5
      DEF ServerExecutes, ServerApplies, ServerRejects, Deliver, OtherWriter
    <3>3. QED BY <3>1, <3>2 DEF ConnInv, Deaf, LeakedTxn, TakenForNew, FoundByCommit
  <2>6. CASE LoseConnection
    <3>1. /\ link \in {"up", "monitoring"} /\ link' = "lost"
          /\ "unread" \notin LossModes => wire' = <<>>
          /\ UNCHANGED <<answer, slot, connected, fd, retry>>
      BY <2>6 DEF LoseConnection, connVars, handlerVars
    <3>2. QED BY <3>1 DEF ConnInv, Deaf, LeakedTxn, TakenForNew, FoundByCommit
  <2>7. QED BY <2>1, <2>2, <2>3, <2>4, <2>5, <2>6 DEF Next
<1>3. ConnInv => HeardOnce
  BY DEF ConnInv, HeardOnce, Deaf
<1>4. QED BY <1>1, <1>2, <1>3, Invariance, PTL DEF Spec

----------------------------------------------------------------------------
(* Refinement.                                                              *)

\* What each callback of the daemon is in terms of TxnService.
LEMMA StepRefines ==
  IInv /\ [Next]_vars => [Service!Next]_Service!vars
<1> SUFFICES ASSUME IInv, [Next]_vars PROVE [Service!Next]_Service!vars
  OBVIOUS
<1> USE DEF Service!vars
<1>1. ASSUME NEW r \in Requests, Handler(r) PROVE Service!Next
  <2>1. CASE Unavailable(r) \/ NotMade(r) \/ Rejected(r) \/ ValueErrorRaised(r)
             \/ CommitUnchanged(r) \/ CommitTryAgain(r)
    <3>1. PICK a \in Service!Refusals : Answer(r, a)
      BY <2>1
      DEF Unavailable, NotMade, Rejected, ValueErrorRaised, CommitUnchanged,
          CommitTryAgain, CommitEnded, Service!Refusals
    <3>2. pc[r] = "new" /\ UNCHANGED <<sent, decision>>
      BY <2>1
      DEF Unavailable, NotMade, Rejected, ValueErrorRaised, CommitUnchanged,
          CommitTryAgain, CommitEnded, serverVars
    <3>3. Service!Refuse(r, a)
      BY <3>1, <3>2 DEF Answer, Service!Refuse, Service!Answer
    <3>4. QED BY <3>3 DEF Service!Next
  <2>2. CASE CommitSent(r)
    <3>1. Service!Submit(r)
      BY <2>2 DEF CommitSent, Service!Submit
    <3>2. QED BY <3>1 DEF Service!Next
  <2>3. CASE Resume(r)
    <3>1. status[r] = txnStatus[r] /\ Final(status[r])
      BY <2>3 DEF Resume, IInv, SignalIsCurrent
    <3>2. status[r] \in {"success", "error", "try_again"}
      BY <2>3, <3>1 DEF Resume, Final, IInv, PhaseStatus
    <3>3. /\ status[r] = "success" => decision[r] = "applied"
          /\ status[r] = "error" => decision[r] = "rejected"
      BY <3>1 DEF IInv, StatusMatchesDecision
    <3>4. Service!Answer(r, status[r]) /\ pc[r] = "waiting"
      BY <2>3
      DEF Resume, TransactionComplete, Answer, Service!Answer, serverVars
    <3>5. Service!Report(r, status[r])
      BY <3>2, <3>3, <3>4 DEF Service!Report
    <3>6. QED BY <3>2, <3>5 DEF Service!Next
  <2>4. QED BY <1>1, <2>1, <2>2, <2>3 DEF Handler
<1>2. ASSUME NEW r \in Requests, ServerExecutes(r) PROVE Service!Next
  <2>1. r \in sent /\ sent' = sent \ {r} /\ UNCHANGED <<pc, answer>>
    BY <1>2 DEF ServerExecutes, ServerApplies, ServerRejects, handlerVars
  <2>2. PICK d \in {"applied", "rejected"} :
          decision' = [decision EXCEPT ![r] = d]
    BY <1>2 DEF ServerExecutes, ServerApplies, ServerRejects
  <2>3. decision[r] = "undecided"
    BY <2>1 DEF IInv, StatusMatchesDecision
  <2>4. /\ txnStatus[r] \notin {"success", "error"}
        /\ txnStatus[r] \notin {"none", "uncommitted", "aborted", "unchanged"}
    BY <2>1, <2>3 DEF IInv, StatusMatchesDecision
  <2>5. pc[r] # "new"
    BY <2>4 DEF IInv, NewIsFresh
  <2>6. pc[r] = "waiting" \/ answer[r] = "try_again"
    <3>1. CASE pc[r] = "waiting"
      BY <3>1
    <3>2. CASE pc[r] = "answered"
      <4>1. answer[r] \in Answers /\ answer[r] # "none"
        BY <3>2 DEF IInv, TypeOK, PhaseStatus
      <4>2. answer[r] \notin {"success", "error", "unavailable", "invalid",
                              "bad_request", "unchanged"}
        BY <2>4 DEF IInv, PhaseStatus
      <4>3. QED BY <4>1, <4>2 DEF Answers
    <3>3. QED BY <2>5, <3>1, <3>2 DEF IInv, TypeOK
  <2>7. Service!Decide(r, d)
    BY <2>1, <2>2, <2>3, <2>6 DEF Service!Decide
  <2>8. QED BY <2>7 DEF Service!Next
<1>3. CASE \/ TimerFires \/ CheckNext \/ EndCheck \/ ReadEvent \/ ErrorEvent
           \/ RetryTimer \/ OtherWriter \/ LoseConnection \/ UNCHANGED vars
  <2>1. UNCHANGED <<pc, answer, sent, decision>>
    BY <1>3
    DEF TimerFires, CheckNext, EndCheck, ReadEvent, ErrorEvent, RetryTimer,
        OtherWriter, LoseConnection, vars, handlerVars, serverVars
  <2>2. QED BY <2>1
<1>4. QED BY <1>1, <1>2, <1>3 DEF Next

\* The manager and the handlers of the write methods implement TxnService.
THEOREM Refinement == Spec => ImplementsTxnService
<1>1. Init => Service!Init
  BY DEF Init, Service!Init
<1>2. QED BY <1>1, StepRefines, Invariance, PTL
          DEF Spec, ImplementsTxnService, Service!Spec
=============================================================================
