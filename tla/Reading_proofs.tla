--------------------------- MODULE Reading_proofs ---------------------------
(* What a client is told of its request, for every handler and every method;  *)
(* what a GET answers while rows come and go under it, and that it is a GET   *)
(* of RequestLifecycle, for any rows, any number of changes.                  *)
EXTENDS Reading, FunctionTheorems, FiniteSetTheorems, SequenceTheorems, TLAPS

----------------------------------------------------------------------------
(* RequestLifecycle: what each stage has left of the request.                 *)

Preparing == pc \in Checks \cup {"run"}
PrepareCodes == Checks \cup {"already"}

\* While prepare() goes on nothing has run, and there is a status just when
\* a check has failed.
PrepareInv ==
  Preparing => /\ ~ran
               /\ txn = "none"
               /\ refusals \in Seq(PrepareCodes)
               /\ sent = 0 <=> refusals = <<>>

\* A commit is under way only for a request that nothing has refused.
CommitInv ==
  pc \in {"waiting", "complete"} =>
    /\ ran
    /\ sent = 0
    /\ refusals = <<>>
    /\ handler = "ovsdb"
    /\ method \in Writes

\* The end: the status tells what is known of the write, but for a Location that
\* is refused.
DoneInv ==
  pc = "done" => /\ sent # 0
                 /\ ran => refusals \in {<<>>, <<"run">>, <<"location">>}
                 /\ method \in Writes => (Good(sent) <=> Effect /\ refusals # <<"location">>)

FirstInv == refusals # <<>> => sent \in StatusOf(refusals[1])

\* The audit log has one entry for a write that is answered.
AuditInv == audit = IF sent # 0 /\ method \in Writes THEN <<Good(sent)>> ELSE <<>>

IInv == TypeOK /\ PrepareInv /\ CommitInv /\ DoneInv /\ FirstInv /\ AuditInv

----------------------------------------------------------------------------
(* What is appended to a sequence leaves its first element.                   *)

\* The first of the failures is the first to be noted.
LEMMA FirstOfAppend ==
  ASSUME NEW S, NEW s \in Seq(S), NEW e \in S
  PROVE  /\ Append(s, e) \in Seq(S)
         /\ Append(s, e) # <<>>
         /\ Append(s, e)[1] = IF s = <<>> THEN e ELSE s[1]
         /\ s = <<>> => Append(s, e) = <<e>>
<1>1. /\ Append(s, e) \in Seq(S)
      /\ Append(s, e) # <<>>
  BY AppendProperties
<1>2. CASE s = <<>>
  <2>1. Append(s, e) = <<e>>
    BY <1>2
  <2>2. QED
    BY <1>1, <1>2, <2>1
<1>3. CASE s # <<>>
  <2>1. Len(s) \in Nat /\ Len(s) # 0
    BY <1>3, EmptySeq, LenProperties
  <2>2. 1 \in 1 .. Len(s)
    BY <2>1
  <2>3. QED
    BY <1>1, <1>3, <2>2, AppendProperties
<1>4. QED
  BY <1>2, <1>3

\* What the audit log holds of one request.
LEMMA OneEntry ==
  ASSUME NEW b \in BOOLEAN
  PROVE  <<b>> \in Seq(BOOLEAN)
  OBVIOUS

\* The statuses of each check.
LEMMA StatusValues ==
  /\ StatusOf("redirect") = {301}
  /\ StatusOf("authenticated") = {401}
  /\ StatusOf("permission") = {403}
  /\ StatusOf("arguments") = {400}
  /\ StatusOf("filters") = {400}
  /\ StatusOf("connected") = {503}
  /\ StatusOf("path") = {404, 500}
  /\ StatusOf("precondition") = {412, 500}
  /\ StatusOf("length") = {400, 500}
  /\ StatusOf("already") = {200}
  /\ StatusOf("run") = 400 .. 599
  /\ StatusOf("location") = 400 .. 599
<1>1. StatusOf("redirect") = {301}
  BY DEF StatusOf
<1>2. StatusOf("authenticated") = {401}
  BY DEF StatusOf
<1>3. StatusOf("permission") = {403}
  BY DEF StatusOf
<1>4. StatusOf("arguments") = {400}
  BY DEF StatusOf
<1>5. StatusOf("filters") = {400}
  BY DEF StatusOf
<1>6. StatusOf("connected") = {503}
  BY DEF StatusOf
<1>7. StatusOf("path") = {404, 500}
  BY DEF StatusOf
<1>8. StatusOf("precondition") = {412, 500}
  BY DEF StatusOf
<1>9. StatusOf("length") = {400, 500}
  BY DEF StatusOf
<1>10. StatusOf("already") = {200}
  BY DEF StatusOf
<1>11. StatusOf("run") = 400 .. 599
  BY DEF StatusOf
<1>12. StatusOf("location") = 400 .. 599
  BY DEF StatusOf
<1>13. QED
  BY <1>1, <1>2, <1>3, <1>4, <1>5, <1>6, <1>7, <1>8, <1>9, <1>10, <1>11, <1>12

\* Every check answers with statuses.
LEMMA StatusIsACode ==
  ASSUME NEW check \in Checks \cup {"already", "run", "location"}
  PROVE  StatusOf(check) \subseteq 200 .. 599
<1>1. CASE check = "redirect"
  BY <1>1 DEF StatusOf
<1>2. CASE check = "authenticated"
  BY <1>2 DEF StatusOf
<1>3. CASE check = "permission"
  BY <1>3 DEF StatusOf
<1>4. CASE check = "arguments"
  BY <1>4 DEF StatusOf
<1>5. CASE check = "filters"
  BY <1>5 DEF StatusOf
<1>6. CASE check = "connected"
  BY <1>6 DEF StatusOf
<1>7. CASE check = "path"
  BY <1>7 DEF StatusOf
<1>8. CASE check = "precondition"
  BY <1>8 DEF StatusOf
<1>9. CASE check = "length"
  BY <1>9 DEF StatusOf
<1>10. CASE check = "already"
  BY <1>10 DEF StatusOf
<1>11. CASE check \in {"run", "location"}
  BY <1>11 DEF StatusOf
<1>12. QED
  BY <1>1, <1>2, <1>3, <1>4, <1>5, <1>6, <1>7, <1>8, <1>9, <1>10, <1>11 DEF Checks

\* A request starts with nothing refused, run or told.
LEMMA InitIInv == Init => IInv
<1> SUFFICES ASSUME Init PROVE IInv
  OBVIOUS
<1>1. TypeOK
  <2>1. refusals \in Seq(Checks \cup {"already", "run", "location"}) /\ audit \in Seq(BOOLEAN)
    BY DEF Init
  <2>2. QED
    BY <2>1 DEF Init, TypeOK, Stages, Checks
<1>2. QED
  BY <1>1 DEF Init, IInv, PrepareInv, CommitInv, DoneInv, FirstInv, AuditInv, Checks

\* What every check of prepare() does: it passes, or is noted and answers, if
\* nothing has answered before, with one of its statuses.
LEMMA CheckKeepsIInv ==
  ASSUME IInv, pc \in Checks,
         UNCHANGED <<handler, method, ran, txn>>,
         NEW next \in Checks \cup {"run"},
         \/ Pass(next)
         \/ \E check \in PrepareCodes : \E code \in StatusOf(check) :
              Refused(check) /\ Finish(code, next)
  PROVE  IInv'
<1> USE DEF IInv
<1>1. /\ pc' \in Checks \cup {"run"}
      /\ pc' \notin {"waiting", "complete", "done"}
  BY DEF Pass, Finish, Checks
<1>2. Preparing
  BY DEF Preparing
<1>3. /\ ~ran /\ txn = "none" /\ refusals \in Seq(PrepareCodes)
      /\ sent = 0 <=> refusals = <<>>
  BY <1>2 DEF PrepareInv
<1>4. CASE Pass(next)
  <2>1. TypeOK'
    BY <1>1, <1>4 DEF TypeOK, Pass, Stages
  <2>2. PrepareInv' /\ CommitInv' /\ DoneInv' /\ FirstInv' /\ AuditInv'
    BY <1>1, <1>3, <1>4 DEF Pass, PrepareInv, CommitInv, DoneInv, FirstInv, AuditInv, Good
  <2>3. QED
    BY <2>1, <2>2
<1>5. ASSUME NEW check \in PrepareCodes, NEW code \in StatusOf(check),
             Refused(check), Finish(code, next)
      PROVE  IInv'
  <2>1. /\ refusals' \in Seq(PrepareCodes)
        /\ refusals' # <<>>
        /\ refusals'[1] = IF refusals = <<>> THEN check ELSE refusals[1]
    BY <1>3, <1>5, FirstOfAppend DEF Refused
  <2>2. code \in 200 .. 599
    BY StatusIsACode DEF PrepareCodes
  <2>3. refusals' \in Seq(Checks \cup {"already", "run", "location"})
    <3>1. PrepareCodes \subseteq Checks \cup {"already", "run", "location"}
      BY DEF PrepareCodes
    <3>2. QED
      BY <2>1, <3>1, SeqMonotonic
  <2>4. sent' = (IF sent = 0 THEN code ELSE sent) /\ sent' # 0
    BY <2>2, <1>5 DEF Finish
  <2>5. AuditInv'
    BY <1>5, <2>2, <2>4 DEF AuditInv, Finish, OnFinish
  <2>6. TypeOK'
    <3>1. audit' \in Seq(BOOLEAN)
      <4>1. Good(sent') \in BOOLEAN
        BY DEF Good
      <4>2. <<Good(sent')>> \in Seq(BOOLEAN)
        BY <4>1, OneEntry, Zenon
      <4>3. audit' \in {<<>>, <<Good(sent')>>}
        BY <2>5 DEF AuditInv
      <4>4. <<>> \in Seq(BOOLEAN)
        OBVIOUS
      <4>5. QED
        BY <4>2, <4>3, <4>4, Zenon
    <3>2. QED
      BY <1>1, <2>2, <2>3, <2>4, <3>1 DEF TypeOK, Stages
  <2>7. FirstInv'
    BY <1>3, <2>1, <2>4 DEF FirstInv
  <2>8. PrepareInv' /\ CommitInv' /\ DoneInv'
    BY <1>1, <1>3, <2>1, <2>4 DEF PrepareInv, CommitInv, DoneInv
  <2>9. QED
    BY <2>5, <2>6, <2>7, <2>8
<1>6. QED
  BY <1>4, <1>5

\* Nothing that prepare() refuses has a transaction to abort.
LEMMA NothingToAbort ==
  ASSUME IInv, pc \in Checks
  PROVE  AbortTxn => txn' = txn
BY DEF IInv, PrepareInv, Preparing, AbortTxn

\* prepare(), check by check.
LEMMA PrepareKeepsIInv ==
  ASSUME IInv,
         \/ Redirect \/ Authenticated \/ Permission \/ Arguments \/ Connected
         \/ Path \/ Filters \/ Precondition \/ Length
  PROVE  IInv'
<1>a. ASSUME pc \in Checks, UNCHANGED <<handler, method, ran>>,
             NEW next \in Checks \cup {"run"}, Pass(next)
      PROVE  IInv'
  BY <1>a, CheckKeepsIInv DEF Pass
<1>b. ASSUME pc \in Checks, UNCHANGED <<handler, method, ran>>,
             NEW next \in Checks \cup {"run"}, NEW check \in PrepareCodes,
             NEW code \in StatusOf(check), Refused(check),
             Fail(code, next) \/ (Finish(code, next) /\ UNCHANGED txn)
      PROVE  IInv'
  BY <1>b, CheckKeepsIInv, NothingToAbort DEF Fail
<1>s. /\ "authenticated" \in PrepareCodes /\ 401 \in StatusOf("authenticated")
      /\ "permission" \in PrepareCodes /\ 403 \in StatusOf("permission")
      /\ "arguments" \in PrepareCodes /\ 400 \in StatusOf("arguments")
      /\ "path" \in PrepareCodes /\ 404 \in StatusOf("path") /\ 500 \in StatusOf("path")
      /\ "precondition" \in PrepareCodes
      /\ 412 \in StatusOf("precondition") /\ 500 \in StatusOf("precondition")
      /\ "already" \in PrepareCodes /\ 200 \in StatusOf("already")
  <2>1. {"authenticated", "permission", "arguments", "path", "precondition", "already"} \subseteq PrepareCodes
    BY DEF PrepareCodes, Checks
  <2>2. QED
    BY <2>1, StatusValues
<1>c. AfterBase \in Checks \cup {"run"}
  BY DEF AfterBase, Checks
<1>1. CASE Redirect
  BY <1>1, <1>a, <1>b, StatusValues DEF Redirect, At, PrepareCodes, Checks
<1>2. CASE Authenticated
  <2>1. CASE Pass(IF handler = "logout" THEN "run" ELSE "permission")
    BY <1>2, <1>a, <1>c, <2>1 DEF Authenticated, At, Checks
  <2>2. CASE Refused("authenticated") /\ LeaveBase(401)
    BY <1>2, <1>b, <1>c, <2>2, <1>s DEF Authenticated, At, LeaveBase, Checks
  <2>3. QED
    BY <1>2, <2>1, <2>2 DEF Authenticated
<1>3. CASE Permission
  <2>1. CASE Pass("arguments")
    BY <1>3, <1>a, <1>c, <2>1 DEF Permission, At, Checks
  <2>2. CASE Refused("permission") /\ LeaveBase(403)
    BY <1>3, <1>b, <1>c, <2>2, <1>s DEF Permission, At, LeaveBase, Checks
  <2>3. QED
    BY <1>3, <2>1, <2>2 DEF Permission
<1>4. CASE Arguments
  <2>1. CASE Pass(AfterBase)
    BY <1>4, <1>a, <1>c, <2>1 DEF Arguments, At, Checks
  <2>2. CASE Refused("arguments") /\ LeaveBase(400)
    BY <1>4, <1>b, <1>c, <2>2, <1>s DEF Arguments, At, LeaveBase, Checks
  <2>3. QED
    BY <1>4, <2>1, <2>2 DEF Arguments
<1>5. CASE Connected
  BY <1>5, <1>a, <1>b, StatusValues DEF Connected, At, PrepareCodes, Checks
<1>6. CASE Path
  <2>0. pc \in Checks /\ UNCHANGED <<handler, method, ran>> /\ "run" \in Checks \cup {"run"}
    BY <1>6 DEF Path, At, Checks
  <2>1. CASE Pass("filters")
    BY <1>6, <1>a, <2>1 DEF Path, At, Checks
  <2>2. CASE Refused("path") /\ Finish(404, "length") /\ UNCHANGED txn
    BY <1>6, <1>b, <2>2, <1>s DEF Path, At, Checks
  <2>3. CASE Refused("path") /\ Fail(500, "run")
    BY <1>b, <1>s, <2>0, <2>3
  <2>4. QED
    BY <1>6, <2>1, <2>2, <2>3 DEF Path
<1>7. CASE Filters
  BY <1>7, <1>a, <1>b, StatusValues DEF Filters, At, PrepareCodes, Checks
<1>8. CASE Precondition
  <2> DEFINE next == IF handler = "ovsdb" THEN "length" ELSE "run"
  <2>1. /\ next \in Checks \cup {"run"} /\ "run" \in Checks \cup {"run"}
        /\ pc \in Checks /\ UNCHANGED <<handler, method, ran>>
    BY <1>8 DEF Precondition, At, Checks
  <2> HIDE DEF next
  <2>2. CASE Pass(next)
    BY <1>a, <2>1, <2>2
  <2>3. CASE Refused("precondition") /\ Finish(412, next) /\ UNCHANGED txn
    BY <1>b, <1>s, <2>1, <2>3
  <2>4. CASE Refused("precondition") /\ Fail(500, "run")
    BY <1>b, <1>s, <2>1, <2>4
  <2>5. CASE Refused("already") /\ Finish(200, next) /\ UNCHANGED txn
    BY <1>b, <1>s, <2>1, <2>5
  <2>6. QED
    BY <1>8, <2>2, <2>3, <2>4, <2>5 DEF Precondition, next
<1>9. CASE Length
  BY <1>9, <1>a, <1>b, StatusValues DEF Length, At, PrepareCodes, Checks
<1>10. QED
  BY <1>1, <1>2, <1>3, <1>4, <1>5, <1>6, <1>7, <1>8, <1>9

----------------------------------------------------------------------------
(* The method.                                                                *)

TxnStatuses == {"none", "open", "incomplete", "success", "unchanged", "error",
                "try_again", "aborted"}

\* How a method, or transaction_complete, ends: with a success that is told as
\* one just when the write is known to be done, or with an error.
LEMMA EndKeepsIInv ==
  ASSUME IInv, pc \in {"run", "complete"}, sent = 0, ran',
         UNCHANGED <<handler, method>>, txn' \in TxnStatuses,
         NEW code \in 200 .. 599, Finish(code, "done"),
         \/ /\ refusals' = refusals /\ Good(code)
            /\ method \in Writes => txn' \in {"success", "unchanged"}
         \/ /\ refusals' = Append(refusals, "run") /\ code \in 400 .. 599
            /\ method \in Writes => txn' \notin {"success", "unchanged"}
         \/ refusals' = Append(refusals, "location") /\ code \in 400 .. 599
  PROVE  IInv'
<1>1. refusals = <<>> /\ audit = <<>>
  BY DEF IInv, PrepareInv, CommitInv, Preparing, AuditInv
<1>2. pc' = "done" /\ sent' = code /\ sent' # 0
  BY DEF Finish
<1>3. AuditInv'
  BY <1>1, <1>2 DEF Finish, OnFinish, AuditInv
<1>4. refusals' \in {<<>>, <<"run">>, <<"location">>}
  BY <1>1
<1>5. TypeOK'
  <2>1. audit' \in Seq(BOOLEAN)
    <3>1. Good(sent') \in BOOLEAN
      BY DEF Good
    <3>2. <<Good(sent')>> \in Seq(BOOLEAN)
      BY <3>1, OneEntry, Zenon
    <3>3. audit' \in {<<>>, <<Good(sent')>>}
      BY <1>3 DEF AuditInv
    <3>4. <<>> \in Seq(BOOLEAN)
      OBVIOUS
    <3>5. QED
      BY <3>2, <3>3, <3>4, Zenon
  <2>2. refusals' \in Seq(Checks \cup {"already", "run", "location"})
    <3>1. /\ <<>> \in Seq(Checks \cup {"already", "run", "location"})
          /\ <<"run">> \in Seq(Checks \cup {"already", "run", "location"})
          /\ <<"location">> \in Seq(Checks \cup {"already", "run", "location"})
      OBVIOUS
    <3>2. QED
      BY <1>4, <3>1, ZenonT(60)
  <2>3. handler' \in Handlers /\ method' \in MethodsOf(handler')
    BY DEF IInv, TypeOK
  <2>4. QED
    BY <1>2, <2>1, <2>2, <2>3 DEF TypeOK, Stages, TxnStatuses
<1>6. FirstInv'
  <2>1. CASE refusals' = refusals
    BY <1>1, <2>1 DEF FirstInv
  <2>2. CASE refusals' \in {Append(refusals, "run"), Append(refusals, "location")} /\ code \in 400 .. 599
    <3>1. refusals'[1] = "run" \/ refusals'[1] = "location"
      BY <1>1, <2>2
    <3>2. QED
      BY <1>2, <2>2, <3>1, StatusValues, ZenonT(60) DEF FirstInv
  <2>3. QED
    BY <2>1, <2>2
<1>7. DoneInv'
  <2>1. CASE /\ refusals' = refusals /\ Good(code)
             /\ method \in Writes => txn' \in {"success", "unchanged"}
    BY <1>1, <1>2, <2>1 DEF DoneInv, Effect
  <2>2. CASE /\ refusals' = Append(refusals, "run") /\ code \in 400 .. 599
             /\ method \in Writes => txn' \notin {"success", "unchanged"}
    <3>1. refusals' = <<"run">> /\ refusals'[1] = "run"
      BY <1>1, <2>2
    <3>2. ~Good(sent')
      BY <1>2, <2>2 DEF Good
    <3>3. method' \in Writes => ~Effect'
      BY <2>2, <3>1 DEF Effect
    <3>4. QED
      BY <1>2, <3>1, <3>2, <3>3 DEF DoneInv
  <2>4. CASE refusals' = Append(refusals, "location") /\ code \in 400 .. 599
    <3>1. refusals' = <<"location">>
      BY <1>1, <2>4
    <3>2. ~Good(sent')
      BY <1>2, <2>4 DEF Good
    <3>3. QED
      BY <1>2, <3>1, <3>2 DEF DoneInv
  <2>5. QED
    BY <2>1, <2>2, <2>4
<1>8. PrepareInv' /\ CommitInv'
  BY <1>2 DEF PrepareInv, Preparing, CommitInv, Checks
<1>9. QED
  BY <1>3, <1>5, <1>6, <1>7, <1>8 DEF IInv

\* The method of a request that prepare() has refused is not called: what was
\* told first is an error, or that what a PUT asks for is there already.
LEMMA SkipKeepsIInv == IInv /\ Skip => IInv'
<1> SUFFICES ASSUME IInv, Skip PROVE IInv'
  OBVIOUS
<1>1. /\ ~ran /\ txn = "none" /\ refusals \in Seq(PrepareCodes) /\ refusals # <<>>
      /\ sent # 0 /\ sent \in StatusOf(refusals[1])
      /\ pc' = "done" /\ UNCHANGED <<handler, method, ran, refusals, sent, audit, txn>>
  BY DEF IInv, PrepareInv, FirstInv, Preparing, Skip, At, Pass
<1>2. refusals[1] \in PrepareCodes
  BY <1>1, EmptySeq, LenProperties, ElementOfSeq
<1>3. Good(sent) <=> refusals[1] = "already"
  <2>1. CASE refusals[1] = "already"
    <3>1. sent = 200
      BY <1>1, <2>1, StatusValues
    <3>2. QED
      BY <2>1, <3>1 DEF Good
  <2>2. CASE refusals[1] # "already"
    <3>1. refusals[1] \in Checks
      BY <1>2, <2>2 DEF PrepareCodes
    <3>2. sent \in {301, 400, 401, 403, 404, 412, 500, 503}
      BY <1>1, <3>1, StatusValues DEF Checks
    <3>3. QED
      BY <2>2, <3>2 DEF Good
  <2>3. QED
    BY <2>1, <2>2
<1>4. DoneInv'
  BY <1>1, <1>2, <1>3 DEF DoneInv, Effect, Good, PrepareCodes, Checks
<1>5. TypeOK'
  BY <1>1 DEF IInv, TypeOK, Stages
<1>6. PrepareInv' /\ CommitInv' /\ FirstInv' /\ AuditInv'
  BY <1>1 DEF IInv, PrepareInv, CommitInv, FirstInv, AuditInv, Preparing, Checks, Good
<1>7. QED
  BY <1>4, <1>5, <1>6 DEF IInv

\* A commit leaves prepare() for good, and waits for check_transactions.
LEMMA CommitKeepsIInv == IInv /\ (Commit \/ Woken) => IInv'
<1> SUFFICES ASSUME IInv, Commit \/ Woken PROVE IInv'
  OBVIOUS
<1>1. /\ ran' /\ sent = 0 /\ refusals = <<>> /\ handler = "ovsdb" /\ method \in Writes
      /\ pc' \in {"waiting", "complete"} /\ txn' \in TxnStatuses /\ ran' \in BOOLEAN
      /\ UNCHANGED <<handler, method, refusals, sent, audit>>
  BY DEF IInv, PrepareInv, CommitInv, TypeOK, Preparing, Commit, Woken, Run, At, TxnStatuses
<1>2. TypeOK'
  BY <1>1 DEF IInv, TypeOK, Stages, TxnStatuses
<1>3. PrepareInv' /\ CommitInv' /\ DoneInv' /\ FirstInv' /\ AuditInv'
  BY <1>1 DEF IInv, PrepareInv, CommitInv, DoneInv, FirstInv, AuditInv, Preparing, Checks, Good
<1>4. QED
  BY <1>2, <1>3 DEF IInv

\* Reads, writes that fail, custom resources, logins and logouts.
LEMMA MethodKeepsIInv ==
  ASSUME IInv,
         \/ Read \/ Options \/ BadBody \/ Raise \/ Complete
         \/ CustomMethod \/ Login \/ Logout
  PROVE  IInv'
<1>a. ASSUME NEW h, Run(h)
      PROVE  /\ pc = "run" /\ sent = 0 /\ ran' /\ handler = h
             /\ UNCHANGED <<handler, method>>
             /\ txn = "none" /\ txn \in TxnStatuses
  BY <1>a DEF Run, IInv, PrepareInv, Preparing, TxnStatuses
<1>b. ASSUME pc \in {"run", "complete"}, sent = 0, ran', UNCHANGED <<handler, method>>,
             txn' \in TxnStatuses, method \in Writes => txn' \in {"success", "unchanged"},
             NEW code \in {200, 201, 204}, Finish(code, "done"), UNCHANGED refusals
      PROVE  IInv'
  <2>1. code \in 200 .. 599 /\ Good(code)
    BY DEF Good
  <2>2. QED
    BY <1>b, <2>1, EndKeepsIInv
<1>c. ASSUME pc \in {"run", "complete"}, sent = 0, ran', UNCHANGED <<handler, method>>,
             txn' \in TxnStatuses, txn' \notin {"success", "unchanged"},
             NEW code \in {400, 401, 404, 405, 411, 500}, Finish(code, "done"), Refused("run")
      PROVE  IInv'
  <2>1. code \in 200 .. 599 /\ code \in 400 .. 599
    OBVIOUS
  <2>2. QED
    BY <1>c, <2>1, EndKeepsIInv, ZenonT(60) DEF Refused
<1>d. "success" \in TxnStatuses
  BY DEF TxnStatuses
<1>1. CASE Read
  <2> SUFFICES ASSUME NEW code \in {200, 400, 404, 500}, Reply(code)
               PROVE  IInv'
    BY <1>1 DEF Read
  <2>1. /\ pc = "run" /\ sent = 0 /\ ran' /\ UNCHANGED <<handler, method>>
        /\ txn' = "none" /\ txn' \in TxnStatuses /\ method \notin Writes
    BY <1>1, <1>a DEF Read, Reply, Writes
  <2>2. CASE code = 200
    <3>1. UNCHANGED refusals /\ Finish(code, "done")
      BY <2>2 DEF Reply, Good
    <3>2. QED
      BY <1>b, <2>1, <2>2, <3>1
  <2>3. CASE code # 200
    <3>1. Refused("run") /\ Finish(code, "done")
      BY <2>3 DEF Reply, Good, Refused
    <3>2. QED
      BY <1>c, <2>1, <2>3, <3>1
  <2>4. QED
    BY <2>2, <2>3
<1>2. CASE Options
  <2>1. /\ pc = "run" /\ sent = 0 /\ ran' /\ UNCHANGED <<handler, method>>
        /\ txn' = "none" /\ txn' \in TxnStatuses /\ method \notin Writes
    BY <1>2, <1>a DEF Options, Reply, Writes
  <2>2. UNCHANGED refusals /\ Finish(200, "done")
    BY <1>2 DEF Options, Reply, Good
  <2>3. QED
    BY <1>b, <2>1, <2>2
<1>3. CASE BadBody
  <2>1. /\ pc = "run" /\ sent = 0 /\ ran' /\ UNCHANGED <<handler, method>>
        /\ txn' = "none" /\ txn' \in TxnStatuses
    BY <1>3, <1>a DEF BadBody, Reply
  <2>2. Refused("run") /\ \E code \in {400, 500} : Finish(code, "done")
    BY <1>3 DEF BadBody, Reply, Good, Refused
  <2>3. QED
    BY <1>c, <2>1, <2>2
<1>4. CASE Raise
  <2>1. /\ pc = "run" /\ sent = 0 /\ ran' /\ UNCHANGED <<handler, method>>
        /\ txn' \in {"aborted", "open"} /\ txn' \in TxnStatuses
    BY <1>4, <1>a DEF Raise, TxnStatuses
  <2>2. Refused("run") /\ \E code \in {400, 404, 405, 500} : Finish(code, "done")
    BY <1>4 DEF Raise
  <2>3. QED
    BY <1>c, <2>1, <2>2
<1>5. CASE Complete
  <2>1. /\ pc = "complete" /\ sent = 0 /\ ran' /\ UNCHANGED <<handler, method>>
        /\ txn' = txn /\ txn' \in TxnStatuses
    BY <1>5 DEF Complete, At, IInv, CommitInv, TypeOK, TxnStatuses
  <2>2. CASE txn \in {"success", "unchanged"}
    <3>1. CodeOf(txn) \in {200, 201, 204}
      BY <2>2 DEF CodeOf
    <3>2. CASE UNCHANGED refusals /\ Finish(CodeOf(txn), "done")
      BY <1>b, <2>1, <2>2, <3>1, <3>2
    <3>3. CASE Refused("location") /\ Finish(400, "done")
      <4>1. 400 \in 200 .. 599 /\ 400 \in 400 .. 599
        OBVIOUS
      <4>2. QED
        BY <2>1, <3>3, <4>1, EndKeepsIInv DEF Refused
    <3>4. QED
      BY <1>5, <2>2, <3>2, <3>3 DEF Complete, LocationRefused
  <2>3. CASE txn \notin {"success", "unchanged"}
    <3>1. ErrorOf(txn) \in {400, 500}
      BY DEF ErrorOf
    <3>2. Refused("run") /\ Finish(ErrorOf(txn), "done")
      BY <1>5, <2>3 DEF Complete
    <3>3. QED
      BY <1>c, <2>1, <2>3, <3>1, <3>2
  <2>4. QED
    BY <2>2, <2>3
<1>6. CASE CustomMethod
  <2>1. /\ pc = "run" /\ sent = 0 /\ ran' /\ UNCHANGED <<handler, method>>
        /\ txn = "none" /\ txn \in TxnStatuses
    BY <1>6, <1>a DEF CustomMethod
  <2>2. CASE txn' = "success" /\ UNCHANGED refusals /\
             \E code \in {200, 201, 204} : Finish(code, "done")
    BY <1>b, <1>d, <2>1, <2>2
  <2>3. CASE UNCHANGED txn /\ Refused("run") /\
             \E code \in {400, 404, 405, 411, 500} : Finish(code, "done")
    BY <1>c, <2>1, <2>3
  <2>4. QED
    BY <1>6, <2>2, <2>3 DEF CustomMethod
<1>7. CASE Login
  <2>1. /\ pc = "run" /\ sent = 0 /\ ran' /\ UNCHANGED <<handler, method>>
        /\ txn = "none" /\ txn \in TxnStatuses
    BY <1>7, <1>a DEF Login
  <2>2. CASE txn' = "success" /\ Finish(200, "done") /\ UNCHANGED refusals
    BY <1>b, <1>d, <2>1, <2>2
  <2>3. CASE UNCHANGED txn /\ Refused("run") /\
             \E code \in {400, 401, 500} : Finish(code, "done")
    BY <1>c, <2>1, <2>3
  <2>4. QED
    BY <1>7, <2>2, <2>3 DEF Login
<1>8. CASE Logout
  <2>1. /\ pc = "run" /\ sent = 0 /\ ran' /\ UNCHANGED <<handler, method>>
        /\ txn = "none" /\ txn \in TxnStatuses
    BY <1>8, <1>a DEF Logout
  <2>2. CASE txn' = "success" /\ Finish(200, "done") /\ UNCHANGED refusals
    BY <1>b, <1>d, <2>1, <2>2
  <2>3. CASE UNCHANGED txn /\ Refused("run") /\ Finish(500, "done")
    BY <1>c, <2>1, <2>3
  <2>4. QED
    BY <1>8, <2>2, <2>3 DEF Logout
<1>9. QED
  BY <1>1, <1>2, <1>3, <1>4, <1>5, <1>6, <1>7, <1>8

\* No step of a handler breaks the invariant.
LEMMA NextKeepsIInv == IInv /\ [Next]_vars => IInv'
<1> SUFFICES ASSUME IInv, [Next]_vars PROVE IInv'
  OBVIOUS
<1>1. CASE Step
  BY <1>1, PrepareKeepsIInv, SkipKeepsIInv, CommitKeepsIInv, MethodKeepsIInv DEF Step, StepButRead, Unaided
<1>2. CASE Done \/ UNCHANGED vars
  <2>1. UNCHANGED <<handler, method, pc, refusals, sent, audit, ran, txn>>
    BY <1>2 DEF Done, vars
  <2>2. TypeOK'
    BY <2>1 DEF IInv, TypeOK
  <2>3. PrepareInv' /\ CommitInv'
    BY <2>1 DEF IInv, PrepareInv, Preparing, CommitInv
  <2>4. DoneInv' /\ FirstInv' /\ AuditInv'
    BY <2>1 DEF IInv, DoneInv, FirstInv, AuditInv, Effect, Good
  <2>5. QED
    BY <2>2, <2>3, <2>4 DEF IInv
<1>3. QED
  BY <1>1, <1>2 DEF Next

\* Every reachable state has the invariant.
THEOREM Invariance == Spec => []IInv
BY InitIInv, NextKeepsIInv, PTL DEF Spec

----------------------------------------------------------------------------
(* What follows from it.                                                      *)

\* What has run had nothing refused before.
LEMMA IInvImpliesRefused == IInv => RefusedRunsNothing
<1> SUFFICES ASSUME IInv, ran PROVE \A i \in DOMAIN refusals : refusals[i] \in {"run", "location"}
  BY DEF RefusedRunsNothing
<1>1. refusals \in {<<>>, <<"run">>, <<"location">>}
  <2>1. pc \in {"waiting", "complete", "done"}
    BY DEF IInv, PrepareInv, Preparing, TypeOK, Stages
  <2>2. QED
    BY <2>1 DEF IInv, CommitInv, DoneInv
<1>2. CASE refusals = <<>>
  BY <1>2
<1>3. CASE refusals = <<"run">>
  BY <1>3
<1>4. CASE refusals = <<"location">>
  BY <1>4
<1>5. QED
  BY <1>1, <1>2, <1>3, <1>4

\* A write that ends was audited once, as what is known of it.
LEMMA IInvImpliesToldAsDone == IInv => ToldAsDone
BY DEF IInv, DoneInv, AuditInv, ToldAsDone

\* The stages of a request, its statuses and its transaction are those of the
\* handlers, whatever the environment makes the checks answer.
THEOREM TypeCorrect == Spec => []TypeOK
<1>1. IInv => TypeOK
  BY DEF IInv
<1>2. QED
  BY Invariance, <1>1, PTL

\* Whatever refuses a request, its method is not run (prepare of
\* OVSDBAPIHandler and CustomRESTHandler goes on after that of BaseHandler).
THEOREM NothingRefusedRuns == Spec => []RefusedRunsNothing
BY Invariance, IInvImpliesRefused, PTL

\* The client is told the first failure, with the status of its check, however
\* many more set a status and write (on_exception, finish).
THEOREM FirstIsTold == Spec => []FirstRefusalIsTold
<1>1. IInv => FirstRefusalIsTold
  BY DEF IInv, FirstInv, FirstRefusalIsTold
<1>2. QED
  BY Invariance, <1>1, PTL

\* A write is audited once, and told as successful just when it is known to be
\* done, but for a POST whose Location is refused, which is told as failed
\* (on_finish, transaction_complete, set_header, process_if_match).
THEOREM WritesAreToldAsDone == Spec => []ToldAsDone
BY Invariance, IInvImpliesToldAsDone, PTL

----------------------------------------------------------------------------
(* Reading: its inductive invariant.                                          *)

ListedRows == {listed[i].row : i \in DOMAIN listed}

\* The rows the request has still in hand.
Pending == todo \cup IF stage = "nested" THEN {current} ELSE {}

InHand == ListedRows \cup Pending

\* Types, and that rows that were there all along are there, and all that are
\* there have been.
RowsInv ==
  /\ stage \in {"idle", "fetch", "list", "nested"}
  /\ stage # "idle" => get.kind \in Kinds
  /\ listed \in Seq([row : Rows, category : Categories \cup {None}])
  /\ todo \subseteq Rows /\ rows \subseteq Rows
  /\ stage = "nested" => current \in Rows /\ ~OfUris(get)
  /\ category \in Categories
  /\ there \subseteq rows /\ rows \subseteq ever
  /\ stage \in {"idle", "fetch"} /\ pc # "done" => listed = <<>>

\* The coroutine is suspended in a GET that runs, and only those that find what
\* they PUT are answered with 200 by prepare().
GetInv ==
  /\ stage # "idle" => pc = "run" /\ sent = 0 /\ handler = "ovsdb" /\ method = "GET"
  /\ handler = "ovsdb" /\ method = "GET" /\ pc # "done" => sent # 200

\* No row is read twice, and none that was there all along is left out.
ListInv ==
  stage # "idle" =>
    /\ InHand \subseteq ever
    /\ "swapped" \notin unusual =>
         /\ \A i, j \in DOMAIN listed : listed[i].row = listed[j].row => i = j
         /\ ListedRows \cap Pending = {}
         /\ stage = "nested" => current \notin todo
         /\ get.kind # "row" => there \subseteq InHand

\* Before it is read, what has been there all along has been fetched.
FreshInv ==
  /\ \/ stage \in {"list", "nested"}
     \/ stage = "fetch" /\ fetch # "incomplete"
  /\ get.onDemand /\ ~OfUris(get) /\ get.kind # "column"
  /\ "failed" \notin unusual
  => IF get.kind = "table" THEN there \subseteq fresh ELSE InHand \cap there \subseteq fresh

CategoryInv ==
  stage # "idle" /\ ~OfUris(get) /\ "mixed" \notin unusual =>
    /\ \A i \in DOMAIN listed : listed[i].category = CategoryOf(listed[i].row)
    /\ stage = "nested" => category = CategoryOf(current)

\* The answer, once there is one.
AnswerInv == PagesAreFull /\ FetchedBeforeRead /\ CategoriesAreTheirs

RInv == RowsInv /\ GetInv /\ ListInv /\ FreshInv /\ CategoryInv /\ AnswerInv

----------------------------------------------------------------------------
(* Lists of rows and their pages.                                             *)

ListedSet == [row : Rows, category : Categories \cup {None}]

\* A list that names no row twice has as many rows as entries.
LEMMA DistinctRows ==
  ASSUME NEW S, NEW s \in Seq(S),
         \A i, j \in DOMAIN s : s[i].row = s[j].row => i = j
  PROVE  /\ IsFiniteSet({s[i].row : i \in DOMAIN s})
         /\ Cardinality({s[i].row : i \in DOMAIN s}) = Len(s)
<1> DEFINE R == {s[i].row : i \in DOMAIN s}
           f == [i \in 1 .. Len(s) |-> s[i].row]
<1>1. DOMAIN s = 1 .. Len(s) /\ Len(s) \in Nat
  BY LenProperties
<1>2. f \in Bijection(1 .. Len(s), R)
  <2>1. f \in [1 .. Len(s) -> R]
    BY <1>1
  <2>2. \A i, j \in 1 .. Len(s) : f[i] = f[j] => i = j
    BY <1>1
  <2>3. \A r \in R : \E i \in 1 .. Len(s) : f[i] = r
    BY <1>1
  <2> HIDE DEF f, R
  <2>4. QED
    BY <2>1, <2>2, <2>3, Fun_IsBij
<1> HIDE DEF f, R
<1>3. ExistsBijection(1 .. Len(s), R)
  BY <1>2 DEF ExistsBijection
<1>4. QED
  BY <1>1, <1>3, FS_CountingElements, FS_NatBijection DEF R

\* A page that is not refused holds what the list has from its offset on, or
\* as many rows as its limit.
LEMMA PageIsFull ==
  ASSUME NEW S, NEW list \in Seq(S),
         NEW offset \in Nat \cup {None}, NEW limit \in Nat \cup {None},
         list = <<>> \/ ~PageError(list, offset, limit)
  PROVE  LET page == Paginate(list, offset, limit) IN
         /\ page \in Seq(S)
         /\ \A i \in DOMAIN page : /\ i + From(offset) \in DOMAIN list
                                   /\ page[i] = list[i + From(offset)]
         /\ Len(page) >= Len(list) - From(offset) \/ Len(page) = limit
<1> DEFINE m == From(offset) + 1
           n == Least(To(list, offset, limit), Len(list))
           page == SubSeq(list, m, n)
<1>1. From(offset) \in Nat /\ (offset = None => From(offset) = 0)
  BY DEF From
<1>2. Len(list) \in Nat /\ DOMAIN list = 1 .. Len(list)
  BY LenProperties
<1>3. n \in Nat /\ n <= Len(list)
  BY <1>1, <1>2 DEF Least, To
<1>4. \A i \in m .. n : list[i] \in S
  BY <1>1, <1>2, <1>3, ElementOfSeq
<1>5. /\ page \in Seq(S)
      /\ Len(page) = IF m <= n THEN n - m + 1 ELSE 0
      /\ \A i \in 1 .. n - m + 1 : page[i] = list[m + i - 1]
  <2>1. m \in Int /\ n \in Int
    BY <1>1, <1>3
  <2> HIDE DEF m, n
  <2>2. QED
    BY <2>1, <1>4, SubSeqProperties
<1>6. DOMAIN page = 1 .. Len(page)
  BY <1>5, LenProperties
<1> HIDE DEF page
<1>7. \A i \in DOMAIN page : /\ i + From(offset) \in DOMAIN list
                            /\ page[i] = list[i + From(offset)]
  BY <1>1, <1>2, <1>3, <1>5, <1>6, SMTT(30)
<1>8. Len(page) >= Len(list) - From(offset) \/ Len(page) = limit
  <2>1. CASE list = <<>>
    BY <1>1, <1>5, <2>1, EmptySeq
  <2>2. CASE ~PageError(list, offset, limit)
    <3>1. CASE <<offset, limit>> = <<None, None>>
      <4>1. n = Len(list) /\ From(offset) = 0
        BY <1>1, <1>2, <3>1 DEF To, Least
      <4>2. QED
        BY <1>2, <1>5, <4>1
    <3>2. CASE <<offset, limit>> # <<None, None>>
      <4>1. From(offset) <= Len(list) /\ From(offset) < To(list, offset, limit)
        BY <1>1, <1>2, <2>2, <3>2 DEF PageError, To
      <4>2. CASE n = Len(list)
        BY <1>1, <1>2, <1>5, <4>1, <4>2
      <4>3. CASE n # Len(list)
        <5>1. n = From(offset) + limit /\ limit \in Nat
          BY <1>1, <1>2, <4>3 DEF To, Least
        <5>2. QED
          BY <1>1, <1>5, <4>1, <5>1 DEF To
      <4>4. QED
        BY <4>2, <4>3
    <3>3. QED
      BY <3>1, <3>2
  <2>3. QED
    BY <2>1, <2>2
<1>9. QED
  BY <1>5, <1>7, <1>8 DEF Paginate, page

----------------------------------------------------------------------------
(* A GET of Reading is one of RequestLifecycle.                               *)

\* get.py answers with 200, or with an error.
LEMMA AnswerIsRead ==
  ASSUME NEW code \in {200, 400, 404, 500}, Answer(code)
  PROVE  Read
BY DEF Answer, Read

\* Every step of get.py is the step Read of the handler, or none of its steps.
LEMMA StepRefines == [ReadingNext]_<<vars, readVars>> => [Next]_vars
<1> SUFFICES ASSUME ReadingNext \/ UNCHANGED <<vars, readVars>>
             PROVE  Next \/ UNCHANGED vars
  OBVIOUS
<1>1. CASE StepButRead
  BY <1>1 DEF Next, Step
<1>2. CASE Begin \/ Resume \/ ResumeRow \/ (\E r \in Rows : ReadRow(r))
  BY <1>2 DEF Begin, Resume, ResumeRow, ReadRow
<1>3. CASE Refuse \/ ReadGone \/ ResumeGone \/ FinishReading
  <2>1. \E code \in {200, 400, 404, 500} : Answer(code)
    BY <1>3 DEF Refuse, ReadGone, ResumeGone, FinishReading
  <2>2. QED
    BY <2>1, AnswerIsRead DEF Next, Step
<1>4. CASE Change \/ FetchEnds \/ OtherRequest
  BY <1>4 DEF Change, FetchEnds, OtherRequest
<1>5. CASE Done \/ UNCHANGED <<vars, readVars>>
  BY <1>5 DEF Next
<1>6. QED
  BY <1>1, <1>2, <1>3, <1>4, <1>5 DEF ReadingNext, Handle, HandleUnaided, StepButRead

\* Between its steps a GET leaves the rest of its handler disabled, and what
\* ends otherwise is not a GET answered with 200.
LEMMA OtherSteps ==
  ASSUME IInv, GetInv, StepButRead
  PROVE  /\ stage = "idle" /\ pc # "done"
         /\ UNCHANGED <<handler, method>>
         /\ handler = "ovsdb" /\ method = "GET" => sent' # 200
<1>1. UNCHANGED <<handler, method>> /\ pc # "done"
  BY DEF StepButRead, Unaided, Redirect, Authenticated, Permission, Arguments, Connected, Path, Filters,
         Precondition, Length, Skip, Options, BadBody, Raise, Commit, Woken, Complete,
         CustomMethod, Login, Logout, At, Run
<1>2. ~(pc = "run" /\ sent = 0 /\ handler = "ovsdb" /\ method = "GET")
  BY DEF StepButRead, Unaided, Redirect, Authenticated, Permission, Arguments, Connected, Path, Filters,
         Precondition, Length, Skip, Options, BadBody, Raise, Commit, Woken, Complete,
         CustomMethod, Login, Logout, At, Run, Writes
<1>3. ASSUME handler = "ovsdb", method = "GET"
      PROVE  sent' # 200
  <2>1. sent # 200 /\ method \notin Writes
    BY <1>1, <1>3 DEF GetInv, Writes
  <2>2. ~(Options \/ BadBody \/ Raise \/ Commit \/ Woken \/ Complete \/ CustomMethod \/ Login \/ Logout)
    BY <1>3, <2>1 DEF Options, BadBody, Raise, Commit, Woken, Complete, CustomMethod, Login, Logout,
                      At, Run, Writes, IInv, CommitInv
  <2>3. CASE Redirect \/ Authenticated \/ Permission \/ Arguments
    BY <2>1, <2>3 DEF Redirect, Authenticated, Permission, Arguments, LeaveBase, Fail, Finish, Pass
  <2>4. CASE Connected \/ Path \/ Filters \/ Precondition \/ Length \/ Skip
    BY <1>3, <2>1, <2>4 DEF Connected, Path, Filters, Precondition, Length, Skip, Fail, Finish, Pass
  <2>5. QED
    BY <2>2, <2>3, <2>4 DEF StepButRead, Unaided
<1>4. QED
  BY <1>1, <1>2, <1>3 DEF GetInv

----------------------------------------------------------------------------
(* The steps of get.py.                                                       *)

\* The categories are those of the schema.
LEMMA CategoryType == \A r : CategoryOf(r) \in Categories
BY DEF CategoryOf, Categories

\* Before the request is at its method nothing is read.
LEMMA InitRInv == ReadingInit => RInv
<1> SUFFICES ASSUME ReadingInit PROVE RInv
  OBVIOUS
<1>1. RowsInv
  <2>1. listed \in Seq([row : Rows, category : Categories \cup {None}])
    BY DEF ReadingInit
  <2>2. QED
    BY <2>1 DEF ReadingInit, RowsInv, Categories
<1>2. GetInv /\ ListInv /\ FreshInv /\ CategoryInv
  BY DEF ReadingInit, Init, GetInv, ListInv, FreshInv, CategoryInv
<1>3. AnswerInv
  BY DEF ReadingInit, Init, AnswerInv, PagesAreFull, FetchedBeforeRead, CategoriesAreTheirs, Read200
<1>4. QED
  BY <1>1, <1>2, <1>3 DEF RInv

\* The checks, the other methods and other handlers read nothing.
LEMMA OtherStepsKeepRInv ==
  ASSUME IInv, RInv, StepButRead, UNCHANGED readVars
  PROVE  RInv'
<1>1. /\ stage = "idle" /\ pc # "done"
      /\ UNCHANGED <<handler, method>>
      /\ handler = "ovsdb" /\ method = "GET" => sent' # 200
  BY OtherSteps DEF RInv
<1>2. UNCHANGED <<get, stage, fetch, rows, size, touched, todo, current, listed, category,
                  answer, changes, there, ever, fresh, unusual>>
  BY DEF readVars, dataVars
<1>3. RowsInv'
  BY <1>1, <1>2 DEF RInv, RowsInv
<1>4. GetInv' /\ ListInv' /\ FreshInv' /\ CategoryInv'
  BY <1>1, <1>2 DEF RInv, GetInv, ListInv, FreshInv, CategoryInv
<1>5. AnswerInv'
  BY <1>1 DEF AnswerInv, PagesAreFull, FetchedBeforeRead, CategoriesAreTheirs, Read200
<1>6. QED
  BY <1>3, <1>4, <1>5 DEF RInv

\* No step but the last makes an answer.
LEMMA NoAnswerYet ==
  ASSUME pc' = "run" \/ sent' # 200
  PROVE  AnswerInv'
BY DEF AnswerInv, PagesAreFull, FetchedBeforeRead, CategoriesAreTheirs, Read200

\* Errors end a GET without an answer.
LEMMA ErrorKeepsRInv ==
  ASSUME RInv, NEW code \in {400, 404, 500}, Answer(code), stage' = "idle",
         UNCHANGED <<get, fetch, size, touched, todo, current, listed, category, answer, unusual, dataVars>>
  PROVE  RInv'
<1>1. pc' = "done" /\ sent' = code /\ UNCHANGED <<handler, method>>
  BY DEF Answer, Run, Reply, Finish
<1>2. RowsInv'
  BY <1>1 DEF RInv, RowsInv, dataVars
<1>3. GetInv' /\ ListInv' /\ FreshInv' /\ CategoryInv'
  BY <1>1 DEF RInv, GetInv, ListInv, FreshInv, CategoryInv
<1>4. AnswerInv'
  BY <1>1, NoAnswerYet
<1>5. QED
  BY <1>2, <1>3, <1>4 DEF RInv

\* get_resource: the rows in hand are those there now, and nothing is listed.
LEMMA BeginKeepsRInv == RInv /\ Begin => RInv'
<1> SUFFICES ASSUME RInv, Begin PROVE RInv'
  OBVIOUS
<1>1. /\ pc' = "run" /\ sent' = 0 /\ handler' = "ovsdb" /\ method' = "GET"
      /\ listed = <<>> /\ listed' = <<>>
      /\ stage' \in {"fetch", "list"}
      /\ get'.kind \in Kinds
      /\ rows' \subseteq Rows /\ there' = rows' /\ ever' = rows'
      /\ todo' \subseteq rows' /\ (get'.kind # "row" => todo' = rows')
  BY DEF RInv, RowsInv, Begin, vars, FetchColumns
<1>2. listed' \in Seq([row : Rows, category : Categories \cup {None}])
  BY <1>1
<1>3. RowsInv'
  <2>1. category' \in Categories
    BY CategoryType DEF RInv, RowsInv, Begin, UpdateCategoryKeys
  <2>2. QED
    BY <1>1, <1>2, <2>1 DEF RowsInv
<1>4. GetInv'
  BY <1>1 DEF GetInv
<1>5. ListedRows' = {} /\ Pending' = todo' /\ InHand' = todo'
  BY <1>1 DEF ListedRows, Pending, InHand
<1>6. ListInv'
  BY <1>1, <1>5 DEF ListInv
<1>7. FreshInv'
  BY <1>1 DEF FreshInv, Begin, FetchColumns
<1>8. CategoryInv'
  BY <1>1 DEF CategoryInv
<1>9. QED
  BY <1>1, <1>3, <1>4, <1>6, <1>7, <1>8, NoAnswerYet DEF RInv

\* The first fetch has ended: the rows of a table are taken anew.
LEMMA ResumeKeepsRInv == RInv /\ Resume => RInv'
<1> SUFFICES ASSUME RInv, Resume PROVE RInv'
  OBVIOUS
<1>1. /\ pc = "run" /\ pc' = "run" /\ stage = "fetch" /\ stage' = "list" /\ fetch # "incomplete"
      /\ UNCHANGED <<handler, method, sent, get, fetch, current, listed, unusual, category,
                     rows, there, ever, fresh>>
      /\ listed = <<>>
      /\ IF get.kind = "table" THEN todo' = rows ELSE todo' = todo
  BY DEF RInv, GetInv, RowsInv, Resume, vars, dataVars
<1>2. ListedRows = {} /\ ListedRows' = {} /\ InHand = todo /\ InHand' = todo' /\ Pending' = todo'
  BY <1>1 DEF ListedRows, Pending, InHand
<1>3. RowsInv'
  BY <1>1 DEF RInv, RowsInv
<1>4. GetInv'
  BY <1>1 DEF RInv, GetInv
<1>5. ListInv'
  BY <1>1, <1>2 DEF RInv, ListInv, RowsInv
<1>6. FreshInv'
  BY <1>1, <1>2 DEF RInv, FreshInv, OfUris
<1>7. CategoryInv'
  BY <1>1 DEF CategoryInv
<1>8. QED
  BY <1>1, <1>3, <1>4, <1>5, <1>6, <1>7, NoAnswerYet DEF RInv

\* A row joins those that are listed.
LEMMA AddLists ==
  ASSUME RowsInv, NEW r \in Rows, NEW c \in Categories \cup {None}, Add(r, c)
  PROVE  /\ listed' \in Seq(ListedSet)
         /\ ListedRows' = ListedRows \cup {r}
         /\ \A i \in DOMAIN listed' :
              \/ i \in DOMAIN listed /\ listed'[i] = listed[i]
              \/ i = Len(listed) + 1 /\ listed'[i].row = r /\ listed'[i].category = c
<1> DEFINE e == [row |-> r, category |-> c]
<1>1. listed \in Seq(ListedSet) /\ e \in ListedSet /\ listed' = Append(listed, e)
  BY DEF RowsInv, ListedSet, Add
<1>2. e.row = r /\ e.category = c
  OBVIOUS
<1> HIDE DEF e
<1>3. /\ listed' \in Seq(ListedSet)
      /\ Len(listed') = Len(listed) + 1 /\ Len(listed) \in Nat
      /\ \A i \in 1 .. Len(listed) : listed'[i] = listed[i]
      /\ listed'[Len(listed) + 1] = e
  BY <1>1, AppendProperties, LenProperties
<1>4. DOMAIN listed = 1 .. Len(listed) /\ DOMAIN listed' = 1 .. Len(listed) + 1
  BY <1>1, <1>3, LenProperties
<1>5. ListedRows' = ListedRows \cup {r}
  <2>1. ListedRows' \subseteq ListedRows \cup {r}
    BY <1>2, <1>3, <1>4 DEF ListedRows
  <2>2. ListedRows \subseteq ListedRows'
    BY <1>3, <1>4 DEF ListedRows
  <2>3. r \in ListedRows'
    <3>1. Len(listed) + 1 \in DOMAIN listed'
      BY <1>3, <1>4
    <3>2. QED
      BY <1>2, <1>3, <3>1 DEF ListedRows
  <2>4. QED
    BY <2>1, <2>2, <2>3
<1>6. QED
  BY <1>2, <1>3, <1>4, <1>5

\* The list names no row twice if the row that joins it is not there.
LEMMA AddKeepsDistinct ==
  ASSUME RowsInv, NEW r \in Rows, NEW c \in Categories \cup {None}, Add(r, c), r \notin ListedRows,
         \A i, j \in DOMAIN listed : listed[i].row = listed[j].row => i = j
  PROVE  \A i, j \in DOMAIN listed' : listed'[i].row = listed'[j].row => i = j
<1>1. \A i \in DOMAIN listed : listed[i].row # r
  BY DEF ListedRows
<1>2. \A i \in DOMAIN listed' :
        \/ i \in DOMAIN listed /\ listed'[i] = listed[i]
        \/ i = Len(listed) + 1 /\ listed'[i].row = r
  BY AddLists
<1>3. QED
  BY <1>1, <1>2

\* A row that is read, or whose references are fetched first, was in hand.
LEMMA ReadRowKeepsRInv ==
  ASSUME RInv, NEW r \in Rows, ReadRow(r)
  PROVE  RInv'
<1>1. /\ pc = "run" /\ pc' = "run" /\ stage = "list" /\ r \in todo /\ todo' = todo \ {r}
      /\ UNCHANGED <<handler, method, sent, get, unusual, rows, there, ever, fresh>>
  BY DEF RInv, GetInv, ReadRow, vars, dataVars
<1>2. GetInv'
  BY <1>1 DEF RInv, GetInv
<1>3. InHand = ListedRows \cup todo /\ Pending = todo
  BY <1>1 DEF InHand, Pending
<1>4. ASSUME NEW c \in Categories \cup {None}, Add(r, c), stage' = "list",
             ~OfUris(get) => c = CategoryOf(r)
      PROVE  RInv'
  <2>1. /\ listed' \in Seq(ListedSet)
        /\ ListedRows' = ListedRows \cup {r}
        /\ \A i \in DOMAIN listed' :
             \/ i \in DOMAIN listed /\ listed'[i] = listed[i]
             \/ i = Len(listed) + 1 /\ listed'[i].row = r /\ listed'[i].category = c
    BY <1>4, AddLists DEF RInv
  <2>2. InHand' = InHand /\ Pending' = todo \ {r}
    BY <1>1, <1>3, <1>4, <2>1 DEF InHand, Pending
  <2>3. RowsInv'
    <3>1. category' \in Categories
      BY CategoryType DEF RInv, RowsInv, ReadRow, UpdateCategoryKeys
    <3>2. QED
      BY <1>1, <1>4, <2>1, <3>1 DEF RInv, RowsInv, ListedSet
  <2>4. ListInv'
    <3>1. InHand' \subseteq ever'
      BY <1>1, <2>2 DEF RInv, ListInv
    <3>2. ASSUME "swapped" \notin unusual
          PROVE  /\ \A i, j \in DOMAIN listed' : listed'[i].row = listed'[j].row => i = j
                 /\ ListedRows' \cap Pending' = {}
                 /\ get.kind # "row" => there \subseteq InHand
      <4>1. /\ ListedRows \cap todo = {} /\ (get.kind # "row" => there \subseteq InHand)
            /\ \A i, j \in DOMAIN listed : listed[i].row = listed[j].row => i = j
        BY <1>1, <1>3, <3>2 DEF RInv, ListInv
      <4>2. \A i, j \in DOMAIN listed' : listed'[i].row = listed'[j].row => i = j
        BY <1>1, <1>4, <4>1, AddKeepsDistinct DEF RInv
      <4>3. QED
        BY <1>1, <2>1, <2>2, <4>1, <4>2
    <3>3. QED
      BY <1>1, <1>4, <2>2, <3>1, <3>2 DEF ListInv
  <2>5. FreshInv'
    BY <1>1, <1>4, <2>2 DEF RInv, FreshInv, OfUris
  <2>6. CategoryInv'
    BY <1>1, <1>4, <2>1 DEF RInv, CategoryInv, OfUris
  <2>7. QED
    BY <1>1, <1>2, <2>3, <2>4, <2>5, <2>6, NoAnswerYet DEF RInv
<1>5. CASE stage' = "list"
  <2>1. \/ OfUris(get) /\ Add(r, None)
        \/ ~OfUris(get) /\ Add(r, CategoryOf(r))
    BY <1>5 DEF ReadRow, UpdateCategoryKeys
  <2>2. QED
    BY <1>4, <1>5, <2>1, CategoryType
<1>6. CASE stage' = "nested"
  <2>1. /\ get.onDemand /\ get.depth = 2 /\ listed' = listed /\ current' = r
        /\ category' = CategoryOf(r)
    BY <1>1, <1>6 DEF ReadRow, UpdateCategoryKeys
  <2>2. ListedRows' = ListedRows /\ InHand' = InHand /\ Pending' = Pending
    BY <1>1, <1>3, <1>6, <2>1 DEF InHand, Pending, ListedRows
  <2>3. RowsInv'
    BY <1>1, <1>6, <2>1, CategoryType DEF RInv, RowsInv, OfUris
  <2>4. ListInv'
    BY <1>1, <1>6, <2>1, <2>2 DEF RInv, ListInv
  <2>5. FreshInv'
    BY <1>1, <1>6, <2>2 DEF RInv, FreshInv, OfUris
  <2>6. CategoryInv'
    BY <1>1, <1>6, <2>1 DEF RInv, CategoryInv, OfUris
  <2>7. QED
    BY <1>1, <1>2, <2>3, <2>4, <2>5, <2>6, NoAnswerYet DEF RInv
<1>7. QED
  BY <1>1, <1>5, <1>6 DEF ReadRow

\* A row is listed with the category that the schema has when its references
\* have been fetched.
LEMMA ResumeRowKeepsRInv == RInv /\ ResumeRow => RInv'
<1> SUFFICES ASSUME RInv, ResumeRow PROVE RInv'
  OBVIOUS
<1>1. /\ pc = "run" /\ pc' = "run" /\ stage = "nested" /\ stage' = "list" /\ Add(current, category)
      /\ UNCHANGED <<handler, method, sent, get, category, rows, there, ever, fresh>>
      /\ \/ UNCHANGED <<todo, unusual>>
         \/ get.kind = "table" /\ todo' \subseteq rows /\ unusual' = unusual \cup {"swapped"}
      /\ current \in Rows /\ category \in Categories /\ ~OfUris(get)
  BY DEF RInv, GetInv, RowsInv, ResumeRow, vars, dataVars
<1>2. /\ listed' \in Seq(ListedSet)
      /\ ListedRows' = ListedRows \cup {current}
      /\ \A i \in DOMAIN listed' :
           \/ i \in DOMAIN listed /\ listed'[i] = listed[i]
           \/ i = Len(listed) + 1 /\ listed'[i].row = current /\ listed'[i].category = category
  BY <1>1, AddLists DEF RInv
<1>3. Pending = todo \cup {current} /\ InHand = ListedRows \cup todo \cup {current}
  BY <1>1 DEF Pending, InHand
<1>4. Pending' = todo' /\ InHand' = ListedRows \cup {current} \cup todo'
  BY <1>1, <1>2 DEF Pending, InHand
<1>5. RowsInv'
  BY <1>1, <1>2 DEF RInv, RowsInv, ListedSet
<1>6. GetInv'
  BY <1>1 DEF RInv, GetInv
<1>7. ListInv'
  <2>1. InHand' \subseteq ever'
    BY <1>1, <1>3, <1>4 DEF RInv, ListInv, RowsInv
  <2>2. ASSUME "swapped" \notin unusual'
        PROVE  /\ \A i, j \in DOMAIN listed' : listed'[i].row = listed'[j].row => i = j
               /\ ListedRows' \cap Pending' = {}
               /\ get.kind # "row" => there \subseteq InHand'
    <3>1. /\ todo' = todo /\ ListedRows \cap Pending = {} /\ current \notin todo
          /\ get.kind # "row" => there \subseteq InHand
          /\ \A i, j \in DOMAIN listed : listed[i].row = listed[j].row => i = j
      BY <1>1, <2>2 DEF RInv, ListInv
    <3>2. \A i, j \in DOMAIN listed' : listed'[i].row = listed'[j].row => i = j
      BY <1>1, <1>3, <3>1, AddKeepsDistinct DEF RInv
    <3>3. QED
      BY <1>2, <1>3, <1>4, <3>1, <3>2
  <2>3. QED
    BY <1>1, <2>1, <2>2 DEF ListInv
<1>8. FreshInv'
  BY <1>1, <1>3, <1>4 DEF RInv, FreshInv, OfUris
<1>9. CategoryInv'
  BY <1>1, <1>2 DEF RInv, CategoryInv, OfUris
<1>10. QED
  BY <1>1, <1>5, <1>6, <1>7, <1>8, <1>9, NoAnswerYet DEF RInv

\* The end: nothing is pending, so what is listed is all there is to answer.
LEMMA FinishKeepsRInv == RInv /\ FinishReading => RInv'
<1> SUFFICES ASSUME RInv, FinishReading PROVE RInv'
  OBVIOUS
<1>1. /\ pc' = "done" /\ stage = "list" /\ stage' = "idle" /\ todo = {}
      /\ UNCHANGED <<handler, method, get, fetch, todo, current, listed, category, unusual,
                     rows, there, ever, fresh>>
  BY DEF FinishReading, Answer, Run, Reply, Finish, dataVars
<1>2. RowsInv' /\ GetInv' /\ ListInv' /\ FreshInv' /\ CategoryInv'
  BY <1>1 DEF RInv, RowsInv, GetInv, ListInv, FreshInv, CategoryInv
<1>3. CASE sent' # 200
  BY <1>2, <1>3, NoAnswerYet DEF RInv
<1>4. CASE sent' = 200
  <2>1. PICK offset \in {None, 0, 1, 2}, limit \in {None, 0, 1, 2} :
          /\ listed = <<>> \/ ~PageError(listed, offset, limit)
          /\ answer' = [rows |-> Paginate(listed, offset, limit), offset |-> offset, limit |-> limit]
    BY <1>4 DEF FinishReading, Answer, Run, Reply, Finish
  <2> DEFINE page == Paginate(listed, offset, limit)
  <2>2. answer'.rows = page /\ answer'.offset = offset /\ answer'.limit = limit
    BY <2>1
  <2>3. listed \in Seq(ListedSet)
    BY DEF RInv, RowsInv, ListedSet
  <2>4. /\ page \in Seq(ListedSet)
        /\ \A i \in DOMAIN page : /\ i + From(offset) \in DOMAIN listed
                                  /\ page[i] = listed[i + From(offset)]
        /\ Len(page) >= Len(listed) - From(offset) \/ Len(page) = limit
    <3>1. offset \in Nat \cup {None} /\ limit \in Nat \cup {None}
      OBVIOUS
    <3>2. QED
      BY <2>1, <2>3, <3>1, PageIsFull
  <2> HIDE DEF page
  <2>5. AnsweredRows' = {page[i].row : i \in DOMAIN page} /\ AnsweredRows' \subseteq ListedRows
    BY <2>2, <2>4 DEF AnsweredRows, ListedRows
  <2>6. InHand = ListedRows /\ Pending = {}
    BY <1>1 DEF InHand, Pending
  <2>7. PagesAreFull'
    <3> SUFFICES ASSUME get.kind # "row", "swapped" \notin unusual
                 PROVE  /\ Cardinality(AnsweredRows') = Len(page)
                        /\ AnsweredRows' \subseteq ever
                        /\ \/ Len(page) >= Cardinality(there) - From(offset)
                           \/ Len(page) = limit
      BY <1>1, <2>2 DEF PagesAreFull
    <3>1. /\ ListedRows \subseteq ever /\ there \subseteq ListedRows
          /\ \A i, j \in DOMAIN listed : listed[i].row = listed[j].row => i = j
      BY <1>1, <2>6 DEF RInv, ListInv
    <3>2. \A i, j \in DOMAIN page : page[i].row = page[j].row => i = j
      <4>1. DOMAIN page \subseteq Nat /\ From(offset) \in Nat
        BY <2>4, LenProperties DEF From
      <4>2. SUFFICES ASSUME NEW i \in DOMAIN page, NEW j \in DOMAIN page, page[i].row = page[j].row
                     PROVE  i = j
        OBVIOUS
      <4>3. /\ i + From(offset) \in DOMAIN listed /\ page[i] = listed[i + From(offset)]
            /\ j + From(offset) \in DOMAIN listed /\ page[j] = listed[j + From(offset)]
        BY <2>4
      <4>4. listed[i + From(offset)].row = listed[j + From(offset)].row
        BY <4>2, <4>3
      <4>5. i + From(offset) = j + From(offset)
        BY <3>1, <4>3, <4>4
      <4>6. i \in Nat /\ j \in Nat /\ From(offset) \in Nat
        BY <4>1
      <4>7. QED
        BY <4>5, <4>6
    <3>3. Cardinality(AnsweredRows') = Len(page)
      BY <2>4, <2>5, <3>2, DistinctRows
    <3>4. IsFiniteSet(ListedRows) /\ Cardinality(ListedRows) = Len(listed)
      BY <2>3, <3>1, DistinctRows DEF ListedRows
    <3>5. Cardinality(there) \in Nat /\ Cardinality(there) <= Len(listed)
      BY <3>1, <3>4, FS_Subset, FS_CardinalityType
    <3>6. Len(page) \in Nat /\ Len(listed) \in Nat /\ From(offset) \in Nat
      BY <2>3, <2>4, LenProperties DEF From
    <3>7. QED
      BY <2>4, <2>5, <3>1, <3>3, <3>5, <3>6
  <2>8. FetchedBeforeRead'
    <3>1. get.onDemand /\ ~OfUris(get) /\ get.kind # "column" /\ "failed" \notin unusual
          => ListedRows \cap there \subseteq fresh
      BY <1>1, <2>6 DEF RInv, FreshInv
    <3>2. QED
      BY <1>1, <2>5, <3>1 DEF FetchedBeforeRead, OfUris
  <2>9. CategoriesAreTheirs'
    <3>1. ~OfUris(get) /\ "mixed" \notin unusual =>
            \A i \in DOMAIN listed : listed[i].category = CategoryOf(listed[i].row)
      BY <1>1 DEF RInv, CategoryInv
    <3>2. QED
      BY <1>1, <2>2, <2>4, <3>1 DEF CategoriesAreTheirs, OfUris
  <2>10. QED
    BY <1>2, <2>7, <2>8, <2>9 DEF RInv, AnswerInv
<1>5. QED
  BY <1>3, <1>4

----------------------------------------------------------------------------
(* What happens while the request is suspended.                               *)

\* A row that goes takes its place among those that were there all along, and
\* among those fetched, with it.
LEMMA ChangeKeepsRInv == RInv /\ Change => RInv'
<1> SUFFICES ASSUME RInv, Change PROVE RInv'
  OBVIOUS
<1>1. /\ pc = "run" /\ pc' = "run" /\ rows' \subseteq Rows
      /\ there' = there \cap rows' /\ ever' = ever \cup rows' /\ fresh' = fresh \cap rows'
      /\ UNCHANGED <<handler, method, sent, get, stage, fetch, todo, current, listed, category, unusual>>
  BY DEF Change, Suspended, vars
<1>2. ListedRows' = ListedRows /\ Pending' = Pending /\ InHand' = InHand
  BY <1>1 DEF ListedRows, Pending, InHand
<1>3. RowsInv' /\ GetInv'
  BY <1>1 DEF RInv, RowsInv, GetInv
<1>4. ListInv'
  BY <1>1, <1>2 DEF RInv, ListInv
<1>5. FreshInv'
  BY <1>1, <1>2 DEF RInv, FreshInv, OfUris
<1>6. CategoryInv'
  BY <1>1 DEF RInv, CategoryInv, OfUris
<1>7. QED
  BY <1>1, <1>3, <1>4, <1>5, <1>6, NoAnswerYet DEF RInv

\* A fetch before any row is read has all that will be read, or it has failed.
LEMMA FetchEndsKeepsRInv == RInv /\ FetchEnds => RInv'
<1> SUFFICES ASSUME RInv, FetchEnds PROVE RInv'
  OBVIOUS
<1>1. /\ pc = "run" /\ pc' = "run" /\ stage \in {"fetch", "nested"}
      /\ UNCHANGED <<handler, method, sent, get, stage, rows, todo, current, listed, category, there, ever>>
      /\ unusual' \in {unusual, unusual \cup {"failed"}}
  BY DEF FetchEnds, Suspended, vars
<1>2. ListedRows' = ListedRows /\ Pending' = Pending /\ InHand' = InHand
  BY <1>1 DEF ListedRows, Pending, InHand
<1>3. RowsInv' /\ GetInv'
  BY <1>1 DEF RInv, RowsInv, GetInv
<1>4. ListInv'
  BY <1>1, <1>2 DEF RInv, ListInv
<1>5. FreshInv'
  <2>1. CASE stage = "nested"
    <3>1. fresh' = fresh /\ unusual' = unusual
      BY <2>1 DEF FetchEnds
    <3>2. QED
      BY <1>1, <1>2, <2>1, <3>1 DEF RInv, FreshInv, OfUris
  <2>2. CASE stage = "fetch" /\ fetch' = "try_again"
    <3>1. "failed" \in unusual'
      BY <2>2 DEF FetchEnds
    <3>2. QED
      BY <3>1 DEF FreshInv
  <2>3. CASE stage = "fetch" /\ fetch' = "success"
    <3>1. fresh' = fresh \cup Fetched
      BY <2>3 DEF FetchEnds
    <3>2. listed = <<>> /\ InHand = todo /\ there \subseteq rows /\ get.kind \in Kinds
      BY <1>1, <2>3 DEF RInv, RowsInv, InHand, Pending, ListedRows
    <3>3. CASE get.kind = "table"
      BY <1>1, <3>1, <3>2, <3>3 DEF FreshInv, Fetched
    <3>4. CASE get.kind # "table" /\ get.kind # "column"
      <4>1. Fetched = todo \cap rows
        BY <3>4 DEF Fetched
      <4>2. QED
        BY <1>1, <1>2, <3>1, <3>2, <3>4, <4>1 DEF FreshInv
    <3>5. CASE get.kind = "column"
      BY <1>1, <3>5 DEF FreshInv
    <3>6. QED
      BY <3>3, <3>4, <3>5
  <2>4. QED
    BY <1>1, <2>1, <2>2, <2>3 DEF FetchEnds
<1>6. CategoryInv'
  BY <1>1 DEF RInv, CategoryInv, OfUris
<1>7. QED
  BY <1>1, <1>3, <1>4, <1>5, <1>6, NoAnswerYet DEF RInv

\* Another request changes the categories under the references of a row.
LEMMA OtherRequestKeepsRInv == RInv /\ OtherRequest => RInv'
<1> SUFFICES ASSUME RInv, OtherRequest PROVE RInv'
  OBVIOUS
<1>1. /\ pc = "run" /\ pc' = "run" /\ stage \in {"fetch", "nested"} /\ category' \in Categories
      /\ UNCHANGED <<handler, method, sent, get, stage, fetch, rows, todo, current, listed, there, ever, fresh>>
      /\ unusual' = unusual \cup IF stage = "nested" THEN {"mixed"} ELSE {}
  BY DEF OtherRequest, Suspended, vars, dataVars
<1>2. ListedRows' = ListedRows /\ Pending' = Pending /\ InHand' = InHand
  BY <1>1 DEF ListedRows, Pending, InHand
<1>3. RowsInv' /\ GetInv'
  BY <1>1 DEF RInv, RowsInv, GetInv
<1>4. ListInv'
  BY <1>1, <1>2 DEF RInv, ListInv
<1>5. FreshInv'
  BY <1>1, <1>2 DEF RInv, FreshInv, OfUris
<1>6. CategoryInv'
  BY <1>1 DEF RInv, CategoryInv, OfUris
<1>7. QED
  BY <1>1, <1>3, <1>4, <1>5, <1>6, NoAnswerYet DEF RInv

\* No step breaks the invariant.
LEMMA ReadingNextKeepsRInv == IInv /\ RInv /\ [ReadingNext]_<<vars, readVars>> => RInv'
<1> SUFFICES ASSUME IInv, RInv, ReadingNext \/ UNCHANGED <<vars, readVars>>
             PROVE  RInv'
  OBVIOUS
<1>1. CASE StepButRead /\ UNCHANGED readVars
  BY <1>1, OtherStepsKeepRInv
<1>2. CASE Begin \/ Resume \/ ResumeRow \/ FinishReading \/ (\E r \in Rows : ReadRow(r))
  BY <1>2, BeginKeepsRInv, ResumeKeepsRInv, ResumeRowKeepsRInv, FinishKeepsRInv, ReadRowKeepsRInv
<1>3. CASE Refuse
  <2>1. stage' = "idle"
    BY <1>3 DEF Refuse, readVars
  <2>2. QED
    BY <1>3, <2>1, ErrorKeepsRInv DEF Refuse, readVars, dataVars
<1>4. CASE ReadGone \/ ResumeGone
  BY <1>4, ErrorKeepsRInv DEF ReadGone, ResumeGone
<1>5. CASE Change \/ FetchEnds \/ OtherRequest
  BY <1>5, ChangeKeepsRInv, FetchEndsKeepsRInv, OtherRequestKeepsRInv
<1>6. CASE (Done /\ UNCHANGED readVars) \/ UNCHANGED <<vars, readVars>>
  <2>1. UNCHANGED <<handler, method, pc, sent, get, stage, fetch, todo, current, listed, category,
                    answer, unusual, rows, there, ever, fresh>>
    BY <1>6 DEF Done, vars, readVars, dataVars
  <2>2. RowsInv' /\ GetInv'
    BY <2>1 DEF RInv, RowsInv, GetInv
  <2>3. InHand' = InHand /\ Pending' = Pending /\ ListedRows' = ListedRows
    BY <2>1 DEF InHand, Pending, ListedRows
  <2>4. ListInv' /\ FreshInv' /\ CategoryInv'
    BY <2>1, <2>3 DEF RInv, ListInv, FreshInv, CategoryInv, OfUris
  <2>5. AnswerInv'
    BY <2>1 DEF RInv, AnswerInv, PagesAreFull, FetchedBeforeRead, CategoriesAreTheirs, Read200,
                AnsweredRows, OfUris
  <2>6. QED
    BY <2>2, <2>4, <2>5 DEF RInv
<1>7. QED
  BY <1>1, <1>2, <1>3, <1>4, <1>5, <1>6 DEF ReadingNext, Handle, HandleUnaided, StepButRead

\* Every state that a GET can reach has both invariants.
THEOREM ReadingInvariance == ReadingSpec => [](IInv /\ RInv)
<1>1. ReadingInit => IInv /\ RInv
  BY InitIInv, InitRInv DEF ReadingInit
<1>2. (IInv /\ RInv) /\ [ReadingNext]_<<vars, readVars>> => (IInv /\ RInv)'
  BY StepRefines, NextKeepsIInv, ReadingNextKeepsRInv
<1>3. QED
  BY <1>1, <1>2, PTL DEF ReadingSpec

----------------------------------------------------------------------------
(* What follows from it.                                                      *)

\* Each step of get.py is one of the handler or none: what is proved of the
\* handler, whatever fails, holds of every GET in steps.
THEOREM ReadingRefines == ReadingSpec => Init /\ [][Next]_vars
<1>1. ReadingInit => Init
  BY DEF ReadingInit
<1>2. QED
  BY <1>1, StepRefines, PTL DEF ReadingSpec

\* The same of a GET in steps: nothing refused runs, the first failure is told
\* and writes are told as done, but for a Location that is refused (prepare,
\* on_exception, transaction_complete).
THEOREM ReadingTells == ReadingSpec => [](RefusedRunsNothing /\ FirstRefusalIsTold /\ ToldAsDone)
<1>1. IInv => RefusedRunsNothing /\ FirstRefusalIsTold /\ ToldAsDone
  BY IInvImpliesRefused, IInvImpliesToldAsDone DEF IInv, FirstInv, FirstRefusalIsTold
<1>2. QED
  BY ReadingInvariance, <1>1, PTL

\* Rows that come and go while a GET is suspended make it list none twice and
\* miss none, of any rows, pages and number of changes (get_row_json,
\* paginate_get_results).
THEOREM Pages == ReadingSpec => []PagesAreFull
<1>1. RInv => PagesAreFull
  BY DEF RInv, AnswerInv
<1>2. QED
  BY ReadingInvariance, <1>1, PTL

\* What is read had been fetched (fetch_readonly_columns before get_row_json).
THEOREM Fetches == ReadingSpec => []FetchedBeforeRead
<1>1. RInv => FetchedBeforeRead
  BY DEF RInv, AnswerInv
<1>2. QED
  BY ReadingInvariance, <1>1, PTL

\* The references of a row are in the category its own value gives them
\* (update_category_keys), though all requests share the schema, unless another
\* request changed it while they were fetched.
THEOREM CategoriesOfRows == ReadingSpec => []CategoriesAreTheirs
<1>1. RInv => CategoriesAreTheirs
  BY DEF RInv, AnswerInv
<1>2. QED
  BY ReadingInvariance, <1>1, PTL
=============================================================================
