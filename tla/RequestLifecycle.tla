-------------------------- MODULE RequestLifecycle --------------------------
(***************************************************************************)
(* One HTTP request through its handler: BaseHandler, OVSDBAPIHandler,      *)
(* CustomRESTHandler, LoginHandler and LogoutHandler.  Tornado calls        *)
(* prepare() and then, unless prepare() has finished the request, the       *)
(* method.  prepare() of a subclass goes on after that of its parent has    *)
(* refused and finished the request, so a request may be refused more than  *)
(* once; what the client and the audit log are told is the subject here.    *)
(*                                                                         *)
(* A check passes or fails by a free choice of the environment: what they   *)
(* look at is in OpsIdlIndex, OvsdbManager and the modules of the resource  *)
(* code.  Tornado is external: finish() and write() raise RuntimeError once *)
(* the request is finished, and an exception that leaves a handler is       *)
(* answered with 500 if it is not, and ignored if it is.                    *)
(***************************************************************************)
EXTENDS Naturals, Sequences

CONSTANT Handlers   \* the handlers under study

ASSUME HandlersAssumption == Handlers \subseteq {"ovsdb", "custom", "login", "logout"}

VARIABLES
  handler, method,  \* the request
  pc,               \* the next check or step of the handler
  refusals,         \* history: the failures, in order
  sent,             \* the status the client received, 0 before
  audit,            \* history: what on_finish told the audit log
  ran,              \* the method of the handler was called
  txn               \* the transaction of a write, or the controller's result

vars == <<handler, method, pc, refusals, sent, audit, ran, txn>>

Writes == {"POST", "PUT", "PATCH", "DELETE"}
Methods == Writes \cup {"GET", "OPTIONS"}
MethodsOf(h) == CASE h = "ovsdb"  -> Methods
                  [] h = "custom" -> Methods \ {"OPTIONS"}
                  [] h = "login"  -> {"GET", "POST"}
                  [] h = "logout" -> {"POST"}

Good(code) == code \in 200 .. 299

Checks == {"redirect", "authenticated", "permission", "arguments", "connected",
           "path", "filters", "precondition", "length"}
Stages == Checks \cup {"run", "waiting", "complete", "done"}

Init ==
  /\ handler \in Handlers
  /\ method \in MethodsOf(handler)
  /\ pc = "redirect"
  /\ refusals = <<>>
  /\ sent = 0
  /\ audit = <<>>
  /\ ran = FALSE
  /\ txn = "none"

----------------------------------------------------------------------------
(* Answers.                                                                 *)

\* on_finish: writes are audited, as successful if the status is 2xx.
OnFinish(code) ==
  audit' = IF method \in Writes THEN Append(audit, Good(code)) ELSE audit

\* Mutant: answers are buffered, so the last one is sent.
FinishLast(code, next) == sent' = code /\ OnFinish(code) /\ pc' = next

\* set_status and finish(): a second one raises RuntimeError, whose handler
\* writes to the finished request and leaves with RuntimeError again.
Finish(code, next) ==
  IF sent = 0 THEN /\ sent' = code
                   /\ OnFinish(code)
                   /\ pc' = next
  ELSE /\ pc' = "run"
       /\ UNCHANGED <<sent, audit>>

\* The part of on_exception that touches the transaction of the request.
AbortTxn == txn' = IF txn = "open" THEN "aborted" ELSE txn

\* on_exception(e) and finish() at the end of prepare or of the method.
Fail(code, next) == Finish(code, next) /\ AbortTxn

Refused(check) == refusals' = Append(refusals, check)

\* Where prepare() of the subclass goes on after that of BaseHandler.
AfterBase == CASE handler = "ovsdb"  -> "connected"
               [] handler = "custom" -> "precondition"
               [] OTHER -> "run"

\* Mutant: on_exception without finish(), as in LoginHandler.prepare.
LeaveBaseOpen(code) == pc' = AfterBase /\ AbortTxn /\ UNCHANGED <<sent, audit>>

\* on_exception writes to a request that redirect() finished: RuntimeError
\* leaves prepare() of BaseHandler, and is caught by that of the subclass.
LeaveBase(code) == Fail(code, AfterBase)

----------------------------------------------------------------------------
(* prepare().                                                               *)

At(stage) == pc = stage /\ UNCHANGED <<handler, method, ran>>

Pass(next) == pc' = next /\ UNCHANGED <<refusals, sent, audit, txn>>

\* redirect_http_to_https: 301 for HTTP under force_https, and prepare goes on.
Redirect ==
  /\ At("redirect")
  /\ LET next == IF handler = "login" THEN "run" ELSE "authenticated"
     IN \/ Pass(next)
        \/ /\ Refused("redirect")
           /\ Finish(301, next)
           /\ UNCHANGED txn

\* check_authenticated: OPTIONS needs no user.
Authenticated ==
  /\ At("authenticated")
  /\ \/ Pass(IF handler = "logout" THEN "run" ELSE "permission")
     \/ /\ method # "OPTIONS"
        /\ Refused("authenticated")
        /\ LeaveBase(401)

\* check_method_permission.
Permission ==
  /\ At("permission")
  /\ \/ Pass("arguments")
     \/ /\ method # "OPTIONS"
        /\ Refused("permission")
        /\ LeaveBase(403)

\* sort, depth and keys are for GET; a selector is one of the categories,
\* and comes with If-Match in a write.
Arguments ==
  /\ At("arguments")
  /\ \/ Pass(AfterBase)
     \/ Refused("arguments") /\ LeaveBase(400)

\* The manager is connected; prepare goes on after finish().
Connected ==
  /\ At("connected")
  /\ \/ Pass("path")
     \/ Refused("connected") /\ Finish(503, "path") /\ UNCHANGED txn

\* parse_url_path: None, or an exception.
Path ==
  /\ At("path")
  /\ \/ Pass("filters")
     \/ Refused("path") /\ Finish(404, "length") /\ UNCHANGED txn
     \/ Refused("path") /\ Fail(500, "run")

\* get_filters_args, and filters are for GET.
Filters ==
  /\ At("filters")
  /\ \/ Pass("precondition")
     \/ Refused("filters") /\ Fail(400, "run")

\* process_if_match: 412, or 200 to a PUT of what is there already.
Precondition ==
  /\ At("precondition")
  /\ LET next == IF handler = "ovsdb" THEN "length" ELSE "run"
     IN \/ Pass(next)
        \/ Refused("precondition") /\ Finish(412, next) /\ UNCHANGED txn
        \/ Refused("precondition") /\ Fail(500, "run")
        \/ /\ method = "PUT"
           /\ Refused("already")
           /\ Finish(200, next)
           /\ UNCHANGED txn

\* Content-Length of a write with a body: KeyError, or too long.
Length ==
  /\ At("length")
  /\ \/ Pass("run")
     \/ /\ method \in {"POST", "PUT", "PATCH"}
        /\ \E code \in {400, 500} : Refused("length") /\ Fail(code, "run")

----------------------------------------------------------------------------
(* The method.                                                              *)

\* RequestHandler._execute: the method of a finished request is not called.
Skip ==
  /\ At("run")
  /\ sent # 0
  /\ Pass("done")

Run(h) ==
  /\ pc = "run"
  /\ sent = 0
  /\ handler = h
  /\ ran' = TRUE
  /\ UNCHANGED <<handler, method>>

\* Mutant: a result is written and not finished.
ReplyUnfinished(code) ==
  /\ refusals' = IF Good(code) THEN refusals ELSE Append(refusals, "run")
  /\ IF code = 200 THEN pc' = "done" /\ UNCHANGED <<sent, audit>>
     ELSE Finish(code, "done")
  /\ UNCHANGED txn

\* What a method that has no transaction ends with.
Reply(code) ==
  /\ refusals' = IF Good(code) THEN refusals ELSE Append(refusals, "run")
  /\ Finish(code, "done")
  /\ UNCHANGED txn

\* GET of an OVSDB resource; 400 for a result with "error".
Read ==
  /\ Run("ovsdb")
  /\ method = "GET"
  /\ \E code \in {200, 400, 404, 500} : Reply(code)

Options == Run("ovsdb") /\ method = "OPTIONS" /\ Reply(200)

\* No transaction is made: the body is not JSON, or get_new_transaction finds
\* one that was never aborted.
BadBody ==
  /\ Run("ovsdb")
  /\ \/ method \in {"POST", "PUT", "PATCH"} /\ Reply(400)
     \/ method \in Writes /\ Reply(500)

\* The resource code raises before it commits: APIException or another
\* exception aborts, a ValueError does not (DELETE has no such clause).
Raise ==
  /\ Run("ovsdb")
  /\ method \in Writes
  /\ Refused("run")
  /\ \E code \in {400, 404, 405, 500} : Finish(code, "done")
  /\ txn' \in {"aborted"} \cup (IF method = "DELETE" THEN {} ELSE {"open"})

\* The resource code commits.
Commit ==
  /\ Run("ovsdb")
  /\ method \in Writes
  /\ txn' \in {"incomplete", "success", "unchanged", "error", "try_again"}
  /\ pc' = IF txn' = "incomplete" THEN "waiting" ELSE "complete"
  /\ UNCHANGED <<refusals, sent, audit>>

\* check_transactions sets the event (OvsdbManager).
Woken ==
  /\ At("waiting")
  /\ txn' \in {"success", "unchanged", "error", "try_again"}
  /\ pc' = "complete"
  /\ UNCHANGED <<refusals, sent, audit>>

\* transaction_complete: the status code of each method.
CodeOf(status) ==
  IF status = "unchanged" THEN IF method = "PATCH" THEN 204 ELSE 200
  ELSE CASE method = "POST" -> 201
         [] method = "PUT" -> 200
         [] OTHER -> 204

\* get_error() of ERROR is JSON and becomes an APIException.  The text of
\* TRY_AGAIN is not JSON: ValueError, which DELETE takes for unexpected.
ErrorOf(status) == IF status = "try_again" /\ method = "DELETE" THEN 500 ELSE 400

\* Mutant: whatever is not ERROR is taken for done.
CompleteUnlessError ==
  /\ At("complete")
  /\ IF txn # "error"
     THEN Finish(CodeOf(txn), "done") /\ UNCHANGED refusals
     ELSE Refused("run") /\ Finish(ErrorOf(txn), "done")
  /\ UNCHANGED txn

\* The Location of a POST is set last, and set_header may refuse it (a line
\* break, or thousands of characters): ValueError, though the row is there.
LocationRefused ==
  /\ method = "POST"
  /\ Refused("location")
  /\ Finish(400, "done")

Complete ==
  /\ At("complete")
  /\ \/ /\ txn \in {"success", "unchanged"}
        /\ Finish(CodeOf(txn), "done")
        /\ UNCHANGED refusals
     \/ /\ txn \in {"success", "unchanged"}
        /\ LocationRefused
     \/ /\ txn \in {"error", "try_again"}
        /\ Refused("run")
        /\ Finish(ErrorOf(txn), "done")
  /\ UNCHANGED txn

\* The methods of CustomRESTHandler: the controller does it, or raises.
CustomMethod ==
  /\ Run("custom")
  /\ \/ /\ txn' = "success"
        /\ Finish(CASE method = "POST" -> 201
                    [] method \in {"PUT", "GET"} -> 200
                    [] OTHER -> 204, "done")
        /\ UNCHANGED refusals
     \/ /\ Refused("run")
        /\ \E code \in {400, 404, 405, 500} : Finish(code, "done")
        /\ UNCHANGED txn
     \/ \* no Content-Length
        /\ method \in {"POST", "PUT", "PATCH"}
        /\ Refused("run")
        /\ Finish(411, "done")
        /\ UNCHANGED txn

\* POST checks the user's permissions and the password, GET the session.
Login ==
  /\ Run("login")
  /\ \/ txn' = "success" /\ Finish(200, "done") /\ UNCHANGED refusals
     \/ /\ Refused("run")
        /\ \E code \in IF method = "POST" THEN {400, 401, 500} ELSE {401, 500} :
             Finish(code, "done")
        /\ UNCHANGED txn

Logout ==
  /\ Run("logout")
  /\ \/ txn' = "success" /\ Finish(200, "done") /\ UNCHANGED refusals
     \/ Refused("run") /\ Finish(500, "done") /\ UNCHANGED txn

\* The steps that a handler takes without waiting for a transaction.
Unaided ==
  \/ Redirect \/ Authenticated \/ Permission \/ Arguments \/ Connected
  \/ Path \/ Filters \/ Precondition \/ Length
  \/ Skip \/ Options \/ BadBody \/ Raise \/ Commit \/ Complete
  \/ CustomMethod \/ Login \/ Logout

\* Every step but that of a GET, which Reading divides.
StepButRead == Unaided \/ Woken

Step == StepButRead \/ Read

Done == pc = "done" /\ UNCHANGED vars

Next == Step \/ Done

\* The loop runs every step of a handler.  Whether one that waits is woken is up
\* to the manager, which may pass its transaction over (OvsdbManager), and a GET
\* may wait for its fetches.
Spec == Init /\ [][Next]_vars /\ WF_vars(Unaided)

----------------------------------------------------------------------------
TypeOK ==
  /\ handler \in Handlers
  /\ method \in MethodsOf(handler)
  /\ pc \in Stages
  /\ refusals \in Seq(Checks \cup {"already", "run", "location"})
  /\ sent \in {0} \cup 200 .. 599
  /\ audit \in Seq(BOOLEAN)
  /\ ran \in BOOLEAN
  /\ txn \in {"none", "open", "incomplete", "success", "unchanged", "error",
              "try_again", "aborted"}

\* However prepare() goes on after a refusal, of its own or of its parent,
\* the method of a refused request is never run.
RefusedRunsNothing == ran => \A i \in DOMAIN refusals : refusals[i] \in {"run", "location"}

\* The status each check answers with when it is the first to fail.
StatusOf(check) ==
  CASE check = "redirect"      -> {301}
    [] check = "authenticated" -> {401}
    [] check = "permission"    -> {403}
    [] check \in {"arguments", "filters"} -> {400}
    [] check = "connected"     -> {503}
    [] check = "path"          -> {404, 500}
    [] check = "precondition"  -> {412, 500}
    [] check = "length"        -> {400, 500}
    [] check = "already" -> {200}
    [] OTHER -> 400 .. 599

\* A request may fail several checks, and the later ones set a status and
\* write too: the client is told the first.
FirstRefusalIsTold == refusals # <<>> /\ pc = "done" => sent \in StatusOf(refusals[1])

\* The write is known to be done, or was found done by process_if_match.
Effect == \/ txn \in {"success", "unchanged"}
          \/ refusals # <<>> /\ refusals[1] = "already"

\* A write is audited once, as what was told; it is told as successful only if
\* it is known to be done, and if it is, but for a POST whose Location is
\* refused, however often prepare() refused it and whatever raised in between.
ToldAsDone ==
  pc = "done" /\ method \in Writes =>
    /\ audit = <<Good(sent)>>
    /\ Good(sent) <=> Effect /\ refusals # <<"location">>

\* A write that is known to be done is told so, which the code does not ensure.
DoneIsTold == pc = "done" /\ method \in Writes /\ Effect => Good(sent)

=============================================================================
