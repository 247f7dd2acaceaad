----------------------------- MODULE TxnService -----------------------------
(***************************************************************************)
(* What the REST daemon promises to a client that writes, whatever happens  *)
(* between it and OVSDB: one answer per request, "success" only for a       *)
(* change the database has made, a definite failure only for a change that  *)
(* it has not made and never will.  Only "try_again" leaves that open.      *)
(***************************************************************************)

CONSTANT Requests

VARIABLES
  pc,        \* "new", "waiting" for the database, or "answered"
  answer,    \* what the client was told
  sent,      \* what the database has received and not decided
  decision   \* what the database did

vars == <<pc, answer, sent, decision>>

\* Answers to what is refused before anything reaches the database.
Refusals == {"unavailable", "invalid", "bad_request", "unchanged", "try_again"}

Init ==
  /\ pc = [r \in Requests |-> "new"]
  /\ answer = [r \in Requests |-> "none"]
  /\ sent = {}
  /\ decision = [r \in Requests |-> "undecided"]

Answer(r, a) ==
  /\ pc' = [pc EXCEPT ![r] = "answered"]
  /\ answer' = [answer EXCEPT ![r] = a]
  /\ UNCHANGED <<sent, decision>>

Refuse(r, a) ==
  /\ pc[r] = "new"
  /\ a \in Refusals
  /\ Answer(r, a)

\* What is submitted may be lost on its way.
Submit(r) ==
  /\ pc[r] = "new"
  /\ pc' = [pc EXCEPT ![r] = "waiting"]
  /\ sent' \in {sent, sent \cup {r}}
  /\ UNCHANGED <<answer, decision>>

\* The database may decide after the daemon has given up waiting for it.
Decide(r, d) ==
  /\ r \in sent
  /\ pc[r] = "waiting" \/ answer[r] = "try_again"
  /\ decision[r] = "undecided"
  /\ d \in {"applied", "rejected"}
  /\ decision' = [decision EXCEPT ![r] = d]
  /\ sent' = sent \ {r}
  /\ UNCHANGED <<pc, answer>>

Report(r, a) ==
  /\ pc[r] = "waiting"
  /\ \/ a = "success" /\ decision[r] = "applied"
     \/ a = "error" /\ decision[r] = "rejected"
     \/ a = "try_again"
  /\ Answer(r, a)

Next ==
  \E r \in Requests :
    \/ \E a \in Refusals : Refuse(r, a)
    \/ Submit(r)
    \/ \E d \in {"applied", "rejected"} : Decide(r, d)
    \/ \E a \in {"success", "error", "try_again"} : Report(r, a)

Spec == Init /\ [][Next]_vars
=============================================================================
