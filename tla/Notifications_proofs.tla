-------------------------- MODULE Notifications_proofs --------------------------
(* What clients are told, for any rows, collections and subscriptions and any  *)
(* number of changes.                                                          *)
EXTENDS Notifications, FiniteSetTheorems, TLAPS

----------------------------------------------------------------------------
(* The inductive invariant, first what holds whatever the updates are.         *)

\* What there is to tell of a row.
Truth(r) == IF Live(r) THEN rows[r] ELSE "unknown"

\* Nothing is pending or collected but while its callback runs, and changes
\* are tracked until all callbacks have run.
PhaseInv ==
  /\ callback = "none" => pending = {}
  /\ callback # "changes" => outbox = {}
  /\ callback = "check" => pending \subseteq {s \in Subs : subTrack[s] # {}}
  /\ callback = "changes" => pending \subseteq served
  /\ callback \notin todo
  /\ Idle => /\ \A r \in Rows : track[r] = {}
             /\ \A s \in Subs : subTrack[s] = {}

\* A subscription to a row came after the row.
RowInv ==
  \A s \in Subs : IsRow(s) /\ subs[s] # "unborn" =>
    rows[Target[s]] # "unborn" /\ "create" \notin track[Target[s]]

TruthInv ==
  /\ \A r \in Rows : "delete" \in track[r] => ~Live(r)
  /\ \A s \in Subs : rows_to_uri[s] \subseteq Scope(s)
  /\ \A m \in outbox : m[1] \in served /\ m[2] \in Scope(m[1]) /\ m[3] = Truth(m[2])

----------------------------------------------------------------------------
(* The same, as long as the updates are plain.                                 *)

\* A row changes once, and with it only rows of its collection.
RowOnce(r) ==
  /\ track[r] \in {{}, {"create"}, {"update"}, {"delete"}}
  /\ track[r] \in {{"create"}, {"update"}} => Live(r)

Together(q, r) ==
  q # r /\ track[q] # {} /\ track[r] # {} =>
    track[r] # {"update"} /\ CollectionOf[q] = CollectionOf[r]

SubOnce(s) ==
  /\ subTrack[s] \in {{}, {"create"}, {"delete"}}
  /\ subTrack[s] = {"create"} => subs[s] = "a"
  /\ subTrack[s] = {"delete"} => subs[s] = "gone"

PlainInv ==
  /\ stale = {}
  /\ \A r \in Rows : RowOnce(r)
  /\ \A q, r \in Rows : Together(q, r)
  /\ \A s \in Subs : SubOnce(s)

\* The check callback has not come to the change of a subscription.
Unchecked(s) == subTrack[s] # {} /\ ("check" \in todo \/ (callback = "check" /\ s \in pending))

ServedInv == \A s \in Subs : ~Unchecked(s) => Served(s)

\* A subscription that is to be served has been told nothing.
NewInv ==
  \A s \in Subs : subs[s] = "unborn" \/ (Unchecked(s) /\ subTrack[s] = {"create"}) =>
    s \notin served /\ \A r \in Rows : view[s][r] = "unknown"

\* The changes callback has not come to a subscription.
Untold(s) == "changes" \in todo \/ (callback = "changes" /\ s \in pending)

RightUri(s, r) == IsRow(s) \/ (r \in rows_to_uri[s] <=> Live(r))

Right(s, r) ==
  /\ IF IsRow(s) THEN view[s][r] = Truth(r) ELSE view[s][r] # "unknown" <=> Live(r)
  /\ RightUri(s, r)

\* What has not changed is right, and the deletion of a row can be told.
UntoldInv ==
  \A s \in served : Untold(s) => \A r \in Scope(s) :
    /\ track[r] = {} \/ (track[r] = {"update"} /\ ~IsRow(s)) => Right(s, r)
    /\ track[r] = {"delete"} /\ ~IsRow(s) => (view[s][r] # "unknown" <=> r \in rows_to_uri[s])

\* All that the client has not been told is on its way.
ToldInv ==
  \A s \in served : ~Untold(s) => \A r \in Scope(s) :
    Right(s, r) \/ (RightUri(s, r) /\ \E m \in outbox : m[1] = s /\ m[2] = r)

PlainPart == PlainInv /\ ServedInv /\ NewInv /\ UntoldInv /\ ToldInv

IInv ==
  /\ TypeOK /\ unusual \in Nat
  /\ PhaseInv /\ RowInv /\ TruthInv
  /\ unusual = 0 => PlainPart

----------------------------------------------------------------------------
(* What an update may do.                                                     *)

\* From x to y, with the changes t.
RowStep(x, y, t) ==
  \/ y = x /\ t = {}
  \/ x = "unborn" /\ y = "a" /\ t = {"create"}
  \/ x = "unborn" /\ y = "gone" /\ t = {"create", "delete"}
  \/ x \in Contents /\ y = "gone" /\ t \in {{"delete"}, {"update", "delete"}}
  \/ x \in Contents /\ y \in Contents /\ t = {"update"}

SubStep(x, y, t) ==
  \/ y = x /\ t = {}
  \/ x = "unborn" /\ y = "a" /\ t = {"create"}
  \/ x = "unborn" /\ y = "gone" /\ t = {"create", "delete"}
  \/ x = "a" /\ y = "gone" /\ t = {"delete"}

\* The changes of one run of the IDL are steps.
LEMMA ChangesAreSteps ==
  ASSUME NEW x \in Contents \cup {"unborn", "gone"}, NEW c \in Changes(x)
  PROVE  RowStep(x, c[1], c[2])
<1>1. CASE x = "unborn"
  <2>1. Changes("unborn") = {<<"a", {"create"}>>, <<"gone", {"create", "delete"}>>}
    BY DEF Changes, Contents
  <2>2. c \in {<<"a", {"create"}>>, <<"gone", {"create", "delete"}>>}
    BY <1>1, <2>1
  <2>3. QED
    BY <1>1, <2>2 DEF RowStep
<1>2. CASE x \in Contents
  <2>1. c \in {<<"gone", {"delete"}>>, <<"gone", {"update", "delete"}>>}
              \cup {<<y, {"update"}>> : y \in Contents \ {x}}
    BY <1>2 DEF Changes, Contents
  <2>2. CASE c \in {<<"gone", {"delete"}>>, <<"gone", {"update", "delete"}>>}
    BY <1>2, <2>2 DEF RowStep
  <2>3. CASE c \in {<<y, {"update"}>> : y \in Contents \ {x}}
    BY <1>2, <2>3 DEF RowStep
  <2>4. QED
    BY <2>1, <2>2, <2>3
<1>3. CASE x = "gone"
  BY <1>3 DEF Changes, Contents
<1>4. QED
  BY <1>1, <1>2, <1>3

\* So are those of a subscription.
LEMMA SubChangesAreSteps ==
  ASSUME NEW x \in {"unborn", "a", "gone"}, NEW c \in SubChanges(x)
  PROVE  SubStep(x, c[1], c[2])
<1>1. x \in Contents \cup {"unborn", "gone"} /\ c \in Changes(x) /\ "update" \notin c[2]
  BY DEF SubChanges, Contents
<1>2. RowStep(x, c[1], c[2])
  BY <1>1, ChangesAreSteps
<1>3. QED
  BY <1>1, <1>2 DEF RowStep, SubStep, Contents

\* The sets of changes of a step.
LEMMA StepTypes ==
  /\ \A x \in Contents \cup {"unborn", "gone"} : \A y, t : RowStep(x, y, t) =>
       y \in Contents \cup {"unborn", "gone"} /\ t \subseteq {"create", "update", "delete"}
  /\ \A x \in {"unborn", "a", "gone"} : \A y, t : SubStep(x, y, t) =>
       y \in {"unborn", "a", "gone"} /\ t \subseteq {"create", "delete"}
BY DEF RowStep, SubStep, Contents

\* An update makes a step, or none, of every row and every subscription, and
\* no subscription to a row that it brings.
LEMMA UpdatesAreSteps ==
  ASSUME TypeOK, NEW f \in RowUpdates, NEW g \in SubUpdates, Updates(f, g)
  PROVE  /\ DOMAIN f \subseteq Rows /\ DOMAIN g \subseteq Subs
         /\ \A r \in Rows : RowStep(rows[r], rows'[r], Tracked(rows, f)[r])
         /\ \A s \in Subs : SubStep(subs[s], subs'[s], Tracked(subs, g)[s])
         /\ rows' \in [Rows -> Contents \cup {"unborn", "gone"}]
         /\ subs' \in [Subs -> {"unborn", "a", "gone"}]
         /\ Tracked(rows, f) \in [Rows -> SUBSET {"create", "update", "delete"}]
         /\ Tracked(subs, g) \in [Subs -> SUBSET {"create", "delete"}]
         /\ \A s \in Subs : IsRow(s) /\ subs[s] = "unborn" /\ subs'[s] # "unborn" =>
              rows[Target[s]] # "unborn"
<1>1. DOMAIN rows = Rows /\ DOMAIN subs = Subs
  BY DEF TypeOK
<1>2. DOMAIN f \subseteq Rows /\ \A r \in DOMAIN f : f[r] \in Changes(rows[r])
  BY DEF RowUpdates, Few
<1>3. DOMAIN g \subseteq Subs /\ \A s \in DOMAIN g : g[s] \in SubChanges(subs[s])
  BY DEF SubUpdates, Few
<1>4. /\ rows' = [r \in Rows |-> IF r \in DOMAIN f THEN f[r][1] ELSE rows[r]]
      /\ subs' = [s \in Subs |-> IF s \in DOMAIN g THEN g[s][1] ELSE subs[s]]
  BY <1>1 DEF Updates, After
<1>5. /\ Tracked(rows, f) = [r \in Rows |-> IF r \in DOMAIN f THEN f[r][2] ELSE {}]
      /\ Tracked(subs, g) = [s \in Subs |-> IF s \in DOMAIN g THEN g[s][2] ELSE {}]
  BY <1>1 DEF Tracked
<1>6. ASSUME NEW r \in Rows
      PROVE  RowStep(rows[r], rows'[r], Tracked(rows, f)[r])
  <2>1. CASE r \in DOMAIN f
    <3>1. rows[r] \in Contents \cup {"unborn", "gone"}
      BY DEF TypeOK
    <3>2. RowStep(rows[r], f[r][1], f[r][2])
      BY <1>2, <2>1, <3>1, ChangesAreSteps
    <3>3. QED
      BY <1>4, <1>5, <2>1, <3>2
  <2>2. CASE r \notin DOMAIN f
    BY <1>4, <1>5, <2>2 DEF RowStep
  <2>3. QED
    BY <2>1, <2>2
<1>7. ASSUME NEW s \in Subs
      PROVE  SubStep(subs[s], subs'[s], Tracked(subs, g)[s])
  <2>1. CASE s \in DOMAIN g
    <3>1. subs[s] \in {"unborn", "a", "gone"}
      BY DEF TypeOK
    <3>2. SubStep(subs[s], g[s][1], g[s][2])
      BY <1>3, <2>1, <3>1, SubChangesAreSteps
    <3>3. QED
      BY <1>4, <1>5, <2>1, <3>2
  <2>2. CASE s \notin DOMAIN g
    BY <1>4, <1>5, <2>2 DEF SubStep
  <2>3. QED
    BY <2>1, <2>2
<1>8. /\ \A r \in Rows : rows[r] \in Contents \cup {"unborn", "gone"}
      /\ \A s \in Subs : subs[s] \in {"unborn", "a", "gone"}
  BY DEF TypeOK
<1>9. /\ \A r \in Rows : /\ rows'[r] \in Contents \cup {"unborn", "gone"}
                         /\ Tracked(rows, f)[r] \subseteq {"create", "update", "delete"}
      /\ \A s \in Subs : /\ subs'[s] \in {"unborn", "a", "gone"}
                         /\ Tracked(subs, g)[s] \subseteq {"create", "delete"}
  BY <1>6, <1>7, <1>8, StepTypes
<1>10. /\ rows' \in [Rows -> Contents \cup {"unborn", "gone"}]
       /\ subs' \in [Subs -> {"unborn", "a", "gone"}]
  BY <1>4, <1>9
<1>11. /\ Tracked(rows, f) \in [Rows -> SUBSET {"create", "update", "delete"}]
       /\ Tracked(subs, g) \in [Subs -> SUBSET {"create", "delete"}]
  BY <1>5, <1>9
<1>12. \A s \in Subs : IsRow(s) /\ subs[s] = "unborn" /\ subs'[s] # "unborn" =>
         rows[Target[s]] # "unborn"
  BY <1>4 DEF Updates, Accepted
<1>13. QED
  BY <1>2, <1>3, <1>6, <1>7, <1>10, <1>11, <1>12

\* Two changes are not one.
LEMMA PairsAreNotSingle ==
  ASSUME NEW x, NEW y, x # y
  PROVE  Cardinality({x, y}) # 1
<1>1. IsFiniteSet({x}) /\ IsFiniteSet({x} \cup {y}) /\ {x} \cup {y} = {x, y}
  BY FS_Singleton, FS_AddElement
<1>2. \A z : {x, y} # {z}
  OBVIOUS
<1>3. QED
  BY <1>1, <1>2, FS_Singleton

\* A plain update changes what it changes once.
LEMMA PlainIsSingle ==
  ASSUME TypeOK, NEW f \in RowUpdates, NEW g \in SubUpdates, Updates(f, g), Plain(f, g)
  PROVE  /\ \A r \in Rows : Tracked(rows, f)[r] \in {{}, {"create"}, {"update"}, {"delete"}}
         /\ \A q, r \in Rows : q # r /\ Tracked(rows, f)[q] # {} /\ Tracked(rows, f)[r] # {} =>
              Tracked(rows, f)[r] # {"update"} /\ CollectionOf[q] = CollectionOf[r]
         /\ \A s \in Subs : Tracked(subs, g)[s] \in {{}, {"create"}, {"delete"}}
<1>1. DOMAIN rows = Rows /\ DOMAIN subs = Subs
  BY DEF TypeOK
<1>2. /\ \A r \in Rows : Tracked(rows, f)[r] = IF r \in DOMAIN f THEN f[r][2] ELSE {}
      /\ \A s \in Subs : Tracked(subs, g)[s] = IF s \in DOMAIN g THEN g[s][2] ELSE {}
  BY <1>1 DEF Tracked
<1>3. /\ \A r \in Rows : RowStep(rows[r], rows'[r], Tracked(rows, f)[r])
      /\ \A s \in Subs : SubStep(subs[s], subs'[s], Tracked(subs, g)[s])
  BY UpdatesAreSteps
<1>4. /\ Cardinality({"create", "delete"}) # 1
      /\ Cardinality({"update", "delete"}) # 1
  BY PairsAreNotSingle
<1>5. /\ \A r \in Rows : /\ Tracked(rows, f)[r] # {"create", "delete"}
                         /\ Tracked(rows, f)[r] # {"update", "delete"}
      /\ \A s \in Subs : Tracked(subs, g)[s] # {"create", "delete"}
  <2>1. /\ \A r \in DOMAIN f : Cardinality(f[r][2]) = 1
        /\ \A s \in DOMAIN g : Cardinality(g[s][2]) = 1
    BY DEF Plain
  <2>2. /\ \A r \in Rows : Tracked(rows, f)[r] = {} \/ Cardinality(Tracked(rows, f)[r]) = 1
        /\ \A s \in Subs : Tracked(subs, g)[s] = {} \/ Cardinality(Tracked(subs, g)[s]) = 1
    BY <1>2, <2>1
  <2>3. QED
    BY <1>4, <2>2
<1>6. \A q, r \in Rows : q # r /\ Tracked(rows, f)[q] # {} /\ Tracked(rows, f)[r] # {} =>
        Tracked(rows, f)[r] # {"update"} /\ CollectionOf[q] = CollectionOf[r]
  BY <1>2 DEF Plain
<1>7. QED
  BY <1>3, <1>5, <1>6 DEF RowStep, SubStep

----------------------------------------------------------------------------
(* The steps.                                                                 *)

\* At first there are no subscriptions.
LEMMA InitIInv == Init => IInv
<1> SUFFICES ASSUME Init PROVE IInv
  OBVIOUS
<1>1. TypeOK
  <2>1. rows \in [Rows -> Contents \cup {"unborn", "gone"}]
    BY DEF Init, Contents
  <2>2. QED
    BY <2>1 DEF Init, TypeOK
<1>2. PhaseInv /\ RowInv /\ TruthInv
  BY DEF Init, PhaseInv, RowInv, TruthInv
<1>3. PlainInv /\ UntoldInv /\ ToldInv
  BY DEF Init, PlainInv, RowOnce, Together, SubOnce, UntoldInv, ToldInv
<1>4. ServedInv /\ NewInv
  BY DEF Init, ServedInv, Served, NewInv
<1>5. QED
  BY <1>1, <1>2, <1>3, <1>4 DEF IInv, PlainPart, Init

\* A row that something subscribes to is not a new one.
LEMMA UpdatesKeepRows ==
  ASSUME IInv, NEW f \in RowUpdates, NEW g \in SubUpdates, Updates(f, g)
  PROVE  \A s \in Subs : IsRow(s) /\ subs'[s] # "unborn" =>
           /\ rows[Target[s]] # "unborn" /\ rows'[Target[s]] # "unborn"
           /\ "create" \notin Tracked(rows, f)[Target[s]]
<1> SUFFICES ASSUME NEW s \in Subs, IsRow(s), subs'[s] # "unborn"
             PROVE  /\ rows[Target[s]] # "unborn" /\ rows'[Target[s]] # "unborn"
                    /\ "create" \notin Tracked(rows, f)[Target[s]]
  OBVIOUS
<1>1. TypeOK /\ RowInv
  BY DEF IInv
<1>2. Target[s] \in Rows
  BY DEF IsRow
<1>3. rows[Target[s]] # "unborn"
  BY <1>1, UpdatesAreSteps DEF RowInv
<1>4. RowStep(rows[Target[s]], rows'[Target[s]], Tracked(rows, f)[Target[s]])
  BY <1>1, <1>2, UpdatesAreSteps
<1>5. QED
  BY <1>3, <1>4 DEF RowStep, Contents

\* An update of the session: the callbacks are yet to run.
LEMMA IdlRunKeepsIInv ==
  ASSUME IInv, Idle, NEW f \in RowUpdates, NEW g \in SubUpdates, IdlRun(f, g)
  PROVE  IInv'
<1>1. /\ TypeOK /\ PhaseInv /\ RowInv /\ TruthInv /\ unusual \in Nat
      /\ todo = {} /\ callback = "none" /\ pending = {} /\ outbox = {}
      /\ \A r \in Rows : track[r] = {}
      /\ \A s \in Subs : subTrack[s] = {}
  BY DEF IInv, Idle, PhaseInv
<1>2. /\ Updates(f, g)
      /\ track' = IF served = {} THEN track ELSE Tracked(rows, f)
      /\ subTrack' = Tracked(subs, g)
      /\ todo' = {"check", "changes"}
      /\ unusual' = IF Plain(f, g) THEN unusual ELSE unusual + 1
      /\ UNCHANGED <<stale, served, rows_to_uri, callback, pending, outbox, view>>
  BY DEF IdlRun, handlerVars
<1>3. /\ \A r \in Rows : RowStep(rows[r], rows'[r], Tracked(rows, f)[r])
      /\ \A s \in Subs : SubStep(subs[s], subs'[s], Tracked(subs, g)[s])
      /\ rows' \in [Rows -> Contents \cup {"unborn", "gone"}]
      /\ subs' \in [Subs -> {"unborn", "a", "gone"}]
      /\ Tracked(rows, f) \in [Rows -> SUBSET {"create", "update", "delete"}]
      /\ Tracked(subs, g) \in [Subs -> SUBSET {"create", "delete"}]
  BY <1>1, <1>2, UpdatesAreSteps
<1>4. \A s \in Subs : IsRow(s) /\ subs'[s] # "unborn" =>
        /\ rows[Target[s]] # "unborn" /\ rows'[Target[s]] # "unborn"
        /\ "create" \notin Tracked(rows, f)[Target[s]]
  BY <1>2, UpdatesKeepRows
<1>5. TypeOK' /\ unusual' \in Nat
  BY <1>1, <1>2, <1>3 DEF TypeOK
<1>6. PhaseInv'
  BY <1>1, <1>2 DEF PhaseInv, Idle
<1>7. \A r \in Rows : track'[r] = {} \/ track'[r] = Tracked(rows, f)[r]
  BY <1>1, <1>2
<1>8. RowInv'
  <2> SUFFICES ASSUME NEW s \in Subs, IsRow(s), subs'[s] # "unborn"
               PROVE  rows'[Target[s]] # "unborn" /\ "create" \notin track'[Target[s]]
    BY DEF RowInv, IsRow
  <2>1. QED
    BY <1>4, <1>7 DEF IsRow
<1>9. TruthInv'
  <2>1. ASSUME NEW r \in Rows, "delete" \in track'[r]
        PROVE  ~Live(r)'
    BY <1>3, <1>7, <2>1 DEF RowStep, Live, Contents
  <2>2. \A s \in Subs : Scope(s)' = Scope(s)
    BY DEF Scope, IsRow
  <2>3. QED
    BY <1>1, <1>2, <2>1, <2>2 DEF TruthInv
<1>10. ASSUME unusual' = 0
       PROVE  PlainPart'
  <2>1. Plain(f, g) /\ PlainInv /\ ServedInv /\ NewInv /\ ToldInv
    BY <1>1, <1>2, <1>10 DEF IInv, PlainPart
  <2>2. /\ \A r \in Rows : Tracked(rows, f)[r] \in {{}, {"create"}, {"update"}, {"delete"}}
        /\ \A q, r \in Rows : q # r /\ Tracked(rows, f)[q] # {} /\ Tracked(rows, f)[r] # {} =>
             Tracked(rows, f)[r] # {"update"} /\ CollectionOf[q] = CollectionOf[r]
        /\ \A s \in Subs : Tracked(subs, g)[s] \in {{}, {"create"}, {"delete"}}
    BY <1>1, <1>2, <2>1, PlainIsSingle
  <2>3. PlainInv'
    <3>1. \A r \in Rows : RowOnce(r)'
      BY <1>3, <1>7, <2>2 DEF RowOnce, RowStep, Live, Contents
    <3>2. \A q, r \in Rows : Together(q, r)'
      BY <1>7, <2>2 DEF Together
    <3>3. \A s \in Subs : SubOnce(s)'
      BY <1>2, <1>3, <2>2 DEF SubOnce, SubStep
    <3>4. stale' = {}
      BY <1>2, <2>1 DEF PlainInv
    <3>5. QED
      BY <3>1, <3>2, <3>3, <3>4 DEF PlainInv
  <2>4. ServedInv'
    <3> SUFFICES ASSUME NEW s \in Subs, subTrack'[s] = {}
                 PROVE  Served(s)'
      BY <1>2 DEF ServedInv, Unchecked
    <3>1. subs'[s] = subs[s]
      BY <1>2, <1>3 DEF SubStep
    <3>2. Served(s)
      BY <1>1, <2>1 DEF ServedInv, Unchecked
    <3>3. IsRow(s) /\ subs'[s] = "a" /\ Live(Target[s])' => Live(Target[s])
      BY <1>3, <1>4 DEF IsRow, Live, RowStep, Contents
    <3>4. QED
      BY <1>2, <3>1, <3>2, <3>3 DEF Served, IsRow
  <2>5. NewInv'
    <3> SUFFICES ASSUME NEW s \in Subs, subs'[s] = "unborn" \/ subTrack'[s] = {"create"}
                 PROVE  s \notin served /\ \A r \in Rows : view[s][r] = "unknown"
      BY <1>2 DEF NewInv, Unchecked
    <3>1. subs[s] = "unborn"
      BY <1>2, <1>3 DEF SubStep
    <3>2. QED
      BY <2>1, <3>1 DEF NewInv
  <2>6. UntoldInv'
    <3> SUFFICES ASSUME NEW s \in served, NEW r \in Scope(s)
                 PROVE  /\ track'[r] = {} \/ (track'[r] = {"update"} /\ ~IsRow(s)) => Right(s, r)'
                        /\ track'[r] = {"delete"} /\ ~IsRow(s) =>
                             (view[s][r] # "unknown" <=> r \in rows_to_uri[s])
      BY <1>2 DEF UntoldInv, Scope, IsRow
    <3>1. r \in Rows /\ s \in Subs
      BY <1>1 DEF Scope, IsRow, TypeOK
    <3>2. Right(s, r)
      BY <1>1, <2>1 DEF ToldInv, Untold
    <3>3. track'[r] = Tracked(rows, f)[r]
      BY <1>2
    <3>4. CASE track'[r] = {}
      <4>1. rows'[r] = rows[r]
        BY <1>3, <3>1, <3>3, <3>4, ZenonT(60) DEF RowStep
      <4>2. QED
        BY <1>2, <3>2, <3>4, <4>1 DEF Right, RightUri, Truth, Live, IsRow
    <3>5. CASE track'[r] = {"update"} /\ ~IsRow(s)
      <4>1. Live(r) /\ Live(r)'
        BY <1>3, <3>1, <3>3, <3>5, ZenonT(60) DEF RowStep, Live
      <4>2. QED
        BY <1>2, <3>2, <3>5, <4>1 DEF Right, RightUri, IsRow
    <3>6. CASE track'[r] = {"delete"} /\ ~IsRow(s)
      BY <3>2, <3>6 DEF Right, RightUri
    <3>7. QED
      BY <3>4, <3>5, <3>6
  <2>7. ToldInv'
    BY <1>2 DEF ToldInv, Untold
  <2>8. QED
    BY <2>3, <2>4, <2>5, <2>6, <2>7 DEF PlainPart
<1>11. QED
  BY <1>5, <1>6, <1>8, <1>9, <1>10 DEF IInv

\* A session made again: nothing is told, and what follows is not plain.
LEMMA ReconnectKeepsIInv ==
  ASSUME IInv, Idle, NEW f \in RowUpdates, NEW g \in SubUpdates, Reconnect(f, g)
  PROVE  IInv'
<1>1. /\ TypeOK /\ PhaseInv /\ RowInv /\ TruthInv /\ unusual \in Nat
      /\ todo = {} /\ callback = "none" /\ pending = {} /\ outbox = {}
      /\ \A r \in Rows : track[r] = {}
  BY DEF IInv, Idle, PhaseInv
<1>2. /\ Updates(f, g)
      /\ unusual' = unusual + 1
      /\ stale' = IF served = {} THEN stale ELSE {r \in Rows : rows'[r] \in Contents}
      /\ UNCHANGED <<track, subTrack, served, rows_to_uri, todo, callback, pending, outbox, view>>
  BY DEF Reconnect, handlerVars, callbackVars
<1>3. /\ rows' \in [Rows -> Contents \cup {"unborn", "gone"}]
      /\ subs' \in [Subs -> {"unborn", "a", "gone"}]
  BY <1>1, <1>2, UpdatesAreSteps
<1>4. TypeOK' /\ unusual' \in Nat /\ unusual' # 0
  BY <1>1, <1>2, <1>3 DEF TypeOK
<1>5. PhaseInv'
  BY <1>1, <1>2 DEF PhaseInv, Idle
<1>6. RowInv'
  <2> SUFFICES ASSUME NEW s \in Subs, IsRow(s), subs'[s] # "unborn"
               PROVE  rows'[Target[s]] # "unborn" /\ "create" \notin track'[Target[s]]
    BY DEF RowInv, IsRow
  <2>1. QED
    BY <1>1, <1>2, UpdatesKeepRows DEF IsRow
<1>7. TruthInv'
  <2>1. \A s \in Subs : Scope(s)' = Scope(s)
    BY DEF Scope, IsRow
  <2>2. QED
    BY <1>1, <1>2, <2>1 DEF TruthInv
<1>8. QED
  BY <1>4, <1>5, <1>6, <1>7 DEF IInv

\* The check callback starts with every change of a subscription to look at.
LEMMA StartCheckKeepsIInv ==
  ASSUME IInv, StartCheck
  PROVE  IInv'
<1>1. /\ TypeOK /\ PhaseInv /\ RowInv /\ TruthInv /\ unusual \in Nat
      /\ pending = {} /\ outbox = {}
  BY DEF IInv, StartCheck, PhaseInv
<1>2. /\ callback = "none" /\ "check" \in todo
      /\ callback' = "check"
      /\ todo' = todo \ {"check"}
      /\ pending' = {s \in Subs : subTrack[s] # {}}
      /\ UNCHANGED <<rows, subs, track, subTrack, stale, served, rows_to_uri, outbox, view, unusual>>
  BY DEF StartCheck, replicaVars, handlerVars
<1>3. TypeOK' /\ unusual' \in Nat
  BY <1>1, <1>2 DEF TypeOK
<1>4. PhaseInv'
  BY <1>1, <1>2 DEF PhaseInv, Idle
<1>5. RowInv'
  BY <1>1, <1>2 DEF RowInv, IsRow
<1>6. TruthInv'
  BY <1>1, <1>2 DEF TruthInv, Truth, Live, Scope, IsRow
<1>7. ASSUME unusual' = 0
      PROVE  PlainPart'
  <2>1. PlainPart
    BY <1>2, <1>7 DEF IInv
  <2>2. PlainInv'
    BY <1>2, <2>1 DEF PlainPart, PlainInv, RowOnce, Together, SubOnce, Live
  <2>3. \A s \in Subs : Unchecked(s)' <=> Unchecked(s)
    BY <1>2 DEF Unchecked
  <2>4. ServedInv' /\ NewInv'
    BY <1>2, <2>1, <2>3 DEF PlainPart, ServedInv, NewInv, Served, IsRow, Live
  <2>5. \A s \in served : Untold(s)' <=> Untold(s)
    BY <1>1, <1>2 DEF Untold
  <2>6. UntoldInv'
    BY <1>2, <2>1, <2>5 DEF PlainPart, UntoldInv, Right, RightUri, Truth, Live, Scope, IsRow
  <2>7. ToldInv'
    BY <1>2, <2>1, <2>5 DEF PlainPart, ToldInv, Right, RightUri, Truth, Live, Scope, IsRow
  <2>8. QED
    BY <2>2, <2>4, <2>6, <2>7 DEF PlainPart
<1>8. QED
  BY <1>3, <1>4, <1>5, <1>6, <1>7 DEF IInv

\* The changes callback starts with every subscription that is served; with
\* none when nothing has changed, and then what the clients know is right.
LEMMA StartChangesKeepsIInv ==
  ASSUME IInv, StartChanges
  PROVE  IInv'
<1>1. /\ TypeOK /\ PhaseInv /\ RowInv /\ TruthInv /\ unusual \in Nat
      /\ pending = {} /\ outbox = {}
  BY DEF IInv, StartChanges, PhaseInv
<1>2. /\ callback = "none" /\ "changes" \in todo
      /\ callback' = "changes"
      /\ todo' = todo \ {"changes"}
      /\ pending' = IF stale = {} /\ \A r \in Rows : track[r] = {} THEN {} ELSE served
      /\ UNCHANGED <<rows, subs, track, subTrack, stale, served, rows_to_uri, outbox, view, unusual>>
  BY DEF StartChanges, replicaVars, handlerVars
<1>3. TypeOK' /\ unusual' \in Nat
  BY <1>1, <1>2 DEF TypeOK
<1>4. PhaseInv'
  BY <1>1, <1>2 DEF PhaseInv, Idle
<1>5. RowInv'
  BY <1>1, <1>2 DEF RowInv, IsRow
<1>6. TruthInv'
  BY <1>1, <1>2 DEF TruthInv, Truth, Live, Scope, IsRow
<1>7. ASSUME unusual' = 0
      PROVE  PlainPart'
  <2>1. PlainPart
    BY <1>2, <1>7 DEF IInv
  <2>2. PlainInv'
    BY <1>2, <2>1 DEF PlainPart, PlainInv, RowOnce, Together, SubOnce, Live
  <2>3. \A s \in Subs : Unchecked(s)' <=> Unchecked(s)
    BY <1>2 DEF Unchecked
  <2>4. ServedInv' /\ NewInv'
    BY <1>2, <2>1, <2>3 DEF PlainPart, ServedInv, NewInv, Served, IsRow, Live
  <2>5. \A s \in served : Untold(s)
    BY <1>2 DEF Untold
  <2>6. UntoldInv'
    BY <1>2, <2>1, <2>5 DEF PlainPart, UntoldInv, Right, RightUri, Truth, Live, Scope, IsRow
  <2>7. ToldInv'
    <3> SUFFICES ASSUME NEW s \in served, ~Untold(s)', NEW r \in Scope(s)
                 PROVE  Right(s, r)'
      BY <1>2 DEF ToldInv, Scope, IsRow
    <3>1. r \in Rows /\ track[r] = {}
      BY <1>2 DEF Untold, Scope, IsRow
    <3>2. Right(s, r)
      BY <2>1, <2>5, <3>1 DEF PlainPart, UntoldInv
    <3>3. QED
      BY <1>2, <3>2 DEF Right, RightUri, Truth, Live, IsRow
  <2>8. QED
    BY <2>2, <2>4, <2>6, <2>7 DEF PlainPart
<1>8. QED
  BY <1>3, <1>4, <1>5, <1>6, <1>7 DEF IInv

\* One change of a subscription is looked at: of the others nothing changes,
\* and this one, when it is served from now on, knows all there is.
LEMMA CheckSubscriptionKeepsIInv ==
  ASSUME IInv, NEW s \in Subs, CheckSubscription(s)
  PROVE  IInv'
<1>1. /\ TypeOK /\ PhaseInv /\ RowInv /\ TruthInv /\ unusual \in Nat
      /\ callback = "check" /\ s \in pending /\ outbox = {}
      /\ pending \subseteq {v \in Subs : subTrack[v] # {}} /\ "check" \notin todo
  BY DEF IInv, CheckSubscription, PhaseInv
<1>2. UNCHANGED <<rows, subs, track, subTrack, stale, todo, callback, outbox, unusual>>
  BY DEF CheckSubscription, replicaVars
<1>3. \/ /\ "create" \in subTrack[s] /\ subs[s] = "a"
         /\ IsRow(s) /\ ~Live(Target[s])
         /\ UNCHANGED <<served, rows_to_uri, view>> /\ pending' = pending \ {s}
      \/ /\ "create" \in subTrack[s] /\ subs[s] = "a"
         /\ ~(IsRow(s) /\ ~Live(Target[s]))
         /\ Serve(s) /\ pending' = pending \ {s}
      \/ /\ "create" \in subTrack[s] /\ subs[s] # "a" /\ pending' = {}
         /\ UNCHANGED <<served, rows_to_uri, view>>
      \/ /\ "create" \notin subTrack[s] /\ Remove(s) /\ pending' = pending \ {s}
         /\ UNCHANGED <<rows_to_uri, view>>
  BY DEF CheckSubscription, Create, handlerVars
<1>4. Members(s) \subseteq Scope(s) /\ Scope(s) \subseteq Rows
  BY DEF Members, Scope, IsRow
<1>5. ASSUME Serve(s)
      PROVE  /\ view' \in [Subs -> [Rows -> Contents \cup {"unknown"}]]
             /\ rows_to_uri' \in [Subs -> SUBSET Rows]
             /\ view'[s] = [r \in Rows |-> IF r \in Members(s) THEN rows[r] ELSE view[s][r]]
             /\ rows_to_uri'[s] = IF IsRow(s) THEN {} ELSE Members(s)
             /\ served' = served \cup {s}
             /\ \A v \in Subs \ {s} : view'[v] = view[v] /\ rows_to_uri'[v] = rows_to_uri[v]
  <2>1. /\ view \in [Subs -> [Rows -> Contents \cup {"unknown"}]]
        /\ rows_to_uri \in [Subs -> SUBSET Rows]
    BY <1>1 DEF TypeOK
  <2>2. \A r \in Members(s) : rows[r] \in Contents
    BY DEF Members, Live
  <2>3. [r \in Rows |-> IF r \in Members(s) THEN rows[r] ELSE view[s][r]]
          \in [Rows -> Contents \cup {"unknown"}]
    BY <2>1, <2>2
  <2>4. QED
    BY <1>4, <1>5, <2>1, <2>3 DEF Serve
<1>6. /\ served' \subseteq Subs
      /\ view' \in [Subs -> [Rows -> Contents \cup {"unknown"}]]
      /\ rows_to_uri' \in [Subs -> SUBSET Rows]
      /\ pending' \subseteq pending
      /\ \A v \in Subs \ {s} : /\ v \in served' <=> v \in served
                               /\ view'[v] = view[v] /\ rows_to_uri'[v] = rows_to_uri[v]
  <2>1. /\ served \subseteq Subs
        /\ view \in [Subs -> [Rows -> Contents \cup {"unknown"}]]
        /\ rows_to_uri \in [Subs -> SUBSET Rows]
    BY <1>1 DEF TypeOK
  <2>2. CASE Serve(s)
    BY <1>3, <1>5, <2>1, <2>2
  <2>3. CASE UNCHANGED <<served, rows_to_uri, view>>
    BY <1>3, <2>1, <2>3
  <2>4. CASE Remove(s) /\ UNCHANGED <<rows_to_uri, view>>
    BY <1>3, <2>1, <2>4 DEF Remove
  <2>5. QED
    BY <1>3, <2>2, <2>3, <2>4
<1>7. TypeOK' /\ unusual' \in Nat
  BY <1>1, <1>2, <1>6 DEF TypeOK
<1>8. PhaseInv'
  BY <1>1, <1>2, <1>6 DEF PhaseInv, Idle
<1>9. RowInv'
  BY <1>1, <1>2 DEF RowInv, IsRow
<1>10. TruthInv'
  <2>1. rows_to_uri'[s] \subseteq Scope(s)
    BY <1>1, <1>3, <1>4, <1>5 DEF TruthInv
  <2>2. QED
    BY <1>1, <1>2, <1>6, <2>1 DEF TruthInv, Live, Scope, IsRow
<1>11. ASSUME unusual' = 0
       PROVE  PlainPart'
  <2>1. PlainInv /\ ServedInv /\ NewInv /\ UntoldInv /\ ToldInv
    BY <1>2, <1>11 DEF IInv, PlainPart
  <2>2. SubOnce(s) /\ subTrack[s] # {}
    BY <1>1, <2>1 DEF PlainInv
  <2>3. \/ /\ subTrack[s] = {"create"} /\ subs[s] = "a" /\ s \notin served'
           /\ IsRow(s) /\ ~Live(Target[s])
        \/ /\ subTrack[s] = {"create"} /\ subs[s] = "a"
           /\ ~(IsRow(s) /\ ~Live(Target[s])) /\ Serve(s)
        \/ /\ subs[s] = "gone" /\ s \notin served'
    <3>1. subTrack[s] = {"create"} => s \notin served
      BY <1>1, <2>1 DEF NewInv, Unchecked
    <3>2. QED
      BY <1>3, <2>2, <3>1 DEF SubOnce, Remove
  <2>4. pending' = pending \ {s}
    BY <1>3, <2>2 DEF SubOnce
  <2>5. /\ \A v \in Subs \ {s} : Unchecked(v)' <=> Unchecked(v)
        /\ ~Unchecked(s)'
    BY <1>1, <1>2, <2>4 DEF Unchecked
  <2>6. PlainInv'
    BY <1>2, <2>1 DEF PlainInv, RowOnce, Together, SubOnce, Live
  <2>7. ServedInv'
    <3>1. Served(s)'
      BY <1>2, <1>5, <2>3 DEF Served, IsRow, Live
    <3>2. \A v \in Subs \ {s} : Served(v)' <=> Served(v)
      BY <1>2, <1>6 DEF Served, IsRow, Live
    <3>3. QED
      BY <2>1, <2>5, <3>1, <3>2 DEF ServedInv
  <2>8. NewInv'
    BY <1>2, <1>6, <2>1, <2>3, <2>5 DEF NewInv
  <2>9. ASSUME NEW r \in Scope(s), s \in served'
        PROVE  Right(s, r)'
    <3>1. /\ subTrack[s] = {"create"} /\ ~(IsRow(s) /\ ~Live(Target[s])) /\ Serve(s)
          /\ r \in Rows
      BY <1>4, <2>3, <2>9
    <3>2. view[s][r] = "unknown"
      BY <1>1, <2>1, <3>1 DEF NewInv, Unchecked
    <3>3. r \in Members(s) <=> Live(r)
      BY <2>9 DEF Members, Scope, IsRow
    <3>4. view'[s][r] = Truth(r)
      BY <1>5, <3>1, <3>2, <3>3 DEF Truth
    <3>5. view'[s][r] # "unknown" <=> Live(r)
      BY <3>4 DEF Truth, Live, Contents
    <3>6. RightUri(s, r)'
      BY <1>2, <1>5, <3>1, <3>3 DEF RightUri, Live, IsRow
    <3>7. QED
      BY <1>2, <3>4, <3>5, <3>6 DEF Right, Truth, Live, IsRow
  <2>10. /\ \A v \in Subs : Scope(v)' = Scope(v) /\ (Untold(v)' <=> Untold(v))
         /\ \A v \in Subs \ {s} : \A r \in Rows :
              (Right(v, r)' <=> Right(v, r)) /\ (RightUri(v, r)' <=> RightUri(v, r))
    BY <1>1, <1>2, <1>6 DEF Untold, Scope, Right, RightUri, Truth, Live, IsRow
  <2>11. \A v \in Subs : Scope(v) \subseteq Rows
    BY DEF Scope, IsRow
  <2>12. UntoldInv'
    <3> SUFFICES ASSUME NEW v \in served', Untold(v)', NEW r \in Scope(v)'
                 PROVE  /\ track[r] = {} \/ (track[r] = {"update"} /\ ~IsRow(v)) => Right(v, r)'
                        /\ track[r] = {"delete"} /\ ~IsRow(v) =>
                             (view'[v][r] # "unknown" <=> r \in rows_to_uri'[v])
      BY <1>2 DEF UntoldInv, IsRow
    <3>1. v \in Subs /\ r \in Scope(v) /\ r \in Rows /\ Untold(v)
      BY <1>6, <2>10, <2>11
    <3>2. CASE v = s
      BY <2>9, <3>1, <3>2 DEF Right, RightUri, IsRow
    <3>3. CASE v # s
      <4>1. v \in served /\ view'[v] = view[v] /\ rows_to_uri'[v] = rows_to_uri[v]
        BY <1>6, <3>1, <3>3
      <4>2. QED
        BY <2>1, <2>10, <3>1, <3>3, <4>1 DEF UntoldInv
    <3>4. QED
      BY <3>2, <3>3
  <2>13. ToldInv'
    <3> SUFFICES ASSUME NEW v \in served', ~Untold(v)', NEW r \in Scope(v)'
                 PROVE  Right(v, r)'
      BY DEF ToldInv
    <3>1. v \in Subs /\ r \in Scope(v) /\ r \in Rows /\ ~Untold(v)
      BY <1>6, <2>10, <2>11
    <3>2. CASE v = s
      BY <2>9, <3>1, <3>2
    <3>3. CASE v # s
      <4>1. v \in served
        BY <1>6, <3>1, <3>3
      <4>2. Right(v, r)
        BY <1>1, <2>1, <3>1, <4>1 DEF ToldInv
      <4>3. QED
        BY <2>10, <3>1, <3>3, <4>2
    <3>4. QED
      BY <3>2, <3>3
  <2>14. QED
    BY <2>6, <2>7, <2>8, <2>12, <2>13 DEF PlainPart
<1>12. QED
  BY <1>7, <1>8, <1>9, <1>10, <1>11 DEF IInv

----------------------------------------------------------------------------
(* The changes of one subscription.                                           *)

\* What a row subscription is told is true.
LEMMA RowChangesAreTrue ==
  ASSUME TypeOK, TruthInv, NEW s \in served, IsRow(s), RowChanges(s)
  PROVE  /\ pending' \subseteq pending
         /\ outbox' \subseteq outbox \cup {<<s, r, Truth(r)>> : r \in Scope(s)}
         /\ rows_to_uri' = rows_to_uri
<1> DEFINE r == Target[s]
<1>1. r \in Rows /\ Scope(s) = {r}
  BY DEF IsRow, Scope
<1>2. /\ IF "update" \in track[r]
         THEN IF Live(r) THEN Tell(s, {<<r, rows[r]>>}) ELSE Fail
         ELSE IF "delete" \in track[r] THEN Tell(s, {<<r, "unknown">>})
         ELSE Mismatch(s)
      /\ rows_to_uri' = rows_to_uri
  BY DEF RowChanges
<1>3. "delete" \in track[r] => ~Live(r)
  BY <1>1 DEF TruthInv
<1> HIDE DEF r
<1>4. CASE Fail \/ Mismatch(s)
  BY <1>2, <1>4 DEF Fail, Mismatch
<1>5. CASE Tell(s, {<<r, rows[r]>>}) /\ Live(r)
  BY <1>1, <1>2, <1>5 DEF Tell, Truth
<1>6. CASE Tell(s, {<<r, "unknown">>}) /\ ~Live(r)
  BY <1>1, <1>2, <1>6 DEF Tell, Truth
<1>7. QED
  BY <1>2, <1>3, <1>4, <1>5, <1>6

\* As long as updates are plain, it is told whatever changed.
LEMMA RowChangesAreTold ==
  ASSUME TypeOK, TruthInv, RowInv, PlainPart, NEW s \in served, IsRow(s), RowChanges(s),
         Untold(s), NEW r \in Scope(s), UNCHANGED <<rows, view>>
  PROVE  /\ pending' = pending \ {s} /\ outbox \subseteq outbox'
         /\ Right(s, r)' \/ (RightUri(s, r)' /\ \E m \in outbox' : m[1] = s /\ m[2] = r)
<1>1. r \in Rows /\ r = Target[s] /\ s \in Subs
  BY DEF IsRow, Scope, TypeOK
<1>2. IF "update" \in track[r]
      THEN IF Live(r) THEN Tell(s, {<<r, rows[r]>>}) ELSE Fail
      ELSE IF "delete" \in track[r] THEN Tell(s, {<<r, "unknown">>})
      ELSE Mismatch(s)
  BY <1>1 DEF RowChanges
<1>3. RightUri(s, r)'
  BY DEF RightUri, IsRow
<1>4. track[r] \in {{}, {"update"}, {"delete"}}
  BY <1>1 DEF PlainPart, PlainInv, RowOnce, NewInv, RowInv
<1>5. CASE track[r] = {}
  <2>1. Mismatch(s)
    BY <1>2, <1>5
  <2>2. Right(s, r)
    BY <1>5 DEF PlainPart, UntoldInv
  <2>3. Right(s, r)'
    BY <1>3, <2>2 DEF Right, Truth, Live, IsRow
  <2>4. QED
    BY <2>1, <2>3 DEF Mismatch
<1>6. CASE track[r] = {"update"}
  <2>1. Live(r)
    BY <1>1, <1>6 DEF PlainPart, PlainInv, RowOnce
  <2>2. Tell(s, {<<r, rows[r]>>})
    BY <1>2, <1>6, <2>1
  <2>3. <<s, r, rows[r]>> \in outbox'
    BY <2>2 DEF Tell
  <2>4. QED
    BY <1>3, <2>2, <2>3 DEF Tell
<1>7. CASE track[r] = {"delete"}
  <2>1. Tell(s, {<<r, "unknown">>})
    BY <1>2, <1>7
  <2>2. <<s, r, "unknown">> \in outbox'
    BY <2>1 DEF Tell
  <2>3. QED
    BY <1>3, <2>1, <2>2 DEF Tell
<1>8. QED
  BY <1>4, <1>5, <1>6, <1>7

\* What a collection subscription is told is true, and it knows of no rows but
\* those of its collection.
LEMMA CollectionChangesAreTrue ==
  ASSUME TypeOK, TruthInv, NEW s \in served, CollectionChanges(s)
  PROVE  /\ pending' \subseteq pending
         /\ outbox' \subseteq outbox \cup {<<s, r, Truth(r)>> : r \in Scope(s)}
         /\ rows_to_uri' \in [Subs -> SUBSET Rows]
         /\ rows_to_uri'[s] \subseteq Scope(s)
         /\ \A v \in Subs \ {s} : rows_to_uri'[v] = rows_to_uri[v]
<1> DEFINE added == {r \in Rows : "create" \in track[r]}
           deleted == {r \in Rows : "delete" \in track[r]} \ added
           broken == {r \in added : ~Live(r)}
           fine == PartOf(s, added \ broken)
           other == (added \ (broken \cup fine))
                    \cup {r \in Rows \ (added \cup deleted) : track[r] # {} \/ r \in stale}
           known == deleted \cap rows_to_uri[s]
           Taken(P) == [rows_to_uri EXCEPT ![s] = (@ \cup (fine \cap P)) \ (known \cap P)]
           told == {<<r, rows[r]>> : r \in fine} \cup {<<r, "unknown">> : r \in known}
<1>1. \/ rows_to_uri' = Taken(Rows) /\ Tell(s, told)
      \/ /\ \E P \in SUBSET (fine \cup known) : rows_to_uri' = Taken(P)
         /\ Fail \/ Mismatch(s)
  BY DEF CollectionChanges
<1>2. s \in Subs /\ rows_to_uri \in [Subs -> SUBSET Rows]
  BY DEF TypeOK
<1>3. /\ \A r \in fine : r \in Rows /\ r \in Scope(s) /\ Live(r)
      /\ \A r \in known : r \in Scope(s) /\ ~Live(r)
  BY <1>2 DEF PartOf, TruthInv
<1>4. rows_to_uri[s] \subseteq Scope(s) /\ Scope(s) \subseteq Rows
  BY <1>2 DEF TruthInv, Scope, IsRow
<1>5. /\ fine \subseteq Rows /\ fine \subseteq Scope(s)
      /\ \A m \in told : m[1] \in Scope(s) /\ m[2] = Truth(m[1])
  <2>1. ASSUME NEW m \in {<<r, rows[r]>> : r \in fine}
        PROVE  m[1] \in Scope(s) /\ m[2] = Truth(m[1])
    <3> HIDE DEF fine
    <3>1. PICK r \in fine : m = <<r, rows[r]>>
      OBVIOUS
    <3>2. QED
      BY <1>3, <3>1 DEF Truth
  <2>2. ASSUME NEW m \in {<<r, "unknown">> : r \in known}
        PROVE  m[1] \in Scope(s) /\ m[2] = Truth(m[1])
    <3> HIDE DEF known
    <3>1. PICK r \in known : m = <<r, "unknown">>
      OBVIOUS
    <3>2. QED
      BY <1>3, <3>1 DEF Truth
  <2> HIDE DEF fine, known
  <2>3. QED
    BY <1>3, <2>1, <2>2
<1> HIDE DEF fine, known, told, added, deleted, broken, other
<1>6. PICK P : rows_to_uri' = Taken(P)
  BY <1>1
<1>7. /\ rows_to_uri' \in [Subs -> SUBSET Rows]
      /\ rows_to_uri'[s] \subseteq Scope(s)
      /\ \A v \in Subs \ {s} : rows_to_uri'[v] = rows_to_uri[v]
  BY <1>2, <1>4, <1>5, <1>6
<1>8. CASE Tell(s, told)
  BY <1>5, <1>7, <1>8 DEF Tell
<1>9. CASE Fail \/ Mismatch(s)
  BY <1>7, <1>9 DEF Fail, Mismatch
<1>10. QED
  BY <1>1, <1>8, <1>9

\* As long as updates are plain, no exception keeps the others from their
\* changes.
LEMMA CollectionChangesGoOn ==
  ASSUME PlainInv, NEW s, CollectionChanges(s)
  PROVE  pending' = pending \ {s} /\ outbox \subseteq outbox'
<1>1. {r \in {q \in Rows : "create" \in track[q]} : ~Live(r)} = {}
  BY DEF PlainInv, RowOnce
<1>2. (\E M : Tell(s, M)) \/ Mismatch(s)
  BY <1>1 DEF CollectionChanges
<1>3. QED
  BY <1>2 DEF Tell, Mismatch

\* As long as updates are plain, a run that this subscription cannot take has
\* changed no row of its collection, or one that it need not tell.
LEMMA CollectionChangesAreTold ==
  ASSUME TypeOK, TruthInv, PlainPart, NEW s \in served, ~IsRow(s), CollectionChanges(s),
         Untold(s), NEW r \in Scope(s), UNCHANGED <<rows, view>>
  PROVE  Right(s, r)' \/ (RightUri(s, r)' /\ \E m \in outbox' : m[1] = s /\ m[2] = r)
<1> DEFINE added == {q \in Rows : "create" \in track[q]}
           deleted == {q \in Rows : "delete" \in track[q]} \ added
           broken == {q \in added : ~Live(q)}
           fine == PartOf(s, added \ broken)
           other == (added \ (broken \cup fine))
                    \cup {q \in Rows \ (added \cup deleted) : track[q] # {} \/ q \in stale}
           known == deleted \cap rows_to_uri[s]
           Taken(P) == [rows_to_uri EXCEPT ![s] = (@ \cup (fine \cap P)) \ (known \cap P)]
           told == {<<q, rows[q]>> : q \in fine} \cup {<<q, "unknown">> : q \in known}
<1>1. IF broken \cup other = {}
      THEN rows_to_uri' = Taken(Rows) /\ Tell(s, told)
      ELSE /\ \E P \in SUBSET (fine \cup known) : rows_to_uri' = Taken(P)
           /\ (broken # {} /\ Fail) \/ (other # {} /\ Mismatch(s))
  BY DEF CollectionChanges
<1>2. /\ s \in Subs /\ rows_to_uri \in [Subs -> SUBSET Rows]
      /\ rows_to_uri[s] \subseteq Scope(s)
      /\ r \in Rows /\ CollectionOf[r] = Target[s]
      /\ \A q \in Rows : q \in Scope(s) <=> CollectionOf[q] = Target[s]
  BY DEF TypeOK, TruthInv, Scope, IsRow
<1>3. /\ stale = {}
      /\ \A q \in Rows : RowOnce(q)
      /\ \A p, q \in Rows : Together(p, q)
  BY DEF PlainPart, PlainInv
<1>4. /\ \A q \in Rows : q \in fine <=> track[q] = {"create"} /\ q \in Scope(s)
      /\ \A q \in Rows : q \in known <=> track[q] = {"delete"} /\ q \in rows_to_uri[s]
      /\ broken = {}
      /\ \A q \in Rows : q \in other <=>
           (track[q] = {"create"} /\ q \notin Scope(s)) \/ track[q] = {"update"}
  BY <1>3 DEF RowOnce, PartOf
<1>5. fine \subseteq Rows /\ known \subseteq Rows /\ other \subseteq Rows
  BY DEF PartOf
<1>6. /\ track[r] = {} \/ track[r] = {"update"} => Right(s, r)
      /\ track[r] = {"delete"} => (view[s][r] # "unknown" <=> r \in rows_to_uri[s])
      /\ track[r] \in {{}, {"create"}, {"update"}, {"delete"}}
      /\ track[r] = {"create"} => Live(r)
      /\ track[r] = {"delete"} => ~Live(r)
  BY <1>2, <1>3 DEF PlainPart, UntoldInv, RowOnce, TruthInv
<1> HIDE DEF added, deleted, broken, fine, other, known, told
<1>7. CASE other = {}
  <2>1. rows_to_uri' = Taken(Rows) /\ Tell(s, told)
    BY <1>1, <1>4, <1>7
  <2>2. rows_to_uri'[s] = (rows_to_uri[s] \cup fine) \ known
    BY <1>2, <1>5, <2>1
  <2>3. CASE track[r] = {}
    <3>1. r \notin fine /\ r \notin known /\ Right(s, r)
      BY <1>2, <1>4, <1>6, <2>3
    <3>2. QED
      BY <2>2, <3>1 DEF Right, RightUri, Truth, Live, IsRow
  <2>4. CASE track[r] = {"create"}
    <3>1. r \in fine /\ r \notin known /\ Live(r)
      BY <1>2, <1>4, <1>6, <2>4
    <3>2. RightUri(s, r)'
      BY <2>2, <3>1 DEF RightUri, Live, IsRow
    <3>3. <<r, rows[r]>> \in told
      BY <3>1 DEF told
    <3>4. <<s, r, rows[r]>> \in outbox'
      BY <2>1, <3>3 DEF Tell
    <3>5. QED
      BY <3>2, <3>4
  <2>5. CASE track[r] = {"delete"} /\ r \in rows_to_uri[s]
    <3>1. r \in known /\ ~Live(r)
      BY <1>2, <1>4, <1>6, <2>5
    <3>2. RightUri(s, r)'
      BY <2>2, <3>1 DEF RightUri, Live, IsRow
    <3>3. <<r, "unknown">> \in told
      BY <3>1 DEF told
    <3>4. <<s, r, "unknown">> \in outbox'
      BY <2>1, <3>3 DEF Tell
    <3>5. QED
      BY <3>2, <3>4
  <2>6. CASE track[r] = {"delete"} /\ r \notin rows_to_uri[s]
    <3>1. r \notin fine /\ ~Live(r) /\ view[s][r] = "unknown"
      BY <1>2, <1>4, <1>6, <2>6
    <3>2. QED
      BY <2>2, <2>6, <3>1 DEF Right, RightUri, Truth, Live, IsRow
  <2>7. track[r] # {"update"}
    BY <1>2, <1>4, <1>7
  <2>8. QED
    BY <1>6, <2>3, <2>4, <2>5, <2>6, <2>7
<1>8. CASE other # {}
  <2>1. Mismatch(s)
    BY <1>1, <1>4, <1>8
  <2>2. \A q \in Scope(s) : track[q] = {} \/ track[q] = {"update"}
    <3>1. PICK p \in Rows : p \in other
      BY <1>5, <1>8
    <3>2. (track[p] = {"create"} /\ p \notin Scope(s)) \/ track[p] = {"update"}
      BY <1>4, <3>1
    <3> SUFFICES ASSUME NEW q \in Scope(s), track[q] # {}
                 PROVE  track[q] = {"update"}
      OBVIOUS
    <3>3. q \in Rows /\ CollectionOf[q] = Target[s]
      BY DEF Scope, IsRow
    <3>4. Together(q, p)
      BY <1>3, <3>1, <3>3
    <3>5. CASE p = q
      BY <3>2, <3>5
    <3>6. CASE p # q
      <4>1. track[p] # {} /\ track[p] # {"update"} /\ CollectionOf[q] = CollectionOf[p]
        BY <3>2, <3>4, <3>6 DEF Together
      <4>2. QED
        BY <1>2, <3>1, <3>2, <3>3, <4>1
    <3>7. QED
      BY <3>5, <3>6
  <2>3. fine = {} /\ known = {}
    BY <1>2, <1>4, <1>5, <2>2
  <2>4. rows_to_uri'[s] = rows_to_uri[s]
    BY <1>1, <1>2, <1>8, <2>3
  <2>5. Right(s, r)
    BY <1>6, <2>2
  <2>6. Right(s, r)'
    BY <2>4, <2>5 DEF Right, RightUri, Truth, Live, IsRow
  <2>7. QED
    BY <2>6
<1>9. QED
  BY <1>7, <1>8

\* The changes callback comes to a subscription.
LEMMA ChangesOfKeepsIInv ==
  ASSUME IInv, NEW s \in Subs, ChangesOf(s)
  PROVE  IInv'
<1>1. /\ TypeOK /\ PhaseInv /\ RowInv /\ TruthInv /\ unusual \in Nat
      /\ callback = "changes" /\ s \in pending /\ s \in served
      /\ pending \subseteq served /\ "changes" \notin todo
  BY DEF IInv, ChangesOf, PhaseInv
<1>2. UNCHANGED <<rows, subs, track, subTrack, stale, served, todo, callback, view, unusual>>
  BY DEF ChangesOf, replicaVars
<1>3. /\ pending' \subseteq pending
      /\ outbox' \subseteq outbox \cup {<<s, r, Truth(r)>> : r \in Scope(s)}
      /\ rows_to_uri' \in [Subs -> SUBSET Rows]
      /\ rows_to_uri'[s] \subseteq Scope(s)
      /\ \A v \in Subs \ {s} : rows_to_uri'[v] = rows_to_uri[v]
  <2>1. CASE IsRow(s)
    <3>1. RowChanges(s)
      BY <2>1 DEF ChangesOf
    <3>2. QED
      BY <1>1, <2>1, <3>1, RowChangesAreTrue DEF TypeOK, TruthInv
  <2>2. CASE ~IsRow(s)
    <3>1. CollectionChanges(s)
      BY <2>2 DEF ChangesOf
    <3>2. QED
      BY <1>1, <3>1, CollectionChangesAreTrue
  <2>3. QED
    BY <2>1, <2>2
<1>4. \A m \in outbox' : m \in outbox \/ (m[1] = s /\ m[2] \in Scope(s) /\ m[3] = Truth(m[2])
                                          /\ m = <<s, m[2], m[3]>>)
  BY <1>3
<1>5. \A r \in Scope(s) : r \in Rows /\ Truth(r) \in Contents \cup {"unknown"}
  BY DEF Scope, IsRow, Truth, Live
<1>6. TypeOK' /\ unusual' \in Nat
  <2>1. outbox' \subseteq Subs \X Rows \X (Contents \cup {"unknown"})
    BY <1>1, <1>4, <1>5 DEF TypeOK
  <2>2. QED
    BY <1>1, <1>2, <1>3, <2>1 DEF TypeOK
<1>7. PhaseInv'
  BY <1>1, <1>2, <1>3 DEF PhaseInv, Idle
<1>8. RowInv'
  BY <1>1, <1>2 DEF RowInv, IsRow
<1>9. \A v \in Subs : Scope(v)' = Scope(v) /\ (Live(v)' <=> Live(v))
  BY <1>2 DEF Scope, IsRow, Live
<1>10. TruthInv'
  <2>1. \A r \in Rows : "delete" \in track'[r] => ~Live(r)'
    BY <1>1, <1>2 DEF TruthInv, Live
  <2>2. \A v \in Subs : rows_to_uri'[v] \subseteq Scope(v)'
    BY <1>1, <1>3, <1>9 DEF TruthInv
  <2>3. ASSUME NEW m \in outbox'
        PROVE  m[1] \in served /\ m[2] \in Scope(m[1])' /\ m[3] = Truth(m[2])'
    <3>1. m[1] \in served /\ m[2] \in Scope(m[1]) /\ m[3] = Truth(m[2])
      BY <1>1, <1>4 DEF TruthInv
    <3>2. QED
      BY <1>2, <3>1 DEF Scope, IsRow, Truth, Live
  <2>4. QED
    BY <1>2, <2>1, <2>2, <2>3 DEF TruthInv
<1>11. ASSUME unusual' = 0
       PROVE  PlainPart'
  <2>1. PlainPart
    BY <1>2, <1>11 DEF IInv
  <2>2. /\ pending' = pending \ {s} /\ outbox \subseteq outbox'
        /\ \A r \in Scope(s) :
             Right(s, r)' \/ (RightUri(s, r)' /\ \E m \in outbox' : m[1] = s /\ m[2] = r)
    <3>1. Untold(s)
      BY <1>1 DEF Untold
    <3>2. CASE IsRow(s)
      <4>1. RowChanges(s)
        BY <3>2 DEF ChangesOf
      <4>2. Target[s] \in Scope(s)
        BY <3>2 DEF Scope, IsRow
      <4>3. QED
        BY <1>1, <1>2, <2>1, <3>1, <3>2, <4>1, <4>2, RowChangesAreTold
    <3>3. CASE ~IsRow(s)
      <4>1. CollectionChanges(s)
        BY <3>3 DEF ChangesOf
      <4>2. pending' = pending \ {s} /\ outbox \subseteq outbox'
        BY <2>1, <4>1, CollectionChangesGoOn DEF PlainPart
      <4>3. QED
        BY <1>1, <1>2, <2>1, <3>1, <3>3, <4>1, <4>2, CollectionChangesAreTold
    <3>4. QED
      BY <3>2, <3>3
  <2>3. PlainInv'
    BY <1>2, <2>1 DEF PlainPart, PlainInv, RowOnce, Together, SubOnce, Live
  <2>4. \A v \in Subs : Unchecked(v)' <=> Unchecked(v)
    BY <1>1, <1>2 DEF Unchecked
  <2>5. ServedInv' /\ NewInv'
    BY <1>2, <2>1, <2>4 DEF PlainPart, ServedInv, NewInv, Served, IsRow, Live
  <2>6. /\ ~Untold(s)'
        /\ \A v \in Subs \ {s} : Untold(v)' <=> Untold(v)
    BY <1>1, <1>2, <2>2 DEF Untold
  <2>7. \A v \in Subs \ {s} : \A r \in Rows :
          (Right(v, r)' <=> Right(v, r)) /\ (RightUri(v, r)' <=> RightUri(v, r))
    BY <1>2, <1>3 DEF Right, RightUri, Truth, Live, IsRow
  <2>8. served \subseteq Subs /\ \A v \in Subs : Scope(v) \subseteq Rows
    BY <1>1 DEF TypeOK, Scope, IsRow
  <2>9. UntoldInv'
    <3> SUFFICES ASSUME NEW v \in served, Untold(v)', NEW r \in Scope(v)
                 PROVE  /\ track[r] = {} \/ (track[r] = {"update"} /\ ~IsRow(v)) => Right(v, r)'
                        /\ track[r] = {"delete"} /\ ~IsRow(v) =>
                             (view[v][r] # "unknown" <=> r \in rows_to_uri'[v])
      BY <1>2 DEF UntoldInv, Scope, IsRow
    <3>1. v \in Subs \ {s} /\ r \in Rows /\ Untold(v)
      BY <2>6, <2>8
    <3>2. rows_to_uri'[v] = rows_to_uri[v]
      BY <1>3, <3>1
    <3>3. QED
      BY <2>1, <2>7, <3>1, <3>2 DEF PlainPart, UntoldInv
  <2>10. ToldInv'
    <3> SUFFICES ASSUME NEW v \in served, ~Untold(v)', NEW r \in Scope(v)
                 PROVE  Right(v, r)' \/ (RightUri(v, r)' /\ \E m \in outbox' : m[1] = v /\ m[2] = r)
      BY <1>2 DEF ToldInv, Scope, IsRow
    <3>1. CASE v = s
      BY <2>2, <3>1
    <3>2. CASE v # s
      <4>1. v \in Subs \ {s} /\ r \in Rows /\ ~Untold(v)
        BY <2>6, <2>8, <3>2
      <4>2. Right(v, r) \/ (RightUri(v, r) /\ \E m \in outbox : m[1] = v /\ m[2] = r)
        BY <2>1, <4>1 DEF PlainPart, ToldInv
      <4>3. QED
        BY <2>2, <2>7, <4>1, <4>2
    <3>3. QED
      BY <3>1, <3>2
  <2>11. QED
    BY <2>3, <2>5, <2>9, <2>10 DEF PlainPart
<1>12. QED
  BY <1>6, <1>7, <1>8, <1>10, <1>11 DEF IInv

\* A callback's messages are sent: what the client is told is true.
LEMMA SentIsTrue ==
  ASSUME TypeOK, TruthInv, EndCallback, NEW s \in Subs, NEW r \in Rows
  PROVE  /\ view'[s][r] = IF \E m \in outbox : m[1] = s /\ m[2] = r THEN Truth(r) ELSE view[s][r]
         /\ (\E m \in outbox : m[1] = s /\ m[2] = r) => s \in served /\ r \in Scope(s)
<1>1. view'[s][r] = IF \E m \in outbox : m[1] = s /\ m[2] = r
                    THEN (CHOOSE m \in outbox : m[1] = s /\ m[2] = r)[3]
                    ELSE view[s][r]
  BY DEF EndCallback
<1>2. \A m \in outbox : m[1] \in served /\ m[2] \in Scope(m[1]) /\ m[3] = Truth(m[2])
  BY DEF TruthInv
<1>3. CASE \E m \in outbox : m[1] = s /\ m[2] = r
  <2> DEFINE n == CHOOSE m \in outbox : m[1] = s /\ m[2] = r
  <2>1. n \in outbox /\ n[1] = s /\ n[2] = r
    BY <1>3
  <2>2. view'[s][r] = n[3]
    BY <1>1, <1>3
  <2> HIDE DEF n
  <2>3. QED
    BY <1>2, <1>3, <2>1, <2>2
<1>4. CASE ~\E m \in outbox : m[1] = s /\ m[2] = r
  BY <1>1, <1>4
<1>5. QED
  BY <1>3, <1>4

\* The end of a callback, and of the update when it is the last.
LEMMA EndCallbackKeepsIInv ==
  ASSUME IInv, EndCallback
  PROVE  IInv'
<1>1. /\ TypeOK /\ PhaseInv /\ RowInv /\ TruthInv /\ unusual \in Nat
      /\ callback # "none" /\ pending = {} /\ callback \notin todo
  BY DEF IInv, EndCallback, PhaseInv
<1>2. /\ callback' = "none" /\ outbox' = {}
      /\ \/ /\ todo = {}
            /\ track' = [r \in Rows |-> {}] /\ subTrack' = [v \in Subs |-> {}] /\ stale' = {}
         \/ todo # {} /\ UNCHANGED <<track, subTrack, stale>>
      /\ UNCHANGED <<rows, subs, served, rows_to_uri, todo, pending, unusual>>
  BY DEF EndCallback, handlerVars
<1>3. \A v \in Subs, r \in Rows :
        /\ view'[v][r] = IF \E m \in outbox : m[1] = v /\ m[2] = r THEN Truth(r) ELSE view[v][r]
        /\ (\E m \in outbox : m[1] = v /\ m[2] = r) => v \in served /\ r \in Scope(v)
  BY <1>1, SentIsTrue
<1>4. view' \in [Subs -> [Rows -> Contents \cup {"unknown"}]]
  <2>1. \A v \in Subs, r \in Rows : view'[v][r] \in Contents \cup {"unknown"}
    BY <1>1, <1>3 DEF TypeOK, Truth, Live
  <2>2. DOMAIN view' = Subs /\ \A v \in Subs : DOMAIN view'[v] = Rows
    BY DEF EndCallback
  <2>3. view' = [v \in Subs |-> [r \in Rows |-> view'[v][r]]]
    BY DEF EndCallback
  <2>4. QED
    BY <2>1, <2>3
<1>5. TypeOK' /\ unusual' \in Nat
  BY <1>1, <1>2, <1>4 DEF TypeOK
<1>6. PhaseInv'
  BY <1>1, <1>2 DEF PhaseInv, Idle, TypeOK
<1>7. \A r \in Rows : track'[r] = {} \/ track'[r] = track[r]
  BY <1>2
<1>8. RowInv'
  <2>1. \A v \in Subs : IsRow(v) => Target[v] \in Rows
    BY DEF IsRow
  <2>2. QED
    BY <1>1, <1>2, <1>7, <2>1 DEF RowInv, IsRow
<1>9. TruthInv'
  BY <1>1, <1>2, <1>7 DEF TruthInv, Live, Scope, IsRow
<1>10. ASSUME unusual' = 0
       PROVE  PlainPart'
  <2>1. PlainInv /\ ServedInv /\ NewInv /\ UntoldInv /\ ToldInv
    BY <1>2, <1>10 DEF IInv, PlainPart
  <2>2. PlainInv'
    <3>1. stale' = {}
      BY <1>2, <2>1 DEF PlainInv
    <3>2. \A r \in Rows : RowOnce(r)'
      BY <1>2, <1>7, <2>1 DEF PlainInv, RowOnce, Live
    <3>3. \A q, r \in Rows : Together(q, r)'
      BY <1>7, <2>1 DEF PlainInv, Together
    <3>4. \A v \in Subs : SubOnce(v)'
      BY <1>2, <2>1 DEF PlainInv, SubOnce
    <3>5. QED
      BY <3>1, <3>2, <3>3, <3>4 DEF PlainInv
  <2>3. \A v \in Subs : (Unchecked(v)' <=> Unchecked(v)) /\ (Unchecked(v)' => subTrack'[v] = subTrack[v])
    BY <1>1, <1>2 DEF Unchecked
  <2>4. ServedInv'
    BY <1>2, <2>1, <2>3 DEF ServedInv, Served, IsRow, Live
  <2>5. NewInv'
    <3> SUFFICES ASSUME NEW v \in Subs, subs[v] = "unborn" \/ (Unchecked(v)' /\ subTrack'[v] = {"create"}),
                        NEW r \in Rows
                 PROVE  v \notin served /\ view'[v][r] = "unknown"
      BY <1>2, <2>1, <2>3 DEF NewInv
    <3>1. v \notin served /\ view[v][r] = "unknown"
      BY <2>1, <2>3 DEF NewInv
    <3>2. QED
      BY <1>3, <3>1
  <2>6. \A v \in served : v \in Subs /\ Scope(v) \subseteq Rows
    BY <1>1 DEF TypeOK, Scope, IsRow
  <2>7. UntoldInv'
    <3> SUFFICES ASSUME NEW v \in served, "changes" \in todo, NEW r \in Scope(v)
                 PROVE  /\ track'[r] = {} \/ (track'[r] = {"update"} /\ ~IsRow(v)) => Right(v, r)'
                        /\ track'[r] = {"delete"} /\ ~IsRow(v) =>
                             (view'[v][r] # "unknown" <=> r \in rows_to_uri[v])
      BY <1>2 DEF UntoldInv, Untold, Scope, IsRow
    <3>1. outbox = {} /\ track' = track
      BY <1>1, <1>2 DEF PhaseInv
    <3>2. view'[v][r] = view[v][r]
      BY <1>3, <2>6, <3>1
    <3>3. Right(v, r)' <=> Right(v, r)
      BY <1>2, <3>2 DEF Right, RightUri, Truth, Live, IsRow
    <3>4. QED
      BY <2>1, <3>1, <3>2, <3>3 DEF UntoldInv, Untold
  <2>8. ToldInv'
    <3> SUFFICES ASSUME NEW v \in served, "changes" \notin todo, NEW r \in Scope(v)
                 PROVE  Right(v, r)'
      BY <1>2 DEF ToldInv, Untold, Scope, IsRow
    <3>1. Right(v, r) \/ (RightUri(v, r) /\ \E m \in outbox : m[1] = v /\ m[2] = r)
      BY <1>1, <2>1 DEF ToldInv, Untold
    <3>2. RightUri(v, r)'
      BY <1>2, <3>1 DEF Right, RightUri, Live, IsRow
    <3>3. CASE \E m \in outbox : m[1] = v /\ m[2] = r
      <4>1. view'[v][r] = Truth(r)
        BY <1>3, <2>6, <3>3
      <4>2. view'[v][r] = Truth(r)' /\ (view'[v][r] # "unknown" <=> Live(r)')
        BY <1>2, <4>1 DEF Truth, Live, Contents
      <4>3. QED
        BY <3>2, <4>2 DEF Right, IsRow
    <3>4. CASE ~\E m \in outbox : m[1] = v /\ m[2] = r
      <4>1. view'[v][r] = view[v][r] /\ Right(v, r)
        BY <1>3, <2>6, <3>1, <3>4
      <4>2. QED
        BY <1>2, <3>2, <4>1 DEF Right, Truth, Live, IsRow
    <3>5. QED
      BY <3>3, <3>4
  <2>9. QED
    BY <2>2, <2>4, <2>5, <2>7, <2>8 DEF PlainPart
<1>11. QED
  BY <1>5, <1>6, <1>8, <1>9, <1>10 DEF IInv

----------------------------------------------------------------------------
(* The theorems.                                                              *)

\* Every step keeps the invariant.
LEMMA NextKeepsIInv == IInv /\ [Next]_vars => IInv'
<1> SUFFICES ASSUME IInv, [Next]_vars PROVE IInv'
  OBVIOUS
<1>1. CASE Idle /\ \E f \in RowUpdates, g \in SubUpdates : IdlRun(f, g) \/ Reconnect(f, g)
  BY <1>1, IdlRunKeepsIInv, ReconnectKeepsIInv
<1>2. CASE StartCheck
  BY <1>2, StartCheckKeepsIInv
<1>3. CASE StartChanges
  BY <1>3, StartChangesKeepsIInv
<1>4. CASE EndCallback
  BY <1>4, EndCallbackKeepsIInv
<1>5. CASE \E s \in Subs : CheckSubscription(s) \/ ChangesOf(s)
  BY <1>5, CheckSubscriptionKeepsIInv, ChangesOfKeepsIInv
<1>6. CASE UNCHANGED vars
  <2>1. UNCHANGED <<rows, subs, track, subTrack, stale, served, rows_to_uri, todo, callback,
                    pending, outbox, view, unusual>>
    BY <1>6 DEF vars, replicaVars, handlerVars, callbackVars
  <2>2. TypeOK' /\ PhaseInv' /\ RowInv' /\ TruthInv' /\ unusual' \in Nat
    BY <2>1 DEF IInv, TypeOK, PhaseInv, Idle, RowInv, TruthInv, Truth, Live, Scope, IsRow
  <2>3. ASSUME PlainPart PROVE PlainPart'
    <3>1. /\ \A r \in Rows : RowOnce(r)' <=> RowOnce(r)
          /\ \A q, r \in Rows : Together(q, r)' <=> Together(q, r)
          /\ \A s \in Subs : SubOnce(s)' <=> SubOnce(s)
      BY <2>1 DEF RowOnce, Live, Together, SubOnce
    <3>2. PlainInv'
      BY <2>1, <2>3, <3>1 DEF PlainPart, PlainInv
    <3>3. ServedInv' /\ NewInv'
      BY <2>1, <2>3 DEF PlainPart, ServedInv, NewInv, Unchecked, Served, IsRow, Live
    <3>4. UntoldInv' /\ ToldInv'
      BY <2>1, <2>3 DEF PlainPart, UntoldInv, ToldInv, Untold, Right, RightUri, Truth, Live, Scope, IsRow
    <3>5. QED
      BY <3>2, <3>3, <3>4 DEF PlainPart
  <2>4. QED
    BY <2>1, <2>2, <2>3 DEF IInv
<1>7. QED
  BY <1>1, <1>2, <1>3, <1>4, <1>5, <1>6 DEF Next

\* The invariant holds of every behaviour.
THEOREM Invariance == Spec => []IInv
<1>1. QED
  BY InitIInv, NextKeepsIInv, PTL DEF Spec

\* The state keeps its type.
THEOREM TypeCorrect == Spec => []TypeOK
<1>1. IInv => TypeOK
  BY DEF IInv
<1>2. QED
  BY <1>1, Invariance, PTL

\* As long as updates are plain, every subscription to something that is still
\* there is served once the callbacks have run, in whatever order they did, and
\* none that was deleted (subscription_changes_check_callback).
THEOREM Subscriptions == Spec => []SubscribedAreServed
<1>1. IInv => SubscribedAreServed
  <2> SUFFICES ASSUME IInv, Idle, unusual = 0, NEW s \in Subs PROVE Served(s)
    BY DEF SubscribedAreServed
  <2>1. ~Unchecked(s)
    BY DEF Unchecked, Idle
  <2>2. QED
    BY <2>1 DEF IInv, PlainPart, ServedInv
<1>2. QED
  BY <1>1, Invariance, PTL

\* As long as updates are plain, a client knows all there is to know of what it
\* subscribed to once the callbacks have run (subscribed_changes_callback).
THEOREM Views == Spec => []ViewIsCurrent
<1>1. IInv => ViewIsCurrent
  <2> SUFFICES ASSUME IInv, Idle, unusual = 0, NEW s \in served, NEW r \in Scope(s)
               PROVE  IF IsRow(s) THEN view[s][r] = (IF Live(r) THEN rows[r] ELSE "unknown")
                                  ELSE (view[s][r] # "unknown") <=> Live(r)
    BY DEF ViewIsCurrent, Current
  <2>1. outbox = {} /\ ~Untold(s)
    BY DEF IInv, PhaseInv, Idle, Untold
  <2>2. Right(s, r)
    BY <2>1 DEF IInv, PlainPart, ToldInv
  <2>3. QED
    BY <2>2 DEF Right, Truth
<1>2. QED
  BY <1>1, Invariance, PTL

\* Whatever the updates are and whatever gets lost, what a client is told is
\* true when it is told, and about something that it subscribed to.
THEOREM Messages == Spec => MessagesAreTrue
<1> DEFINE ToldTrue ==
      \A s \in Subs, r \in Rows : view'[s][r] # view[s][r] =>
        /\ r \in Scope(s)
        /\ view'[s][r] = IF Live(r) THEN rows[r] ELSE "unknown"
<1>1. ASSUME IInv, [Next]_vars
      PROVE  ToldTrue
  <2>1. CASE view' = view
    BY <2>1
  <2>2. ASSUME NEW v \in Subs, CheckSubscription(v), view' # view
        PROVE  ToldTrue
    <3>1. view' = [view EXCEPT ![v] = [r \in Rows |->
                     IF r \in Members(v) THEN rows[r] ELSE view[v][r]]]
      BY <2>2 DEF CheckSubscription, Create, Serve
    <3>2. view \in [Subs -> [Rows -> Contents \cup {"unknown"}]]
      BY <1>1 DEF IInv, TypeOK
    <3> SUFFICES ASSUME NEW s \in Subs, NEW r \in Rows, view'[s][r] # view[s][r]
                 PROVE  r \in Scope(s) /\ view'[s][r] = IF Live(r) THEN rows[r] ELSE "unknown"
      OBVIOUS
    <3>3. s = v /\ r \in Members(v) /\ view'[s][r] = rows[r]
      BY <3>1, <3>2
    <3>4. QED
      BY <3>3 DEF Members
  <2>3. ASSUME EndCallback
        PROVE  ToldTrue
    <3> SUFFICES ASSUME NEW s \in Subs, NEW r \in Rows, view'[s][r] # view[s][r]
                 PROVE  r \in Scope(s) /\ view'[s][r] = IF Live(r) THEN rows[r] ELSE "unknown"
      OBVIOUS
    <3>1. QED
      BY <1>1, <2>3, SentIsTrue DEF IInv, Truth
  <2>4. QED
    BY <1>1, <2>1, <2>2, <2>3
    DEF Next, vars, IdlRun, Reconnect, StartCheck, StartChanges, ChangesOf
<1>2. QED
  BY <1>1, Invariance, PTL DEF Spec, MessagesAreTrue
=============================================================================
