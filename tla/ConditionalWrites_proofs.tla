----------------------- MODULE ConditionalWrites_proofs -----------------------
(* What If-Match and the order of the session are worth, for any clients,    *)
(* columns and values and any number of writes.                              *)
EXTENDS ConditionalWrites, SequenceTheorems, TLAPS

----------------------------------------------------------------------------
(* The inductive invariant.                                                   *)

Messages == [row : Rows, to : Clients \cup {Noone}]
WriteSet == [config : Configs, based : Configs, asked : SUBSET Columns]

TypeInv == TypeOK /\ wire \in Seq(Messages)

\* Without overlap there is one write under way at most, and the row at the
\* server is what it was made from.
FlightInv ==
  ~overlap => /\ clobbered = {}
              /\ \A c \in DOMAIN flight : flight[c].based = db.config
              /\ \A c, d \in DOMAIN flight : c = d

\* The rows on their way are newer and newer, from that of the replica to
\* that of the server.
OrderInv ==
  /\ replica.version <= db.version
  /\ \A i \in DOMAIN wire : /\ replica.version <= wire[i].row.version
                            /\ wire[i].row.version <= db.version
  /\ \A i, j \in DOMAIN wire : i <= j => wire[i].row.version <= wire[j].row.version

\* A reply comes right after the update of its transaction.
ReplyInv ==
  \A i \in DOMAIN wire :
    wire[i].to # Noone =>
      wire[i].row.version = IF i = 1 THEN replica.version ELSE wire[i - 1].row.version

SeenInv == \A c \in Clients : seen[c] <= replica.version

IInv == TypeInv /\ FlightInv /\ OrderInv /\ ReplyInv /\ SeenInv

----------------------------------------------------------------------------
(* The clients.                                                               *)

\* What the messages of a session are.
LEMMA MessageType ==
  ASSUME NEW w \in Seq(Messages)
  PROVE  \A i \in DOMAIN w : w[i].row \in Rows /\ w[i].to \in Clients \cup {Noone}
<1>1. \A i \in DOMAIN w : w[i] \in Messages
  BY LenProperties, ElementOfSeq
<1>2. QED
  BY <1>1 DEF Messages

\* The replica starts as the server's row.
LEMMA InitIInv == Init => IInv
<1> SUFFICES ASSUME Init PROVE IInv
  OBVIOUS
<1>1. db \in Rows /\ db.config \in Configs /\ db.version = 0
  BY ConditionalAssumption DEF Init, Row, Rows, Configs
<1>2. wire \in Seq(Messages) /\ DOMAIN wire = {} /\ DOMAIN flight = {}
  BY DEF Init
<1>3. TypeInv
  <2>1. /\ pc \in [Clients -> {"idle", "waiting"}]
        /\ etag \in [Clients -> Configs]
        /\ answer \in [Clients -> {None, "read", "unchanged", "failed", "success", "try_again"}]
    BY <1>1 DEF Init
  <2>2. seen \in [Clients -> 0 .. MaxWrites]
    BY ConditionalAssumption DEF Init
  <2>3. replica \in Rows /\ clobbered \subseteq Clients /\ overlap \in BOOLEAN
    BY <1>1 DEF Init
  <2>4. QED
    BY <1>1, <1>2, <2>1, <2>2, <2>3 DEF TypeInv, TypeOK
<1>4. QED
  BY <1>1, <1>2, <1>3 DEF Init, IInv, FlightInv, OrderInv, ReplyInv, SeenInv

\* A read leaves everything but what the client has seen.
LEMMA GetKeepsIInv == ASSUME IInv, NEW c \in Clients, Get(c) PROVE IInv'
<1>1. /\ UNCHANGED <<db, replica, wire, flight, overlap, clobbered>>
      /\ seen' = [seen EXCEPT ![c] = replica.version]
  BY DEF Get
<1>2. replica.config \in Configs /\ replica.version \in 0 .. MaxWrites
  BY DEF IInv, TypeInv, TypeOK, Rows
<1>3. TypeInv'
  BY <1>1, <1>2 DEF Get, Answer, IInv, TypeInv, TypeOK
<1>4. FlightInv' /\ OrderInv' /\ ReplyInv'
  BY <1>1 DEF IInv, FlightInv, OrderInv, ReplyInv
<1>5. SeenInv'
  BY <1>1, <1>2 DEF IInv, SeenInv, TypeInv, TypeOK
<1>6. QED
  BY <1>3, <1>4, <1>5 DEF IInv

\* A write that is sent is based on the replica, and overlaps another unless
\* the replica is the row at the server and nothing is under way.
LEMMA CommitKeepsIInv ==
  ASSUME IInv, NEW c \in Clients, c \notin DOMAIN flight,
         NEW w \in WriteSet, w.based = replica.config,
         Commit(c, w), UNCHANGED <<db, replica, wire, etag, seen, clobbered>>
  PROVE  IInv'
<1>1. OrderInv' /\ ReplyInv' /\ SeenInv'
  BY DEF IInv, OrderInv, ReplyInv, SeenInv
<1>2. CASE w.config = replica.config
  <2>1. /\ pc' = [pc EXCEPT ![c] = "idle"] /\ answer' = [answer EXCEPT ![c] = "unchanged"]
        /\ UNCHANGED <<flight, overlap>>
    BY <1>2 DEF Commit, Answer
  <2>2. TypeInv'
    BY <2>1 DEF IInv, TypeInv, TypeOK
  <2>3. FlightInv'
    BY <2>1 DEF IInv, FlightInv
  <2>4. QED
    BY <1>1, <2>2, <2>3 DEF IInv
<1>3. CASE w.config # replica.config
  <2>1. /\ flight' = [d \in DOMAIN flight \cup {c} |-> IF d = c THEN w ELSE flight[d]]
        /\ overlap' = (overlap \/ DOMAIN flight # {} \/ replica # db)
        /\ pc' = [pc EXCEPT ![c] = "waiting"] /\ UNCHANGED answer
    BY <1>3 DEF Commit, Send
  <2>2. TypeInv'
    <3>1. \A d \in DOMAIN flight' : flight'[d] \in WriteSet
      BY <2>1 DEF IInv, TypeInv, TypeOK, WriteSet
    <3>2. DOMAIN flight' \subseteq Clients /\ overlap' \in BOOLEAN
      BY <2>1 DEF IInv, TypeInv, TypeOK
    <3>3. pc' \in [Clients -> {"idle", "waiting"}]
      BY <2>1 DEF IInv, TypeInv, TypeOK
    <3>4. QED
      BY <2>1, <3>1, <3>2, <3>3 DEF IInv, TypeInv, TypeOK, WriteSet
  <2>3. FlightInv'
    <3>1. ~overlap' => ~overlap /\ DOMAIN flight = {} /\ replica = db
      BY <2>1
    <3>2. DOMAIN flight = {} => DOMAIN flight' = {c} /\ flight'[c] = w
      BY <2>1
    <3>3. QED
      BY <3>1, <3>2 DEF IInv, FlightInv
  <2>4. QED
    BY <1>1, <2>2, <2>3 DEF IInv
<1>4. QED
  BY <1>2, <1>3

\* A conditional write that is let through is based on the replica: that is
\* what If-Match compares.
LEMMA PutKeepsIInv == ASSUME IInv, NEW c \in Clients, Put(c) PROVE IInv'
<1>1. c \notin DOMAIN flight /\ UNCHANGED <<db, replica, wire, etag, seen, clobbered>>
  BY DEF Put, MayStart
<1>2. PICK config \in Configs :
        IF Matches(c) THEN Commit(c, Write(config, etag[c], {}))
        ELSE /\ Answer(c, IF config = replica.config THEN "unchanged" ELSE "failed")
             /\ UNCHANGED <<flight, overlap>>
  BY DEF Put
<1>3. CASE Matches(c)
  <2>1. /\ Write(config, etag[c], {}) \in WriteSet
        /\ Write(config, etag[c], {}).based = replica.config
    BY <1>3 DEF Matches, Write, WriteSet, IInv, TypeInv, TypeOK
  <2>2. QED
    BY <1>1, <1>2, <1>3, <2>1, CommitKeepsIInv
<1>4. CASE ~Matches(c)
  <2>1. /\ UNCHANGED <<flight, overlap>>
        /\ pc' = [pc EXCEPT ![c] = "idle"]
        /\ \E a \in {"unchanged", "failed"} : answer' = [answer EXCEPT ![c] = a]
    BY <1>2, <1>4 DEF Answer
  <2>2. TypeInv'
    BY <1>1, <2>1 DEF IInv, TypeInv, TypeOK
  <2>3. FlightInv' /\ OrderInv' /\ ReplyInv' /\ SeenInv'
    BY <1>1, <2>1 DEF IInv, FlightInv, OrderInv, ReplyInv, SeenInv
  <2>4. QED
    BY <2>2, <2>3 DEF IInv
<1>5. QED
  BY <1>3, <1>4

\* A PATCH is based on the replica.
LEMMA PatchKeepsIInv == ASSUME IInv, NEW c \in Clients, Patch(c) PROVE IInv'
<1>1. c \notin DOMAIN flight /\ UNCHANGED <<db, replica, wire, etag, seen, clobbered>>
  BY DEF Patch, MayStart
<1>2. PICK x \in Columns, v \in Values : Commit(c, Write(Patched(c, x, v), replica.config, {x}))
  BY DEF Patch
<1>3. replica.config \in Configs /\ Patched(c, x, v) \in Configs
  BY DEF IInv, TypeInv, TypeOK, Rows, Configs, Patched
<1>4. /\ Write(Patched(c, x, v), replica.config, {x}) \in WriteSet
      /\ Write(Patched(c, x, v), replica.config, {x}).based = replica.config
  BY <1>3 DEF Write, WriteSet
<1>5. QED
  BY <1>1, <1>2, <1>4, CommitKeepsIInv

----------------------------------------------------------------------------
(* ovsdb-server and the session.                                              *)

\* What was based on the row at the server undoes nothing; the update and the
\* reply are the newest of the messages.
LEMMA ExecuteKeepsIInv == ASSUME IInv, NEW c \in Clients, Execute(c) PROVE IInv'
<1> DEFINE update == [row |-> db', to |-> Noone]
           reply == [row |-> db', to |-> IF pc[c] = "waiting" THEN c ELSE Noone]
<1>1. /\ c \in DOMAIN flight /\ db.version < MaxWrites
      /\ db' = Row(flight[c].config, db.version + 1)
      /\ wire' = wire \o <<update, reply>>
      /\ flight' = [d \in DOMAIN flight \ {c} |-> flight[d]]
      /\ UNCHANGED <<replica, pc, etag, answer, seen, overlap>>
  BY DEF Execute
<1>2. /\ db \in Rows /\ db.version \in 0 .. MaxWrites
      /\ flight[c].config \in Configs /\ DOMAIN flight \subseteq Clients
      /\ wire \in Seq(Messages) /\ replica \in Rows /\ replica.version \in 0 .. MaxWrites
  BY <1>1 DEF IInv, TypeInv, TypeOK, Rows
<1>3. db' \in Rows /\ db'.version = db.version + 1
  BY <1>1, <1>2, ConditionalAssumption DEF Row, Rows
<1>4. update \in Messages /\ reply \in Messages
  BY <1>3 DEF Messages
<1>5. /\ wire' \in Seq(Messages)
      /\ Len(wire) \in Nat /\ Len(wire') = Len(wire) + 2
      /\ DOMAIN wire = 1 .. Len(wire) /\ DOMAIN wire' = 1 .. Len(wire) + 2
      /\ \A i \in DOMAIN wire : wire'[i] = wire[i]
      /\ wire'[Len(wire) + 1] = update /\ wire'[Len(wire) + 2] = reply
  <2> HIDE DEF update, reply
  <2>1. <<update, reply>> \in Seq(Messages) /\ Len(<<update, reply>>) = 2
    BY <1>4
  <2>2. QED
    BY <1>1, <1>2, <2>1, ConcatProperties, LenProperties
<1>6. \A i \in DOMAIN wire' :
        \/ i \in DOMAIN wire /\ wire'[i] = wire[i]
        \/ i \in {Len(wire) + 1, Len(wire) + 2} /\ wire'[i].row = db'
  BY <1>5
<1>7. TypeInv'
  <2>1. \A i \in DOMAIN wire' : wire'[i].row \in Rows /\ wire'[i].to \in Clients \cup {Noone}
    BY <1>5, MessageType
  <2>2. DOMAIN flight' \subseteq Clients
    BY <1>1, <1>2
  <2>3. \A d \in DOMAIN flight' : flight'[d] \in
          [config : Configs, based : Configs, asked : SUBSET Columns]
    BY <1>1 DEF IInv, TypeInv, TypeOK
  <2>4. clobbered' \subseteq Clients
    BY DEF Execute, IInv, TypeInv, TypeOK
  <2>5. QED
    BY <1>1, <1>3, <1>5, <2>1, <2>2, <2>3, <2>4 DEF IInv, TypeInv, TypeOK
<1>8. FlightInv'
  <2> SUFFICES ASSUME ~overlap
               PROVE  clobbered' = {} /\ DOMAIN flight' = {}
    BY <1>1 DEF FlightInv
  <2>1. flight[c].based = db.config /\ clobbered = {} /\ DOMAIN flight = {c}
    BY <1>1 DEF IInv, FlightInv
  <2>2. Undone(flight[c]) = {}
    BY <2>1 DEF Undone
  <2>3. QED
    BY <1>1, <2>1, <2>2 DEF Execute
<1>9. OrderInv'
  <2>1. \A i \in DOMAIN wire' : /\ replica'.version <= wire'[i].row.version
                               /\ wire'[i].row.version <= db'.version
    BY <1>1, <1>2, <1>3, <1>6, ElementOfSeq DEF IInv, TypeInv, TypeOK, OrderInv, Rows
  <2>2. \A i, j \in DOMAIN wire' : i <= j => wire'[i].row.version <= wire'[j].row.version
    <3> SUFFICES ASSUME NEW i \in DOMAIN wire', NEW j \in DOMAIN wire', i <= j
                 PROVE  wire'[i].row.version <= wire'[j].row.version
      OBVIOUS
    <3>1. CASE j \in DOMAIN wire
      BY <1>5, <3>1 DEF IInv, OrderInv
    <3>2. CASE j \notin DOMAIN wire
      BY <1>6, <2>1, <3>2
    <3>3. QED
      BY <3>1, <3>2
  <2>3. QED
    <3>1. replica'.version <= db'.version
      <4>1. replica.version <= db.version /\ db.version \in Int /\ replica.version \in Int
        BY <1>2, ConditionalAssumption DEF IInv, OrderInv
      <4>2. QED
        BY <1>1, <1>3, <4>1
    <3>2. QED
      BY <2>1, <2>2, <3>1 DEF OrderInv
<1>10. ReplyInv'
  <2> SUFFICES ASSUME NEW i \in DOMAIN wire', wire'[i].to # Noone
               PROVE  wire'[i].row.version = IF i = 1 THEN replica.version ELSE wire'[i - 1].row.version
    BY <1>1 DEF ReplyInv
  <2>1. CASE i \in DOMAIN wire
    <3>1. i # 1 => i - 1 \in DOMAIN wire
      BY <1>5, <2>1
    <3>2. QED
      BY <1>5, <2>1, <3>1 DEF IInv, ReplyInv
  <2>2. CASE i \notin DOMAIN wire
    <3>1. i # Len(wire) + 1
      BY <1>5
    <3>2. i = Len(wire) + 2 /\ i - 1 = Len(wire) + 1 /\ i # 1
      BY <1>5, <2>2, <3>1
    <3>3. wire'[i].row = db' /\ wire'[i - 1].row = db'
      BY <1>5, <3>2
    <3>4. QED
      BY <3>2, <3>3
  <2>3. QED
    BY <2>1, <2>2
<1>11. SeenInv'
  BY <1>1 DEF IInv, SeenInv
<1>12. QED
  BY <1>7, <1>8, <1>9, <1>10, <1>11 DEF IInv

\* The first message is an update, newer than the replica, or the reply that
\* goes with the row the replica has.
LEMMA ReadKeepsIInv == IInv /\ Read => IInv'
<1> SUFFICES ASSUME IInv, Read PROVE IInv'
  OBVIOUS
<1>1. /\ wire \in Seq(Messages) /\ wire # <<>> /\ wire' = Tail(wire)
      /\ replica \in Rows
      /\ UNCHANGED <<db, flight, etag, overlap, clobbered>>
  BY DEF Read, IInv, TypeInv, TypeOK
<1>2. /\ Len(wire) \in Nat /\ Len(wire) > 0
      /\ DOMAIN wire = 1 .. Len(wire) /\ Head(wire) = wire[1]
      /\ wire' \in Seq(Messages) /\ DOMAIN wire' = 1 .. Len(wire) - 1
      /\ \A i \in DOMAIN wire' : i + 1 \in DOMAIN wire /\ wire'[i] = wire[i + 1]
  <2>1. Len(wire) \in Nat /\ Len(wire) > 0 /\ DOMAIN wire = 1 .. Len(wire) /\ Head(wire) = wire[1]
    BY <1>1, LenProperties, EmptySeq
  <2>2. /\ wire' \in Seq(Messages) /\ Len(wire') = Len(wire) - 1
        /\ \A i \in 1 .. Len(wire') : wire'[i] = wire[i + 1]
    BY <1>1, HeadTailProperties
  <2>3. QED
    BY <2>1, <2>2, LenProperties
<1>3. wire[1].row \in Rows /\ wire[1].to \in Clients \cup {Noone}
  BY <1>1, <1>2, MessageType
<1>4. replica'.version = wire[1].row.version /\ replica' \in Rows
  <2>1. CASE wire[1].to = Noone
    BY <1>2, <1>3, <2>1 DEF Read
  <2>2. CASE wire[1].to # Noone
    <3>1. replica' = replica
      BY <1>2, <2>2 DEF Read
    <3>2. wire[1].row.version = replica.version
      BY <1>2, <2>2 DEF IInv, ReplyInv
    <3>3. QED
      BY <1>1, <3>1, <3>2
  <2>3. QED
    BY <2>1, <2>2
<1>5. replica.version <= replica'.version
  BY <1>2, <1>4 DEF IInv, OrderInv
<1>6. /\ pc' \in [Clients -> {"idle", "waiting"}]
      /\ answer' \in [Clients -> {None, "read", "unchanged", "failed", "success", "try_again"}]
      /\ seen' \in [Clients -> 0 .. MaxWrites]
      /\ \A c \in Clients : seen'[c] \in {seen[c], replica'.version}
  <2>1. wire[1].row.version \in 0 .. MaxWrites
    BY <1>3 DEF Rows
  <2>2. QED
    <3>1. CASE wire[1].to = Noone
      BY <1>2, <3>1 DEF Read, IInv, TypeInv, TypeOK
    <3>2. CASE wire[1].to # Noone
      <4>1. /\ pc' = [pc EXCEPT ![wire[1].to] = "idle"]
            /\ answer' = [answer EXCEPT ![wire[1].to] = "success"]
            /\ seen' = [seen EXCEPT ![wire[1].to] = wire[1].row.version]
        BY <1>2, <3>2 DEF Read, Answer
      <4>2. QED
        BY <1>3, <1>4, <2>1, <3>2, <4>1 DEF IInv, TypeInv, TypeOK
    <3>3. QED
      BY <3>1, <3>2
<1>7. TypeInv'
  <2>1. \A i \in DOMAIN wire' : wire'[i].row \in Rows /\ wire'[i].to \in Clients \cup {Noone}
    BY <1>2, MessageType
  <2>2. QED
    BY <1>1, <1>2, <1>4, <1>6, <2>1 DEF IInv, TypeInv, TypeOK
<1>8. FlightInv'
  BY <1>1 DEF IInv, FlightInv
<1>9. OrderInv'
  <2>1. replica'.version <= db'.version
    BY <1>1, <1>2, <1>4 DEF IInv, OrderInv
  <2>2. \A i \in DOMAIN wire' : /\ replica'.version <= wire'[i].row.version
                               /\ wire'[i].row.version <= db'.version
    BY <1>1, <1>2, <1>4 DEF IInv, OrderInv
  <2>3. \A i, j \in DOMAIN wire' : i <= j => wire'[i].row.version <= wire'[j].row.version
    BY <1>2 DEF IInv, OrderInv
  <2>4. QED
    BY <2>1, <2>2, <2>3 DEF OrderInv
<1>10. ReplyInv'
  <2> SUFFICES ASSUME NEW i \in DOMAIN wire', wire'[i].to # Noone
               PROVE  wire'[i].row.version = IF i = 1 THEN replica'.version ELSE wire'[i - 1].row.version
    BY DEF ReplyInv
  <2>1. i + 1 \in DOMAIN wire /\ wire'[i] = wire[i + 1] /\ i \in Nat /\ i >= 1
    BY <1>2
  <2>2. wire[i + 1].row.version = wire[i].row.version
    BY <2>1 DEF IInv, ReplyInv
  <2>3. CASE i = 1
    BY <1>4, <2>1, <2>2, <2>3
  <2>4. CASE i # 1
    <3>1. i - 1 \in DOMAIN wire' /\ (i - 1) + 1 = i
      BY <1>2, <2>1, <2>4
    <3>2. wire'[i - 1] = wire[i]
      BY <1>2, <3>1
    <3>3. QED
      BY <2>1, <2>2, <2>4, <3>2
  <2>5. QED
    BY <2>3, <2>4
<1>11. SeenInv'
  <2>1. \A c \in Clients : seen[c] \in 0 .. MaxWrites /\ seen[c] <= replica.version
    BY DEF IInv, TypeInv, TypeOK, SeenInv
  <2>2. replica.version \in 0 .. MaxWrites /\ replica'.version \in 0 .. MaxWrites
    BY <1>1, <1>4 DEF Rows
  <2>3. QED
    BY <1>5, <1>6, <2>1, <2>2 DEF SeenInv
<1>12. QED
  BY <1>7, <1>8, <1>9, <1>10, <1>11 DEF IInv

\* A new session starts from the row at the server.
LEMMA ReconnectKeepsIInv == IInv /\ Reconnect => IInv'
<1> SUFFICES ASSUME IInv, Reconnect PROVE IInv'
  OBVIOUS
<1>1. /\ replica' = db /\ wire' = <<>>
      /\ UNCHANGED <<db, flight, etag, seen, overlap, clobbered>>
  BY DEF Reconnect
<1>2. wire' \in Seq(Messages) /\ DOMAIN wire' = {}
  BY <1>1
<1>3. TypeInv'
  <2>1. /\ pc' \in [Clients -> {"idle", "waiting"}]
        /\ answer' \in [Clients -> {None, "read", "unchanged", "failed", "success", "try_again"}]
    BY DEF Reconnect, IInv, TypeInv, TypeOK
  <2>2. QED
    BY <1>1, <1>2, <2>1 DEF IInv, TypeInv, TypeOK
<1>4. FlightInv'
  BY <1>1 DEF IInv, FlightInv
<1>5. db.version \in 0 .. MaxWrites /\ replica.version \in 0 .. MaxWrites
      /\ seen \in [Clients -> 0 .. MaxWrites] /\ replica.version <= db.version
  BY DEF IInv, TypeInv, TypeOK, Rows, OrderInv
<1>6. OrderInv' /\ ReplyInv' /\ SeenInv'
  BY <1>1, <1>2, <1>5, ConditionalAssumption DEF IInv, OrderInv, ReplyInv, SeenInv
<1>7. QED
  BY <1>3, <1>4, <1>6 DEF IInv

\* No step breaks the invariant.
LEMMA NextKeepsIInv == IInv /\ [Next]_vars => IInv'
<1> SUFFICES ASSUME IInv, Next \/ UNCHANGED vars PROVE IInv'
  OBVIOUS
<1>1. ASSUME NEW c \in Clients, Get(c) \/ Put(c) \/ Patch(c) \/ Execute(c)
      PROVE  IInv'
  BY <1>1, GetKeepsIInv, PutKeepsIInv, PatchKeepsIInv, ExecuteKeepsIInv
<1>2. CASE Read \/ Reconnect
  BY <1>2, ReadKeepsIInv, ReconnectKeepsIInv
<1>3. CASE UNCHANGED vars
  BY <1>3 DEF vars, IInv, TypeInv, TypeOK, FlightInv, OrderInv, ReplyInv, SeenInv
<1>4. QED
  BY <1>1, <1>2, <1>3 DEF Next

\* Every reachable state has the invariant.
THEOREM Invariance == Spec => []IInv
BY InitIInv, NextKeepsIInv, PTL DEF Spec

----------------------------------------------------------------------------
(* What follows from it.                                                      *)

\* The rows, messages and writes are those of the resource.
THEOREM TypeCorrect == Spec => []TypeOK
<1>1. IInv => TypeOK
  BY DEF IInv, TypeInv
<1>2. QED
  BY Invariance, <1>1, PTL

\* As long as no write is sent while another is under way, no write puts back
\* what it was not based on, whatever sessions are lost (process_if_match,
\* patch_resource).
THEOREM NothingIsLost == Spec => []NoLostUpdate
<1>1. IInv => NoLostUpdate
  BY DEF IInv, FlightInv, NoLostUpdate
<1>2. QED
  BY Invariance, <1>1, PTL

\* What a client reads never goes back, though reads are served from the
\* replica: a reply is read after the update of its transaction.
THEOREM Monotonic == Spec => ReadsMonotonically
<1>1. IInv /\ [Next]_vars => [\A c \in Clients : seen'[c] >= seen[c]]_vars
  <2> SUFFICES ASSUME IInv, Next, NEW c \in Clients
               PROVE  seen'[c] >= seen[c]
    OBVIOUS
  <2>1. seen \in [Clients -> 0 .. MaxWrites] /\ seen[c] <= replica.version
    BY DEF IInv, TypeInv, TypeOK, SeenInv
  <2>2. seen[c] \in Int /\ replica.version \in Int
    BY <2>1, ConditionalAssumption DEF IInv, TypeInv, TypeOK, Rows
  <2>3. seen'[c] \in {seen[c], replica.version}
    <3>1. CASE Read
      <4>1. wire[1] = Head(wire) /\ 1 \in DOMAIN wire
        BY <3>1, LenProperties, EmptySeq DEF Read, IInv, TypeInv
      <4>2. wire[1].to # Noone => wire[1].row.version = replica.version
        BY <4>1 DEF IInv, ReplyInv
      <4>3. QED
        BY <2>1, <3>1, <4>1, <4>2 DEF Read
    <3>2. ASSUME NEW d \in Clients, Get(d) \/ Put(d) \/ Patch(d) \/ Execute(d)
          PROVE  seen'[c] \in {seen[c], replica.version}
      BY <2>1, <3>2 DEF Get, Put, Patch, Execute
    <3>3. CASE Reconnect
      BY <3>3 DEF Reconnect
    <3>4. QED
      BY <3>1, <3>2, <3>3 DEF Next
  <2>4. QED
    BY <2>1, <2>2, <2>3
<1>2. QED
  BY Invariance, <1>1, PTL DEF Spec, ReadsMonotonically
=============================================================================
