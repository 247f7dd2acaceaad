-------------------------- MODULE ConditionalWrites --------------------------
(***************************************************************************)
(* Clients that read one resource and write it back: GET, PUT with          *)
(* If-Match, and PATCH.  process_if_match and patch_resource compare and    *)
(* read the local replica when the request is prepared; the transaction is  *)
(* sent then and executed by ovsdb-server later, without looking at what    *)
(* it was checked against.  What is the use of the precondition?            *)
(*                                                                         *)
(* The replica, the socket and the end of a transaction are those of        *)
(* OvsdbManager, with the polling and the timers left out: the handler      *)
(* resumes when the reply is read.                                          *)
(***************************************************************************)
EXTENDS Naturals, SequencesExt

CONSTANTS
  Clients,     \* clients of the REST interface
  Columns,     \* configuration columns of the resource
  Values,      \* their values
  Initial,     \* the value the columns have at first
  MaxWrites    \* bound: transactions the server executes

ASSUME ConditionalAssumption ==
  /\ Initial \in Values
  /\ MaxWrites \in Nat

VARIABLES
  db,         \* the row at the server: its configuration, and a version
  replica,    \* the row in the replica
  wire,       \* messages of the server not yet read
  flight,     \* transactions sent and not executed, by client: see Write
  pc,         \* a client is "idle" or "waiting" for the answer to a write
  etag,       \* the configuration the client last read
  answer,     \* the last answer to the client
  seen,       \* history: the newest version the client read or wrote
  overlap,    \* history: a write was sent while another was under way
  clobbered   \* history: clients whose executed write undid what it was not based on

vars == <<db, replica, wire, flight, pc, etag, answer, seen, overlap, clobbered>>

Configs == [Columns -> Values]
None == "none"
Noone == "nobody"

Row(config, version) == [config |-> config, version |-> version]

Init ==
  /\ db = Row([x \in Columns |-> Initial], 0)
  /\ replica = db
  /\ wire = <<>>
  /\ flight = [c \in {} |-> db]
  /\ pc = [c \in Clients |-> "idle"]
  /\ etag = [c \in Clients |-> db.config]
  /\ answer = [c \in Clients |-> None]
  /\ seen = [c \in Clients |-> 0]
  /\ overlap = FALSE
  /\ clobbered = {}

----------------------------------------------------------------------------
(* The requests.                                                            *)

MayStart(c) ==
  /\ pc[c] = "idle"
  /\ c \notin DOMAIN flight

Answer(c, a) == pc' = [pc EXCEPT ![c] = "idle"] /\ answer' = [answer EXCEPT ![c] = a]

\* get: the row of the replica, with the hash of its JSON as its ETag.
Get(c) ==
  /\ MayStart(c)
  /\ etag' = [etag EXCEPT ![c] = replica.config]
  /\ seen' = [seen EXCEPT ![c] = replica.version]
  /\ Answer(c, "read")
  /\ UNCHANGED <<db, replica, wire, flight, overlap, clobbered>>

\* A write, the configuration it was made from, and the columns its client
\* asked to set whatever they are.
Write(config, based, asked) == [config |-> config, based |-> based, asked |-> asked]

Send(c, w) ==
  /\ flight' = [d \in DOMAIN flight \cup {c} |-> IF d = c THEN w ELSE flight[d]]
  /\ overlap' = (overlap \/ DOMAIN flight # {} \/ replica # db)

\* commit() of a transaction that changes nothing ends at once; any other is
\* sent, and the handler waits.
Commit(c, w) ==
  IF w.config = replica.config
  THEN Answer(c, "unchanged") /\ UNCHANGED <<flight, overlap>>
  ELSE /\ Send(c, w)
       /\ pc' = [pc EXCEPT ![c] = "waiting"]
       /\ UNCHANGED answer

\* Mutant: the ETag is not compared.
MatchesAny(c) == TRUE

\* process_if_match: the ETag the client has against that of the replica.
Matches(c) == etag[c] = replica.config

\* put with If-Match: 412, 200 for what is there already, or the write.
Put(c) ==
  /\ MayStart(c)
  /\ \E config \in Configs :
       IF Matches(c) THEN Commit(c, Write(config, etag[c], {}))
       ELSE /\ Answer(c, IF config = replica.config THEN "unchanged" ELSE "failed")
            /\ UNCHANGED <<flight, overlap>>
  /\ UNCHANGED <<db, replica, wire, etag, seen, clobbered>>

\* get_current_row and apply_patch: the row of the replica, one column changed.
Patched(c, x, v) == [replica.config EXCEPT ![x] = v]

\* patch: update_row writes the whole patched configuration.
Patch(c) ==
  /\ MayStart(c)
  /\ \E x \in Columns, v \in Values :
       Commit(c, Write(Patched(c, x, v), replica.config, {x}))
  /\ UNCHANGED <<db, replica, wire, etag, seen, clobbered>>

----------------------------------------------------------------------------
(* ovsdb-server and the session.                                            *)

\* The columns another client changed and this write, unasked, puts back.
Undone(w) == {x \in Columns \ w.asked : /\ db.config[x] # w.based[x]
                                        /\ w.config[x] # db.config[x]}

\* The server executes a transaction; the update is sent before the reply.
Execute(c) ==
  /\ c \in DOMAIN flight
  /\ db.version < MaxWrites
  /\ db' = Row(flight[c].config, db.version + 1)
  /\ wire' = wire \o <<[row |-> db', to |-> Noone],
                       [row |-> db', to |-> IF pc[c] = "waiting" THEN c ELSE Noone]>>
  /\ clobbered' = IF Undone(flight[c]) = {} THEN clobbered
                  ELSE clobbered \cup {c}
  /\ flight' = [d \in DOMAIN flight \ {c} |-> flight[d]]
  /\ UNCHANGED <<replica, pc, etag, answer, seen, overlap>>

\* Mutant: replies are looked at before the updates that came with them.
ReadInAnyOrder ==
  /\ \E i \in DOMAIN wire :
       /\ LET m == wire[i]
          IN IF m.to = Noone
             THEN replica' = m.row /\ UNCHANGED <<pc, answer, seen>>
             ELSE /\ Answer(m.to, "success")
                  /\ seen' = [seen EXCEPT ![m.to] = m.row.version]
                  /\ UNCHANGED replica
       /\ wire' = RemoveAt(wire, i)
  /\ UNCHANGED <<db, flight, etag, overlap, clobbered>>

\* Idl.run reads a message; the handler of a reply resumes.
Read ==
  /\ wire # <<>>
  /\ LET m == Head(wire)
     IN IF m.to = Noone
        THEN replica' = m.row /\ UNCHANGED <<pc, answer, seen>>
        ELSE /\ Answer(m.to, "success")
             /\ seen' = [seen EXCEPT ![m.to] = m.row.version]
             /\ UNCHANGED replica
  /\ wire' = Tail(wire)
  /\ UNCHANGED <<db, flight, etag, overlap, clobbered>>

\* A new session: a fresh replica, and TRY_AGAIN for what was outstanding,
\* which the server may have executed, or may execute yet.
Reconnect ==
  /\ replica' = db
  /\ wire' = <<>>
  /\ pc' = [c \in Clients |-> "idle"]
  /\ answer' = [c \in Clients |-> IF pc[c] = "waiting" THEN "try_again" ELSE answer[c]]
  /\ UNCHANGED <<db, flight, etag, seen, overlap, clobbered>>

Next == \/ \E c \in Clients : Get(c) \/ Put(c) \/ Patch(c) \/ Execute(c)
        \/ Read \/ Reconnect

Spec == Init /\ [][Next]_vars

----------------------------------------------------------------------------
Rows == [config : Configs, version : 0 .. MaxWrites]

TypeOK ==
  /\ db \in Rows
  /\ replica \in Rows
  /\ \A i \in DOMAIN wire : wire[i].row \in Rows /\ wire[i].to \in Clients \cup {Noone}
  /\ DOMAIN flight \subseteq Clients
  /\ \A c \in DOMAIN flight : flight[c] \in
       [config : Configs, based : Configs, asked : SUBSET Columns]
  /\ pc \in [Clients -> {"idle", "waiting"}]
  /\ etag \in [Clients -> Configs]
  /\ answer \in [Clients -> {None, "read", "unchanged", "failed", "success", "try_again"}]
  /\ seen \in [Clients -> 0 .. MaxWrites]
  /\ overlap \in BOOLEAN
  /\ clobbered \subseteq Clients

\* The purpose of If-Match, and of changing some columns by PATCH: no write
\* puts back, unasked, a column that was changed since the configuration it
\* is based on was read, as long as no write is sent while another is under
\* way, whatever sessions are lost.
NoLostUpdate == ~overlap => clobbered = {}

\* The same of overlapping writes ("entity-tag value for representation
\* comparison", apidocgen.py), which the code does not ensure.
PreconditionHolds == clobbered = {}

\* What a client reads never goes back: a GET after a write answered with
\* success returns it or a later row, though reads are served by the replica
\* and whatever other clients do and sessions are lost.
ReadsMonotonically == [][\A c \in Clients : seen'[c] >= seen[c]]_vars
=============================================================================
