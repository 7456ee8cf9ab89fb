------------------------------ MODULE Control ------------------------------
(***************************************************************************)
(* The relational control plane: the Alembic revision that makes and drops *)
(* its schema, RelationalControlPlaneAdapter.sync_provenance and           *)
(* append_audit under retry_io, and the durable audit recorder of          *)
(* platform/observability.py, whose bounded queue a background task drains *)
(* into append_audit.                                                      *)
(*                                                                         *)
(* A statement runs in a transaction of its own (engine.begin()).  An      *)
(* attempt that times out while its COMMIT is under way may have been      *)
(* committed; retry_io cannot tell and runs the statement again.           *)
(*                                                                         *)
(* The two workloads, syncing and auditing, share nothing but the schema,  *)
(* so a behaviour has one of them; append_audit is one plain INSERT on     *)
(* every dialect, so it is studied on one.                                 *)
(***************************************************************************)
EXTENDS Schema, Integers, FiniteSets

CONSTANTS
  Dialect,        \* the dialects of the engine, of the three supported
  Worker,         \* tasks that call sync_provenance
  Item,           \* memory items: id, (org, workspace, content_hash) grain, state
  Bundle,         \* field bundles a caller may hand to record()
  QueueMax,       \* ObservabilitySettings.durable_audit_queue_max
  MaxAttempts,    \* RetrySettings.max_attempts
  MaxSyncs,       \* calls of sync_provenance
  MaxRecords,     \* calls of record()
  MaxUnknown,     \* attempts whose fate the client does not learn
  MaxCancels,     \* times the drain task is cancelled from outside
  MaxCrashes      \* migrations that die half-way

ASSUME BoundsAssumption ==
  /\ Dialect \subseteq {"postgresql", "sqlite", "mysql"}
  /\ {QueueMax, MaxAttempts} \subseteq Nat \ {0}
  /\ {MaxSyncs, MaxRecords, MaxUnknown, MaxCancels, MaxCrashes} \subseteq Nat

VARIABLES
  dialect, workload,
  built,          \* how many operations of the revision are in place: a crash
                  \* or a failure always leaves the first ones of them
  stamped,        \* whether alembic_version holds the revision
  migrating,      \* "no", "up" or "down"
  pos,            \* operations done by the migration under way
  prov,           \* memory_provenance, as far as its key and state
  sync,           \* per worker, the call of sync_provenance
  recorded,       \* calls of record() that were accepted (all are mirrored)
  queue,          \* the recorder's queue
  unfinished,     \* its count of tasks not done
  drain,          \* the drain task: none, waiting, appending, committing, done
  current,        \* the record it appends, and which attempt
  audit,          \* audit_log
  marked,         \* records whose durable write failed, logged as such
  dropped,        \* ghost: records the drain held when cancelled from outside
  closing,        \* aclose: open, joining, resuming, stopping, closed
  due,            \* ghost: the records queued before aclose was called
  syncs, unknown, cancels, crashes

migrationVars == <<built, stamped, migrating, pos, crashes>>
syncVars == <<prov, sync, syncs>>
auditVars == <<recorded, queue, unfinished, drain, current, audit, marked,
               dropped, closing, due, cancels>>
vars == <<dialect, workload, migrationVars, syncVars, auditVars, unknown>>

----------------------------------------------------------------------------
(* The revision.  Operations are the tables and, after each, its indexes.  *)

Created(t) == [table |-> t.name, what |-> "table",
               item |-> [pk |-> t.pk, required |-> t.required,
                         optional |-> t.optional, unique |-> t.unique]]

Indexed(t, i) == [table |-> t, what |-> "index", item |-> i]

TableOps(t) == <<Created(t)>> \o [i \in DOMAIN t.indexes |-> Indexed(t.name, t.indexes[i])]

\* Mutant: a revision whose author forgot the indexes of one table
UpgradeUnindexed ==
  FlattenSeq([i \in DOMAIN Migration |->
    IF Migration[i].name = "memory_provenance" THEN <<Created(Migration[i])>> ELSE TableOps(Migration[i])])

\* upgrade(): every operation in turn
upgrade == FlattenSeq([i \in DOMAIN Migration |-> TableOps(Migration[i])])

\* What Base.metadata.create_all makes on Postgres
create_all ==
  UNION {Range(TableOps(t)) : t \in Metadata} \cup {Indexed(x[1], x[2]) : x \in PostgresOnly}

\* The whole revision makes what the metadata says
RevisionIsMetadata == Range(upgrade) = create_all

\* Alembic runs the revision in one transaction only where DDL allows it
Transactional(d) == d = "postgresql"

\* What a crash leaves: all as before the transaction, or what was done
Undone(d, before, now) == IF Transactional(d) THEN before ELSE now

Idle == migrating = "no"

\* Nothing was written yet: the plane is not in use
Unused == prov = {} /\ audit = << >> /\ recorded = 0 /\ \A w \in Worker : sync[w].phase = "idle"

BeginUpgrade ==
  /\ Idle /\ ~stamped /\ dialect # "mysql"
  /\ migrating' = "up" /\ pos' = 0
  /\ UNCHANGED <<dialect, workload, built, stamped, crashes, syncVars, auditVars, unknown>>

BeginDowngrade ==
  /\ Idle /\ stamped /\ Unused
  /\ migrating' = "down" /\ pos' = 0
  /\ UNCHANGED <<dialect, workload, built, stamped, crashes, syncVars, auditVars, unknown>>

\* One create, or in the opposite order one drop; a create of what is there
\* and a drop of what is not raise
MigrationStep ==
  /\ ~Idle /\ pos < Len(upgrade)
  /\ LET n == IF migrating = "up" THEN pos + 1 ELSE Len(upgrade) - pos
         fails == (migrating = "up") = (n <= built)
     IN  IF fails
         THEN migrating' = "no" /\ pos' = 0 /\ UNCHANGED built
         ELSE /\ built' = IF migrating = "up" THEN n ELSE n - 1
              /\ pos' = pos + 1 /\ UNCHANGED migrating
  /\ UNCHANGED <<dialect, workload, stamped, crashes, syncVars, auditVars, unknown>>

\* The version row is the last write of the revision
MigrationEnds ==
  /\ ~Idle /\ pos = Len(upgrade)
  /\ stamped' = (migrating = "up")
  /\ migrating' = "no" /\ pos' = 0
  /\ UNCHANGED <<dialect, workload, built, crashes, syncVars, auditVars, unknown>>

MigrationCrash ==
  /\ ~Idle /\ crashes < MaxCrashes
  /\ crashes' = crashes + 1
  /\ built' = Undone(dialect, IF migrating = "up" THEN 0 ELSE Len(upgrade), built)
  /\ migrating' = "no" /\ pos' = 0
  /\ UNCHANGED <<dialect, workload, stamped, syncVars, auditVars, unknown>>

\* The schema the plane serves from (on MySQL the revision cannot run: its
\* strings have no length, so the tables come from create_all)
InPlace == Idle /\ (stamped \/ dialect = "mysql")

----------------------------------------------------------------------------
(* sync_provenance.                                                        *)

NoSync == [phase |-> "idle", item |-> [id |-> 0, grain |-> 0, state |-> 0], attempt |-> 0]

Row(item) == [id |-> item.id, grain |-> item.grain, state |-> item.state]

\* Mutant: conflict on the primary key instead of the grain
UpsertById(d, p, item) ==
  {{r \in p : r.id # item.id} \cup {Row(item)}}

\* The tables the upsert may leave, none if it raises.  ON CONFLICT targets
\* ux_prov_chash; every column but the key is set, and memory_id is not among
\* the columns.  On MySQL a collision of any unique key updates the row.
Upsert(d, p, item) ==
  LET same == {r \in p : r.grain = item.grain}
      hit  == IF d = "mysql" THEN same \cup {r \in p : r.id = item.id} ELSE same
  IN  IF hit # {} THEN {(p \ {r}) \cup {[r EXCEPT !.state = item.state]} : r \in hit}
      ELSE IF \E r \in p : r.id = item.id THEN {}
      ELSE {p \cup {Row(item)}}

Clash(a, b) == a.grain = b.grain \/ a.id = b.id

SyncBegin(w) ==
  /\ workload = "sync" /\ InPlace /\ syncs < MaxSyncs
  /\ sync[w].phase \in {"idle", "done", "raised"}
  /\ syncs' = syncs + 1
  /\ \E item \in Item : sync' = [sync EXCEPT ![w] = [phase |-> "begin", item |-> item, attempt |-> 1]]
  /\ UNCHANGED <<dialect, workload, migrationVars, prov, auditVars, unknown>>

\* The statement takes its row locks, or waits for them, or raises
SyncExecute(w) ==
  /\ sync[w].phase = "begin"
  /\ \A v \in Worker \ {w} : sync[v].phase = "committing" => ~Clash(sync[v].item, sync[w].item)
  /\ sync' = [sync EXCEPT ![w].phase =
                IF Upsert(dialect, prov, sync[w].item) = {} THEN "raised" ELSE "committing"]
  /\ UNCHANGED <<dialect, workload, migrationVars, prov, syncs, auditVars, unknown>>

SyncCommit(w) ==
  /\ sync[w].phase = "committing"
  /\ prov' \in Upsert(dialect, prov, sync[w].item)
  /\ sync' = [sync EXCEPT ![w].phase = "done"]
  /\ UNCHANGED <<dialect, workload, migrationVars, syncs, auditVars, unknown>>

\* The attempt times out, or its connection is lost: retry_io goes on to the
\* next attempt or lets the error out.  Its transaction is rolled back,
\* unless COMMIT got through.
SyncAttemptFails(w) ==
  /\ sync[w].phase \in {"begin", "committing"} /\ unknown < MaxUnknown
  /\ unknown' = unknown + 1
  /\ \/ UNCHANGED prov
     \/ sync[w].phase = "committing" /\ prov' \in Upsert(dialect, prov, sync[w].item)
  /\ sync' = [sync EXCEPT ![w].phase = IF sync[w].attempt < MaxAttempts THEN "begin" ELSE "raised",
                          ![w].attempt = IF @ < MaxAttempts THEN @ + 1 ELSE @]
  /\ UNCHANGED <<dialect, workload, migrationVars, syncs, auditVars>>

----------------------------------------------------------------------------
(* The durable audit recorder.                                             *)

\* SafeTraceFields: ids, hashes and counts pass, free text does not
SafeTraceFields(b) == b.ids # "free_text" /\ b.hashes # "free_text" /\ b.counts >= 0

Busy == drain \in {"appending", "committing"}

Alive == Busy \/ drain = "waiting"

\* The drain task goes on, not yet told to stop
Running == closing # "stopping"

\* _DurableAuditLog.record, in a running loop: mirrored, the drain task
\* started if there is none, queued unless the queue is full
record ==
  /\ workload = "audit" /\ InPlace /\ recorded < MaxRecords
  /\ \E b \in Bundle : SafeTraceFields(b)
  /\ recorded' = recorded + 1
  /\ drain' = IF Alive THEN drain ELSE "waiting"
  /\ IF Len(queue) < QueueMax
     THEN queue' = Append(queue, recorded') /\ unfinished' = unfinished + 1
     ELSE UNCHANGED <<queue, unfinished>>
  /\ UNCHANGED <<dialect, workload, migrationVars, syncVars, current, audit, marked,
                 dropped, closing, due, cancels, unknown>>

\* Outside a loop the mirrored line is all there is
RecordNoLoop ==
  /\ workload = "audit" /\ InPlace /\ recorded < MaxRecords
  /\ recorded' = recorded + 1
  /\ UNCHANGED <<dialect, workload, migrationVars, syncVars, queue, unfinished, drain, current,
                 audit, marked, dropped, closing, due, cancels, unknown>>

\* _drain takes the oldest record and appends it
DrainGet ==
  /\ drain = "waiting" /\ queue # << >> /\ Running
  /\ drain' = "appending"
  /\ current' = [record |-> Head(queue), attempt |-> 1]
  /\ queue' = Tail(queue)
  /\ UNCHANGED <<dialect, workload, migrationVars, syncVars, recorded, unfinished, audit, marked,
                 dropped, closing, due, cancels, unknown>>

DrainExecute ==
  /\ drain = "appending" /\ Running
  /\ drain' = "committing"
  /\ UNCHANGED <<dialect, workload, migrationVars, syncVars, recorded, queue, unfinished, current,
                 audit, marked, dropped, closing, due, cancels, unknown>>

\* Mutant: waking the joiner as soon as nothing waits in the queue
EmptyWakes(n, q) == q = << >>

\* queue.join() is woken by the task_done that leaves n = 0 unfinished
JoinWakes(n, q) == n = 0

TaskDone ==
  /\ unfinished' = unfinished - 1
  /\ closing' = IF closing = "joining" /\ JoinWakes(unfinished', queue) THEN "resuming" ELSE closing

\* The record is done with, and the task back at the queue
Finished == drain' = "waiting" /\ TaskDone

DrainCommit ==
  /\ drain = "committing" /\ Running
  /\ audit' = Append(audit, current.record)
  /\ Finished
  /\ UNCHANGED <<dialect, workload, migrationVars, syncVars, recorded, queue, current, marked,
                 dropped, due, cancels, unknown>>

\* Mutant: a failed attempt put back at the end of the queue instead of retried
Requeued ==
  /\ queue' = Append(queue, current.record) /\ drain' = "waiting"
  /\ UNCHANGED <<current, unfinished, marked, closing>>

\* retry_io around append_audit: another attempt, or the failure is marked
RetryOrMark ==
  IF current.attempt < MaxAttempts
  THEN /\ drain' = "appending" /\ current' = [current EXCEPT !.attempt = @ + 1]
       /\ UNCHANGED <<queue, unfinished, marked, closing>>
  ELSE /\ marked' = marked \cup {current.record} /\ Finished
       /\ UNCHANGED <<queue, current>>

\* The transaction of an attempt that is given up is rolled back, unless its
\* COMMIT got through
RowOrNot ==
  \/ UNCHANGED audit
  \/ drain = "committing" /\ audit' = Append(audit, current.record)

DrainAttemptFails ==
  /\ Busy /\ Running /\ unknown < MaxUnknown
  /\ unknown' = unknown + 1
  /\ RowOrNot /\ RetryOrMark
  /\ UNCHANGED <<dialect, workload, migrationVars, syncVars, recorded, dropped, due, cancels>>

\* CancelledError in the drain task: what it held is done with, unmarked
DrainStops ==
  /\ drain' = "done"
  /\ RowOrNot

\* The drain task is cancelled from outside
DrainCancelled ==
  /\ Alive /\ Running /\ cancels < MaxCancels
  /\ cancels' = cancels + 1
  /\ DrainStops
  /\ IF Busy THEN TaskDone /\ dropped' = dropped \cup {current.record}
     ELSE UNCHANGED <<unfinished, closing, dropped>>
  /\ UNCHANGED <<dialect, workload, migrationVars, syncVars, recorded, queue, current, marked, due, unknown>>

\* aclose: nothing to do if no drain task was ever made; else join the queue
AcloseBegin ==
  /\ workload = "audit" /\ InPlace /\ closing = "open"
  /\ due' = Range(queue) \cup (IF Busy THEN {current.record} ELSE {})
  /\ closing' = CASE drain = "none" -> "closed"
                 [] drain # "none" /\ JoinWakes(unfinished, queue) -> "resuming"
                 [] OTHER -> "joining"
  /\ UNCHANGED <<dialect, workload, migrationVars, syncVars, recorded, queue, unfinished, drain,
                 current, audit, marked, dropped, cancels, unknown>>

\* The closing task runs again and cancels the drain task, which may have
\* taken a new record meanwhile
AcloseCancel ==
  /\ closing = "resuming"
  /\ closing' = "stopping"
  /\ UNCHANGED <<dialect, workload, migrationVars, syncVars, recorded, queue, unfinished, drain,
                 current, audit, marked, dropped, due, cancels, unknown>>

\* The drain task takes its cancellation, and aclose returns
AcloseEnd ==
  /\ closing = "stopping"
  /\ closing' = "closed"
  /\ IF Alive THEN DrainStops /\ unfinished' = (IF Busy THEN unfinished - 1 ELSE unfinished)
     ELSE UNCHANGED <<drain, audit, unfinished>>
  /\ UNCHANGED <<dialect, workload, migrationVars, syncVars, recorded, queue, current, marked,
                 dropped, due, cancels, unknown>>

----------------------------------------------------------------------------

Init ==
  /\ dialect \in Dialect /\ workload \in {"sync", "audit"}
  /\ workload = "audit" => dialect = CHOOSE d \in Dialect : TRUE
  /\ built = 0 /\ stamped = FALSE /\ migrating = "no" /\ pos = 0
  /\ prov = {} /\ sync = [w \in Worker |-> NoSync]
  /\ recorded = 0 /\ queue = << >> /\ unfinished = 0 /\ drain = "none"
  /\ current = [record |-> 0, attempt |-> 0]
  /\ audit = << >> /\ marked = {} /\ dropped = {} /\ closing = "open" /\ due = {}
  /\ syncs = 0 /\ unknown = 0 /\ cancels = 0 /\ crashes = 0

Migrate == BeginUpgrade \/ BeginDowngrade \/ MigrationStep \/ MigrationEnds \/ MigrationCrash

Drain == DrainGet \/ DrainExecute \/ DrainCommit \/ DrainAttemptFails

Aclose == AcloseCancel \/ AcloseEnd

Next ==
  \/ Migrate
  \/ \E w \in Worker : SyncBegin(w) \/ SyncExecute(w) \/ SyncCommit(w) \/ SyncAttemptFails(w)
  \/ record \/ RecordNoLoop \/ Drain \/ DrainCancelled
  \/ AcloseBegin \/ Aclose

Spec == Init /\ [][Next]_vars

----------------------------------------------------------------------------
(* Properties.                                                             *)

\* A stamped database has exactly the tables, keys and indexes the adapters
\* are written against, plus on SQLite the two GIN indexes as plain ones; a
\* revision that died half-way leaves no trace on Postgres (revision
\* 46ae4bcc2472 against relational/schema.py, run by migrations/env.py).
StampedMatchesMetadata ==
  /\ Idle /\ stamped /\ (Transactional(dialect) \/ crashes = 0) =>
       built = Len(upgrade) /\ RevisionIsMetadata
  /\ Idle /\ ~stamped /\ Transactional(dialect) => built = 0

\* A sync that returned is in the mirror once: the grain has a row, no grain
\* and no memory id has two, whatever attempts were retried or lost
\* (relational_control.py _sync_provenance_impl).  On MySQL an id that comes
\* back with another hash updates the old row, so a grain may have none.
ReturnedIsMirrored ==
  /\ \A r, s \in prov : r # s => ~Clash(r, s)
  /\ dialect # "mysql" =>
       \A w \in Worker : sync[w].phase = "done" => \E r \in prov : r.grain = sync[w].item.grain

\* The audit log is in the order of recording, and holds a record more than
\* once only for attempts whose fate the client did not learn, one row for
\* each, though attempts are retried after their row was written and the drain
\* task dies and is restarted (observability.py _drain; append_audit is a plain
\* INSERT under retry_io).
AuditInOrder ==
  /\ \A i, j \in DOMAIN audit : i <= j => audit[i] <= audit[j]
  /\ Len(audit) <= Cardinality(Range(audit)) + unknown

\* When aclose returns, every record that was queued before it was called is
\* written, marked as failed, or was in the hands of a cancelled drain task
\* (observability.py aclose, _drain).
CloseFlushes == closing = "closed" => due \subseteq Range(audit) \cup marked \cup dropped
=============================================================================
