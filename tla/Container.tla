----------------------------- MODULE Container ------------------------------
(***************************************************************************)
(* The container's event plane: the in-process bus, the write scopes that  *)
(* buffer events and publish them on commit, and the degrade fan-out that  *)
(* the container subscribes at construction.  A scope is used by one task; *)
(* every handler call and every write step is an await, so the tasks, the  *)
(* subscribers and the container's lifecycle interleave between them.      *)
(***************************************************************************)
EXTENDS Naturals, Sequences, FiniteSets, SequencesExt

CONSTANTS
    Task,              \* the tasks, each with a scope of its own
    Kinds,             \* which scopes they may use: outbox, memory or read
    Event,             \* events that may be added, each one once
    EventType, Component, Reason,  \* their type and, of a degrade, its fields
    Handler,           \* subscribers other than the container itself
    Failure,           \* <<operation, component, exception>> met by a task
    MaxFaults,         \* bound on handlers, write steps and bodies that raise
    MaxCalls           \* bound on the calls made to the bus and the container

ASSUME KindsAssumption == Kinds \subseteq [Task -> {"outbox", "memory", "read"}]
ASSUME HandlerAssumption == "on_degraded" \notin Handler
ASSUME BoundsAssumption == MaxFaults \in Nat /\ MaxCalls \in Nat

VARIABLES
    Kind,       \* the class of each task's scope, fixed
    handlers,   \* InprocBus._handlers, a dict in the order of its keys
    started,    \* InprocBus._started
    wired,      \* a SyncStatusSink is set
    checked,    \* assert_ready_to_start() has returned
    metrics,    \* events counted by the metric sink
    shown,      \* events applied to the SyncStatusSink
    scope,      \* the tasks' scopes and where each task is in its scope
    faults, calls,
    added, discarded, published, heard, broken, stopped  \* what has happened

bus     == <<handlers, started, stopped>>
plane   == <<wired, checked>>
sinks   == <<metrics, shown>>
history == <<added, discarded, published, heard, broken>>
vars    == <<Kind, bus, plane, sinks, scope, faults, calls, history>>

OnDegraded == "on_degraded"
Degraded   == "DegradedModeEntered"
Base       == "DomainEvent"

SyncClassAlways == {"sync_stalled", "sync_delta_dead_lettered",
                    "sync_backfill_window_exceeded", "primary_sync_lag",
                    "device_wipe_ack_pending", "daemon_unreachable_spooled"}
SyncClassWhenDeviceSync == {"server_unreachable"}

\* DegradedModeEntered.user_visible().
user_visible(e) ==
    \/ Reason[e] \in SyncClassAlways
    \/ Reason[e] \in SyncClassWhenDeviceSync /\ Component[e] = "device_sync"

\* The degrade paths: what a failure of a component in an operation becomes.
Rules == {[operation |-> "recall", component |-> "ltm",
           failure |-> "StoreUnavailableError", reason |-> "ltm_unavailable"],
          [operation |-> "share", component |-> "temporal",
           failure |-> "WorkflowUnavailableError", reason |-> "temporal_unavailable"],
          [operation |-> "capture", component |-> "capture",
           failure |-> "SchemaDriftError", reason |-> "capture_schema_drift"]}

\* The classes of which an exception of the given class is an instance.
IsA(exc) == {exc, "MemoryUniverseError"} \cup
            (IF exc = "TierRepositoryUnavailableError" THEN {"StoreUnavailableError"} ELSE {})

\* DegradationPolicy.decide(): at most one reason; none means re-raise.
decide(operation, component, exc) ==
    {r.reason : r \in {q \in Rules : /\ q.operation = operation
                                     /\ q.component = component
                                     /\ q.failure \in IsA(exc)}}

Idle == [pc |-> "body", buffer |-> <<>>, queue |-> <<>>, targets |-> <<>>, exit |-> FALSE]

Init ==
    /\ Kind \in Kinds
    /\ handlers = <<[type |-> Degraded, list |-> <<OnDegraded>>]>>
    /\ started = FALSE /\ stopped = FALSE
    /\ wired = FALSE /\ checked = FALSE
    /\ metrics = <<>> /\ shown = <<>>
    /\ scope = [t \in Task |-> Idle]
    /\ faults = 0 /\ calls = 0
    /\ added = [t \in Task |-> <<>>] /\ discarded = {} /\ published = {}
    /\ heard = [h \in Handler |-> <<>>] /\ broken = {}

-----------------------------------------------------------------------------
(***************************************************************************)
(* The container and the bus.                                              *)
(***************************************************************************)
\* One more call from outside the scopes.
Call == calls < MaxCalls /\ calls' = calls + 1

set_sync_status ==
    /\ wired' = TRUE
    /\ Call
    /\ UNCHANGED <<Kind, bus, checked, sinks, scope, faults, history>>

\* assert_ready_to_start(): raises, and changes nothing, while unwired.
assert_ready_to_start ==
    /\ wired
    /\ checked' = TRUE
    /\ Call
    /\ UNCHANGED <<Kind, bus, wired, sinks, scope, faults, history>>

startup ==
    /\ started' = TRUE
    /\ Call
    /\ UNCHANGED <<Kind, handlers, stopped, plane, sinks, scope, faults, history>>

\* InprocBus.close(): the container's own subscription goes with the others.
shutdown ==
    /\ started
    /\ started' = FALSE /\ stopped' = TRUE
    /\ handlers' = <<>>
    /\ Call
    /\ UNCHANGED <<Kind, plane, sinks, scope, faults, history>>

KeyOf(type) == {i \in 1..Len(handlers) : handlers[i].type = type}
Subscribed(h) == \E i \in 1..Len(handlers) : h \in Range(handlers[i].list)

\* subscribe(): a new key goes last, a known one keeps its place.
subscribe(type, h) ==
    /\ ~Subscribed(h)
    /\ handlers' = IF KeyOf(type) = {}
                   THEN Append(handlers, [type |-> type, list |-> <<h>>])
                   ELSE [i \in 1..Len(handlers) |->
                            IF i \in KeyOf(type)
                            THEN [handlers[i] EXCEPT !.list = Append(@, h)]
                            ELSE handlers[i]]
    /\ Call
    /\ UNCHANGED <<Kind, started, stopped, plane, sinks, scope, faults, history>>

\* Subscription.unsubscribe(): the key stays, perhaps with no handler.
unsubscribe(h) ==
    /\ \E i \in 1..Len(handlers) : \E k \in 1..Len(handlers[i].list) :
           /\ handlers[i].list[k] = h
           /\ handlers' = [handlers EXCEPT ![i].list = RemoveAt(@, k)]
    /\ Call
    /\ UNCHANGED <<Kind, started, stopped, plane, sinks, scope, faults, history>>

-----------------------------------------------------------------------------
(***************************************************************************)
(* The scopes.  A task adds events, may commit or roll back on the way,    *)
(* and leaves: a unit of work commits on exit, or rolls back when the body *)
(* raised; a memory write scope is committed by its activity, which        *)
(* repeats the commit when it fails; a read scope refuses both.            *)
(***************************************************************************)
At(t, pc) == scope[t].pc = pc

\* Where an exception takes a task: a failed activity may retry its commit.
Raised(t) == CASE scope[t].exit        -> "failed"
               [] Kind[t] = "memory"   -> "failed"
               [] OTHER                -> "unwind"

Unused == Event \ UNION {Range(added[t]) : t \in Task}

add(t, e) ==
    /\ At(t, "body") /\ e \in Unused
    /\ IF Kind[t] = "read"
       THEN scope' = [scope EXCEPT ![t].pc = "unwind"] /\ UNCHANGED added
       ELSE /\ scope' = [scope EXCEPT ![t].buffer = Append(@, e)]
            /\ added' = [added EXCEPT ![t] = Append(@, e)]
    /\ UNCHANGED <<Kind, bus, calls, plane, sinks, faults, discarded, published, heard, broken>>

\* The body meets a failure: a decision becomes an event, none is re-raised.
degrade(t, operation, component, exc) ==
    /\ At(t, "body") /\ Kind[t] = "outbox"
    /\ IF decide(operation, component, exc) = {}
       THEN scope' = [scope EXCEPT ![t].pc = "unwind"] /\ UNCHANGED added
       ELSE \E e \in Unused :
              /\ EventType[e] = Degraded /\ Component[e] = component
              /\ Reason[e] \in decide(operation, component, exc)
              /\ scope' = [scope EXCEPT ![t].buffer = Append(@, e)]
              /\ added' = [added EXCEPT ![t] = Append(@, e)]
    /\ UNCHANGED <<Kind, bus, calls, plane, sinks, faults, discarded, published, heard, broken>>

\* Mutant: the events are published and stay in the buffer.
KeepBuffer(t, exit) == [scope[t] EXCEPT !.pc = "publish", !.exit = exit, !.queue = @ \o scope[t].buffer]

\* commit(): the buffer is swapped for an empty one and then published.
Swap(t, exit) ==
    [scope[t] EXCEPT !.pc = "publish", !.exit = exit, !.queue = scope[t].buffer, !.buffer = <<>>]

\* Mutant: the buffer is swapped before the write step has succeeded.
LoseOnFailedWrite(t) == [scope[t] EXCEPT !.pc = "failed", !.buffer = <<>>]

\* A failed write step leaves the buffer for the retry.
FailedWrite(t) == [scope[t] EXCEPT !.pc = "failed"]

\* commit() in the body, or as its end: by __aexit__ without an exception
\* and as the last call of a memory activity.
commit(t, exit) ==
    /\ At(t, "body")
    /\ \/ /\ Kind[t] \in {"outbox", "memory"}
          /\ scope' = [scope EXCEPT ![t] = Swap(t, exit)]
          /\ UNCHANGED <<faults, broken>>
       \/ /\ Kind[t] = "memory" /\ faults < MaxFaults
          /\ scope' = [scope EXCEPT ![t] = FailedWrite(t)]
          /\ faults' = faults + 1 /\ UNCHANGED broken
       \/ /\ Kind[t] = "read"
          /\ scope' = [scope EXCEPT ![t].pc = IF exit THEN "done" ELSE "unwind"]
          /\ UNCHANGED <<faults, broken>>
    /\ UNCHANGED <<Kind, bus, calls, plane, sinks, added, discarded, published, heard>>

\* Mutant: rollback() forgets to clear the buffer.
KeptOnRollback(t) == scope[t].buffer

\* What rollback() leaves in the buffer.
RolledBack(t) == <<>>

\* rollback() in the body, or by __aexit__ when the body raised.
rollback(t) ==
    /\ \/ At(t, "body") /\ Kind[t] = "outbox"
       \/ At(t, "unwind")
    /\ scope' = [scope EXCEPT ![t].buffer = RolledBack(t),
                              ![t].pc = IF @ = "body" THEN "body" ELSE "failed"]
    /\ discarded' = discarded \cup Range(scope[t].buffer)
    /\ UNCHANGED <<Kind, bus, calls, plane, sinks, faults, added, published, heard, broken>>

\* The body raises; the owner of a failed memory activity calls it again,
\* and the owner of a unit of work may enter the same one again.
raise(t) ==
    /\ At(t, "body") /\ Kind[t] # "memory"
    /\ faults < MaxFaults /\ faults' = faults + 1
    /\ scope' = [scope EXCEPT ![t].pc = "unwind"]
    /\ UNCHANGED <<Kind, bus, calls, plane, sinks, history>>

again(t) ==
    /\ At(t, "failed")
    /\ scope' = [scope EXCEPT ![t].pc = "body", ![t].exit = FALSE]
    /\ UNCHANGED <<Kind, bus, calls, plane, sinks, faults, history>>

-----------------------------------------------------------------------------
(***************************************************************************)
(* InprocBus.publish(): the targets are taken once, then called in turn;   *)
(* an exception of one of them ends the commit that is publishing.         *)
(***************************************************************************)
Targets(e) ==
    FlattenSeq([i \in 1..Len(handlers) |->
        IF handlers[i].type \in {Base, EventType[e]} THEN handlers[i].list ELSE <<>>])

publish(t) ==
    /\ At(t, "publish") /\ scope[t].queue # <<>>
    /\ scope' = [scope EXCEPT ![t].pc = "dispatch", ![t].targets = Targets(Head(scope[t].queue))]
    /\ UNCHANGED <<Kind, bus, calls, plane, sinks, faults, history>>

\* Mutant: a degrade that the user sees is not counted as well.
EitherConsumer(e) ==
    [ok |-> ~user_visible(e) \/ wired, count |-> ~user_visible(e), show |-> user_visible(e) /\ wired]

\* fan_out(): the metric always; a SYNC-CLASS degrade also needs the sink.
fan_out(e) ==
    [ok |-> ~user_visible(e) \/ wired, count |-> TRUE, show |-> user_visible(e) /\ wired]

\* The commit ends with the exception of a handler: the rest is dropped.
Abort(t) == [scope[t] EXCEPT !.pc = Raised(t), !.queue = <<>>, !.targets = <<>>]

\* The handler returns, and the next of the targets is to be called.
Called(t) == [scope[t] EXCEPT !.targets = Tail(@)]

OnDegradedCalled(t, e) ==
    LET out == fan_out(e)
    IN  /\ metrics' = IF out.count THEN Append(metrics, e) ELSE metrics
        /\ shown'   = IF out.show THEN Append(shown, e) ELSE shown
        /\ scope'   = [scope EXCEPT ![t] = IF out.ok THEN Called(t) ELSE Abort(t)]
        /\ broken'  = IF out.ok THEN broken ELSE broken \cup {t}
        /\ UNCHANGED <<faults, heard>>

HandlerCalled(t, h, e) ==
    /\ heard' = [heard EXCEPT ![h] = Append(@, e)]
    /\ \/ /\ scope' = [scope EXCEPT ![t] = Called(t)]
          /\ UNCHANGED <<faults, broken>>
       \/ /\ faults < MaxFaults /\ faults' = faults + 1
          /\ scope' = [scope EXCEPT ![t] = Abort(t)]
          /\ broken' = broken \cup {t}
    /\ UNCHANGED sinks

dispatch(t) ==
    /\ At(t, "dispatch") /\ scope[t].targets # <<>>
    /\ LET h == Head(scope[t].targets)
           e == Head(scope[t].queue)
       IN  IF h = OnDegraded THEN OnDegradedCalled(t, e) ELSE HandlerCalled(t, h, e)
    /\ UNCHANGED <<Kind, bus, calls, plane, added, discarded, published>>

\* publish() returns, and the commit goes on to its next event.
delivered(t) ==
    /\ At(t, "dispatch") /\ scope[t].targets = <<>>
    /\ published' = published \cup {Head(scope[t].queue)}
    /\ scope' = [scope EXCEPT ![t].pc = "publish", ![t].queue = Tail(@)]
    /\ UNCHANGED <<Kind, bus, calls, plane, sinks, faults, added, discarded, heard, broken>>

\* The commit returns: to the body, or out of the scope.
committed(t) ==
    /\ At(t, "publish") /\ scope[t].queue = <<>>
    /\ scope' = [scope EXCEPT ![t].pc = IF scope[t].exit THEN "done" ELSE "body"]
    /\ UNCHANGED <<Kind, bus, calls, plane, sinks, faults, history>>

Publishing(t) == publish(t) \/ dispatch(t) \/ delivered(t) \/ committed(t)

Next ==
    \/ set_sync_status \/ assert_ready_to_start \/ startup \/ shutdown
    \/ \E h \in Handler : unsubscribe(h) \/ \E type \in {Base, Degraded} : subscribe(type, h)
    \/ \E t \in Task :
        \/ \E e \in Event : add(t, e)
        \/ \E f \in Failure : degrade(t, f[1], f[2], f[3])
        \/ \E exit \in BOOLEAN : commit(t, exit)
        \/ rollback(t) \/ raise(t) \/ again(t)
        \/ Publishing(t)

Spec == Init /\ [][Next]_vars
-----------------------------------------------------------------------------
\* The buffers, the queue of a commit and the bus hold events and handlers.
TypeOK ==
    /\ Kind \in Kinds
    /\ \A i \in 1..Len(handlers) :
           /\ handlers[i].type \in {Base, Degraded}
           /\ handlers[i].list \in Seq(Handler \cup {OnDegraded})
    /\ {started, stopped, wired, checked} \subseteq BOOLEAN
    /\ metrics \in Seq(Event) /\ shown \in Seq(Event)
    /\ scope \in [Task -> [pc : {"body", "publish", "dispatch", "unwind", "failed", "done"},
                           buffer : Seq(Event), queue : Seq(Event),
                           targets : Seq(Handler \cup {OnDegraded}), exit : BOOLEAN]]
    /\ faults \in 0..MaxFaults /\ calls \in 0..MaxCalls
    /\ added \in [Task -> Seq(Event)] /\ heard \in [Handler -> Seq(Event)]
    /\ discarded \subseteq Event /\ published \subseteq Event /\ broken \subseteq Task

\* "a rollback never leaks an event": what a rollback discarded is never heard
\* of, even when the unit of work is entered and committed again.
RolledBackIsSilent ==
    discarded \cap (Range(metrics) \cup UNION {Range(heard[h]) : h \in Handler}) = {}

\* Every subscriber hears the events of one scope in the order they were added
\* and none of them twice, over commits in the body, exits and retries.
HeardInOrder ==
    \A h \in Handler, t \in Task :
        \A i, j \in 1..Len(heard[h]) :
            i < j /\ {heard[h][i], heard[h][j]} \subseteq Range(added[t]) =>
                \E k, l \in 1..Len(added[t]) :
                    k < l /\ added[t][k] = heard[h][i] /\ added[t][l] = heard[h][j]

\* A task that left its scope normally has published all it added and did not
\* roll back, whatever write steps failed on the way; a scope one of whose
\* publishes raised is excepted, for its commit dropped the rest.
CommittedIsPublished ==
    \A t \in Task \ broken :
        At(t, "done") => Range(added[t]) \subseteq published \cup discarded

\* Until the container is shut down the operator's metric counts every degrade
\* before any other subscriber can hear of it or break its delivery; and of
\* those, a SYNC-CLASS one reaches the user or its commit raised.
OperatorHearsFirst ==
    ~stopped =>
        /\ \A h \in Handler : \A e \in Range(heard[h]) :
               EventType[e] = Degraded => e \in Range(metrics)
        /\ \A e \in Range(metrics) :
               user_visible(e) =>
                   \/ e \in Range(shown)
                   \/ \E t \in broken : e \in Range(added[t])
=============================================================================
