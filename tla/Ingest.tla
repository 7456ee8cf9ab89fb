------------------------------- MODULE Ingest -------------------------------
(***************************************************************************)
(* The INGEST pipeline: IngestService.remember drives three ledger-gated   *)
(* stages (durable STM write, deterministic STM->MTM promotion, fan-out    *)
(* trigger) under HALT_LOUD.  Several callers may be inside remember at    *)
(* once; every await is a point where another caller may run and where the *)
(* call may end: an exception of a store, of the embedder or of a bus      *)
(* handler, a cancellation, a crash of the process that held the call.     *)
(* The tiers, the ledger and the bus outlive the call; its context does    *)
(* not.                                                                    *)
(***************************************************************************)
EXTENDS Naturals, FiniteSets

CONSTANTS
    Caller,             \* concurrent calls of IngestService.remember
    Activity,           \* the IngestActivity values the host may submit
    ImportancePromote,  \* IngestSettings.importance_promote, in tenths
    MaxFailures,        \* bound on the calls that end early
    None                \* Python's None, and "no row" in the ledger

Sources    == {a.source : a \in Activity}
Texts      == {a.text : a \in Activity}
Namespaces == {a.namespace : a \in Activity}

\* Every ledger key: the sha256 of the source, the content hash, and the
\* prefixed correlation id are three disjoint families of strings.
Keys == ({"activity", "ingest-completed"} \X Sources) \cup ({"content"} \X Texts)

Item  == [id : Nat, namespace : Namespaces, text : Texts]
Event == [type : {"MemoryCaptured", "MemoryPromoted", "IngestCompleted"},
          namespace : Namespaces, ids : SUBSET Nat]

ASSUME ActivityAssumption ==
    \A a \in Activity :
        DOMAIN a = {"source", "text", "namespace", "promote", "importance"}
ASSUME BoundsAssumption ==
    /\ ImportancePromote \in Nat
    /\ MaxFailures \in Nat
    /\ \A a \in Activity : a.promote \in BOOLEAN /\ a.importance \in Nat
ASSUME NoneAssumption ==
    None \notin Activity /\ None \notin Keys /\ None \notin Item /\ None \notin Event

VARIABLES
    stm, mtm,     \* rows put to the two tiers (sets of Item); expiry and
                  \* eviction are the adapters' business
    ledger,       \* StageLedger: key -> the event recorded with the completion
    published,    \* events handed to the bus
    receipts,     \* IngestResults returned to the host
    minted,       \* <<source, id>>: the replay key each id was minted for
    nextId,       \* fresh identifiers (uuid4 never repeats)
    failures,     \* calls ended early so far
    pc, stage,    \* where each caller is
    act,          \* its activity
    stm_item, memory_ids,  \* PipelineContext.state
    event,        \* the event of the stage outcome it holds
    emitted       \* events of the stages it has finished

stores == <<stm, mtm, ledger, published, receipts, minted, nextId, failures>>
ctx    == <<act, stm_item, memory_ids, event, emitted>>
vars   == <<stm, mtm, ledger, published, receipts, minted, nextId, failures,
            pc, stage, act, stm_item, memory_ids, event, emitted>>

-----------------------------------------------------------------------------
\* The discriminator is host|session|offset|kind, folded into `source`.
activity_id_for(a) == a.source

\* MemoryItem.content_hash covers content, kind and triple, not the namespace.
content_hash(a) == a.text

\* Explicit promote, or importance at the threshold; otherwise no reason.
_promotion_reason(a) == a.promote \/ a.importance >= ImportancePromote

\* Mutant: the capture is gated on its content, not on its source offset.
KeyCaptureByContent(s, a) ==
    [write_stm |-> <<"content", content_hash(a)>>,
     deterministic_promote |->
        IF _promotion_reason(a) THEN <<"content", content_hash(a)>> ELSE None,
     emit_ingest_completed |-> <<"ingest-completed", activity_id_for(a)>>][s]

\* The three stages' ledger keys; None is the empty key of a promotion that
\* will not happen, which is neither looked up nor marked.
idempotency_key(s, a) ==
    [write_stm |-> <<"activity", activity_id_for(a)>>,
     deterministic_promote |->
        IF _promotion_reason(a) THEN <<"content", content_hash(a)>> ELSE None,
     emit_ingest_completed |-> <<"ingest-completed", activity_id_for(a)>>][s]

Recorded(k) == k # None /\ ledger[k] # None

Init ==
    /\ stm = {} /\ mtm = {} /\ published = {} /\ receipts = {} /\ minted = {}
    /\ ledger = [k \in Keys |-> None]
    /\ nextId = 0 /\ failures = 0
    /\ pc = [c \in Caller |-> "idle"]
    /\ stage = [c \in Caller |-> "write_stm"]
    /\ act = [c \in Caller |-> None]
    /\ stm_item = [c \in Caller |-> None]
    /\ memory_ids = [c \in Caller |-> {}]
    /\ event = [c \in Caller |-> None]
    /\ emitted = [c \in Caller |-> {}]

\* The context of a call is garbage once the call has returned or raised.
Forget(c) ==
    /\ pc' = [pc EXCEPT ![c] = "idle"]
    /\ stage' = [stage EXCEPT ![c] = "write_stm"]
    /\ act' = [act EXCEPT ![c] = None]
    /\ stm_item' = [stm_item EXCEPT ![c] = None]
    /\ memory_ids' = [memory_ids EXCEPT ![c] = {}]
    /\ event' = [event EXCEPT ![c] = None]
    /\ emitted' = [emitted EXCEPT ![c] = {}]

-----------------------------------------------------------------------------
\* remember(activity): a fresh context, the first stage first.  The host may
\* submit any activity at any time, one it submitted before included.
Remember(c, a) ==
    /\ pc[c] = "idle"
    /\ pc' = [pc EXCEPT ![c] = "gate"]
    /\ act' = [act EXCEPT ![c] = a]
    /\ UNCHANGED <<stores, stage, stm_item, memory_ids, event, emitted>>

\* Mutant: SKIPPED means "no events".
SkipSilently(c) ==
    /\ pc[c] = "gate"
    /\ Recorded(idempotency_key(stage[c], act[c]))
    /\ event' = [event EXCEPT ![c] = None]
    /\ pc' = [pc EXCEPT ![c] = "publish"]
    /\ UNCHANGED <<stores, stage, act, stm_item, memory_ids, emitted>>

\* BaseStage.run, ledger hit: SKIPPED, with the recorded events and nothing
\* produced, so the context gains no stm_item and no memory_ids.
LedgerHit(c) ==
    LET k == idempotency_key(stage[c], act[c]) IN
    /\ pc[c] = "gate"
    /\ Recorded(k)
    /\ event' = [event EXCEPT ![c] = ledger[k]]
    /\ pc' = [pc EXCEPT ![c] = "publish"]
    /\ UNCHANGED <<stores, stage, act, stm_item, memory_ids, emitted>>

\* BaseStage.run, no row (or an ungated stage): go on to _execute.
LedgerMiss(c) ==
    /\ pc[c] = "gate"
    /\ ~Recorded(idempotency_key(stage[c], act[c]))
    /\ pc' = [pc EXCEPT ![c] = "execute"]
    /\ UNCHANGED <<stores, stage, ctx>>

\* _build_memory_item: a fresh id; namespace and content of the activity.
_build_memory_item(a) ==
    [id |-> nextId, namespace |-> a.namespace, text |-> content_hash(a)]

\* WriteStmStage._execute: mint the item, put it, hand it to later stages.
\* (ctx.state is merged after the mark; nothing reads it in between.)
WriteStm(c) ==
    LET a == act[c]
        item == _build_memory_item(a)
    IN
    /\ pc[c] = "execute" /\ stage[c] = "write_stm"
    /\ stm' = stm \cup {item}
    /\ minted' = minted \cup {<<a.source, nextId>>}
    /\ nextId' = nextId + 1
    /\ stm_item' = [stm_item EXCEPT ![c] = item]
    /\ memory_ids' = [memory_ids EXCEPT ![c] = {nextId}]
    /\ event' = [event EXCEPT ![c] =
            [type |-> "MemoryCaptured", namespace |-> a.namespace, ids |-> {nextId}]]
    /\ pc' = [pc EXCEPT ![c] = "mark"]
    /\ UNCHANGED <<mtm, ledger, published, receipts, failures, stage, act, emitted>>

\* Mutant: a lost item is rebuilt from the activity.
ResolveByRebuilding(c) ==
    IF stm_item[c] # None THEN {stm_item[c]} ELSE {_build_memory_item(act[c])}

\* DeterministicPromoteStage._resolve_item: the item handed over, or the STM
\* rows of the activity's namespace under the ids the context holds.
_resolve_item(c) ==
    IF stm_item[c] # None
    THEN {stm_item[c]}
    ELSE {i \in stm : i.namespace = act[c].namespace /\ i.id \in memory_ids[c]}

\* DeterministicPromoteStage._execute without a reason: OK, no event, no key.
NoPromotion(c) ==
    /\ pc[c] = "execute" /\ stage[c] = "deterministic_promote"
    /\ ~_promotion_reason(act[c])
    /\ pc' = [pc EXCEPT ![c] = "publish"]
    /\ UNCHANGED <<stores, stage, ctx>>

\* Mutant: one point per content.
UpsertByContent(rows, item) == {r \in rows : r.text # item.text} \cup {item}

\* MtmTierRepository.upsert: one point per id.
upsert(rows, item) == {r \in rows : r.id # item.id} \cup {item}

\* DeterministicPromoteStage._execute: embed, upsert the copy (same id).
Promote(c) ==
    /\ pc[c] = "execute" /\ stage[c] = "deterministic_promote"
    /\ _promotion_reason(act[c])
    /\ \E item \in _resolve_item(c) :
        /\ mtm' = upsert(mtm, item)
        /\ event' = [event EXCEPT ![c] =
                [type |-> "MemoryPromoted", namespace |-> act[c].namespace, ids |-> {item.id}]]
    /\ pc' = [pc EXCEPT ![c] = "mark"]
    /\ UNCHANGED <<stm, ledger, published, receipts, minted, nextId, failures,
                   stage, act, stm_item, memory_ids, emitted>>

\* _resolve_item finds nothing: StageExecutionError, the call raises.
PromoteRaises(c) ==
    /\ pc[c] = "execute" /\ stage[c] = "deterministic_promote"
    /\ _promotion_reason(act[c])
    /\ _resolve_item(c) = {}
    /\ Forget(c)
    /\ UNCHANGED stores

\* EmitIngestCompletedStage._execute: whatever ids the context holds.
EmitCompleted(c) ==
    /\ pc[c] = "execute" /\ stage[c] = "emit_ingest_completed"
    /\ event' = [event EXCEPT ![c] =
            [type |-> "IngestCompleted", namespace |-> act[c].namespace, ids |-> memory_ids[c]]]
    /\ pc' = [pc EXCEPT ![c] = "mark"]
    /\ UNCHANGED <<stores, stage, act, stm_item, memory_ids, emitted>>

\* Mutant: the completion is a bare marker, its events left for a second write.
MarkWithoutEvents(k, e) ==
    ledger' = [ledger EXCEPT ![k] = [type |-> "Marker", namespace |-> e.namespace, ids |-> {}]]

\* StageLedger.mark_completed: marker and events in one write, first one wins
\* (SET NX in the Redis ledger, setdefault in the in-memory one).
mark_completed(k, e) ==
    ledger' = IF ledger[k] = None THEN [ledger EXCEPT ![k] = e] ELSE ledger

MarkCompleted(c) ==
    /\ pc[c] = "mark"
    /\ mark_completed(idempotency_key(stage[c], act[c]), event[c])
    /\ pc' = [pc EXCEPT ![c] = "publish"]
    /\ UNCHANGED <<stm, mtm, published, receipts, minted, nextId, failures, stage, ctx>>

\* Mutant: the capture is not announced.
OutcomeEventsAfterCapture(c) == IF stage[c] = "write_stm" THEN {} ELSE {event[c]} \ {None}

\* StageOutcome.events: at most one event in each stage of this pipeline.
outcome_events(c) == {event[c]} \ {None}

NextStage(s) ==
    IF s = "write_stm" THEN "deterministic_promote" ELSE "emit_ingest_completed"

\* IngestService._run_stage after stage.run: publish the outcome's events,
\* then the next stage of the pipeline, or the receipt.
Publish(c) ==
    /\ pc[c] = "publish"
    /\ published' = published \cup outcome_events(c)
    /\ emitted' = [emitted EXCEPT ![c] = @ \cup outcome_events(c)]
    /\ event' = [event EXCEPT ![c] = None]
    /\ pc' = [pc EXCEPT ![c] = IF stage[c] = "emit_ingest_completed" THEN "return" ELSE "gate"]
    /\ stage' = [stage EXCEPT ![c] = NextStage(@)]
    /\ UNCHANGED <<stm, mtm, ledger, receipts, minted, nextId, failures,
                   act, stm_item, memory_ids>>

EmittedBy(c, type) == {e \in emitted[c] : e.type = type}

\* IngestService._remember: the receipt is derived from the emitted events
\* (without a captured id the call raises and there is no receipt).
Return(c) ==
    /\ pc[c] = "return"
    /\ receipts' = receipts \cup
        {[activity |-> act[c], memory_id |-> i,
          promoted |-> EmittedBy(c, "MemoryPromoted") # {}]
            : i \in UNION {e.ids : e \in EmittedBy(c, "MemoryCaptured")}}
    /\ Forget(c)
    /\ UNCHANGED <<stm, mtm, ledger, published, minted, nextId, failures>>

\* A store, the embedder or a bus handler raises, the task is cancelled or
\* the process dies: at any await, before or after the effect it awaited.
\* HALT_LOUD keeps the durable partial and compensates nothing.
Fail(c) ==
    /\ pc[c] # "idle"
    /\ failures < MaxFailures
    /\ failures' = failures + 1
    /\ Forget(c)
    /\ UNCHANGED <<stm, mtm, ledger, published, receipts, minted, nextId>>

Step(c) ==
    \/ LedgerHit(c) \/ LedgerMiss(c)
    \/ WriteStm(c) \/ NoPromotion(c) \/ Promote(c) \/ PromoteRaises(c) \/ EmitCompleted(c)
    \/ MarkCompleted(c) \/ Publish(c) \/ Return(c)

Next == \E c \in Caller :
    \/ \E a \in Activity : Remember(c, a)
    \/ Step(c)
    \/ Fail(c)

Spec == Init /\ [][Next]_vars

\* The event loop runs every ready call; the host resubmits an activity it
\* has no receipt for (at-least-once capture).
Unacknowledged(a) == \A r \in receipts : r.activity # a
FairSpec ==
    /\ Spec
    /\ \A c \in Caller : WF_vars(Step(c))
    /\ \A a \in Activity :
        SF_vars(Unacknowledged(a) /\ \E c \in Caller : Remember(c, a))

-----------------------------------------------------------------------------
Stages == {"write_stm", "deterministic_promote", "emit_ingest_completed"}

TypeOK ==
    /\ stm \subseteq Item /\ mtm \subseteq Item
    /\ ledger \in [Keys -> Event \cup {None}]
    /\ published \subseteq Event
    /\ receipts \subseteq [activity : Activity, memory_id : Nat, promoted : BOOLEAN]
    /\ minted \subseteq Sources \X Nat
    /\ nextId \in Nat /\ failures \in 0..MaxFailures
    /\ pc \in [Caller -> {"idle", "gate", "execute", "mark", "publish", "return"}]
    /\ stage \in [Caller -> Stages]
    /\ act \in [Caller -> Activity \cup {None}]
    /\ stm_item \in [Caller -> Item \cup {None}]
    /\ memory_ids \in [Caller -> SUBSET Nat]
    /\ event \in [Caller -> Event \cup {None}]
    /\ emitted \in [Caller -> SUBSET Event]

Ids(rows) == {i.id : i \in rows}

\* A ledger row is never ahead of the store it vouches for: once a stage's key
\* is complete, the ids in its recorded event are rows of the tier that stage
\* writes, in the event's namespace (BaseStage.run marks after _execute; a
\* replay trusts the mark and writes nothing).
RecordedIsDurable ==
    \A k \in Keys : ledger[k] # None =>
        \A i \in ledger[k].ids :
            \E row \in (IF k[1] = "content" THEN mtm ELSE stm) :
                row.id = i /\ row.namespace = ledger[k].namespace

\* Subscribers never hear of a promotion or of a finished ingest before the
\* capture of the same id (stages run in order, each publishes before the
\* next starts, and a replay re-publishes in the same order).
AnnouncedInOrder ==
    \A e \in published : \A i \in e.ids :
        \E cap \in published : cap.type = "MemoryCaptured" /\ i \in cap.ids
                               /\ cap.namespace = e.namespace

\* An id means one memory in every tier: an MTM row is the STM row of the same
\* id, with its namespace and content, and no two rows share an id.
TiersAgree ==
    /\ mtm \subseteq stm
    /\ \A i, j \in stm : i.id = j.id => i = j

\* A receipt is backed by the stores: its id is an announced STM row, minted
\* for the activity's own replay key, and "promoted" means that the content
\* has reached MTM (IngestResult is derived from events, not from stores).
ReceiptIsBacked ==
    \A r \in receipts :
        /\ <<r.activity.source, r.memory_id>> \in minted
        /\ r.memory_id \in Ids(stm)
        /\ \E e \in published : e.type = "MemoryCaptured" /\ r.memory_id \in e.ids
        /\ r.promoted => \E row \in mtm : row.text = content_hash(r.activity)

\* Events recorded with a completion are not lost to a failure between the
\* mark and the publish: a resubmission publishes them (B4).
RecordedEventsArePublished ==
    \A k \in Keys : (ledger[k] # None) ~> (ledger[k] \in published)
=============================================================================
