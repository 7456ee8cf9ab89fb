---------------------------- MODULE IngestProofs ----------------------------
(***************************************************************************)
(* Type correctness of the INGEST pipeline and the four facts that its     *)
(* crash story rests on, for any set of callers and of activities and any  *)
(* number of failures: the ledger is never ahead of the tiers, events come *)
(* in order, the tiers agree on what an id means, and receipts are backed. *)
(***************************************************************************)
EXTENDS Ingest, TLAPS

\* Some MemoryCaptured on the bus names this id in this namespace.
Announced(i, ns, bus) ==
    \E cap \in bus : /\ cap.type = "MemoryCaptured"
                           /\ i \in cap.ids /\ cap.namespace = ns

\* What every event held by a call or by the ledger satisfies: a capture may
\* be published at any time, any other event only names announced ids.
Publishable(e, bus) ==
    e.type = "MemoryCaptured" \/ \A i \in e.ids : Announced(i, e.namespace, bus)

\* The rows of a tier that an event vouches for exist.
Backed(e, rows) ==
    \A i \in e.ids : \E row \in rows : row.id = i /\ row.namespace = e.namespace

\* A call in flight: its context agrees with the tiers and with what it has
\* published, and the outcome it is about to mark is backed by its tier.
CallInv(c) ==
    /\ pc[c] # "idle" => act[c] \in Activity
    /\ IF stm_item[c] = None
       THEN memory_ids[c] = {}
       ELSE /\ stm_item[c] \in stm
            /\ memory_ids[c] = {stm_item[c].id}
            /\ pc[c] # "idle" /\ stm_item[c].namespace = act[c].namespace
            /\ stage[c] # "write_stm" => Announced(stm_item[c].id, act[c].namespace, published)
            /\ stage[c] = "write_stm" =>
                /\ pc[c] \in {"mark", "publish"}
                /\ event[c] = [type |-> "MemoryCaptured",
                               namespace |-> act[c].namespace, ids |-> memory_ids[c]]
    /\ event[c] # None => Publishable(event[c], published)
    /\ pc[c] = "mark" =>
        /\ event[c] # None
        /\ idempotency_key(stage[c], act[c]) # None
        /\ Backed(event[c], IF stage[c] = "deterministic_promote" THEN mtm ELSE stm)
    /\ pc[c] = "idle" => stage[c] = "write_stm"
    /\ pc[c] \notin {"mark", "publish"} => event[c] = None

IdsBelow == \A i \in stm : i.id < nextId

LedgerPublishable == \A k \in Keys : ledger[k] # None => Publishable(ledger[k], published)

IInv ==
    /\ TypeOK
    /\ RecordedIsDurable
    /\ AnnouncedInOrder
    /\ TiersAgree
    /\ IdsBelow
    /\ LedgerPublishable
    /\ \A c \in Caller : CallInv(c)

-----------------------------------------------------------------------------
\* The key of a stage is a ledger key or None, and it is in the "content"
\* family exactly for the promotion stage.
LEMMA KeyFamily ==
    ASSUME NEW s \in Stages, NEW a \in Activity
    PROVE  LET k == idempotency_key(s, a) IN
           /\ k \in Keys \cup {None}
           /\ k # None => (k[1] = "content" <=> s = "deterministic_promote")
<1>1. a.source \in Sources /\ a.text \in Texts
    BY DEF Sources, Texts
<1>2. CASE s = "write_stm"
    BY <1>1, <1>2 DEF idempotency_key, Keys, activity_id_for
<1>3. CASE s = "deterministic_promote"
    BY <1>1, <1>3 DEF idempotency_key, Keys, content_hash
<1>4. CASE s = "emit_ingest_completed"
    BY <1>1, <1>4 DEF idempotency_key, Keys, activity_id_for
<1> QED BY <1>2, <1>3, <1>4 DEF Stages

\* Forgetting a call touches nothing but that call's context.
LEMMA ForgetType ==
    ASSUME TypeOK, NEW c \in Caller, Forget(c)
    PROVE  /\ pc' \in [Caller -> {"idle", "gate", "execute", "mark", "publish", "return"}]
           /\ stage' \in [Caller -> Stages]
           /\ act' \in [Caller -> Activity \cup {None}]
           /\ stm_item' \in [Caller -> Item \cup {None}]
           /\ memory_ids' \in [Caller -> SUBSET Nat]
           /\ event' \in [Caller -> Event \cup {None}]
           /\ emitted' \in [Caller -> SUBSET Event]
BY DEF TypeOK, Forget, Stages

LEMMA ItemType ==
    ASSUME NEW a \in Activity, nextId \in Nat
    PROVE  _build_memory_item(a) \in Item
BY DEF _build_memory_item, content_hash, Item, Namespaces, Texts

LEMMA EventType ==
    ASSUME NEW a \in Activity, NEW ids \in SUBSET Nat,
           NEW t \in {"MemoryCaptured", "MemoryPromoted", "IngestCompleted"}
    PROVE  [type |-> t, namespace |-> a.namespace, ids |-> ids] \in Event
BY DEF Event, Namespaces

\* The step from one state to the next keeps every variable in its type.
LEMMA TypeStep == TypeOK /\ (\A c \in Caller : pc[c] # "idle" => act[c] \in Activity)
                  /\ [Next]_vars => TypeOK'
<1> SUFFICES ASSUME TypeOK, \A c \in Caller : pc[c] # "idle" => act[c] \in Activity,
                    [Next]_vars
             PROVE  TypeOK'
    OBVIOUS
<1>1. CASE UNCHANGED vars
    BY <1>1 DEF TypeOK, vars
<1>2. ASSUME NEW c \in Caller, NEW a \in Activity, Remember(c, a) PROVE TypeOK'
    BY <1>2 DEF TypeOK, Remember, stores
<1>3. ASSUME NEW c \in Caller, LedgerHit(c) PROVE TypeOK'
    <2>1. idempotency_key(stage[c], act[c]) \in Keys
        BY <1>3, KeyFamily DEF LedgerHit, TypeOK, Recorded
    <2> QED BY <1>3, <2>1 DEF TypeOK, LedgerHit, stores
<1>4. ASSUME NEW c \in Caller, LedgerMiss(c) PROVE TypeOK'
    BY <1>4 DEF TypeOK, LedgerMiss, stores, ctx
<1>5. ASSUME NEW c \in Caller, WriteStm(c) PROVE TypeOK'
    <2>1. act[c] \in Activity /\ nextId \in Nat
        BY <1>5 DEF WriteStm, TypeOK
    <2>2. _build_memory_item(act[c]) \in Item
        BY <2>1, ItemType
    <2>3. [type |-> "MemoryCaptured", namespace |-> act[c].namespace, ids |-> {nextId}] \in Event
        BY <2>1, EventType
    <2>4. act[c].source \in Sources
        BY <2>1 DEF Sources
    <2> QED BY <1>5, <2>1, <2>2, <2>3, <2>4 DEF TypeOK, WriteStm
<1>6. ASSUME NEW c \in Caller, NoPromotion(c) PROVE TypeOK'
    BY <1>6 DEF TypeOK, NoPromotion, stores, ctx
<1>7. ASSUME NEW c \in Caller, Promote(c) PROVE TypeOK'
    <2>1. act[c] \in Activity
        BY <1>7 DEF Promote
    <2>2. PICK item \in _resolve_item(c) :
            /\ mtm' = upsert(mtm, item)
            /\ event' = [event EXCEPT ![c] = [type |-> "MemoryPromoted",
                            namespace |-> act[c].namespace, ids |-> {item.id}]]
        BY <1>7 DEF Promote
    <2>3. item \in Item
        BY <2>2 DEF _resolve_item, TypeOK
    <2>4. item.id \in Nat
        BY <2>3 DEF Item
    <2>5. [type |-> "MemoryPromoted", namespace |-> act[c].namespace, ids |-> {item.id}] \in Event
        BY <2>1, <2>4, EventType
    <2>6. mtm' \subseteq Item
        BY <2>2, <2>3 DEF upsert, TypeOK
    <2> QED BY <1>7, <2>2, <2>5, <2>6 DEF TypeOK, Promote
<1>8. ASSUME NEW c \in Caller, PromoteRaises(c) PROVE TypeOK'
    BY <1>8, ForgetType DEF TypeOK, PromoteRaises, stores
<1>9. ASSUME NEW c \in Caller, EmitCompleted(c) PROVE TypeOK'
    <2>1. act[c] \in Activity /\ memory_ids[c] \in SUBSET Nat
        BY <1>9 DEF EmitCompleted, TypeOK
    <2>2. [type |-> "IngestCompleted", namespace |-> act[c].namespace, ids |-> memory_ids[c]] \in Event
        BY <2>1, EventType
    <2> QED BY <1>9, <2>2 DEF TypeOK, EmitCompleted, stores
<1>10. ASSUME NEW c \in Caller, MarkCompleted(c) PROVE TypeOK'
    BY <1>10 DEF TypeOK, MarkCompleted, mark_completed, ctx
<1>11. ASSUME NEW c \in Caller, Publish(c) PROVE TypeOK'
    BY <1>11 DEF TypeOK, Publish, outcome_events, NextStage, Stages
<1>12. ASSUME NEW c \in Caller, Return(c) PROVE TypeOK'
    <2>1. act[c] \in Activity
        BY <1>12 DEF Return
    <2>2. UNION {e.ids : e \in EmittedBy(c, "MemoryCaptured")} \subseteq Nat
        BY DEF EmittedBy, TypeOK, Event
    <2>3. receipts' \subseteq [activity : Activity, memory_id : Nat, promoted : BOOLEAN]
        <3> DEFINE P == EmittedBy(c, "MemoryPromoted") # {}
                   U == UNION {e.ids : e \in EmittedBy(c, "MemoryCaptured")}
        <3>1. P \in BOOLEAN
            OBVIOUS
        <3>2. U \subseteq Nat
            BY <2>2
        <3>3. receipts' = receipts \cup {[activity |-> act[c], memory_id |-> i, promoted |-> P] : i \in U}
            BY <1>12 DEF Return
        <3> HIDE DEF P, U
        <3> QED BY <2>1, <3>1, <3>2, <3>3 DEF TypeOK
    <2> QED BY <1>12, <2>3, ForgetType DEF TypeOK, Return
<1>13. ASSUME NEW c \in Caller, Fail(c) PROVE TypeOK'
    BY <1>13, ForgetType, BoundsAssumption DEF TypeOK, Fail
<1> QED
    BY <1>1, <1>2, <1>3, <1>4, <1>5, <1>6, <1>7, <1>8, <1>9, <1>10, <1>11, <1>12, <1>13
    DEF Next, Step

-----------------------------------------------------------------------------
\* The tiers and the bus only grow, which is why what was true of a recorded
\* or pending event stays true.
Grows == stm \subseteq stm' /\ mtm \subseteq mtm' /\ published \subseteq published'

\* Growing sets keep witnesses.
LEMMA Monotone ==
    ASSUME NEW e, NEW P, NEW Q, P \subseteq Q
    PROVE  /\ Publishable(e, P) => Publishable(e, Q)
           /\ Backed(e, P) => Backed(e, Q)
           /\ \A i, ns : Announced(i, ns, P) => Announced(i, ns, Q)
BY DEF Publishable, Announced, Backed

\* A step that leaves a call's context alone and lets the stores grow keeps
\* that call's invariant.
LEMMA CallFrame ==
    ASSUME NEW d \in Caller, CallInv(d), Grows,
           pc'[d] = pc[d], stage'[d] = stage[d], act'[d] = act[d],
           stm_item'[d] = stm_item[d], memory_ids'[d] = memory_ids[d],
           event'[d] = event[d]
    PROVE  CallInv(d)'
<1>1. Publishable(event[d], published) => Publishable(event[d], published')
    BY Monotone DEF Grows
<1>2. Announced(stm_item[d].id, act[d].namespace, published) =>
        Announced(stm_item[d].id, act[d].namespace, published')
    BY Monotone DEF Grows
<1>3. /\ Backed(event[d], mtm) => Backed(event[d], mtm')
      /\ Backed(event[d], stm) => Backed(event[d], stm')
    BY Monotone DEF Grows
<1>4. stm \subseteq stm'
    BY DEF Grows
<1> QED BY <1>1, <1>2, <1>3, <1>4 DEF CallInv

\* A forgotten call satisfies its invariant.
LEMMA ForgottenCall ==
    ASSUME TypeOK, NEW c \in Caller, Forget(c)
    PROVE  CallInv(c)'
BY DEF TypeOK, Forget, CallInv

\* Steps of c leave the contexts of the other callers alone.
Others(c) ==
    \A d \in Caller \ {c} :
        /\ pc'[d] = pc[d] /\ stage'[d] = stage[d] /\ act'[d] = act[d]
        /\ stm_item'[d] = stm_item[d] /\ memory_ids'[d] = memory_ids[d]
        /\ event'[d] = event[d]

\* The invariant after a step of c, from what the step does to the stores and
\* to c itself.
LEMMA StepFrame ==
    ASSUME IInv, TypeOK', NEW c \in Caller, Grows, Others(c), CallInv(c)',
           RecordedIsDurable', AnnouncedInOrder', TiersAgree', IdsBelow',
           LedgerPublishable'
    PROVE  IInv'
<1>1. ASSUME NEW d \in Caller PROVE CallInv(d)'
    <2>1. CASE d = c
        BY <2>1
    <2>2. CASE d # c
        BY <2>2, CallFrame DEF IInv, Others
    <2> QED BY <2>1, <2>2
<1> QED BY <1>1 DEF IInv

\* A step that writes neither tier, nor the ledger, nor the bus.
LEMMA QuietStep ==
    ASSUME IInv, TypeOK', NEW c \in Caller, Others(c), CallInv(c)',
           UNCHANGED <<stm, mtm, ledger, published, nextId>>
    PROVE  IInv'
<1>1. Grows
    BY DEF Grows
<1>2. RecordedIsDurable' /\ AnnouncedInOrder' /\ TiersAgree' /\ IdsBelow' /\ LedgerPublishable'
    BY DEF IInv, RecordedIsDurable, AnnouncedInOrder, TiersAgree, IdsBelow,
           LedgerPublishable
<1> QED BY <1>1, <1>2, StepFrame

LEMMA LedgerPublishableStays ==
    ASSUME LedgerPublishable, Grows, UNCHANGED ledger
    PROVE  LedgerPublishable'
BY Monotone DEF LedgerPublishable, Grows

LEMMA RecordedStays ==
    ASSUME RecordedIsDurable, Grows, UNCHANGED ledger
    PROVE  RecordedIsDurable'
BY DEF RecordedIsDurable, Grows

\* Under TiersAgree the upsert of a row of STM only adds it to MTM.
LEMMA UpsertAdds ==
    ASSUME TiersAgree, NEW item \in stm
    PROVE  upsert(mtm, item) = mtm \cup {item}
BY DEF TiersAgree, upsert

\* WriteStm: the new row has a new id, and the event it holds is its capture.
LEMMA WriteStmStep ==
    ASSUME IInv, TypeOK', NEW c \in Caller, WriteStm(c)
    PROVE  IInv'
<1> DEFINE item == _build_memory_item(act[c])
           e == [type |-> "MemoryCaptured", namespace |-> act[c].namespace, ids |-> {nextId}]
<1>1. act[c] \in Activity /\ nextId \in Nat
    BY DEF IInv, CallInv, WriteStm, TypeOK
<1>2. item \in Item /\ item.id = nextId /\ item.namespace = act[c].namespace
    BY <1>1, ItemType DEF _build_memory_item
<1>3. e \in Event
    BY <1>1, EventType
<1>4. item # None /\ e # None
    BY <1>2, <1>3, NoneAssumption
<1>5. /\ stm' = stm \cup {item} /\ nextId' = nextId + 1
      /\ stm_item' = [stm_item EXCEPT ![c] = item]
      /\ memory_ids' = [memory_ids EXCEPT ![c] = {nextId}]
      /\ event' = [event EXCEPT ![c] = e]
      /\ pc' = [pc EXCEPT ![c] = "mark"] /\ stage[c] = "write_stm"
      /\ UNCHANGED <<mtm, ledger, published, stage, act>>
    BY DEF WriteStm
<1> HIDE DEF item, e
<1>6. Grows
    BY <1>5 DEF Grows
<1>7. Others(c)
    BY <1>5 DEF Others, IInv, TypeOK
<1>8. TiersAgree' /\ IdsBelow'
    BY <1>1, <1>2, <1>5 DEF IInv, TiersAgree, IdsBelow, TypeOK, Item
<1>9. CallInv(c)'
    <2>1. Publishable(e, published)
        BY DEF Publishable, e
    <2>2. Backed(e, stm')
        BY <1>2, <1>5 DEF Backed, e
    <2>3. idempotency_key("write_stm", act[c]) # None
        BY <1>1, KeyFamily, NoneAssumption DEF idempotency_key, Keys, Sources, activity_id_for
    <2>4. /\ stm_item'[c] = item /\ memory_ids'[c] = {nextId} /\ event'[c] = e
          /\ pc'[c] = "mark" /\ stage'[c] = "write_stm" /\ act'[c] = act[c]
        BY <1>5 DEF IInv, TypeOK
    <2>5. e = [type |-> "MemoryCaptured", namespace |-> act[c].namespace, ids |-> {nextId}]
        BY DEF e
    <2>6. item \in stm' /\ published' = published
        BY <1>5
    <2> QED BY <1>1, <1>2, <1>4, <2>1, <2>2, <2>3, <2>4, <2>5, <2>6 DEF CallInv
<1>10. RecordedIsDurable' /\ LedgerPublishable'
    BY <1>5, <1>6, RecordedStays, LedgerPublishableStays DEF IInv
<1>11. AnnouncedInOrder'
    BY <1>5 DEF IInv, AnnouncedInOrder
<1> QED BY <1>6, <1>7, <1>8, <1>9, <1>10, <1>11, StepFrame

\* Promote: the copy is the row of STM that the context names, announced
\* when the capture stage published.
LEMMA PromoteStep ==
    ASSUME IInv, TypeOK', NEW c \in Caller, Promote(c)
    PROVE  IInv'
<1>1. /\ act[c] \in Activity /\ stage[c] = "deterministic_promote" /\ pc[c] = "execute"
      /\ _promotion_reason(act[c])
    BY DEF IInv, CallInv, Promote
<1>2. PICK item \in _resolve_item(c) :
        /\ mtm' = upsert(mtm, item)
        /\ event' = [event EXCEPT ![c] = [type |-> "MemoryPromoted",
                        namespace |-> act[c].namespace, ids |-> {item.id}]]
    BY DEF Promote
<1>3. /\ item \in stm /\ item.namespace = act[c].namespace
      /\ Announced(item.id, act[c].namespace, published)
    BY <1>1, <1>2 DEF IInv, CallInv, _resolve_item
<1> DEFINE e == [type |-> "MemoryPromoted", namespace |-> act[c].namespace, ids |-> {item.id}]
<1>4. e \in Event /\ e # None
    <2>1. item.id \in Nat
        BY <1>3 DEF IInv, TypeOK, Item
    <2>2. e \in Event
        BY <1>1, <2>1, EventType
    <2> HIDE DEF e
    <2> QED BY <2>2, NoneAssumption
<1>5. mtm' = mtm \cup {item}
    BY <1>2, <1>3, UpsertAdds DEF IInv
<1>6. /\ event' = [event EXCEPT ![c] = e] /\ pc' = [pc EXCEPT ![c] = "mark"]
      /\ UNCHANGED <<stm, ledger, published, nextId, stage, act, stm_item, memory_ids>>
    BY <1>2 DEF Promote
<1>7. Publishable(e, published)
    BY <1>3 DEF Publishable
<1>8. Backed(e, mtm')
    BY <1>3, <1>5 DEF Backed
<1> HIDE DEF e
<1>9. Grows
    BY <1>5, <1>6 DEF Grows
<1>10. Others(c)
    BY <1>6 DEF Others, IInv, TypeOK
<1>11. TiersAgree' /\ IdsBelow' /\ AnnouncedInOrder'
    BY <1>3, <1>5, <1>6 DEF IInv, TiersAgree, IdsBelow, AnnouncedInOrder
<1>12. CallInv(c)'
    <2>1. idempotency_key("deterministic_promote", act[c]) # None
        BY <1>1, NoneAssumption DEF idempotency_key, Keys, Texts, content_hash
    <2>2. event'[c] = e /\ pc'[c] = "mark"
        BY <1>6 DEF IInv, TypeOK
    <2>3. CallInv(c)
        BY DEF IInv
    <2> QED BY <1>1, <1>4, <1>6, <1>7, <1>8, <2>1, <2>2, <2>3 DEF CallInv
<1>13. RecordedIsDurable' /\ LedgerPublishable'
    BY <1>6, <1>9, RecordedStays, LedgerPublishableStays DEF IInv
<1> QED BY <1>9, <1>10, <1>11, <1>12, <1>13, StepFrame

\* EmitCompleted: the ids of the context were announced by the capture stage.
LEMMA EmitStep ==
    ASSUME IInv, TypeOK', NEW c \in Caller, EmitCompleted(c)
    PROVE  IInv'
<1> DEFINE e == [type |-> "IngestCompleted", namespace |-> act[c].namespace, ids |-> memory_ids[c]]
<1>1. /\ act[c] \in Activity /\ stage[c] = "emit_ingest_completed" /\ pc[c] = "execute"
      /\ CallInv(c)
    BY DEF IInv, CallInv, EmitCompleted
<1>2. e \in Event /\ e # None
    <2>1. memory_ids[c] \in SUBSET Nat
        BY DEF IInv, TypeOK
    <2>2. e \in Event
        BY <1>1, <2>1, EventType
    <2> HIDE DEF e
    <2> QED BY <2>2, NoneAssumption
<1>3. Publishable(e, published) /\ Backed(e, stm)
    BY <1>1 DEF CallInv, Publishable, Backed
<1>4. /\ event' = [event EXCEPT ![c] = e] /\ pc' = [pc EXCEPT ![c] = "mark"]
      /\ UNCHANGED <<stm, mtm, ledger, published, nextId, stage, act, stm_item, memory_ids>>
    BY DEF EmitCompleted, stores
<1> HIDE DEF e
<1>5. idempotency_key("emit_ingest_completed", act[c]) # None
    BY <1>1, NoneAssumption DEF idempotency_key, Keys, Sources, activity_id_for
<1>6. CallInv(c)'
    <2>1. event'[c] = e /\ pc'[c] = "mark"
        BY <1>4 DEF IInv, TypeOK
    <2> QED BY <1>1, <1>2, <1>3, <1>4, <1>5, <2>1 DEF CallInv
<1>7. Others(c)
    BY <1>4 DEF Others, IInv, TypeOK
<1> QED BY <1>4, <1>6, <1>7, QuietStep

\* MarkCompleted: the row recorded is backed by the tier the stage wrote.
LEMMA MarkStep ==
    ASSUME IInv, TypeOK', NEW c \in Caller, MarkCompleted(c)
    PROVE  IInv'
<1> DEFINE k == idempotency_key(stage[c], act[c])
<1>1. CallInv(c) /\ pc[c] = "mark" /\ act[c] \in Activity /\ stage[c] \in Stages
    BY DEF IInv, CallInv, MarkCompleted, TypeOK
<1>2. k \in Keys /\ (k[1] = "content" <=> stage[c] = "deterministic_promote")
    BY <1>1, KeyFamily DEF CallInv
<1>3. /\ ledger' = IF ledger[k] = None THEN [ledger EXCEPT ![k] = event[c]] ELSE ledger
      /\ pc' = [pc EXCEPT ![c] = "publish"]
      /\ UNCHANGED <<stm, mtm, published, nextId, stage, act, stm_item, memory_ids, event>>
    BY DEF MarkCompleted, mark_completed, ctx
<1> HIDE DEF k
<1>4. \A j \in Keys : ledger'[j] = ledger[j] \/ (j = k /\ ledger'[j] = event[c])
    BY <1>2, <1>3 DEF IInv, TypeOK
<1>5. Grows
    BY <1>3 DEF Grows
<1>6. Others(c)
    BY <1>3 DEF Others, IInv, TypeOK
<1>7. RecordedIsDurable'
    <2> SUFFICES ASSUME NEW j \in Keys, ledger'[j] # None, NEW i \in ledger'[j].ids
                 PROVE  \E row \in (IF j[1] = "content" THEN mtm ELSE stm) :
                            row.id = i /\ row.namespace = ledger'[j].namespace
        BY <1>3 DEF RecordedIsDurable
    <2>1. CASE ledger'[j] = ledger[j]
        BY <2>1 DEF IInv, RecordedIsDurable
    <2>2. CASE j = k /\ ledger'[j] = event[c]
        <3>1. Backed(event[c], IF j[1] = "content" THEN mtm ELSE stm)
            BY <1>1, <1>2, <2>2 DEF CallInv
        <3> QED BY <2>2, <3>1 DEF Backed
    <2> QED BY <1>4, <2>1, <2>2
<1>8. LedgerPublishable'
    BY <1>1, <1>3, <1>4 DEF IInv, LedgerPublishable, CallInv
<1>9. AnnouncedInOrder' /\ TiersAgree' /\ IdsBelow'
    BY <1>3 DEF IInv, AnnouncedInOrder, TiersAgree, IdsBelow
<1>10. CallInv(c)'
    <2>1. pc'[c] = "publish"
        BY <1>3 DEF IInv, TypeOK
    <2> QED BY <1>1, <1>3, <2>1 DEF CallInv
<1> QED BY <1>5, <1>6, <1>7, <1>8, <1>9, <1>10, StepFrame

\* Publish: what is published is publishable, and after the capture stage the
\* id of the context is announced.
LEMMA PublishStep ==
    ASSUME IInv, TypeOK', NEW c \in Caller, Publish(c)
    PROVE  IInv'
<1>1. CallInv(c) /\ pc[c] = "publish" /\ act[c] \in Activity /\ stage[c] \in Stages
    BY DEF IInv, CallInv, Publish, TypeOK
<1>2. /\ published' = published \cup ({event[c]} \ {None})
      /\ event' = [event EXCEPT ![c] = None]
      /\ pc' = [pc EXCEPT ![c] = IF stage[c] = "emit_ingest_completed" THEN "return" ELSE "gate"]
      /\ stage' = [stage EXCEPT ![c] = NextStage(stage[c])]
      /\ UNCHANGED <<stm, mtm, ledger, nextId, act, stm_item, memory_ids>>
    BY DEF Publish, outcome_events
<1>3. Grows
    BY <1>2 DEF Grows
<1>4. Others(c)
    BY <1>2 DEF Others, IInv, TypeOK
<1>5. RecordedIsDurable' /\ LedgerPublishable'
    BY <1>2, <1>3, RecordedStays, LedgerPublishableStays DEF IInv
<1>6. TiersAgree' /\ IdsBelow'
    BY <1>2 DEF IInv, TiersAgree, IdsBelow
<1>7. AnnouncedInOrder'
    <2> SUFFICES ASSUME NEW e \in published', NEW i \in e.ids
                 PROVE  Announced(i, e.namespace, published')
        BY DEF AnnouncedInOrder, Announced
    <2>1. CASE e \in published
        <3>1. Announced(i, e.namespace, published)
            BY <2>1 DEF IInv, AnnouncedInOrder, Announced
        <3> QED BY <1>2, <3>1, Monotone
    <2>2. CASE e = event[c] /\ e # None
        <3>1. CASE e.type = "MemoryCaptured"
            BY <3>1 DEF Announced
        <3>2. CASE e.type # "MemoryCaptured"
            <4>1. Announced(i, e.namespace, published)
                BY <1>1, <2>2, <3>2 DEF CallInv, Publishable
            <4> QED BY <1>2, <4>1, Monotone
        <3> QED BY <3>1, <3>2
    <2> QED BY <1>2, <2>1, <2>2
<1>8. CallInv(c)'
    <2>1. /\ event'[c] = None /\ pc'[c] \in {"return", "gate"}
          /\ stage'[c] \in {"deterministic_promote", "emit_ingest_completed"}
          /\ act'[c] = act[c] /\ stm_item'[c] = stm_item[c] /\ memory_ids'[c] = memory_ids[c]
          /\ stm' = stm
        BY <1>2 DEF IInv, TypeOK, NextStage
    <2>2. ASSUME stm_item[c] # None
          PROVE  Announced(stm_item[c].id, act[c].namespace, published')
        <3>1. CASE stage[c] = "write_stm"
            <4>1. event[c] = [type |-> "MemoryCaptured",
                              namespace |-> act[c].namespace, ids |-> {stm_item[c].id}]
                BY <1>1, <2>2, <3>1 DEF CallInv
            <4>2. event[c] \in published'
                <5>1. event[c] # None
                    <6>1. stm_item[c].id \in Nat
                        BY <2>2 DEF IInv, TypeOK, Item
                    <6>2. event[c] \in Event
                        BY <1>1, <4>1, <6>1, EventType
                    <6> QED BY <6>2, NoneAssumption
                <5> QED BY <1>2, <5>1
            <4> QED BY <4>1, <4>2 DEF Announced
        <3>2. CASE stage[c] # "write_stm"
            <4>1. Announced(stm_item[c].id, act[c].namespace, published)
                BY <1>1, <2>2, <3>2 DEF CallInv
            <4> QED BY <1>2, <4>1, Monotone
        <3> QED BY <3>1, <3>2
    <2> QED BY <1>1, <2>1, <2>2 DEF CallInv
<1> QED BY <1>3, <1>4, <1>5, <1>6, <1>7, <1>8, StepFrame

\* Every step keeps the inductive invariant.
LEMMA IInvStep == IInv /\ [Next]_vars => IInv'
<1> SUFFICES ASSUME IInv, [Next]_vars PROVE IInv'
    OBVIOUS
<1>1. TypeOK'
    BY TypeStep DEF IInv, CallInv
<1>2. CASE UNCHANGED vars
    BY <1>2 DEF vars, IInv, TypeOK, RecordedIsDurable, AnnouncedInOrder, TiersAgree,
                IdsBelow, LedgerPublishable, CallInv
<1>3. ASSUME NEW c \in Caller, Forget(c), UNCHANGED <<stm, mtm, ledger, published, nextId>>
      PROVE  IInv'
    <2>1. CallInv(c)'
        BY <1>3, ForgottenCall DEF IInv
    <2>2. Others(c)
        BY <1>3 DEF Others, Forget, IInv, TypeOK
    <2> QED BY <1>1, <1>3, <2>1, <2>2, QuietStep
<1>4. ASSUME NEW c \in Caller, NEW a \in Activity, Remember(c, a) PROVE IInv'
    <2>1. /\ pc' = [pc EXCEPT ![c] = "gate"] /\ act' = [act EXCEPT ![c] = a] /\ pc[c] = "idle"
          /\ UNCHANGED <<stm, mtm, ledger, published, nextId, stage, stm_item, memory_ids, event>>
        BY <1>4 DEF Remember, stores
    <2>2. Others(c)
        BY <2>1 DEF Others, IInv, TypeOK
    <2>3. CallInv(c)'
        <3>1. CallInv(c) /\ pc'[c] = "gate" /\ act'[c] = a
            BY <2>1 DEF IInv, TypeOK
        <3>2. stm_item[c] = None /\ memory_ids[c] = {} /\ stage[c] = "write_stm"
            BY <2>1, <3>1 DEF CallInv
        <3>3. event[c] = None
            BY <2>1, <3>1 DEF CallInv
        <3> QED BY <1>4, <2>1, <3>1, <3>2, <3>3 DEF CallInv
    <2> QED BY <1>1, <2>1, <2>2, <2>3, QuietStep
<1>5. ASSUME NEW c \in Caller, LedgerHit(c) PROVE IInv'
    <2> DEFINE k == idempotency_key(stage[c], act[c])
    <2>1. /\ pc[c] = "gate" /\ Recorded(k) /\ event' = [event EXCEPT ![c] = ledger[k]]
          /\ pc' = [pc EXCEPT ![c] = "publish"]
          /\ UNCHANGED <<stm, mtm, ledger, published, nextId, stage, act, stm_item, memory_ids>>
        BY <1>5 DEF LedgerHit, stores
    <2>2. CallInv(c) /\ act[c] \in Activity /\ stage[c] \in Stages
        BY <2>1 DEF IInv, CallInv, TypeOK
    <2>3. k \in Keys
        BY <2>1, <2>2, KeyFamily DEF Recorded
    <2> HIDE DEF k
    <2>4. Publishable(ledger[k], published)
        BY <2>1, <2>3 DEF IInv, LedgerPublishable, Recorded
    <2>5. event'[c] = ledger[k] /\ pc'[c] = "publish"
        BY <2>1 DEF IInv, TypeOK
    <2>6. CallInv(c)'
        BY <2>1, <2>2, <2>4, <2>5 DEF CallInv
    <2>7. Others(c)
        BY <2>1 DEF Others, IInv, TypeOK
    <2> QED BY <1>1, <2>1, <2>6, <2>7, QuietStep
<1>6. ASSUME NEW c \in Caller, LedgerMiss(c) \/ NoPromotion(c) PROVE IInv'
    <2>1. /\ pc[c] \in {"gate", "execute"} /\ pc' = [pc EXCEPT ![c] = pc'[c]]
          /\ pc'[c] \in {"execute", "publish"}
          /\ pc[c] = "execute" => stage[c] # "write_stm"
          /\ UNCHANGED <<stm, mtm, ledger, published, nextId, stage, act, stm_item, memory_ids, event>>
        BY <1>6 DEF LedgerMiss, NoPromotion, stores, ctx, IInv, TypeOK
    <2>2. CallInv(c)
        BY DEF IInv
    <2>3. CallInv(c)'
        BY <2>1, <2>2 DEF CallInv
    <2>4. Others(c)
        BY <2>1 DEF Others, IInv, TypeOK
    <2> QED BY <1>1, <2>1, <2>3, <2>4, QuietStep
<1>7. ASSUME NEW c \in Caller, PromoteRaises(c) \/ Return(c) \/ Fail(c) PROVE IInv'
    BY <1>3, <1>7 DEF PromoteRaises, Return, Fail, stores
<1> QED
    BY <1>1, <1>2, <1>4, <1>5, <1>6, <1>7, WriteStmStep, PromoteStep, EmitStep, MarkStep, PublishStep
    DEF Next, Step

LEMMA IInvInit == Init => IInv
<1> SUFFICES ASSUME Init PROVE IInv
    OBVIOUS
<1>1. TypeOK
    BY BoundsAssumption DEF Init, TypeOK, Stages
<1>2. \A c \in Caller : CallInv(c)
    BY DEF Init, CallInv
<1>3. RecordedIsDurable /\ AnnouncedInOrder /\ TiersAgree /\ IdsBelow /\ LedgerPublishable
    BY DEF Init, RecordedIsDurable, AnnouncedInOrder, TiersAgree, IdsBelow, LedgerPublishable
<1> QED BY <1>1, <1>2, <1>3 DEF IInv

LEMMA Invariance == Spec => []IInv
<1> QED BY IInvInit, IInvStep, PTL DEF Spec

\* Type correctness of the pipeline's state, for every set of callers and of
\* activities and every bound on failures.
THEOREM TypeCorrect == Spec => []TypeOK
<1>1. IInv => TypeOK
    BY DEF IInv
<1> QED BY <1>1, Invariance, PTL

\* The ledger is never ahead of the tiers: a recorded completion names rows
\* that exist, whatever calls fail and however they interleave (BaseStage.run
\* marks after _execute).
THEOREM LedgerNeverAhead == Spec => []RecordedIsDurable
<1>1. IInv => RecordedIsDurable
    BY DEF IInv
<1> QED BY <1>1, Invariance, PTL

\* No subscriber hears of a promotion or a finished ingest before the capture
\* it is about (IngestService._run_stage publishes stage by stage).
THEOREM EventsInOrder == Spec => []AnnouncedInOrder
<1>1. IInv => AnnouncedInOrder
    BY DEF IInv
<1> QED BY <1>1, Invariance, PTL

\* One id, one memory, in both tiers (the id is minted once and the promoted
\* copy keeps it).
THEOREM OneIdOneMemory == Spec => []TiersAgree
<1>1. IInv => TiersAgree
    BY DEF IInv
<1> QED BY <1>1, Invariance, PTL

-----------------------------------------------------------------------------
\* What the event of a stage says of the activity it was produced for, given
\* the minted ids and the rows of the tiers: a capture names rows of STM that
\* were minted for the activity's source, a promotion means that its content
\* is in MTM, and the last stage's event is neither.
Attested(s, a, e, ids, rows, copies) ==
    /\ s = "write_stm" =>
        /\ e.type = "MemoryCaptured"
        /\ \A i \in e.ids : <<a.source, i>> \in ids /\ i \in Ids(rows)
    /\ s = "deterministic_promote" =>
        /\ e.type = "MemoryPromoted"
        /\ \E row \in copies : row.text = content_hash(a)
    /\ s = "emit_ingest_completed" => e.type = "IngestCompleted"

\* A ledger row attests its event to every activity that would hit it: the
\* activities of one source share the capture row, those of one content the
\* promotion row.
LedgerAttests ==
    \A s \in Stages, a \in Activity :
        LET k == idempotency_key(s, a) IN
        k # None => (ledger[k] # None => Attested(s, a, ledger[k], minted, stm, mtm))

\* A call in flight: the outcome it holds is attested, its item has its
\* activity's content, and what it has emitted was attested by some stage.
CallAttests(c) ==
    /\ event[c] # None => Attested(stage[c], act[c], event[c], minted, stm, mtm)
    /\ stm_item[c] # None => stm_item[c].text = content_hash(act[c])
    /\ \A e \in emitted[c] :
        /\ e \in published
        /\ \E s \in Stages : Attested(s, act[c], e, minted, stm, mtm)
    /\ pc[c] = "idle" => emitted[c] = {}

ReceiptInv ==
    /\ ReceiptIsBacked
    /\ LedgerAttests
    /\ \A c \in Caller : CallAttests(c)

\* Two stage outcomes share a ledger row only when they are outcomes of one
\* stage, for one source or for one content.
LEMMA SharedRow ==
    ASSUME NEW s \in Stages, NEW t \in Stages, NEW a \in Activity, NEW b \in Activity,
           idempotency_key(s, a) # None,
           idempotency_key(s, a) = idempotency_key(t, b)
    PROVE  /\ s = t
           /\ s = "write_stm" => a.source = b.source
           /\ s = "deterministic_promote" => content_hash(a) = content_hash(b)
<1>1. /\ idempotency_key("write_stm", a) = <<"activity", a.source>>
      /\ idempotency_key("write_stm", b) = <<"activity", b.source>>
      /\ idempotency_key("emit_ingest_completed", a) = <<"ingest-completed", a.source>>
      /\ idempotency_key("emit_ingest_completed", b) = <<"ingest-completed", b.source>>
    BY DEF idempotency_key, activity_id_for
<1>2. /\ idempotency_key("deterministic_promote", a) \in {None, <<"content", content_hash(a)>>}
      /\ idempotency_key("deterministic_promote", b) \in {None, <<"content", content_hash(b)>>}
    BY DEF idempotency_key
<1> QED BY <1>1, <1>2 DEF Stages

\* What was attested stays attested.
LEMMA AttestedStays ==
    ASSUME Grows, minted \subseteq minted', NEW s, NEW a, NEW e,
           Attested(s, a, e, minted, stm, mtm)
    PROVE  Attested(s, a, e, minted', stm', mtm')
BY DEF Attested, Grows, Ids

\* No step removes a row, a published event or a minted id.
LEMMA NothingIsLost ==
    ASSUME IInv, Next
    PROVE  Grows /\ minted \subseteq minted'
<1>1. ASSUME NEW c \in Caller, Promote(c) PROVE Grows /\ minted \subseteq minted'
    <2>1. PICK item \in _resolve_item(c) : mtm' = upsert(mtm, item)
        BY <1>1 DEF Promote
    <2>2. item \in stm
        BY <2>1 DEF IInv, CallInv, _resolve_item
    <2>3. mtm' = mtm \cup {item}
        BY <2>1, <2>2, UpsertAdds DEF IInv
    <2> QED BY <1>1, <2>3 DEF Promote, Grows
<1>2. ASSUME NEW c \in Caller, NEW a \in Activity, Remember(c, a)
      PROVE  Grows /\ minted \subseteq minted'
    BY <1>2 DEF Remember, stores, Grows
<1>3. ASSUME NEW c \in Caller, Step(c) \/ Fail(c)
      PROVE  Grows /\ minted \subseteq minted'
    BY <1>1, <1>3 DEF Step, LedgerHit, LedgerMiss, WriteStm, NoPromotion, PromoteRaises,
        EmitCompleted, MarkCompleted, Publish, Return, Fail, stores, Grows
<1> QED BY <1>2, <1>3 DEF Next

\* A receipt that was backed stays backed.
LEMMA ReceiptStays ==
    ASSUME ReceiptIsBacked, Grows, minted \subseteq minted', NEW r \in receipts
    PROVE  /\ <<r.activity.source, r.memory_id>> \in minted'
           /\ r.memory_id \in Ids(stm')
           /\ \E e \in published' : e.type = "MemoryCaptured" /\ r.memory_id \in e.ids
           /\ r.promoted => \E row \in mtm' : row.text = content_hash(r.activity)
BY DEF ReceiptIsBacked, Grows, Ids

\* A step that leaves a call's context alone keeps what it attests.
LEMMA AttestFrame ==
    ASSUME NEW d \in Caller, CallAttests(d), Grows, minted \subseteq minted',
           pc'[d] = pc[d], act'[d] = act[d], stage'[d] = stage[d], stm_item'[d] = stm_item[d],
           event'[d] = event[d], emitted'[d] = emitted[d]
    PROVE  CallAttests(d)'
<1>1. event[d] # None => Attested(stage[d], act[d], event[d], minted', stm', mtm')
    BY AttestedStays DEF CallAttests
<1>2. \A e \in emitted[d] : e \in published' /\ \E s \in Stages :
        Attested(s, act[d], e, minted', stm', mtm')
    BY AttestedStays DEF CallAttests, Grows
<1> QED BY <1>1, <1>2 DEF CallAttests

\* The ledger's rows stay attested while no row is added.
LEMMA LedgerAttestsStays ==
    ASSUME LedgerAttests, Grows, minted \subseteq minted', UNCHANGED ledger
    PROVE  LedgerAttests'
<1> SUFFICES ASSUME NEW s \in Stages, NEW a \in Activity,
                    idempotency_key(s, a) # None, ledger[idempotency_key(s, a)] # None
             PROVE  Attested(s, a, ledger[idempotency_key(s, a)], minted', stm', mtm')
    BY DEF LedgerAttests
<1>1. Attested(s, a, ledger[idempotency_key(s, a)], minted, stm, mtm)
    BY DEF LedgerAttests
<1> QED BY <1>1, AttestedStays

\* A step of c touches the emitted events of no other call.
EmittedOf(c) == \A d \in Caller \ {c} : emitted'[d] = emitted[d]

\* The invariant after a step of c that writes no receipt and no ledger row.
LEMMA AttestStep ==
    ASSUME IInv, ReceiptInv, Next, NEW c \in Caller, Others(c), EmittedOf(c),
           CallAttests(c)', LedgerAttests', UNCHANGED receipts
    PROVE  ReceiptInv'
<1>1. Grows /\ minted \subseteq minted'
    BY NothingIsLost
<1>2. ReceiptIsBacked'
    BY <1>1, ReceiptStays DEF ReceiptInv, ReceiptIsBacked
<1>3. ASSUME NEW d \in Caller PROVE CallAttests(d)'
    <2>1. CASE d = c
        BY <2>1
    <2>2. CASE d # c
        BY <1>1, <2>2, AttestFrame DEF ReceiptInv, Others, EmittedOf
    <2> QED BY <2>1, <2>2
<1> QED BY <1>2, <1>3 DEF ReceiptInv

\* A call that holds no event and no item, and has emitted nothing, attests
\* everything it says.
LEMMA ForgottenAttests ==
    ASSUME TypeOK, NEW c \in Caller, Forget(c)
    PROVE  CallAttests(c)' /\ Others(c) /\ EmittedOf(c)
BY DEF TypeOK, Forget, CallAttests, Others, EmittedOf

\* Return: the ids of the receipt come from an attested capture, and its
\* promotion flag from an attested promotion.
LEMMA ReturnStep ==
    ASSUME IInv, ReceiptInv, Next, NEW c \in Caller, Return(c)
    PROVE  ReceiptInv'
<1>1. Grows /\ minted \subseteq minted'
    BY NothingIsLost
<1>2. CallAttests(c)' /\ Others(c) /\ EmittedOf(c)
    BY ForgottenAttests DEF IInv, Return
<1>3. UNCHANGED <<stm, mtm, ledger, published, minted>> /\ CallAttests(c)
    BY DEF Return, ReceiptInv
<1>4. LedgerAttests'
    BY <1>1, <1>3, LedgerAttestsStays DEF ReceiptInv
<1>5. ASSUME NEW d \in Caller PROVE CallAttests(d)'
    <2>1. CASE d = c
        BY <1>2, <2>1
    <2>2. CASE d # c
        BY <1>1, <1>2, <2>2, AttestFrame DEF ReceiptInv, Others, EmittedOf
    <2> QED BY <2>1, <2>2
<1>6. ReceiptIsBacked'
    <2> DEFINE P == EmittedBy(c, "MemoryPromoted") # {}
               U == UNION {e.ids : e \in EmittedBy(c, "MemoryCaptured")}
    <2>1. receipts' = receipts \cup
            {[activity |-> act[c], memory_id |-> i, promoted |-> P] : i \in U}
        BY DEF Return
    <2>2. ASSUME NEW i \in U
          PROVE  /\ <<act[c].source, i>> \in minted /\ i \in Ids(stm)
                 /\ \E e \in published : e.type = "MemoryCaptured" /\ i \in e.ids
        <3>1. PICK e \in emitted[c] : e.type = "MemoryCaptured" /\ i \in e.ids
            BY DEF EmittedBy
        <3>2. PICK s \in Stages : Attested(s, act[c], e, minted, stm, mtm)
            BY <1>3, <3>1 DEF CallAttests
        <3>3. s = "write_stm"
            BY <3>1, <3>2 DEF Attested, Stages
        <3>4. e \in published
            BY <1>3, <3>1 DEF CallAttests
        <3> QED BY <3>1, <3>2, <3>3, <3>4 DEF Attested
    <2>3. ASSUME P
          PROVE  \E row \in mtm : row.text = content_hash(act[c])
        <3>1. PICK e \in emitted[c] : e.type = "MemoryPromoted"
            BY <2>3 DEF EmittedBy
        <3>2. PICK s \in Stages : Attested(s, act[c], e, minted, stm, mtm)
            BY <1>3, <3>1 DEF CallAttests
        <3>3. s = "deterministic_promote"
            BY <3>1, <3>2 DEF Attested, Stages
        <3> QED BY <3>2, <3>3 DEF Attested
    <2> HIDE DEF P, U
    <2> SUFFICES ASSUME NEW r \in receipts'
                 PROVE  /\ <<r.activity.source, r.memory_id>> \in minted'
                        /\ r.memory_id \in Ids(stm')
                        /\ \E e \in published' : e.type = "MemoryCaptured" /\ r.memory_id \in e.ids
                        /\ r.promoted => \E row \in mtm' : row.text = content_hash(r.activity)
        BY DEF ReceiptIsBacked
    <2>4. CASE r \in receipts
        BY <1>1, <2>4, ReceiptStays DEF ReceiptInv
    <2>5. CASE r \notin receipts
        <3>1. PICK i \in U : r = [activity |-> act[c], memory_id |-> i, promoted |-> P]
            BY <2>1, <2>5
        <3>2. r.activity = act[c] /\ r.memory_id = i /\ r.promoted = P
            BY <3>1
        <3> QED BY <1>3, <2>2, <2>3, <3>2
    <2> QED BY <2>4, <2>5
<1> QED BY <1>4, <1>5, <1>6 DEF ReceiptInv

\* Every step keeps what receipts, ledger rows and calls attest.
LEMMA ReceiptStep == IInv /\ ReceiptInv /\ [Next]_vars => ReceiptInv'
<1> SUFFICES ASSUME IInv, ReceiptInv, [Next]_vars PROVE ReceiptInv'
    OBVIOUS
<1>1. CASE UNCHANGED vars
    <2>1. ReceiptIsBacked'
        BY <1>1 DEF vars, ReceiptInv, ReceiptIsBacked
    <2>2. LedgerAttests'
        BY <1>1 DEF vars, ReceiptInv, LedgerAttests
    <2>3. \A c \in Caller : CallAttests(c)'
        BY <1>1 DEF vars, ReceiptInv, CallAttests
    <2> QED BY <2>1, <2>2, <2>3 DEF ReceiptInv
<1>2. ASSUME Next PROVE ReceiptInv'
    <2>1. Grows /\ minted \subseteq minted'
        BY <1>2, NothingIsLost
    <2>2. ASSUME UNCHANGED ledger PROVE LedgerAttests'
        BY <2>1, <2>2, LedgerAttestsStays DEF ReceiptInv
    <2>3. ASSUME NEW c \in Caller
          PROVE  /\ CallAttests(c) /\ CallInv(c)
                 /\ \A e \in emitted[c] : e \in published' /\ \E s \in Stages :
                        Attested(s, act[c], e, minted', stm', mtm')
        BY <2>1, AttestedStays DEF ReceiptInv, IInv, CallAttests, Grows
    <2>4. ASSUME NEW c \in Caller, NEW a \in Activity, Remember(c, a) PROVE ReceiptInv'
        <3>1. /\ act' = [act EXCEPT ![c] = a] /\ pc[c] = "idle"
              /\ pc' = [pc EXCEPT ![c] = "gate"]
              /\ UNCHANGED <<receipts, ledger, stage, stm_item, memory_ids, event, emitted>>
            BY <2>4 DEF Remember, stores
        <3>2. Others(c) /\ EmittedOf(c)
            BY <3>1 DEF Others, EmittedOf, IInv, TypeOK
        <3>3. stm_item[c] = None /\ event[c] = None /\ emitted[c] = {}
            BY <2>3, <3>1 DEF CallInv, CallAttests
        <3>4. CallAttests(c)'
            BY <3>1, <3>3 DEF CallAttests
        <3> QED BY <1>2, <2>2, <3>1, <3>2, <3>4, AttestStep
    <2>5. ASSUME NEW c \in Caller, LedgerHit(c) PROVE ReceiptInv'
        <3> DEFINE k == idempotency_key(stage[c], act[c])
        <3>1. /\ pc[c] = "gate" /\ Recorded(k) /\ event' = [event EXCEPT ![c] = ledger[k]]
              /\ pc' = [pc EXCEPT ![c] = "publish"]
              /\ UNCHANGED <<stm, mtm, minted, published, receipts, ledger, stage, act,
                             stm_item, memory_ids, emitted>>
            BY <2>5 DEF LedgerHit, stores
        <3>2. act[c] \in Activity /\ stage[c] \in Stages
            BY <2>3, <3>1 DEF CallInv, IInv, TypeOK
        <3>3. Attested(stage[c], act[c], ledger[k], minted, stm, mtm)
            BY <3>1, <3>2 DEF ReceiptInv, LedgerAttests, Recorded
        <3> HIDE DEF k
        <3>4. event'[c] = ledger[k]
            BY <3>1 DEF IInv, TypeOK
        <3>5. CallAttests(c)'
            BY <2>3, <3>1, <3>3, <3>4 DEF CallAttests
        <3>6. Others(c) /\ EmittedOf(c)
            BY <3>1 DEF Others, EmittedOf, IInv, TypeOK
        <3> QED BY <1>2, <2>2, <3>1, <3>5, <3>6, AttestStep
    <2>6. ASSUME NEW c \in Caller, LedgerMiss(c) \/ NoPromotion(c) PROVE ReceiptInv'
        <3>1. /\ pc' = [pc EXCEPT ![c] = pc'[c]] /\ pc'[c] # "idle"
              /\ UNCHANGED <<stm, mtm, minted, published, receipts, ledger, stage, act,
                             stm_item, memory_ids, event, emitted>>
            BY <2>6 DEF LedgerMiss, NoPromotion, stores, ctx, IInv, TypeOK
        <3>2. CallAttests(c)'
            BY <2>3, <3>1 DEF CallAttests
        <3>3. Others(c) /\ EmittedOf(c)
            BY <3>1 DEF Others, EmittedOf, IInv, TypeOK
        <3> QED BY <1>2, <2>2, <3>1, <3>2, <3>3, AttestStep
    <2>7. ASSUME NEW c \in Caller, WriteStm(c) PROVE ReceiptInv'
        <3> DEFINE item == _build_memory_item(act[c])
                   e == [type |-> "MemoryCaptured", namespace |-> act[c].namespace,
                         ids |-> {nextId}]
        <3>1. /\ stm' = stm \cup {item} /\ minted' = minted \cup {<<act[c].source, nextId>>}
              /\ stm_item' = [stm_item EXCEPT ![c] = item]
              /\ memory_ids' = [memory_ids EXCEPT ![c] = {nextId}]
              /\ event' = [event EXCEPT ![c] = e] /\ stage[c] = "write_stm"
              /\ pc' = [pc EXCEPT ![c] = "mark"]
              /\ UNCHANGED <<mtm, ledger, published, receipts, stage, act, emitted>>
            BY <2>7 DEF WriteStm
        <3>2. item.id = nextId /\ item.text = content_hash(act[c])
            BY DEF _build_memory_item
        <3>3. e.type = "MemoryCaptured" /\ e.ids = {nextId}
            OBVIOUS
        <3> HIDE DEF item, e
        <3>4. Attested("write_stm", act[c], e, minted', stm', mtm')
            BY <3>1, <3>2, <3>3 DEF Attested, Ids
        <3>5. event'[c] = e /\ stm_item'[c] = item /\ pc'[c] = "mark"
            BY <3>1 DEF IInv, TypeOK
        <3>6. CallAttests(c)'
            BY <2>3, <3>1, <3>2, <3>4, <3>5 DEF CallAttests
        <3>7. Others(c) /\ EmittedOf(c)
            BY <3>1 DEF Others, EmittedOf, IInv, TypeOK
        <3> QED BY <1>2, <2>2, <3>1, <3>6, <3>7, AttestStep
    <2>8. ASSUME NEW c \in Caller, Promote(c) PROVE ReceiptInv'
        <3>1. PICK item \in _resolve_item(c) :
                /\ mtm' = upsert(mtm, item)
                /\ event' = [event EXCEPT ![c] = [type |-> "MemoryPromoted",
                                namespace |-> act[c].namespace, ids |-> {item.id}]]
            BY <2>8 DEF Promote
        <3>2. stm_item[c] # None /\ item = stm_item[c]
            BY <2>3, <3>1 DEF _resolve_item, CallInv
        <3>3. item.text = content_hash(act[c]) /\ item \in mtm'
            BY <2>3, <3>1, <3>2 DEF CallAttests, upsert
        <3>4. /\ stage[c] = "deterministic_promote" /\ pc' = [pc EXCEPT ![c] = "mark"]
              /\ UNCHANGED <<stm, ledger, published, receipts, minted, stage, act, stm_item,
                             memory_ids, emitted>>
            BY <2>8 DEF Promote
        <3> DEFINE e == [type |-> "MemoryPromoted", namespace |-> act[c].namespace,
                         ids |-> {item.id}]
        <3>5. e.type = "MemoryPromoted" /\ event'[c] = e
            BY <3>1 DEF IInv, TypeOK
        <3> HIDE DEF e
        <3>6. Attested("deterministic_promote", act[c], e, minted', stm', mtm')
            BY <3>3, <3>5 DEF Attested
        <3>7. CallAttests(c)'
            BY <2>3, <3>4, <3>5, <3>6 DEF CallAttests
        <3>8. Others(c) /\ EmittedOf(c)
            BY <3>1, <3>4 DEF Others, EmittedOf, IInv, TypeOK
        <3> QED BY <1>2, <2>2, <3>4, <3>7, <3>8, AttestStep
    <2>9. ASSUME NEW c \in Caller, EmitCompleted(c) PROVE ReceiptInv'
        <3> DEFINE e == [type |-> "IngestCompleted", namespace |-> act[c].namespace,
                         ids |-> memory_ids[c]]
        <3>1. /\ event' = [event EXCEPT ![c] = e] /\ stage[c] = "emit_ingest_completed"
              /\ pc' = [pc EXCEPT ![c] = "mark"] /\ e.type = "IngestCompleted"
              /\ UNCHANGED <<stm, mtm, ledger, published, receipts, minted, stage, act,
                             stm_item, memory_ids, emitted>>
            BY <2>9 DEF EmitCompleted, stores
        <3> HIDE DEF e
        <3>2. Attested("emit_ingest_completed", act[c], e, minted', stm', mtm')
            BY <3>1 DEF Attested
        <3>3. event'[c] = e
            BY <3>1 DEF IInv, TypeOK
        <3>4. CallAttests(c)'
            BY <2>3, <3>1, <3>2, <3>3 DEF CallAttests
        <3>5. Others(c) /\ EmittedOf(c)
            BY <3>1 DEF Others, EmittedOf, IInv, TypeOK
        <3> QED BY <1>2, <2>2, <3>1, <3>4, <3>5, AttestStep
    <2>10. ASSUME NEW c \in Caller, MarkCompleted(c) PROVE ReceiptInv'
        <3> DEFINE k == idempotency_key(stage[c], act[c])
        <3>1. /\ ledger' = IF ledger[k] = None THEN [ledger EXCEPT ![k] = event[c]] ELSE ledger
              /\ pc[c] = "mark" /\ pc' = [pc EXCEPT ![c] = "publish"]
              /\ UNCHANGED <<stm, mtm, published, receipts, minted, stage, act, stm_item,
                             memory_ids, event, emitted>>
            BY <2>10 DEF MarkCompleted, mark_completed, ctx
        <3>2. /\ act[c] \in Activity /\ stage[c] \in Stages /\ event[c] # None /\ k # None
              /\ Attested(stage[c], act[c], event[c], minted, stm, mtm)
            BY <2>3, <3>1 DEF CallInv, CallAttests, IInv, TypeOK
        <3>3. LedgerAttests'
            <4> SUFFICES ASSUME NEW s \in Stages, NEW a \in Activity,
                                idempotency_key(s, a) # None,
                                ledger'[idempotency_key(s, a)] # None
                         PROVE  Attested(s, a, ledger'[idempotency_key(s, a)], minted, stm, mtm)
                BY <3>1 DEF LedgerAttests
            <4> DEFINE j == idempotency_key(s, a)
            <4>1. j \in Keys /\ k \in Keys
                BY <3>2, KeyFamily
            <4>2. CASE ledger'[j] = ledger[j]
                <5>1. Attested(s, a, ledger[j], minted, stm, mtm)
                    BY <4>2 DEF ReceiptInv, LedgerAttests
                <5> QED BY <4>2, <5>1
            <4>3. CASE j = k /\ ledger'[j] = event[c]
                <5>1. /\ s = stage[c]
                      /\ s = "write_stm" => a.source = act[c].source
                      /\ s = "deterministic_promote" => content_hash(a) = content_hash(act[c])
                    BY <3>2, <4>3, SharedRow
                <5>2. Attested(s, a, event[c], minted, stm, mtm)
                    BY <3>2, <5>1 DEF Attested
                <5> QED BY <4>3, <5>2
            <4> HIDE DEF j, k
            <4>4. ledger'[j] = ledger[j] \/ (j = k /\ ledger'[j] = event[c])
                BY <3>1, <4>1 DEF IInv, TypeOK
            <4> QED BY <4>2, <4>3, <4>4 DEF j
        <3>4. CallAttests(c)'
            BY <2>3, <3>1 DEF CallAttests
        <3>5. Others(c) /\ EmittedOf(c)
            BY <3>1 DEF Others, EmittedOf, IInv, TypeOK
        <3> QED BY <1>2, <3>1, <3>3, <3>4, <3>5, AttestStep
    <2>11. ASSUME NEW c \in Caller, Publish(c) PROVE ReceiptInv'
        <3>1. /\ published' = published \cup ({event[c]} \ {None})
              /\ emitted' = [emitted EXCEPT ![c] = @ \cup ({event[c]} \ {None})]
              /\ event' = [event EXCEPT ![c] = None]
              /\ pc' = [pc EXCEPT ![c] = IF stage[c] = "emit_ingest_completed"
                                         THEN "return" ELSE "gate"]
              /\ stage' = [stage EXCEPT ![c] = NextStage(stage[c])]
              /\ UNCHANGED <<stm, mtm, ledger, receipts, minted, act, stm_item, memory_ids>>
            BY <2>11 DEF Publish, outcome_events
        <3>2. /\ emitted'[c] = emitted[c] \cup ({event[c]} \ {None}) /\ event'[c] = None
              /\ stage[c] \in Stages /\ pc'[c] # "idle"
            BY <3>1 DEF IInv, TypeOK
        <3>3. CallAttests(c)'
            BY <2>3, <3>1, <3>2 DEF CallAttests
        <3>4. Others(c) /\ EmittedOf(c)
            BY <3>1 DEF Others, EmittedOf, IInv, TypeOK
        <3> QED BY <1>2, <2>2, <3>1, <3>3, <3>4, AttestStep
    <2>12. ASSUME NEW c \in Caller, PromoteRaises(c) \/ Fail(c) PROVE ReceiptInv'
        <3>1. Forget(c) /\ UNCHANGED <<receipts, ledger>>
            BY <2>12 DEF PromoteRaises, Fail, stores
        <3>2. CallAttests(c)' /\ Others(c) /\ EmittedOf(c)
            BY <3>1, ForgottenAttests DEF IInv
        <3> QED BY <1>2, <2>2, <3>1, <3>2, AttestStep
    <2> QED
        BY <1>2, <2>4, <2>5, <2>6, <2>7, <2>8, <2>9, <2>10, <2>11, <2>12, ReturnStep
        DEF Next, Step
<1> QED BY <1>1, <1>2

\* A receipt is backed, however calls interleave, fail and are replayed: its
\* id was minted for the activity's own source, its row is in STM and its
\* capture announced, and a promotion it reports has reached MTM
\* (IngestService._remember derives the receipt from events alone).
THEOREM ReceiptsAreBacked == Spec => []ReceiptIsBacked
<1>1. ASSUME Init PROVE ReceiptInv
    <2>1. LedgerAttests
        <3> SUFFICES ASSUME NEW s \in Stages, NEW a \in Activity, idempotency_key(s, a) # None
                     PROVE  ledger[idempotency_key(s, a)] = None
            BY DEF LedgerAttests
        <3> QED BY <1>1, KeyFamily DEF Init
    <2>2. ReceiptIsBacked /\ \A c \in Caller : CallAttests(c)
        BY <1>1 DEF Init, ReceiptIsBacked, CallAttests
    <2> QED BY <2>1, <2>2 DEF ReceiptInv
<1>2. ReceiptInv => ReceiptIsBacked
    BY DEF ReceiptInv
<1> QED BY <1>1, <1>2, Invariance, ReceiptStep, PTL DEF Spec
=============================================================================
