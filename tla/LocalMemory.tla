----------------------------- MODULE LocalMemory ----------------------------
(***************************************************************************)
(* The embedded facade: one LocalContainer wires the tiers, an in-process  *)
(* ledger and the pipelines; add, consolidate and the reads run over them. *)
(* Consolidation is the module Distill, composed here with the STM rows it *)
(* reads, the MTM points it stamps and the memory_json that recall reads.  *)
(* The process may crash and the facade be built again over its stores.    *)
(***************************************************************************)
EXTENDS Integers, Sequences, FiniteSets, SequencesExt

CONSTANTS
    Adder, Consolidator,   \* concurrent calls of add, and of consolidate
    Messages,     \* the message lists add may be given: sequences of texts
    Extract,      \* text -> the facts the extractor finds in it, in order
    Storages,     \* the StorageSettings: role -> backend
    Functional, CandidateK,   \* DistillSettings
    Limit,        \* consolidate's limit
    FirstFactId, MaxRows, MaxPasses, MaxFailures, MaxLives,   \* bounds
    None

ASSUME LocalBounds ==
    {CandidateK, Limit, FirstFactId, MaxRows, MaxPasses, MaxFailures, MaxLives} \subseteq Nat
\* add refuses an empty list; the extractor makes a list of facts of any text.
ASSUME MessagesAssumption ==
    /\ Messages \subseteq Seq(DOMAIN Extract) \ {<<>>}
    /\ \A text \in DOMAIN Extract : Extract[text] \in Seq(Range(Extract[text]))
ASSUME LocalNone == None \notin Adder \cup Consolidator \cup Nat

VARIABLES
    storage,      \* the settings the facade is built from
    phase,        \* "absent", "building", "open", "closing"
    pending,      \* roles still to be built, or still to be closed
    closers,      \* _closers: roles with something to close
    connected,    \* roles whose client holds a connection
    stuck,        \* roles whose closer has raised
    life,         \* how many containers have been constructed
    stm,          \* STM rows, oldest first
    points,       \* MTM points: [id, text, life, by]; by None if not recorded
    promoted,     \* _ledger: texts whose promotion is recorded
    json,         \* fact id -> the interval its memory_json tells
    call,         \* each call of add: [at, todo, id]
    nextRow,
    \* the variables of Distill
    ltm, edges, mtm, announced, lease, clock, nextId, cancels, torn, settled,
    pc, window, todo, fact, losers, loser, newest

container == <<storage, phase, pending, closers, connected, stuck, life>>
rows      == <<stm, points, promoted, call, nextRow>>
distill   == <<ltm, edges, mtm, announced, lease, clock, nextId, cancels, torn, settled,
               pc, window, todo, fact, losers, loser, newest>>
vars      == <<container, rows, json, distill>>

Texts == DOMAIN Extract

\* What the extractor makes of a row: one candidate per fact, none structured
\* (add sets no triple), each remembering its source.
Candidates(row) ==
    [i \in 1..Len(Extract[row.text]) |->
        [source |-> row.id, slot |-> Extract[row.text][i].slot,
         object |-> Extract[row.text][i].object, polarity |-> TRUE, structured |-> FALSE,
         valid_at |-> Extract[row.text][i].valid_at]]

WindowOf(rs) == FlattenSeq([i \in 1..Len(rs) |-> Candidates(rs[i])])

PossibleWindows ==
    {WindowOf(rs) : rs \in SeqOf([id : 0..(MaxRows - 1), text : Texts], MaxRows)}

D == INSTANCE Distill WITH Distiller <- Consolidator, Windows <- PossibleWindows,
                           MaxCancels <- MaxFailures

-----------------------------------------------------------------------------
(***************************************************************************)
(* The constructor of LocalContainer, and close.                           *)
(***************************************************************************)
Registered(role) ==
    CASE role = "kv"         -> {"redis", "valkey", "memory", "memcached"}
      [] role = "vector"     -> {"qdrant", "pgvector", "chroma", "faiss"}
      [] role = "graph"      -> {"falkordb"}
      [] role = "relational" -> {"sqlite", "postgres", "mysql"}

\* The order in which the constructor builds the roles.
Roles == <<"kv", "vector", "graph", "relational">>

_assert_supported(s) == \A i \in 1..Len(Roles) : s[Roles[i]] \in Registered(Roles[i])

\* The embedded backends have no client to close.
_resolve_closer(role) == storage[role] \notin {"memory", "chroma", "faiss"}

_register_closer(role) ==
    closers' = IF _resolve_closer(role) THEN Append(closers, role) ELSE closers

\* The embedded backends that keep nothing outside the process.
Volatile(role) == storage[role] = "memory"

NoCall == [at |-> "idle", todo |-> <<>>, id |-> None]

Init ==
    /\ storage \in Storages /\ phase = "absent"
    /\ pending = <<>> /\ closers = <<>> /\ connected = {} /\ stuck = {} /\ life = 0
    /\ stm = <<>> /\ points = {} /\ promoted = {}
    /\ call = [t \in Adder |-> NoCall] /\ nextRow = 0
    /\ json = <<>>
    /\ D!Init

\* LocalContainer(storage): an unsupported backend is refused before anything
\* is built.  The ledger is new; so is an STM kept in the process.
Construct ==
    /\ phase = "absent" /\ life < MaxLives /\ _assert_supported(storage)
    /\ phase' = "building" /\ life' = life + 1
    /\ pending' = Roles /\ closers' = <<>>
    /\ stm' = IF Volatile("kv") THEN <<>> ELSE stm
    /\ promoted' = {}
    /\ UNCHANGED <<storage, connected, stuck, points, call, nextRow, json, distill>>

\* STORE_REGISTRY.build and _register_closer, one role after the other.
Build ==
    /\ phase = "building"
    /\ _register_closer(Head(pending))
    /\ pending' = Tail(pending)
    /\ phase' = IF Tail(pending) = <<>> THEN "open" ELSE "building"
    /\ UNCHANGED <<storage, connected, stuck, life, rows, json, distill>>

\* A factory raises (a malformed url or dsn): nobody holds the container, nor
\* the clients built so far, none of which has connected.
BuildFails ==
    /\ phase = "building" /\ phase' = "absent"
    /\ UNCHANGED <<storage, pending, closers, connected, stuck, life, rows, json, distill>>

\* aclose, when the calls made inside the `async with` have returned.
Close ==
    /\ phase = "open"
    /\ \A t \in Adder : call[t].at = "idle"
    /\ \A d \in Consolidator : pc[d] = "idle"
    /\ phase' = "closing" /\ pending' = Reverse(closers)
    /\ UNCHANGED <<storage, closers, connected, stuck, life, rows, json, distill>>

\* Mutant: a closer leaves the list when it begins.
PopFirst == SelectSeq(closers, LAMBDA r : r # Head(pending))

\* The list is cleared after the last closer, not before.
ClosersAfter == IF Tail(pending) = <<>> THEN <<>> ELSE closers

\* One closer; an exception it raises is suppressed, its connection stays.
CloseNext ==
    /\ phase = "closing"
    /\ pending' = Tail(pending) /\ closers' = ClosersAfter
    /\ \/ connected' = connected \ {Head(pending)} /\ UNCHANGED <<stuck, cancels>>
       \/ /\ cancels < MaxFailures /\ cancels' = cancels + 1
          /\ stuck' = stuck \cup {Head(pending)} /\ UNCHANGED connected
    /\ phase' = IF Tail(pending) = <<>> THEN "absent" ELSE "closing"
    /\ UNCHANGED <<storage, life, rows, json, ltm, edges, mtm, announced, lease, clock, nextId,
                   torn, settled, pc, window, todo, fact, losers, loser, newest>>

\* CancelledError is not an Exception: close ends in the middle, and the
\* caller still has the container, to use or to close again.
CloseCancelled ==
    /\ phase = "closing" /\ cancels < MaxFailures
    /\ cancels' = cancels + 1 /\ phase' = "open" /\ pending' = <<>>
    /\ UNCHANGED <<storage, closers, connected, stuck, life, rows, json, ltm, edges, mtm, announced,
                   lease, clock, nextId, torn, settled, pc, window, todo, fact, losers, loser,
                   newest>>

\* The process ends: its lease, its calls and its connections are gone; what
\* the servers and the files hold stays.
Crash ==
    /\ phase # "absent" /\ life < MaxLives
    /\ phase' = "absent" /\ connected' = {} /\ pending' = <<>>
    /\ call' = [t \in Adder |-> NoCall]
    /\ lease' = None
    /\ torn' = torn \cup {fact[d].slot : d \in {e \in Consolidator : pc[e] \in
                    {"expire", "invalidate_ltm", "invalidate_mtm", "announce"}}}
    /\ pc' = [d \in Consolidator |-> "idle"]
    /\ window' = [d \in Consolidator |-> <<>>] /\ todo' = [d \in Consolidator |-> <<>>]
    /\ fact' = [d \in Consolidator |-> None] /\ loser' = [d \in Consolidator |-> None]
    /\ losers' = [d \in Consolidator |-> {}] /\ newest' = [d \in Consolidator |-> None]
    /\ UNCHANGED <<storage, closers, stuck, life, stm, points, promoted, nextRow, json, ltm, edges, mtm,
                   announced, clock, nextId, cancels, settled>>

-----------------------------------------------------------------------------
(***************************************************************************)
(* add: every message is an activity of its own, with a fresh offset and   *)
(* promote=True, so only the promotion is ever found in the ledger.        *)
(***************************************************************************)

\* A client connects when it is used.
Use(role) ==
    /\ phase = "open"
    /\ connected' = IF _resolve_closer(role) THEN connected \cup {role} ELSE connected
    /\ UNCHANGED <<storage, phase, pending, closers, stuck, life>>

Add(t, msgs) ==
    /\ phase = "open" /\ call[t].at = "idle" /\ nextRow + Len(msgs) <= MaxRows
    /\ call' = [call EXCEPT ![t] = [at |-> "write_stm", todo |-> msgs, id |-> None]]
    /\ UNCHANGED <<container, stm, points, promoted, nextRow, json, distill>>

\* WriteStmStage: a row with an id of its own.
WriteStm(t) ==
    /\ call[t].at = "write_stm" /\ Use("kv") /\ nextRow < MaxRows
    /\ stm' = Append(stm, [id |-> nextRow, text |-> Head(call[t].todo)])
    /\ nextRow' = nextRow + 1
    /\ call' = [call EXCEPT ![t].at = "promote", ![t].id = nextRow]
    /\ UNCHANGED <<points, promoted, json, distill>>

\* The next message of the list, or the result of the last.
NextMessage(t) ==
    call' = [call EXCEPT ![t] = IF Len(@.todo) = 1 THEN NoCall
                                ELSE [at |-> "write_stm", todo |-> Tail(@.todo), id |-> None]]

\* Mutant: the promotion is not looked up.
NeverPromoted(text) == FALSE

\* completed_with_events, under the content hash.
AlreadyPromoted(text) == text \in promoted

\* DeterministicPromoteStage: the ledger is read before the text is embedded.
Promote(t) ==
    /\ call[t].at = "promote" /\ phase = "open"
    /\ IF AlreadyPromoted(Head(call[t].todo))
       THEN NextMessage(t)
       ELSE call' = [call EXCEPT ![t].at = "upsert"]
    /\ UNCHANGED <<container, stm, points, promoted, nextRow, json, distill>>

\* The point is written active.  Then the promotion is recorded, or the call
\* has timed out and ends without it.
UpsertPoint(t) ==
    LET text == Head(call[t].todo)
        Written(by) == points' = points \cup {[id |-> call[t].id, text |-> text,
                                               life |-> life, by |-> by]}
    IN
    /\ call[t].at = "upsert" /\ Use("vector")
    /\ mtm' = mtm \ {call[t].id}
    /\ \/ /\ Written(t) /\ promoted' = promoted \cup {text}
          /\ NextMessage(t) /\ UNCHANGED cancels
       \/ /\ Written(None) /\ cancels < MaxFailures /\ cancels' = cancels + 1
          /\ call' = [call EXCEPT ![t] = NoCall] /\ UNCHANGED promoted
    /\ UNCHANGED <<stm, nextRow, json, ltm, edges, announced, lease, clock, nextId,
                   torn, settled, pc, window, todo, fact, losers, loser, newest>>

\* A stage raises or the call is cancelled: the rest of the list is not
\* written, what was written stays.
AddFails(t) ==
    /\ call[t].at # "idle" /\ cancels < MaxFailures
    /\ cancels' = cancels + 1
    /\ call' = [call EXCEPT ![t] = NoCall]
    /\ UNCHANGED <<container, stm, points, promoted, nextRow, json, ltm, edges, mtm, announced,
                   lease, clock, nextId, torn, settled, pc, window, todo, fact, losers, loser,
                   newest>>

-----------------------------------------------------------------------------
(***************************************************************************)
(* consolidate: the recent rows, newest first, are read before the lease   *)
(* is waited for, and then distilled.  Its pipeline has no bus; `announced`*)
(* is then the loser ids of the report.                                    *)
(***************************************************************************)
recent(limit) == Reverse(SubSeq(stm, IF Len(stm) > limit THEN Len(stm) - limit + 1 ELSE 1, Len(stm)))

Consolidate(d) ==
    /\ Use("kv")
    /\ D!Distill(d, WindowOf(recent(Limit)))
    /\ UNCHANGED <<rows, json>>

HasPoint(i) == \E p \in points : p.id = i

\* Qdrant answers 404 for a point that is not there, in a collection that is;
\* the others have no row to change.
Answers404(i) == storage["vector"] = "qdrant" /\ points # {} /\ ~HasPoint(i)

\* The pass raises there: the lease is released, the rest is not reconciled.
Raise(d) ==
    /\ lease' = D!LeaseReleased(d)
    /\ torn' = torn \cup {fact[d].slot}
    /\ settled' = settled \ D!SlotsOf(window[d])
    /\ D!Forget(d)
    /\ UNCHANGED <<ltm, edges, mtm, announced, clock, nextId, cancels>>

\* GraphMapper.to_store: the node, and memory_json beside it.
Snapshot(f) == [state |-> f.state, invalid_at |-> f.invalid_at]

\* The steps of the pass.  Only upsert_fact writes memory_json: invalidate sets
\* properties of the node and leaves it.
Pass(d) ==
    \/ /\ D!Acquire(d) \/ D!Finish(d) \/ D!Announce(d) \/ D!Cancel(d)
       /\ phase = "open" /\ UNCHANGED <<container, rows, json>>
    \/ /\ D!Reconcile(d) \/ D!Expire(d) \/ D!InvalidateLtm(d)
       /\ Use("graph") /\ UNCHANGED <<rows, json>>
    \/ /\ D!Upsert(d) /\ Use("graph")
       /\ json' = [i \in DOMAIN json \cup {fact[d].id} |->
                      IF i = fact[d].id THEN Snapshot(fact[d]) ELSE json[i]]
       /\ UNCHANGED rows
    \/ /\ pc[d] = "invalidate_mtm" /\ Use("vector")
       /\ IF Answers404(D!_mtm_point_id(loser[d])) THEN Raise(d) ELSE D!InvalidateMtm(d)
       /\ UNCHANGED <<rows, json>>

Next ==
    \/ Construct \/ Build \/ BuildFails \/ Close \/ CloseNext \/ CloseCancelled \/ Crash
    \/ \E t \in Adder : \/ \E msgs \in Messages : Add(t, msgs)
                        \/ WriteStm(t) \/ Promote(t) \/ UpsertPoint(t) \/ AddFails(t)
    \/ \E d \in Consolidator : Consolidate(d) \/ Pass(d)

Spec == Init /\ [][Next]_vars

-----------------------------------------------------------------------------
(***************************************************************************)
(* What the reads return.                                                  *)
(***************************************************************************)

\* Mutant: the filter looks at the interval, up to its end.
IntervalRecall == {f \in ltm : f.invalid_at = None \/ f.invalid_at >= clock}

\* FalkorLtmAdapter.graph_recall: active, and not yet invalid.
graph_recall == {f \in ltm : f.state = "active" /\ (f.invalid_at = None \/ f.invalid_at > clock)}

_channels_for_tier(tier) == IF tier = None THEN {"stm", "mtm", "ltm"} ELSE {tier}

\* recall, and its alias search: the hits of the channels of the tier; there
\* is no shared plane to add any.
recall(tier) ==
    {h \in {<<"stm", r.id>> : r \in ToSet(stm)}
           \cup {<<"mtm", p.id>> : p \in {q \in points : q.id \notin mtm}}
           \cup {<<"ltm", f.id>> : f \in graph_recall} : h[1] \in _channels_for_tier(tier)}

-----------------------------------------------------------------------------
TypeOK ==
    /\ phase \in {"absent", "building", "open", "closing"}
    /\ {pending[i] : i \in 1..Len(pending)} \cup {closers[i] : i \in 1..Len(closers)}
           \cup connected \cup stuck \subseteq {Roles[i] : i \in 1..Len(Roles)}
    /\ life \in 0..MaxLives /\ nextRow \in 0..MaxRows
    /\ stm \in Seq([id : 0..(MaxRows - 1), text : Texts])
    /\ points \subseteq [id : 0..(MaxRows - 1), text : Texts, life : 1..MaxLives,
                         by : Adder \cup {None}]
    /\ promoted \subseteq Texts
    /\ \A t \in Adder : call[t].at \in {"idle", "write_stm", "promote", "upsert"}
    /\ \A t \in Adder : call[t].todo = <<>> <=> call[t].at = "idle"
    /\ {f.id : f \in ltm} = DOMAIN json

\* The graph never goes silent about a slot it knows: whatever passes are cut
\* by failures, 404s or crashes, recall of the LTM tier finds an active fact
\* for every slot that was ever consolidated (invalidate, don't delete).
SlotAlwaysAnswered ==
    \A f \in ltm : \E g \in ltm : g.slot = f.slot /\ <<"ltm", g.id>> \in recall("ltm")

\* recall of the LTM tier hands out memory_json; although invalidate leaves it
\* alone, what recall returns tells the truth about the node.
RecalledIsCurrent == \A f \in graph_recall : json[f.id] = Snapshot(f)

\* MTM recall hides a memory only for a reason that the graph knows: a fact
\* drawn from it was superseded, and the graph was told first.
StampIsJustified ==
    \A p \in points : <<"mtm", p.id>> \notin recall(None) =>
        \E f \in ltm : f.point = p.id /\ f.state = "superseded"

\* Promotion is idempotent on the content as long as the container lives: one
\* caller makes two points of one text only in two lives, whose ledgers do not
\* know of each other, or when a write timed out after its effect.
DuplicateNeedsRestart ==
    \A p, q \in points :
        (p # q /\ p.text = q.text /\ p.by = q.by /\ p.by # None) => p.life # q.life

\* close releases every connection, whatever closers raised before or after,
\* and also when a first close was cancelled half-way and the container was
\* used again: what stays open is what a closer refused to close.
CloseReleases == phase = "absent" => connected \subseteq stuck

\* The rows that speak of a slot, in the order they were recorded.
Speaking(s) == SelectSeq(stm, LAMBDA r : \E i \in 1..Len(Extract[r.text]) :
                                            Extract[r.text][i].slot = s)

\* A fact without a date falls back to recorded_at: once every row that speaks
\* of a functional slot has been consolidated, the active fact is the one drawn
\* from the row recorded last.
RecordedOrderDecides ==
    \A s \in settled \cap Functional :
        LET rs == Speaking(s) IN
        (/\ \A d \in Consolidator : pc[d] = "idle"
         /\ \A i \in 1..Len(rs) : \E f \in ltm : f.slot = s /\ f.point = rs[i].id)
        => \A f \in graph_recall : f.slot = s => f.point = Last(rs).id
=============================================================================
