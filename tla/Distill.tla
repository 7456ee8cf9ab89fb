------------------------------- MODULE Distill ------------------------------
(***************************************************************************)
(* DistillPipeline: consolidation of a window of memories into the LTM     *)
(* fact graph.  A pass runs under the writer lease of its namespace; each  *)
(* fact of the window is reconciled against the active facts of the same   *)
(* (subject, predicate), its slot, and then applied by a series of writes  *)
(* to LTM, MTM and the bus.  Every write is an await: another pass may run *)
(* there and the pass may be cancelled, or fail, there.                    *)
(***************************************************************************)
EXTENDS Integers, Sequences, FiniteSets

CONSTANTS
    Distiller,   \* concurrent calls of DistillPipeline.distill, one namespace
    Windows,     \* the windows they may be given: sequences of Candidate
    Functional,  \* slots whose predicate is in functional_predicates
    CandidateK,  \* DistillSettings.candidate_k
    FirstFactId, \* ids below it are ingest ids, from it on minted fact ids
    MaxPasses,   \* bound on the passes started
    MaxCancels,  \* bound on the passes cancelled or failed
    None

WindowItems == UNION {{w[i] : i \in 1..Len(w)} : w \in Windows}
SlotsOf(w)  == {w[i].slot : i \in 1..Len(w)}
Slots   == {c.slot : c \in WindowItems}
Objects == {c.object : c \in WindowItems}

\* One fact a window yields.  `source` is the ingest id of the memory it comes
\* from, `valid_at` its world time: None only for an extracted, undated fact
\* (a structured item falls back to its created_at).
Candidate == [source : 0..(FirstFactId - 1), slot : Slots, object : Objects,
              polarity : BOOLEAN, structured : BOOLEAN, valid_at : Nat \cup {None}]

Fact == [id : Nat, point : 0..(FirstFactId - 1), slot : Slots, object : Objects,
         polarity : BOOLEAN, valid_at : Nat, invalid_at : Nat \cup {None},
         state : {"active", "superseded"}]

ASSUME BoundsAssumption ==
    /\ CandidateK \in Nat \ {0} /\ FirstFactId \in Nat \ {0}
    /\ MaxPasses \in Nat /\ MaxCancels \in Nat
ASSUME NoneAssumption == None \notin Nat /\ None \notin Fact /\ None \notin Distiller
ASSUME WindowsAssumption ==
    \A w \in Windows :
        w \in Seq(Candidate) /\ \A i \in 1..Len(w) : w[i].structured => w[i].valid_at \in Nat
\* A structured item is a memory of the store: its id stands for one triple and
\* one world time, whichever windows it is handed over in.
ASSUME IdentityAssumption ==
    \A c, e \in WindowItems : c.structured /\ e.structured /\ c.source = e.source => c = e

VARIABLES
    ltm,        \* Memory nodes of the graph (set of Fact, one per id)
    edges,      \* SUPERSEDED_BY edges: [loser, winner, reason]
    mtm,        \* ingest ids whose MTM point is stamped superseded
    announced,  \* loser ids of the MemorySuperseded events published
    lease,      \* the distiller inside the lease, or None
    clock,      \* passes started so far; the `now` of the latest pass
    nextId, cancels,
    torn,       \* slots in which some pass was cut between its writes
    settled,    \* slots of the windows whose latest pass ran to its end
    pc,         \* where each call of distill stands
    window,     \* the window it was given
    todo,       \* the facts collected from it and not yet reconciled
    fact, losers, loser, newest   \* locals of _reconcile_and_apply

graph == <<ltm, edges, mtm, announced>>
ghost == <<clock, nextId, cancels, torn, settled>>
vars  == <<ltm, edges, mtm, announced, lease, clock, nextId, cancels, torn, settled,
           pc, window, todo, fact, losers, loser, newest>>

-----------------------------------------------------------------------------
\* Mutant: an undated fact stays undated.
CollectUndated(c, i, base, now) ==
    [id         |-> IF c.structured THEN c.source ELSE base + i,
     point      |-> c.source,
     slot       |-> c.slot, object |-> c.object, polarity |-> c.polarity,
     valid_at   |-> c.valid_at,
     invalid_at |-> None,
     state      |-> "active"]

\* _promote_structured keeps the id; _fact_to_item mints one (base + position)
\* and remembers the source, its MTM point; an undated fact is dated now.
CollectedFact(c, i, base, now) ==
    [id         |-> IF c.structured THEN c.source ELSE base + i,
     point      |-> c.source,
     slot       |-> c.slot, object |-> c.object, polarity |-> c.polarity,
     valid_at   |-> IF c.valid_at = None THEN now ELSE c.valid_at,
     invalid_at |-> None,
     state      |-> "active"]

_collect_facts(w, base, now) == [i \in 1..Len(w) |-> CollectedFact(w[i], i, base, now)]

\* FalkorLtmAdapter.find_conflicts: active facts of the slot, not yet invalid.
find_conflicts(s) ==
    {f \in ltm : /\ f.slot = s /\ f.state = "active"
                 /\ f.invalid_at = None \/ f.invalid_at > clock}

\* The first candidate_k of them, in an order that the graph does not fix.
TopK(S) == {C \in SUBSET S : \/ C = S /\ Cardinality(S) <= CandidateK
                             \/ Cardinality(C) = CandidateK}

_identical(w, c) == c.object = w.object /\ c.polarity = w.polarity

\* Opposite polarity of the same triple, or another object of a functional
\* predicate.
_contradicts(w, c) ==
    \/ c.object = w.object /\ c.polarity # w.polarity
    \/ c.object # w.object /\ w.slot \in Functional

\* Mutants: the incoming fact always wins; the comparison is reversed.
NeverMoreRecent(lost, winner) == {}
LessRecent(lost, winner) == {c \in lost : c.valid_at < winner.valid_at}

\* The contradicting facts that are strictly more recent than the incoming.
more_recent(lost, winner) == {c \in lost : c.valid_at > winner.valid_at}

\* What SELF_EXPIRE stores: the incoming fact, already superseded.
SelfExpired(winner, n) ==
    [winner EXCEPT !.state = "superseded", !.invalid_at = n.valid_at]

\* Mutant: the MTM point is looked up under the fact's own id.
PointByFactId(f) == f.id

\* The MTM point a fact traces back to: the ingest id of its source.
_mtm_point_id(f) == f.point

\* Mutants: the lease is not waited for; it outlives the pass.
LeaseIgnored(d)  == TRUE
LeaseKept(d)     == lease

\* InProcessWriterLease: an asyncio.Lock per namespace, released by whatever
\* ends the pass.
LeaseFree(d)     == lease = None
LeaseReleased(d) == IF lease = d THEN None ELSE lease

\* FalkorLtmAdapter.upsert_fact: MERGE on the id, every property set.
upsert_fact(f) == ltm' = {g \in ltm : g.id # f.id} \cup {f}

\* The loser is stamped, never deleted.
Stamped(loser_id, at) ==
    {IF g.id = loser_id THEN [g EXCEPT !.state = "superseded", !.invalid_at = at] ELSE g :
        g \in ltm}

\* Mutant: the two ids are swapped.
StampWinner(loser_id, winner_id, at, reason) ==
    ltm' = Stamped(winner_id, at) /\ UNCHANGED edges

\* FalkorLtmAdapter.invalidate: stamp the loser, and merge one edge per pair
\* when both nodes are there.
invalidate(loser_id, winner_id, at, reason) ==
    LET merged == {[loser |-> l.id, winner |-> w.id, reason |-> reason] :
                      l \in {g \in ltm : g.id = loser_id}, w \in {g \in ltm : g.id = winner_id}}
    IN
    /\ ltm' = Stamped(loser_id, at)
    /\ edges' = merged \cup {e \in edges :
                    \A m \in merged : <<e.loser, e.winner>> # <<m.loser, m.winner>>}

Init ==
    /\ ltm = {} /\ edges = {} /\ mtm = {} /\ announced = {}
    /\ lease = None /\ clock = 0 /\ nextId = FirstFactId /\ cancels = 0
    /\ torn = {} /\ settled = {}
    /\ pc = [d \in Distiller |-> "idle"]
    /\ window = [d \in Distiller |-> <<>>]
    /\ todo = [d \in Distiller |-> <<>>]
    /\ fact = [d \in Distiller |-> None]
    /\ losers = [d \in Distiller |-> {}]
    /\ loser = [d \in Distiller |-> None]
    /\ newest = [d \in Distiller |-> None]

Goto(d, l) == pc' = [pc EXCEPT ![d] = l]

\* The head of the window is done.
NextFact(d) ==
    /\ todo' = [todo EXCEPT ![d] = Tail(@)]
    /\ fact' = [fact EXCEPT ![d] = None]
    /\ losers' = [losers EXCEPT ![d] = {}]
    /\ loser' = [loser EXCEPT ![d] = None]
    /\ newest' = [newest EXCEPT ![d] = None]
    /\ Goto(d, "reconcile")

Forget(d) ==
    /\ todo' = [todo EXCEPT ![d] = <<>>]
    /\ window' = [window EXCEPT ![d] = <<>>]
    /\ fact' = [fact EXCEPT ![d] = None]
    /\ losers' = [losers EXCEPT ![d] = {}]
    /\ loser' = [loser EXCEPT ![d] = None]
    /\ newest' = [newest EXCEPT ![d] = None]
    /\ Goto(d, "idle")

-----------------------------------------------------------------------------
\* distill(ns, window) is called; it first waits for the lease.
Distill(d, w) ==
    /\ pc[d] = "idle" /\ clock < MaxPasses
    /\ window' = [window EXCEPT ![d] = w]
    /\ Goto(d, "waiting")
    /\ UNCHANGED <<graph, lease, ghost, todo, fact, losers, loser, newest>>

\* lease.acquire, then _collect_facts with one `now` for the whole window.
Acquire(d) ==
    /\ pc[d] = "waiting" /\ LeaseFree(d) /\ clock < MaxPasses
    /\ lease' = d
    /\ clock' = clock + 1
    /\ todo' = [todo EXCEPT ![d] = _collect_facts(window[d], nextId, clock + 1)]
    /\ nextId' = nextId + Len(window[d]) + 1
    /\ Goto(d, "reconcile")
    /\ UNCHANGED <<graph, cancels, torn, settled, window, fact, losers, loser, newest>>

\* _reconcile_and_apply up to its first write: gather, classify, decide.
Reconcile(d) ==
    /\ pc[d] = "reconcile" /\ todo[d] # <<>>
    /\ LET winner == Head(todo[d]) IN
       \E cands \in TopK({c \in find_conflicts(winner.slot) : c.id # winner.id}) :
         LET same   == {c \in cands : _identical(winner, c)}
             lost   == {c \in cands : _contradicts(winner, c)}
             recent == more_recent(lost, winner)
         IN
         \/ \* NOOP: reinforce the identical active fact
            /\ \E c \in same : fact' = [fact EXCEPT ![d] = c]
            /\ UNCHANGED <<losers, newest>>
         \/ \* SELF_EXPIRE: some contradicting fact is strictly more recent
            /\ same = {}
            /\ \E n \in recent :
                /\ \A r \in recent : r.valid_at <= n.valid_at
                /\ fact' = [fact EXCEPT ![d] = SelfExpired(winner, n)]
                /\ newest' = [newest EXCEPT ![d] = n.id]
            /\ UNCHANGED losers
         \/ \* ADD, COEXIST (nothing lost) or SUPERSEDE
            /\ same = {} /\ recent = {}
            /\ fact' = [fact EXCEPT ![d] = winner]
            /\ losers' = [losers EXCEPT ![d] = lost]
            /\ UNCHANGED newest
    /\ Goto(d, "upsert")
    /\ UNCHANGED <<graph, lease, ghost, window, todo, loser>>

\* The first write; what follows depends on the decision.
Upsert(d) ==
    /\ pc[d] = "upsert"
    /\ upsert_fact(fact[d])
    /\ \/ newest[d] # None /\ Goto(d, "expire")
          /\ UNCHANGED <<todo, fact, losers, loser, newest>>
       \/ losers[d] # {} /\ Goto(d, "invalidate_ltm")
          /\ UNCHANGED <<todo, fact, losers, loser, newest>>
       \/ newest[d] = None /\ losers[d] = {} /\ NextFact(d)
    /\ UNCHANGED <<edges, mtm, announced, lease, ghost, window>>

\* SELF_EXPIRE's second write.
Expire(d) ==
    /\ pc[d] = "expire"
    /\ invalidate(fact[d].id, newest[d], fact[d].invalid_at, "superseded_by_more_recent")
    /\ NextFact(d)
    /\ UNCHANGED <<mtm, announced, lease, ghost, window>>

\* SUPERSEDE, for each loser: LTM, then MTM, then the event.
InvalidateLtm(d) ==
    /\ pc[d] = "invalidate_ltm"
    /\ \E l \in losers[d] :
        /\ loser' = [loser EXCEPT ![d] = l]
        /\ invalidate(l.id, fact[d].id, fact[d].valid_at, "functional_supersede")
    /\ Goto(d, "invalidate_mtm")
    /\ UNCHANGED <<mtm, announced, lease, ghost, window, todo, fact, losers, newest>>

\* Mutant: the winner's point is stamped.
InvalidateWinner(d) ==
    /\ pc[d] = "invalidate_mtm"
    /\ mtm' = mtm \cup {_mtm_point_id(fact[d])}
    /\ Goto(d, "announce")
    /\ UNCHANGED <<ltm, edges, announced, lease, ghost, window, todo, fact, losers, loser, newest>>

\* MtmTierRepository.invalidate, keyed by the ingest id (_mtm_point_id).
InvalidateMtm(d) ==
    /\ pc[d] = "invalidate_mtm"
    /\ mtm' = mtm \cup {_mtm_point_id(loser[d])}
    /\ Goto(d, "announce")
    /\ UNCHANGED <<ltm, edges, announced, lease, ghost, window, todo, fact, losers, loser, newest>>

Announce(d) ==
    /\ pc[d] = "announce"
    /\ announced' = announced \cup {loser[d].id}
    /\ IF losers[d] = {loser[d]}
       THEN NextFact(d)
       ELSE /\ losers' = [losers EXCEPT ![d] = @ \ {loser[d]}]
            /\ Goto(d, "invalidate_ltm")
            /\ UNCHANGED <<todo, fact, loser, newest>>
    /\ UNCHANGED <<ltm, edges, mtm, lease, ghost, window>>

\* The window is done: ConsolidationCompleted, and the lease is released.
Finish(d) ==
    /\ pc[d] = "reconcile" /\ todo[d] = <<>>
    /\ lease' = LeaseReleased(d)
    /\ settled' = settled \cup SlotsOf(window[d])
    /\ Forget(d)
    /\ UNCHANGED <<graph, clock, nextId, cancels, torn>>

\* A write raises or the task is cancelled: the pass ends where it is; the
\* lease is an async context manager and is released.
Cancel(d) ==
    /\ pc[d] # "idle" /\ cancels < MaxCancels
    /\ cancels' = cancels + 1
    /\ lease' = LeaseReleased(d)
    /\ torn' = torn \cup (IF pc[d] \in {"expire", "invalidate_ltm", "invalidate_mtm", "announce"}
                          THEN {fact[d].slot} ELSE {})
    /\ settled' = settled \ SlotsOf(window[d])
    /\ Forget(d)
    /\ UNCHANGED <<graph, clock, nextId>>

Step(d) ==
    \/ Reconcile(d) \/ Upsert(d) \/ Expire(d)
    \/ InvalidateLtm(d) \/ InvalidateMtm(d) \/ Announce(d) \/ Finish(d)

Next == \E d \in Distiller :
    \/ \E w \in Windows : Distill(d, w)
    \/ Acquire(d) \/ Step(d) \/ Cancel(d)

Spec == Init /\ [][Next]_vars

\* A pass inside the lease keeps running; asyncio.Lock wakes its waiters in
\* turn.
FairSpec ==
    /\ Spec
    /\ \A d \in Distiller : WF_vars(Step(d)) /\ SF_vars(Acquire(d))

-----------------------------------------------------------------------------
TypeOK ==
    /\ ltm \subseteq Fact
    /\ edges \subseteq [loser : Nat, winner : Nat,
                        reason : {"functional_supersede", "superseded_by_more_recent"}]
    /\ mtm \subseteq Nat /\ announced \subseteq Nat
    /\ lease \in Distiller \cup {None}
    /\ clock \in 0..MaxPasses /\ nextId \in Nat /\ cancels \in 0..MaxCancels
    /\ torn \subseteq Slots /\ settled \subseteq Slots
    /\ pc \in [Distiller -> {"idle", "waiting", "reconcile", "upsert", "expire",
                             "invalidate_ltm", "invalidate_mtm", "announce"}]
    /\ window \in [Distiller -> Windows \cup {<<>>}]
    /\ todo \in [Distiller -> Seq(Fact)]
    /\ fact \in [Distiller -> Fact \cup {None}]
    /\ losers \in [Distiller -> SUBSET Fact]
    /\ loser \in [Distiller -> Fact \cup {None}]
    /\ newest \in [Distiller -> Nat \cup {None}]

Active(s) == {f \in ltm : f.slot = s /\ f.state = "active"}

\* A slot some pass is between the writes of.
Busy(s) == \E d \in Distiller :
    /\ pc[d] \in {"expire", "invalidate_ltm", "invalidate_mtm", "announce"}
    /\ fact[d].slot = s

\* A functional predicate has at most one active object, whatever passes run
\* together, outside the slots that a cancelled pass left half-written (the
\* writer lease: "a race yields one deterministic winner").
OneActivePerSlot ==
    \A s \in Functional \ torn : ~Busy(s) => \A f, g \in Active(s) : f = g

\* Validity intervals are well formed: a fact is invalid no earlier than it
\* became valid, an active one is not invalid at all, and ids are unique.
IntervalsWellFormed ==
    /\ \A f \in ltm :
        /\ f.invalid_at # None => f.valid_at <= f.invalid_at
        /\ f.state = "active" <=> f.invalid_at = None
    /\ \A f, g \in ltm : f.id = g.id => f = g

\* The stores agree on a supersession before anyone hears of it, and at rest
\* every supersession has reached all of them (LTM, then MTM, then the bus).
SupersedeReachesAll ==
    /\ \A i \in announced : \E f \in ltm :
        f.id = i /\ f.point \in mtm /\ \E e \in edges : e.loser = i
    /\ \A e \in edges : \A f \in ltm :
        (e.loser = f.id /\ e.reason = "functional_supersede"
            /\ f.slot \notin torn /\ ~Busy(f.slot))
        => f.point \in mtm /\ f.id \in announced

\* The order of arrival does not decide: at rest the active fact of a
\* functional slot is one of the most recent ever distilled into it, and a
\* slot with facts has an active one.
LatestIsActive ==
    \A f \in ltm : (f.slot \in Functional \ torn /\ ~Busy(f.slot)) =>
        \E g \in Active(f.slot) : f.valid_at <= g.valid_at

\* Every pass that asked for the lease ends, the lease of a cancelled pass
\* included.
PassesEnd == \A d \in Distiller : pc[d] = "waiting" ~> (pc[d] = "idle" \/ clock = MaxPasses)
=============================================================================
