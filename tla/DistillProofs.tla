---------------------------- MODULE DistillProofs ---------------------------
(***************************************************************************)
(* What Distill promises for every set of windows, every candidate_k and   *)
(* any number of concurrent passes.                                        *)
(***************************************************************************)
EXTENDS Distill, FiniteSetTheorems, TLAPS

Inside == {"reconcile", "upsert", "expire", "invalidate_ltm", "invalidate_mtm", "announce"}
Writing == {"invalidate_ltm", "invalidate_mtm", "announce"}

\* The parts of IntervalsWellFormed and of Active, for any set of facts.
WellFormed(f) ==
    /\ f.invalid_at # None => f.valid_at <= f.invalid_at
    /\ f.state = "active" <=> f.invalid_at = None
AllWellFormed(S) ==
    /\ \A f \in S : WellFormed(f)
    /\ \A f, g \in S : f.id = g.id => f = g
ActiveIn(S, s) == {f \in S : f.slot = s /\ f.state = "active"}
RivalsIn(S, f) == {g \in ActiveIn(S, f.slot) : g.id # f.id}
\* upsert_fact and the stamp of invalidate, as functions of the graph.
Upserted(S, f) == {g \in S : g.id # f.id} \cup {f}
StampedIn(S, l, at) ==
    {IF g.id = l.id THEN [g EXCEPT !.state = "superseded", !.invalid_at = at] ELSE g : g \in S}
AtMostOne(S)   == \A f, g \in S : f = g

\* Active facts of the slot being reconciled, the incoming fact left out.
Rivals(d) == RivalsIn(ltm, fact[d])

\* The losers whose invalidation is still to come.
Pending(d) == IF pc[d] \in {"invalidate_mtm", "announce"} THEN losers[d] \ {loser[d]} ELSE losers[d]

Guarded(d) == fact[d].slot \in Functional \ torn

\* Locals of a pass are set exactly between Reconcile and the end of the fact.
LocalInv(d) ==
    /\ pc[d] \in Inside => lease = d
    /\ pc[d] \in {"upsert", "expire"} \cup Writing => fact[d] \in Fact
    /\ pc[d] = "upsert" =>
        /\ newest[d] # None => fact[d].state = "superseded" /\ losers[d] = {}
        /\ newest[d] = None => fact[d].state = "active"
    /\ pc[d] = "expire" => newest[d] \in Nat /\ fact[d].state = "superseded" /\ fact[d] \in ltm
    /\ pc[d] \in Writing => fact[d].state = "active" /\ fact[d] \in ltm
    /\ pc[d] \in {"invalidate_mtm", "announce"} => loser[d] \in losers[d]
    /\ pc[d] \in {"upsert", "expire"} \cup Writing => todo[d] # <<>>
    /\ pc[d] \notin {"upsert"} \cup Writing => losers[d] = {}
    /\ pc[d] \notin {"upsert", "expire"} => newest[d] = None

\* The fact being written has a well-formed interval.
FactInv(d) ==
    pc[d] \in {"upsert", "expire"} \cup Writing => WellFormed(fact[d])

\* The losers still to be invalidated are active rivals, no more recent than
\* the winner; in a functional slot they are all its rivals.
LosersInv(d) ==
    pc[d] \in {"upsert"} \cup Writing =>
        /\ Pending(d) \subseteq Rivals(d)
        /\ \A l \in losers[d] : l.valid_at <= fact[d].valid_at
        /\ (Guarded(d) /\ fact[d].state = "active") => Rivals(d) = Pending(d)

\* A fact that expires on arrival leaves the slot as it was.
ExpireInv(d) == (pc[d] = "expire" /\ Guarded(d)) => AtMostOne(Rivals(d))

TodoInv(d) == \A i \in 1..Len(todo[d]) : todo[d][i].state = "active" /\ todo[d][i].invalid_at = None

PassInv(d) ==
    /\ LocalInv(d)
    /\ FactInv(d)
    /\ LosersInv(d)
    /\ ExpireInv(d)
    /\ TodoInv(d)

IInv ==
    /\ TypeOK
    /\ IntervalsWellFormed
    /\ OneActivePerSlot
    /\ \A d \in Distiller : PassInv(d)

\* invalidate() stamps the node with the id of the loser and no other.
LEMMA InvalidateStamps ==
    \A l, w, at, reason : invalidate(l.id, w, at, reason) => ltm' = StampedIn(ltm, l, at)
<1> SUFFICES ASSUME NEW l, NEW w, NEW at, NEW reason, invalidate(l.id, w, at, reason)
             PROVE  ltm' = StampedIn(ltm, l, at)
  OBVIOUS
<1>1. ltm' = Stamped(l.id, at)
  BY DEF invalidate
<1>2. Stamped(l.id, at) = StampedIn(ltm, l, at)
  BY DEF Stamped, StampedIn
<1> QED BY <1>1, <1>2

-----------------------------------------------------------------------------
\* When a slot has at most one active fact, candidate_k cuts nothing off.
LEMMA TopKAll ==
    ASSUME NEW S, AtMostOne(S), NEW C \in TopK(S)
    PROVE  C = S
<1>1. CASE S = {}
  <2>1. C \subseteq S
    BY DEF TopK
  <2> QED BY <1>1, <2>1
<1>2. CASE S # {}
  <2>1. PICK x \in S : TRUE
    BY <1>2
  <2>2. S = {x}
    BY <2>1 DEF AtMostOne
  <2>3. C \subseteq {x}
    BY <2>2 DEF TopK
  <2>4. C # {}
    <3>1. SUFFICES ASSUME C = {} PROVE FALSE
      OBVIOUS
    <3>2. Cardinality(C) = 0
      BY <3>1, FS_EmptySet
    <3>3. CandidateK # 0
      BY BoundsAssumption
    <3>4. C # S
      BY <3>1, <1>2
    <3> QED BY <3>2, <3>3, <3>4 DEF TopK
  <2> QED BY <2>2, <2>3, <2>4
<1> QED BY <1>1, <1>2

\* upsert_fact keeps a graph well formed and leaves the rivals of the fact.
LEMMA UpsertLemma ==
    ASSUME NEW S \in SUBSET Fact, AllWellFormed(S), NEW f \in Fact, WellFormed(f),
           NEW T, T = Upserted(S, f)
    PROVE  /\ T \subseteq Fact /\ AllWellFormed(T) /\ f \in T
           /\ RivalsIn(T, f) = RivalsIn(S, f)
           /\ \A s : s # f.slot => ActiveIn(T, s) \subseteq ActiveIn(S, s)
           /\ f.state = "active" => ActiveIn(T, f.slot) = RivalsIn(S, f) \cup {f}
           /\ f.state # "active" => ActiveIn(T, f.slot) = RivalsIn(S, f)
<1>1. T \subseteq Fact /\ f \in T
  BY DEF Upserted
<1>2. AllWellFormed(T)
  BY DEF AllWellFormed, Upserted
<1>3. RivalsIn(T, f) = RivalsIn(S, f)
  BY DEF RivalsIn, ActiveIn, Upserted
<1>4. \A s : s # f.slot => ActiveIn(T, s) \subseteq ActiveIn(S, s)
  BY DEF ActiveIn, Upserted
<1>5. f.state = "active" => ActiveIn(T, f.slot) = RivalsIn(S, f) \cup {f}
  BY DEF RivalsIn, ActiveIn, Upserted
<1>6. f.state # "active" => ActiveIn(T, f.slot) = RivalsIn(S, f)
  BY DEF RivalsIn, ActiveIn, Upserted
<1> QED BY <1>1, <1>2, <1>3, <1>4, <1>5, <1>6

\* Stamping the node of an id replaces the one fact that has it.
LEMMA StampLemma ==
    ASSUME NEW S \in SUBSET Fact, AllWellFormed(S), NEW l \in S, NEW at \in Nat, l.valid_at <= at,
           NEW T,
           T = StampedIn(S, l, at)
    PROVE  /\ T \subseteq Fact /\ AllWellFormed(T)
           /\ \A s : ActiveIn(T, s) = ActiveIn(S, s) \ {l}
           /\ S \ {l} \subseteq T
<1> DEFINE k == [l EXCEPT !.state = "superseded", !.invalid_at = at]
<1>1. \A g \in S : g.id = l.id <=> g = l
  BY DEF AllWellFormed
<1>2. T = (S \ {l}) \cup {k}
  BY <1>1 DEF StampedIn
<1>3. k \in Fact /\ k.id = l.id /\ k.valid_at = l.valid_at /\ k.invalid_at = at
        /\ k.state = "superseded"
  BY DEF Fact
<1>4. k.invalid_at # None
  BY <1>3, NoneAssumption
<1>5. WellFormed(k)
  BY <1>3, <1>4 DEF WellFormed
<1> HIDE DEF k
<1>6. AllWellFormed(T)
  BY <1>1, <1>2, <1>3, <1>5 DEF AllWellFormed
<1>7. \A s : ActiveIn(T, s) = ActiveIn(S, s) \ {l}
  BY <1>2, <1>3 DEF ActiveIn
<1> QED BY <1>2, <1>3, <1>6, <1>7

\* What a window yields are active facts with no end.
LEMMA CollectLemma ==
    ASSUME NEW w \in Windows \cup {<<>>}, NEW base \in Nat, NEW now \in Nat
    PROVE  /\ _collect_facts(w, base, now) \in Seq(Fact)
           /\ Len(_collect_facts(w, base, now)) = Len(w)
           /\ \A i \in 1..Len(w) :
                /\ _collect_facts(w, base, now)[i].state = "active"
                /\ _collect_facts(w, base, now)[i].invalid_at = None
<1>1. w \in Seq(Candidate) /\ \A i \in 1..Len(w) : w[i].structured => w[i].valid_at \in Nat
  <2>1. CASE w \in Windows
    BY <2>1, WindowsAssumption
  <2>2. CASE w = <<>>
    BY <2>2
  <2> QED BY <2>1, <2>2
<1>2. \A i \in 1..Len(w) : CollectedFact(w[i], i, base, now) \in Fact
  <2>1. TAKE i \in 1..Len(w)
  <2>2. w[i] \in Candidate
    BY <1>1
  <2>3. FirstFactId \in Nat
    BY BoundsAssumption
  <2> QED BY <2>2, <2>3 DEF CollectedFact, Candidate, Fact
<1>3. Len(w) \in Nat
  BY <1>1
<1>4. \A i \in 1..Len(w) : CollectedFact(w[i], i, base, now).state = "active"
                           /\ CollectedFact(w[i], i, base, now).invalid_at = None
  BY DEF CollectedFact
<1> QED BY <1>2, <1>3, <1>4 DEF _collect_facts

-----------------------------------------------------------------------------
\* The invariant in terms of the operators above.
LEMMA Unfold ==
    /\ IntervalsWellFormed <=> AllWellFormed(ltm)
    /\ \A s : Active(s) = ActiveIn(ltm, s)
BY DEF IntervalsWellFormed, AllWellFormed, WellFormed, Active, ActiveIn

\* Two passes are never both inside the lease, so the slots between whose
\* writes some pass stands are those of the pass that holds it.
LEMMA OnlyOneInside ==
    ASSUME \A e \in Distiller : PassInv(e),
           NEW d \in Distiller, pc[d] \in Inside
    PROVE  /\ \A e \in Distiller : e # d => pc[e] \notin Inside
           /\ \A s : Busy(s) <=> (pc[d] \in {"expire"} \cup Writing /\ fact[d].slot = s)
<1>1. lease = d
  BY DEF PassInv, LocalInv, Inside
<1>2. \A e \in Distiller : e # d => pc[e] \notin Inside
  BY <1>1 DEF PassInv, LocalInv
<1> QED BY <1>2 DEF Busy, Inside, Writing

\* The invariant holds when no pass has run.
LEMMA InitIInv == Init => IInv
<1> SUFFICES ASSUME Init PROVE IInv
  OBVIOUS
<1>1. TypeOK
  BY BoundsAssumption DEF Init, TypeOK
<1>2. IntervalsWellFormed /\ OneActivePerSlot
  BY DEF Init, IntervalsWellFormed, OneActivePerSlot, Active
<1>3. \A d \in Distiller : PassInv(d)
  BY DEF Init, PassInv, LocalInv, FactInv, LosersInv, ExpireInv, TodoInv, Inside, Writing
<1> QED BY <1>1, <1>2, <1>3 DEF IInv

-----------------------------------------------------------------------------
\* Collecting, reconciling and writing keep every variable in its type.
LEMMA TypeStep ==
    ASSUME IInv, [Next]_vars
    PROVE  TypeOK'
<1> USE BoundsAssumption
<1>0. TypeOK /\ (\A e \in Distiller : PassInv(e))
  BY DEF IInv
<1>1. ASSUME NEW d \in Distiller, NEW w \in Windows, Distill(d, w) PROVE TypeOK'
  BY <1>0, <1>1 DEF TypeOK, Distill, Goto, graph, ghost
<1>2. ASSUME NEW d \in Distiller, Acquire(d) PROVE TypeOK'
  <2>1. clock + 1 \in 0..MaxPasses /\ clock + 1 \in Nat /\ nextId \in Nat
    BY <1>0, <1>2 DEF TypeOK, Acquire
  <2>2. window[d] \in Windows \cup {<<>>}
    BY <1>0 DEF TypeOK
  <2>3. /\ _collect_facts(window[d], nextId, clock + 1) \in Seq(Fact)
        /\ Len(window[d]) \in Nat
    BY <2>1, <2>2, CollectLemma
  <2>4. todo' \in [Distiller -> Seq(Fact)]
    BY <1>0, <1>2, <2>3 DEF TypeOK, Acquire
  <2> QED BY <1>0, <1>2, <2>1, <2>3, <2>4 DEF TypeOK, Acquire, Goto, graph
<1>3. ASSUME NEW d \in Distiller, Reconcile(d) PROVE TypeOK'
  <2>1. Head(todo[d]) \in Fact
    <3>1. todo[d] \in Seq(Fact) /\ todo[d] # <<>>
      BY <1>0, <1>3 DEF TypeOK, Reconcile
    <3> QED BY <3>1
  <2> DEFINE winner == Head(todo[d])
  <2>2. PICK cands \in TopK({c \in find_conflicts(winner.slot) : c.id # winner.id}) :
          \/ /\ \E c \in cands : fact' = [fact EXCEPT ![d] = c]
             /\ UNCHANGED <<losers, newest>>
          \/ /\ \E n \in cands :
                 /\ fact' = [fact EXCEPT ![d] = SelfExpired(winner, n)]
                 /\ newest' = [newest EXCEPT ![d] = n.id]
             /\ UNCHANGED losers
          \/ /\ fact' = [fact EXCEPT ![d] = winner]
             /\ losers' = [losers EXCEPT ![d] = {c \in cands : _contradicts(winner, c)}]
             /\ UNCHANGED newest
    BY <1>3 DEF Reconcile, more_recent
  <2>3. cands \subseteq Fact
    BY <1>0 DEF TypeOK, TopK, find_conflicts
  <2>4. \A n \in cands : n.id \in Nat /\ SelfExpired(winner, n) \in Fact
    BY <2>1, <2>3 DEF SelfExpired, Fact
  <2> HIDE DEF winner
  <2>5. fact' \in [Distiller -> Fact \cup {None}] /\ losers' \in [Distiller -> SUBSET Fact]
          /\ newest' \in [Distiller -> Nat \cup {None}]
    <3>1. fact \in [Distiller -> Fact \cup {None}] /\ losers \in [Distiller -> SUBSET Fact]
            /\ newest \in [Distiller -> Nat \cup {None}] /\ winner \in Fact
      BY <1>0, <2>1 DEF TypeOK, winner
    <3>2. CASE \E c \in cands : fact' = [fact EXCEPT ![d] = c] /\ UNCHANGED <<losers, newest>>
      BY <2>3, <3>1, <3>2
    <3>3. CASE \E n \in cands :
                 /\ fact' = [fact EXCEPT ![d] = SelfExpired(winner, n)]
                 /\ newest' = [newest EXCEPT ![d] = n.id] /\ UNCHANGED losers
      BY <2>4, <3>1, <3>3
    <3>4. CASE /\ fact' = [fact EXCEPT ![d] = winner]
               /\ losers' = [losers EXCEPT ![d] = {c \in cands : _contradicts(winner, c)}]
               /\ UNCHANGED newest
      BY <2>3, <3>1, <3>4
    <3> QED BY <2>2, <3>2, <3>3, <3>4
  <2> QED BY <1>0, <1>3, <2>5 DEF TypeOK, Reconcile, Goto, graph, ghost
<1>4. ASSUME NEW d \in Distiller, NextFact(d), todo[d] # <<>> PROVE
        /\ pc' \in [Distiller -> {"idle", "waiting", "reconcile", "upsert", "expire",
                                  "invalidate_ltm", "invalidate_mtm", "announce"}]
        /\ todo' \in [Distiller -> Seq(Fact)] /\ fact' \in [Distiller -> Fact \cup {None}]
        /\ losers' \in [Distiller -> SUBSET Fact] /\ loser' \in [Distiller -> Fact \cup {None}]
        /\ newest' \in [Distiller -> Nat \cup {None}]
  BY <1>0, <1>4 DEF TypeOK, NextFact, Goto
<1>5. ASSUME NEW d \in Distiller, Upsert(d) PROVE TypeOK'
  <2>1. ltm' \subseteq Fact
    BY <1>0, <1>5 DEF TypeOK, Upsert, upsert_fact, PassInv, LocalInv, Inside, Writing
  <2>2. todo[d] # <<>>
    BY <1>0, <1>5 DEF PassInv, LocalInv, Upsert
  <2> QED BY <1>0, <1>4, <1>5, <2>1, <2>2 DEF TypeOK, Upsert, Goto, ghost
<1> DEFINE Edges == SUBSET [loser : Nat, winner : Nat,
                            reason : {"functional_supersede", "superseded_by_more_recent"}]
<1>6. ASSUME NEW l \in Nat, NEW w \in Nat, NEW at \in Nat,
             NEW r \in {"functional_supersede", "superseded_by_more_recent"},
             invalidate(l, w, at, r)
      PROVE  ltm' \in SUBSET Fact /\ edges' \in Edges
  <2>1. \A g \in Fact : [g EXCEPT !.state = "superseded", !.invalid_at = at] \in Fact
    BY DEF Fact
  <2>2. ltm' \in SUBSET Fact
    BY <1>0, <1>6, <2>1 DEF TypeOK, invalidate, Stamped
  <2>3. \A g \in ltm : g.id \in Nat
    BY <1>0 DEF TypeOK, Fact
  <2>4. edges' \in Edges
    BY <1>0, <1>6, <2>3 DEF TypeOK, invalidate
  <2> QED BY <2>2, <2>4
<1> HIDE DEF Edges
<1>7. ASSUME NEW d \in Distiller, Expire(d) PROVE TypeOK'
  <2>1. fact[d] \in Fact /\ newest[d] \in Nat /\ todo[d] # <<>> /\ WellFormed(fact[d])
          /\ fact[d].state = "superseded"
    BY <1>0, <1>7 DEF PassInv, LocalInv, FactInv, Expire
  <2>2. fact[d].id \in Nat /\ fact[d].invalid_at \in Nat
    BY <2>1 DEF Fact, WellFormed
  <2>3. ltm' \in SUBSET Fact /\ edges' \in Edges
    BY <1>6, <1>7, <2>1, <2>2 DEF Expire
  <2> QED BY <1>0, <1>4, <1>7, <2>1, <2>3 DEF TypeOK, Expire, ghost, Edges
<1>8. ASSUME NEW d \in Distiller, InvalidateLtm(d) PROVE TypeOK'
  <2>1. fact[d] \in Fact
    BY <1>0, <1>8 DEF PassInv, LocalInv, InvalidateLtm, Writing
  <2>2. PICK l \in losers[d] :
            /\ loser' = [loser EXCEPT ![d] = l]
            /\ invalidate(l.id, fact[d].id, fact[d].valid_at, "functional_supersede")
    BY <1>8 DEF InvalidateLtm
  <2>3. l \in Fact
    BY <1>0 DEF TypeOK
  <2>4. l.id \in Nat /\ fact[d].id \in Nat /\ fact[d].valid_at \in Nat
    BY <2>1, <2>3 DEF Fact
  <2>5. ltm' \in SUBSET Fact /\ edges' \in Edges
    BY <1>6, <2>2, <2>4
  <2> QED BY <1>0, <1>8, <2>2, <2>3, <2>5 DEF TypeOK, InvalidateLtm, Goto, ghost, Edges
<1>9. ASSUME NEW d \in Distiller, InvalidateMtm(d) PROVE TypeOK'
  <2>1. loser[d] \in Fact
    BY <1>0, <1>9 DEF TypeOK, PassInv, LocalInv, InvalidateMtm
  <2>2. loser[d].point \in Nat
    BY <2>1 DEF Fact
  <2> QED BY <1>0, <1>9, <2>2 DEF TypeOK, InvalidateMtm, _mtm_point_id, Goto, ghost
<1>10. ASSUME NEW d \in Distiller, Announce(d) PROVE TypeOK'
  <2>1. loser[d] \in Fact /\ todo[d] # <<>>
    BY <1>0, <1>10 DEF TypeOK, PassInv, LocalInv, Announce, Writing
  <2>2. loser[d].id \in Nat
    BY <2>1 DEF Fact
  <2>3. CASE losers[d] = {loser[d]}
    BY <1>0, <1>4, <1>10, <2>1, <2>2, <2>3 DEF TypeOK, Announce, ghost
  <2>4. CASE losers[d] # {loser[d]}
    <3>1. /\ announced' = announced \cup {loser[d].id}
          /\ losers' = [losers EXCEPT ![d] = losers[d] \ {loser[d]}]
          /\ pc' = [pc EXCEPT ![d] = "invalidate_ltm"]
          /\ UNCHANGED <<todo, fact, loser, newest, ltm, edges, mtm, lease, ghost, window>>
      BY <1>10, <2>4 DEF Announce, Goto
    <3>2. losers' \in [Distiller -> SUBSET Fact]
      BY <1>0, <3>1 DEF TypeOK
    <3> QED BY <1>0, <2>2, <3>1, <3>2 DEF TypeOK, ghost
  <2> QED BY <2>3, <2>4
<1>11. ASSUME NEW d \in Distiller PROVE SlotsOf(window[d]) \subseteq Slots
  <2>1. window[d] \in Windows \cup {<<>>}
    BY <1>0 DEF TypeOK
  <2>2. CASE window[d] \in Windows
    BY <2>2 DEF SlotsOf, Slots, WindowItems
  <2>3. CASE window[d] = <<>>
    BY <2>3 DEF SlotsOf
  <2> QED BY <2>1, <2>2, <2>3
<1>12. ASSUME NEW d \in Distiller, Finish(d) PROVE TypeOK'
  BY <1>0, <1>11, <1>12 DEF TypeOK, Finish, Forget, Goto, graph, LeaseReleased
<1>13. ASSUME NEW d \in Distiller, Cancel(d) PROVE TypeOK'
  <2>1. pc[d] \in {"expire", "invalidate_ltm", "invalidate_mtm", "announce"}
          => fact[d].slot \in Slots
    BY <1>0 DEF PassInv, LocalInv, Writing, Fact
  <2>2. torn' \subseteq Slots
    BY <1>0, <1>13, <2>1 DEF TypeOK, Cancel
  <2> QED BY <1>0, <1>11, <1>13, <2>2 DEF TypeOK, Cancel, Forget, Goto, graph, LeaseReleased
<1>14. ASSUME UNCHANGED vars PROVE TypeOK'
  BY <1>0, <1>14 DEF TypeOK, vars
<1> QED BY <1>1, <1>2, <1>3, <1>5, <1>7, <1>8, <1>9, <1>10, <1>12, <1>13, <1>14 DEF Next, Step

-----------------------------------------------------------------------------
\* A pass outside the lease is not disturbed by a step of another.
LEMMA FrameOther ==
    ASSUME NEW e \in Distiller, PassInv(e), pc[e] \notin Inside, pc'[e] = pc[e],
           todo'[e] = todo[e], losers'[e] = losers[e], newest'[e] = newest[e]
    PROVE  PassInv(e)'
BY DEF PassInv, LocalInv, FactInv, LosersInv, ExpireInv, TodoInv, Inside, Writing

\* Nor is any pass by a step that touches neither it nor what it reads.
LEMMA FrameSame ==
    ASSUME NEW e \in Distiller, PassInv(e), pc'[e] = pc[e], todo'[e] = todo[e],
           fact'[e] = fact[e], losers'[e] = losers[e], loser'[e] = loser[e],
           newest'[e] = newest[e], ltm' = ltm, pc[e] \in Inside => lease' = lease, torn' = torn
    PROVE  PassInv(e)'
<1>1. LocalInv(e)'
  BY DEF PassInv, LocalInv, Inside, Writing
<1>2. FactInv(e)'
  BY DEF PassInv, FactInv, Writing
<1>3. TodoInv(e)'
  BY DEF PassInv, TodoInv
<1>4. LosersInv(e)'
  BY DEF PassInv, LosersInv, Pending, Rivals, Guarded, Writing
<1>5. ExpireInv(e)'
  BY DEF PassInv, ExpireInv, Rivals, Guarded
<1> QED BY <1>1, <1>2, <1>3, <1>4, <1>5 DEF PassInv

\* Reconcile decides under the lease: it picks all the rivals of a functional
\* slot, or an identical fact, or the more recent fact it loses to.
LEMMA ReconcileStep ==
    ASSUME IInv, TypeOK', NEW d \in Distiller, Reconcile(d)
    PROVE  IInv'
<1>0. TypeOK /\ AllWellFormed(ltm) /\ OneActivePerSlot /\ (\A e \in Distiller : PassInv(e))
        /\ pc[d] = "reconcile"
  BY Unfold DEF IInv, Reconcile
<1> DEFINE winner == Head(todo[d])
           S == {c \in find_conflicts(winner.slot) : c.id # winner.id}
<1>1. winner \in Fact /\ winner.state = "active" /\ winner.invalid_at = None
  <2>1. todo[d] \in Seq(Fact) /\ todo[d] # <<>>
    BY <1>0 DEF TypeOK, Reconcile
  <2>2. Head(todo[d]) = todo[d][1] /\ 1 \in 1..Len(todo[d]) /\ Head(todo[d]) \in Fact
    BY <2>1
  <2> QED BY <1>0, <2>2 DEF PassInv, TodoInv
<1>2. /\ UNCHANGED <<ltm, edges, mtm, announced, lease, clock, torn, window, todo, loser>>
      /\ pc' = [pc EXCEPT ![d] = "upsert"]
  BY DEF Reconcile, Goto, graph, ghost
<1>3. /\ \A e \in Distiller : e # d => pc[e] \notin Inside
      /\ \A s : ~Busy(s)
  BY <1>0, OnlyOneInside DEF Inside, Writing
<1>4. losers[d] = {} /\ newest[d] = None /\ lease = d
  BY <1>0 DEF PassInv, LocalInv, Inside, Writing
<1>5. S = RivalsIn(ltm, winner)
  BY <1>0, <1>1 DEF find_conflicts, RivalsIn, ActiveIn, AllWellFormed, WellFormed
<1>6. winner.slot \in Functional \ torn => AtMostOne(ActiveIn(ltm, winner.slot))
  BY <1>0, <1>3, Unfold DEF OneActivePerSlot, AtMostOne
<1>7. PICK cands \in TopK(S) :
        LET same   == {c \in cands : _identical(winner, c)}
            lost   == {c \in cands : _contradicts(winner, c)}
            recent == more_recent(lost, winner)
        IN
        \/ /\ \E c \in same : fact' = [fact EXCEPT ![d] = c]
           /\ UNCHANGED <<losers, newest>>
        \/ /\ same = {}
           /\ \E n \in recent :
                /\ \A r \in recent : r.valid_at <= n.valid_at
                /\ fact' = [fact EXCEPT ![d] = SelfExpired(winner, n)]
                /\ newest' = [newest EXCEPT ![d] = n.id]
           /\ UNCHANGED losers
        \/ /\ same = {} /\ recent = {}
           /\ fact' = [fact EXCEPT ![d] = winner]
           /\ losers' = [losers EXCEPT ![d] = lost]
           /\ UNCHANGED newest
  BY DEF Reconcile
<1>8. cands \subseteq RivalsIn(ltm, winner)
  BY <1>5 DEF TopK
<1>9. winner.slot \in Functional \ torn => cands = RivalsIn(ltm, winner)
  <2>1. ASSUME winner.slot \in Functional \ torn PROVE AtMostOne(S)
    BY <1>5, <1>6, <2>1 DEF AtMostOne, RivalsIn
  <2> QED BY <1>5, <2>1, TopKAll
<1> HIDE DEF winner, S
<1>10. \A e \in Distiller : e # d => PassInv(e)'
  <2>1. TAKE e \in Distiller
  <2>2. HAVE e # d
  <2>3. losers'[e] = losers[e] /\ newest'[e] = newest[e] /\ pc'[e] = pc[e]
    BY <1>0, <1>2, <1>7, <2>2 DEF TypeOK
  <2> QED BY <1>0, <1>2, <1>3, <2>2, <2>3, FrameOther
<1>11. pc'[d] = "upsert" /\ lease' = d /\ todo'[d] # <<>> /\ TodoInv(d)'
  BY <1>0, <1>2, <1>4 DEF TypeOK, PassInv, TodoInv, Reconcile
<1>12. cands \subseteq Fact /\ \A c \in cands : c \in ltm /\ WellFormed(c) /\ c.state = "active"
                                    /\ c.slot = winner.slot /\ c.valid_at \in Nat /\ c.id \in Nat
  <2>1. ltm \subseteq Fact
    BY <1>0 DEF TypeOK
  <2> QED BY <1>0, <1>8, <2>1 DEF RivalsIn, ActiveIn, AllWellFormed, Fact
<1>13. PassInv(d)'
  <2>1. CASE \E c \in cands : fact' = [fact EXCEPT ![d] = c] /\ UNCHANGED <<losers, newest>>
    <3>1. PICK c \in cands : fact'[d] = c /\ losers'[d] = {} /\ newest'[d] = None
      BY <1>0, <1>4, <2>1 DEF TypeOK
    <3>2. c.slot \in Functional \ torn => RivalsIn(ltm, c) = {}
      BY <1>6, <1>12, <3>1 DEF AtMostOne, RivalsIn, ActiveIn
    <3>3. LocalInv(d)' /\ FactInv(d)'
      BY <1>11, <1>12, <3>1 DEF LocalInv, FactInv, Writing
    <3>4. LosersInv(d)' /\ ExpireInv(d)'
      BY <1>2, <1>11, <3>1, <3>2 DEF LosersInv, ExpireInv, Pending, Rivals, Guarded, Writing
    <3> QED BY <1>11, <3>3, <3>4 DEF PassInv
  <2>2. CASE \E n \in more_recent({c \in cands : _contradicts(winner, c)}, winner) :
                /\ fact' = [fact EXCEPT ![d] = SelfExpired(winner, n)]
                /\ newest' = [newest EXCEPT ![d] = n.id]
                /\ UNCHANGED losers
    <3>1. PICK n \in cands : fact'[d] = SelfExpired(winner, n) /\ newest'[d] = n.id
                             /\ losers'[d] = {} /\ n.valid_at > winner.valid_at
      BY <1>0, <1>4, <2>2 DEF TypeOK, more_recent
    <3>2. /\ SelfExpired(winner, n) \in Fact
          /\ SelfExpired(winner, n).state = "superseded"
          /\ SelfExpired(winner, n).invalid_at = n.valid_at
          /\ SelfExpired(winner, n).valid_at = winner.valid_at
          /\ winner.valid_at \in Nat
      BY <1>1, <1>12 DEF SelfExpired, Fact
    <3>3. WellFormed(SelfExpired(winner, n))
      <4>1. n.valid_at # None /\ n.valid_at \in Nat
        BY <1>12, NoneAssumption
      <4> QED BY <3>1, <3>2, <4>1 DEF WellFormed
    <3>4. newest'[d] # None /\ newest'[d] \in Nat
      BY <1>12, <3>1, NoneAssumption
    <3>5. LocalInv(d)' /\ FactInv(d)'
      BY <1>11, <3>1, <3>2, <3>3, <3>4 DEF LocalInv, FactInv, Writing
    <3>6. LosersInv(d)' /\ ExpireInv(d)'
      BY <1>11, <3>1, <3>2 DEF LosersInv, ExpireInv, Pending, Writing
    <3> QED BY <1>11, <3>5, <3>6 DEF PassInv
  <2>3. CASE /\ {c \in cands : _identical(winner, c)} = {}
             /\ more_recent({c \in cands : _contradicts(winner, c)}, winner) = {}
             /\ fact' = [fact EXCEPT ![d] = winner]
             /\ losers' = [losers EXCEPT ![d] = {c \in cands : _contradicts(winner, c)}]
             /\ UNCHANGED newest
    <3>1. fact'[d] = winner /\ losers'[d] = {c \in cands : _contradicts(winner, c)}
            /\ newest'[d] = None
      BY <1>0, <1>4, <2>3 DEF TypeOK
    <3>2. \A l \in losers'[d] : l.valid_at <= winner.valid_at
      <4>1. winner.valid_at \in Nat
        BY <1>1 DEF Fact
      <4> QED BY <1>12, <2>3, <3>1, <4>1 DEF more_recent
    <3>3. winner.slot \in Functional \ torn => losers'[d] = RivalsIn(ltm, winner)
      <4>1. winner.slot \in Functional => \A c \in cands : _contradicts(winner, c)
        <5>1. \A c \in cands : c.polarity \in BOOLEAN /\ winner.polarity \in BOOLEAN
          BY <1>1, <1>12 DEF Fact
        <5> QED BY <2>3, <5>1 DEF _contradicts, _identical
      <4> QED BY <1>9, <3>1, <4>1
    <3>4. WellFormed(winner)
      BY <1>1 DEF WellFormed
    <3>5. LocalInv(d)' /\ FactInv(d)'
      BY <1>1, <1>11, <3>1, <3>4 DEF LocalInv, FactInv, Writing
    <3>6. LosersInv(d)' /\ ExpireInv(d)'
      <4>1. losers'[d] \subseteq RivalsIn(ltm, winner)
        BY <1>8, <3>1
      <4> QED BY <1>2, <1>11, <3>1, <3>2, <3>3, <4>1
            DEF LosersInv, ExpireInv, Pending, Rivals, Guarded, Writing
    <3> QED BY <1>11, <3>5, <3>6 DEF PassInv
  <2> QED BY <1>7, <2>1, <2>2, <2>3
<1>14. IntervalsWellFormed'
  BY <1>0, <1>2 DEF IntervalsWellFormed, AllWellFormed, WellFormed
<1>15. OneActivePerSlot'
  <2>1. \A s : Active(s)' = Active(s)
    BY <1>2 DEF Active
  <2> QED BY <1>0, <1>2, <1>3, <2>1 DEF OneActivePerSlot
<1> QED BY <1>10, <1>13, <1>14, <1>15 DEF IInv

\* What the end of a fact leaves of the locals of its pass.
LEMMA NextFactLemma ==
    ASSUME TypeOK, NEW d \in Distiller, NextFact(d), PassInv(d), lease' = lease,
           pc[d] \in {"upsert", "expire"} \cup Writing
    PROVE  /\ PassInv(d)' /\ pc' = [pc EXCEPT ![d] = "reconcile"]
           /\ \A e \in Distiller : e # d =>
                /\ pc'[e] = pc[e] /\ todo'[e] = todo[e] /\ losers'[e] = losers[e]
                /\ newest'[e] = newest[e]
<1>1. /\ pc'[d] = "reconcile" /\ todo'[d] = Tail(todo[d]) /\ losers'[d] = {}
      /\ newest'[d] = None /\ pc' = [pc EXCEPT ![d] = "reconcile"]
  BY DEF TypeOK, NextFact, Goto
<1>2. lease = d /\ todo[d] # <<>> /\ todo[d] \in Seq(Fact)
  BY DEF TypeOK, PassInv, LocalInv, Inside, Writing
<1>3. TodoInv(d)'
  <2>1. \A i \in 1..Len(Tail(todo[d])) :
            Tail(todo[d])[i] = todo[d][i + 1] /\ i + 1 \in 1..Len(todo[d])
    BY <1>2
  <2> QED BY <1>1, <2>1 DEF PassInv, TodoInv
<1>4. LocalInv(d)' /\ FactInv(d)' /\ LosersInv(d)' /\ ExpireInv(d)'
  BY <1>1, <1>2 DEF LocalInv, FactInv, LosersInv, ExpireInv, Writing
<1>5. \A e \in Distiller : e # d =>
        /\ pc'[e] = pc[e] /\ todo'[e] = todo[e] /\ losers'[e] = losers[e]
        /\ newest'[e] = newest[e]
  BY DEF TypeOK, NextFact, Goto
<1> QED BY <1>1, <1>3, <1>4, <1>5 DEF PassInv

\* The first write of a fact: in a functional slot its rivals are the losers.
LEMMA UpsertStep ==
    ASSUME IInv, TypeOK', NEW d \in Distiller, Upsert(d)
    PROVE  IInv'
<1>0. TypeOK /\ AllWellFormed(ltm) /\ OneActivePerSlot /\ (\A e \in Distiller : PassInv(e))
        /\ pc[d] = "upsert"
  BY Unfold DEF IInv, Upsert
<1>1. fact[d] \in Fact /\ WellFormed(fact[d]) /\ lease = d /\ todo[d] # <<>>
  BY <1>0 DEF PassInv, LocalInv, FactInv, Inside
<1>2. ltm' = Upserted(ltm, fact[d]) /\ lease' = lease /\ torn' = torn
  BY DEF Upsert, upsert_fact, Upserted, ghost
<1>3. /\ AllWellFormed(ltm') /\ fact[d] \in ltm'
      /\ RivalsIn(ltm', fact[d]) = RivalsIn(ltm, fact[d])
      /\ \A s : s # fact[d].slot => ActiveIn(ltm', s) \subseteq ActiveIn(ltm, s)
      /\ fact[d].state = "active" =>
            ActiveIn(ltm', fact[d].slot) = RivalsIn(ltm, fact[d]) \cup {fact[d]}
      /\ fact[d].state # "active" => ActiveIn(ltm', fact[d].slot) = RivalsIn(ltm, fact[d])
  <2>1. ltm \in SUBSET Fact
    BY <1>0 DEF TypeOK
  <2> QED BY <1>0, <1>1, <1>2, <2>1, UpsertLemma
<1>4. /\ \A e \in Distiller : e # d => pc[e] \notin Inside
      /\ \A s : ~Busy(s)
  BY <1>0, OnlyOneInside DEF Inside, Writing
<1>5. \A s \in Functional \ torn : AtMostOne(ActiveIn(ltm, s))
  BY <1>0, <1>4, Unfold DEF OneActivePerSlot, AtMostOne
<1>6. \A s \in Functional \ torn : s # fact[d].slot => AtMostOne(ActiveIn(ltm', s))
  BY <1>3, <1>5 DEF AtMostOne
<1>7. CASE newest[d] = None /\ losers[d] = {} /\ NextFact(d)
  <2>1. PassInv(d)' /\ \A e \in Distiller : e # d =>
                /\ pc'[e] = pc[e] /\ todo'[e] = todo[e] /\ losers'[e] = losers[e]
                /\ newest'[e] = newest[e]
    BY <1>0, <1>2, <1>7, NextFactLemma
  <2>2. \A e \in Distiller : PassInv(e)'
    BY <1>0, <1>4, <2>1, FrameOther
  <2>3. fact[d].state = "active"
    BY <1>0, <1>7 DEF PassInv, LocalInv
  <2>4. fact[d].slot \in Functional \ torn => RivalsIn(ltm, fact[d]) = {}
    BY <1>0, <1>7, <2>3 DEF PassInv, LosersInv, Guarded, Rivals, Pending
  <2>5. \A s \in Functional \ torn : AtMostOne(ActiveIn(ltm', s))
    BY <1>3, <1>6, <2>3, <2>4 DEF AtMostOne
  <2> QED BY <1>2, <1>3, <2>2, <2>5
        DEF IInv, IntervalsWellFormed, AllWellFormed, WellFormed, OneActivePerSlot, Active, ActiveIn,
            AtMostOne
<1>8. ASSUME NEW l \in {"expire", "invalidate_ltm"}, Goto(d, l),
             UNCHANGED <<todo, fact, losers, loser, newest>>,
             l = "expire" => newest[d] # None, l = "invalidate_ltm" => losers[d] # {}
      PROVE  IInv'
  <2>1. pc' = [pc EXCEPT ![d] = l] /\ pc'[d] = l
    BY <1>0, <1>8 DEF Goto, TypeOK
  <2>2. \A e \in Distiller : e # d => PassInv(e)'
    BY <1>0, <1>4, <1>8, <2>1, FrameOther
  <2>3. /\ newest[d] # None => newest[d] \in Nat /\ fact[d].state = "superseded" /\ losers[d] = {}
        /\ newest[d] = None => fact[d].state = "active"
    BY <1>0 DEF PassInv, LocalInv, TypeOK
  <2>4. LocalInv(d)' /\ FactInv(d)' /\ TodoInv(d)'
    BY <1>0, <1>1, <1>2, <1>3, <1>8, <2>1, <2>3
       DEF PassInv, LocalInv, FactInv, TodoInv, Inside, Writing
  <2>5. LosersInv(d)'
    <3>1. /\ losers[d] \subseteq RivalsIn(ltm, fact[d])
          /\ \A x \in losers[d] : x.valid_at <= fact[d].valid_at
          /\ (fact[d].slot \in Functional \ torn /\ fact[d].state = "active")
                => RivalsIn(ltm, fact[d]) = losers[d]
      BY <1>0 DEF PassInv, LosersInv, Pending, Rivals, Guarded
    <3> QED BY <1>2, <1>3, <1>8, <2>1, <3>1 DEF LosersInv, Pending, Rivals, Guarded, Writing
  <2>6. ExpireInv(d)'
    <3>1. fact[d].slot \in Functional \ torn => AtMostOne(RivalsIn(ltm, fact[d]))
      BY <1>5 DEF RivalsIn, AtMostOne
    <3> QED BY <1>2, <1>3, <1>8, <3>1 DEF ExpireInv, Guarded, Rivals
  <2>7. \A s : ~Busy(s)' => s # fact[d].slot
    BY <1>8, <2>1 DEF Busy
  <2>8. OneActivePerSlot'
    BY <1>2, <1>6, <2>7, Unfold DEF OneActivePerSlot, Active, ActiveIn, AtMostOne
  <2>9. IntervalsWellFormed'
    BY <1>3 DEF IntervalsWellFormed, AllWellFormed, WellFormed
  <2> QED BY <2>2, <2>4, <2>5, <2>6, <2>8, <2>9 DEF IInv, PassInv
<1> QED BY <1>7, <1>8 DEF Upsert

\* The second write of SELF_EXPIRE finds its fact superseded already.
LEMMA ExpireStep ==
    ASSUME IInv, TypeOK', NEW d \in Distiller, Expire(d)
    PROVE  IInv'
<1>0. TypeOK /\ AllWellFormed(ltm) /\ OneActivePerSlot /\ (\A e \in Distiller : PassInv(e))
        /\ pc[d] = "expire"
  BY Unfold DEF IInv, Expire
<1>1. fact[d] \in Fact /\ WellFormed(fact[d]) /\ fact[d] \in ltm /\ fact[d].state = "superseded"
        /\ lease = d
  BY <1>0 DEF PassInv, LocalInv, FactInv, Inside
<1>2. fact[d].invalid_at \in Nat /\ fact[d].valid_at <= fact[d].invalid_at
  BY <1>1 DEF Fact, WellFormed
<1>3. /\ ltm' = StampedIn(ltm, fact[d], fact[d].invalid_at)
      /\ NextFact(d) /\ lease' = lease /\ torn' = torn
  BY InvalidateStamps DEF Expire, ghost
<1>4. AllWellFormed(ltm') /\ \A s : ActiveIn(ltm', s) = ActiveIn(ltm, s) \ {fact[d]}
  <2>1. ltm \in SUBSET Fact
    BY <1>0 DEF TypeOK
  <2> QED BY <1>0, <1>1, <1>2, <1>3, <2>1, StampLemma
<1>5. /\ \A e \in Distiller : e # d => pc[e] \notin Inside
      /\ \A s : Busy(s) <=> fact[d].slot = s
  BY <1>0, OnlyOneInside DEF Inside, Writing
<1>6. \A e \in Distiller : PassInv(e)'
  BY <1>0, <1>3, <1>5, NextFactLemma, FrameOther
<1>7. \A s \in Functional \ torn : AtMostOne(ActiveIn(ltm', s))
  <2>1. TAKE s \in Functional \ torn
  <2>2. CASE s = fact[d].slot
    <3>1. AtMostOne(RivalsIn(ltm, fact[d]))
      BY <1>0, <2>2 DEF PassInv, ExpireInv, Guarded, Rivals
    <3>2. ActiveIn(ltm, s) \subseteq RivalsIn(ltm, fact[d])
      BY <1>0, <1>1, <2>2 DEF AllWellFormed, ActiveIn, RivalsIn
    <3> QED BY <1>4, <3>1, <3>2 DEF AtMostOne
  <2>3. CASE s # fact[d].slot
    <3>1. AtMostOne(ActiveIn(ltm, s))
      BY <1>0, <1>5, <2>3, Unfold DEF OneActivePerSlot, AtMostOne
    <3> QED BY <1>4, <3>1 DEF AtMostOne
  <2> QED BY <2>2, <2>3
<1>8. OneActivePerSlot'
  BY <1>3, <1>7 DEF OneActivePerSlot, Active, ActiveIn, AtMostOne
<1>9. IntervalsWellFormed'
  BY <1>4 DEF IntervalsWellFormed, AllWellFormed, WellFormed
<1> QED BY <1>6, <1>8, <1>9 DEF IInv

\* Each loser leaves the active facts of the slot when it is stamped.
LEMMA InvalidateLtmStep ==
    ASSUME IInv, TypeOK', NEW d \in Distiller, InvalidateLtm(d)
    PROVE  IInv'
<1>0. TypeOK /\ AllWellFormed(ltm) /\ OneActivePerSlot /\ (\A e \in Distiller : PassInv(e))
        /\ pc[d] = "invalidate_ltm"
  BY Unfold DEF IInv, InvalidateLtm
<1>1. /\ fact[d] \in Fact /\ WellFormed(fact[d]) /\ fact[d] \in ltm /\ fact[d].state = "active"
      /\ lease = d /\ todo[d] # <<>> /\ newest[d] = None
  BY <1>0 DEF PassInv, LocalInv, FactInv, Inside, Writing
<1>2. /\ losers[d] \subseteq RivalsIn(ltm, fact[d])
      /\ \A x \in losers[d] : x.valid_at <= fact[d].valid_at
      /\ fact[d].slot \in Functional \ torn => RivalsIn(ltm, fact[d]) = losers[d]
  BY <1>0, <1>1 DEF PassInv, LosersInv, Pending, Rivals, Guarded, Writing
<1>3. PICK l \in losers[d] :
        /\ loser' = [loser EXCEPT ![d] = l]
        /\ ltm' = StampedIn(ltm, l, fact[d].valid_at)
  <2>1. PICK l \in losers[d] :
            /\ loser' = [loser EXCEPT ![d] = l]
            /\ invalidate(l.id, fact[d].id, fact[d].valid_at, "functional_supersede")
    BY DEF InvalidateLtm
  <2>2. ltm' = StampedIn(ltm, l, fact[d].valid_at)
    BY <2>1, InvalidateStamps
  <2> QED BY <2>1, <2>2
<1>4. /\ pc' = [pc EXCEPT ![d] = "invalidate_mtm"]
      /\ UNCHANGED <<lease, torn, todo, fact, losers, newest>>
  BY DEF InvalidateLtm, Goto, ghost
<1>5. l \in ltm /\ l.id # fact[d].id /\ fact[d].valid_at \in Nat
  BY <1>1, <1>2 DEF RivalsIn, ActiveIn, Fact
<1>6. /\ AllWellFormed(ltm')
      /\ \A s : ActiveIn(ltm', s) = ActiveIn(ltm, s) \ {l}
      /\ ltm \ {l} \subseteq ltm'
  <2>1. ltm \in SUBSET Fact
    BY <1>0 DEF TypeOK
  <2> QED BY <1>0, <1>2, <1>3, <1>5, <2>1, StampLemma
<1>7. RivalsIn(ltm', fact[d]) = RivalsIn(ltm, fact[d]) \ {l}
  BY <1>6 DEF RivalsIn
<1>8. /\ \A e \in Distiller : e # d => pc[e] \notin Inside
      /\ \A s : Busy(s) <=> fact[d].slot = s
  BY <1>0, OnlyOneInside DEF Inside, Writing
<1>9. pc'[d] = "invalidate_mtm" /\ loser'[d] = l /\ \A e \in Distiller : e # d => pc'[e] = pc[e]
  BY <1>0, <1>3, <1>4 DEF TypeOK
<1>10. \A e \in Distiller : e # d => PassInv(e)'
  BY <1>0, <1>4, <1>8, <1>9, FrameOther
<1>11. LocalInv(d)' /\ FactInv(d)' /\ TodoInv(d)' /\ ExpireInv(d)'
  <2>1. fact[d] \in ltm'
    BY <1>1, <1>5, <1>6
  <2>2. TodoInv(d)
    BY <1>0 DEF PassInv
  <2> QED BY <1>1, <1>4, <1>9, <2>1, <2>2
        DEF LocalInv, FactInv, TodoInv, ExpireInv, Inside, Writing
<1>12. LosersInv(d)'
  BY <1>2, <1>4, <1>7, <1>9 DEF LosersInv, Pending, Rivals, Guarded, Writing
<1>13. \A s : Busy(s)' <=> fact[d].slot = s
  BY <1>4, <1>8, <1>9 DEF Busy, Inside
<1>14. OneActivePerSlot'
  <2>1. \A s \in Functional \ torn : s # fact[d].slot => AtMostOne(ActiveIn(ltm, s))
    BY <1>0, <1>8, Unfold DEF OneActivePerSlot, AtMostOne
  <2>2. \A s \in Functional \ torn : s # fact[d].slot => AtMostOne(ActiveIn(ltm', s))
    BY <1>6, <2>1 DEF AtMostOne
  <2> QED BY <1>4, <1>13, <2>2 DEF OneActivePerSlot, Active, ActiveIn, AtMostOne
<1>15. IntervalsWellFormed'
  BY <1>6 DEF IntervalsWellFormed, AllWellFormed, WellFormed
<1> QED BY <1>10, <1>11, <1>12, <1>14, <1>15 DEF IInv, PassInv

\* The stamp in MTM leaves the graph alone.
LEMMA InvalidateMtmStep ==
    ASSUME IInv, TypeOK', NEW d \in Distiller, InvalidateMtm(d)
    PROVE  IInv'
<1>0. TypeOK /\ IntervalsWellFormed /\ OneActivePerSlot /\ (\A e \in Distiller : PassInv(e))
        /\ pc[d] = "invalidate_mtm"
  BY DEF IInv, InvalidateMtm
<1>1. pc' = [pc EXCEPT ![d] = "announce"]
        /\ UNCHANGED <<ltm, lease, torn, todo, fact, losers, loser, newest>>
  BY DEF InvalidateMtm, Goto, ghost
<1>2. pc'[d] = "announce" /\ \A e \in Distiller : e # d => pc'[e] = pc[e]
  BY <1>0, <1>1 DEF TypeOK
<1>3. /\ \A e \in Distiller : e # d => pc[e] \notin Inside
      /\ \A s : Busy(s) <=> fact[d].slot = s
  BY <1>0, OnlyOneInside DEF Inside, Writing
<1>4. \A e \in Distiller : e # d => PassInv(e)'
  BY <1>0, <1>1, <1>2, <1>3, FrameOther
<1>5. PassInv(d)'
  BY <1>0, <1>1, <1>2 DEF PassInv, LocalInv, FactInv, LosersInv, ExpireInv, TodoInv,
                          Pending, Rivals, Guarded, Inside, Writing
<1>6. \A s : Busy(s)' <=> fact[d].slot = s
  BY <1>1, <1>2, <1>3 DEF Busy, Inside
<1>7. IntervalsWellFormed' /\ OneActivePerSlot'
  BY <1>0, <1>1, <1>3, <1>6 DEF IntervalsWellFormed, OneActivePerSlot, Active
<1> QED BY <1>4, <1>5, <1>7 DEF IInv

\* After the last loser the winner is the only active fact of its slot.
LEMMA AnnounceStep ==
    ASSUME IInv, TypeOK', NEW d \in Distiller, Announce(d)
    PROVE  IInv'
<1>0. TypeOK /\ IntervalsWellFormed /\ OneActivePerSlot /\ (\A e \in Distiller : PassInv(e))
        /\ pc[d] = "announce"
  BY DEF IInv, Announce
<1>1. UNCHANGED <<ltm, lease, torn>>
  BY DEF Announce, ghost
<1>2. /\ \A e \in Distiller : e # d => pc[e] \notin Inside
      /\ \A s : Busy(s) <=> fact[d].slot = s
  BY <1>0, OnlyOneInside DEF Inside, Writing
<1>3. IntervalsWellFormed'
  BY <1>0, <1>1 DEF IntervalsWellFormed
<1>4. CASE losers[d] = {loser[d]}
  <2>1. NextFact(d)
    BY <1>4 DEF Announce
  <2>2. PassInv(d)' /\ \A e \in Distiller : e # d =>
                /\ pc'[e] = pc[e] /\ todo'[e] = todo[e] /\ losers'[e] = losers[e]
                /\ newest'[e] = newest[e]
    BY <1>0, <1>1, <2>1, NextFactLemma DEF Writing
  <2>3. \A e \in Distiller : PassInv(e)'
    BY <1>0, <1>2, <2>2, FrameOther
  <2>4. fact[d].slot \in Functional \ torn => RivalsIn(ltm, fact[d]) = {}
    BY <1>0, <1>4 DEF PassInv, LocalInv, LosersInv, Pending, Rivals, Guarded, Writing
  <2>5. fact[d].slot \in Functional \ torn => AtMostOne(ActiveIn(ltm, fact[d].slot))
    <3>1. fact[d] \in ltm
      BY <1>0 DEF PassInv, LocalInv, Writing
    <3> QED BY <1>0, <2>4, <3>1 DEF IntervalsWellFormed, AtMostOne, RivalsIn, ActiveIn
  <2>6. \A s \in Functional \ torn : AtMostOne(ActiveIn(ltm, s))
    BY <1>0, <1>2, <2>5, Unfold DEF OneActivePerSlot, AtMostOne
  <2>7. OneActivePerSlot'
    BY <1>1, <2>6 DEF OneActivePerSlot, Active, ActiveIn, AtMostOne
  <2> QED BY <1>3, <2>3, <2>7 DEF IInv
<1>5. CASE losers[d] # {loser[d]}
  <2>1. /\ losers' = [losers EXCEPT ![d] = losers[d] \ {loser[d]}]
        /\ pc' = [pc EXCEPT ![d] = "invalidate_ltm"]
        /\ UNCHANGED <<todo, fact, loser, newest>>
    BY <1>5 DEF Announce, Goto
  <2>2. /\ pc'[d] = "invalidate_ltm" /\ losers'[d] = losers[d] \ {loser[d]}
        /\ \A e \in Distiller : e # d => pc'[e] = pc[e] /\ losers'[e] = losers[e]
    BY <1>0, <2>1 DEF TypeOK
  <2>3. \A e \in Distiller : e # d => PassInv(e)'
    BY <1>0, <1>2, <2>1, <2>2, FrameOther
  <2>4. PassInv(d)'
    BY <1>0, <1>1, <2>1, <2>2 DEF PassInv, LocalInv, FactInv, LosersInv, ExpireInv, TodoInv,
                                  Pending, Rivals, Guarded, Inside, Writing
  <2>5. \A s : Busy(s)' <=> fact[d].slot = s
    BY <1>2, <2>1, <2>2 DEF Busy, Inside
  <2>6. OneActivePerSlot'
    BY <1>0, <1>1, <1>2, <2>5 DEF OneActivePerSlot, Active
  <2> QED BY <1>3, <2>3, <2>4, <2>6 DEF IInv
<1> QED BY <1>4, <1>5

\* A pass that ends, of itself or not, leaves the lease and its locals; a cut
\* between two writes marks the slot torn.
LEMMA LeaveStep ==
    ASSUME IInv, TypeOK', NEW d \in Distiller, Finish(d) \/ Cancel(d)
    PROVE  IInv'
<1>0. TypeOK /\ IntervalsWellFormed /\ OneActivePerSlot /\ (\A e \in Distiller : PassInv(e))
        /\ pc[d] # "idle"
  BY DEF IInv, Finish, Cancel
<1>1. Forget(d) /\ UNCHANGED ltm /\ lease' = LeaseReleased(d)
  BY DEF Finish, Cancel, graph
<1>2. /\ pc'[d] = "idle" /\ todo'[d] = <<>> /\ losers'[d] = {} /\ newest'[d] = None
      /\ \A e \in Distiller : e # d =>
            /\ pc'[e] = pc[e] /\ todo'[e] = todo[e] /\ losers'[e] = losers[e]
            /\ newest'[e] = newest[e] /\ fact'[e] = fact[e] /\ loser'[e] = loser[e]
  BY <1>0, <1>1 DEF TypeOK, Forget, Goto
<1>3. PassInv(d)'
  BY <1>2 DEF PassInv, LocalInv, FactInv, LosersInv, ExpireInv, TodoInv, Inside, Writing
<1>4. torn \subseteq torn' /\ (Finish(d) => torn' = torn)
        /\ (pc[d] \in {"expire"} \cup Writing => fact[d].slot \in torn')
  BY <1>0 DEF Finish, Cancel, Writing
<1>5. \A e \in Distiller : e # d => PassInv(e)'
  <2>1. TAKE e \in Distiller
  <2>2. HAVE e # d
  <2>3. CASE pc[e] \notin Inside
    BY <1>0, <1>2, <2>2, <2>3, FrameOther
  <2>4. CASE pc[e] \in Inside
    <3>1. lease = e
      BY <1>0, <2>4 DEF PassInv, LocalInv
    <3>2. lease' = e /\ pc[d] \notin Inside
      BY <1>0, <1>1, <2>2, <3>1 DEF LeaseReleased, PassInv, LocalInv
    <3>3. torn' = torn
      BY <1>0, <3>2 DEF Finish, Cancel, Inside
    <3> QED BY <1>0, <1>1, <1>2, <2>2, <3>1, <3>2, <3>3, FrameSame
  <2> QED BY <2>3, <2>4
<1>6. \A s : (~Busy(s)' /\ s \notin torn') => ~Busy(s)
  BY <1>2, <1>4 DEF Busy, Writing
<1>7. OneActivePerSlot'
  BY <1>0, <1>1, <1>4, <1>6 DEF OneActivePerSlot, Active
<1>8. IntervalsWellFormed'
  BY <1>0, <1>1 DEF IntervalsWellFormed
<1> QED BY <1>3, <1>5, <1>7, <1>8 DEF IInv

\* A pass enters with the lease free, so nobody is between two writes.
LEMMA EnterStep ==
    ASSUME IInv, TypeOK', NEW d \in Distiller, Acquire(d) \/ \E w \in Windows : Distill(d, w)
    PROVE  IInv'
<1>0. TypeOK /\ IntervalsWellFormed /\ OneActivePerSlot /\ (\A e \in Distiller : PassInv(e))
        /\ pc[d] \in {"idle", "waiting"}
  BY DEF IInv, Acquire, Distill
<1>1. UNCHANGED <<ltm, torn, fact, losers, loser, newest>>
  BY DEF Acquire, Distill, graph, ghost
<1>2. \A e \in Distiller : e # d => pc'[e] = pc[e] /\ todo'[e] = todo[e]
  BY <1>0 DEF TypeOK, Acquire, Distill, Goto
<1>3. losers[d] = {} /\ newest[d] = None
  BY <1>0 DEF PassInv, LocalInv, Writing
<1>4. CASE Acquire(d)
  <2>1. /\ lease = None /\ lease' = d /\ pc'[d] = "reconcile"
        /\ todo'[d] = _collect_facts(window[d], nextId, clock + 1)
    BY <1>0, <1>4 DEF TypeOK, Acquire, LeaseFree, Goto
  <2>2. \A e \in Distiller : pc[e] \notin Inside
    BY <1>0, <2>1, NoneAssumption DEF PassInv, LocalInv
  <2>3. \A e \in Distiller : e # d => PassInv(e)'
    BY <1>0, <1>1, <1>2, <2>2, FrameOther
  <2>4. TodoInv(d)'
    <3>1. window[d] \in Windows \cup {<<>>} /\ nextId \in Nat /\ clock + 1 \in Nat
      BY <1>0 DEF TypeOK
    <3> QED BY <2>1, <3>1, CollectLemma DEF TodoInv
  <2>5. PassInv(d)'
    BY <1>1, <1>3, <2>1, <2>4 DEF PassInv, LocalInv, FactInv, LosersInv, ExpireInv, Writing
  <2>6. \A s : ~Busy(s)
    BY <2>2 DEF Busy, Inside
  <2> QED BY <1>0, <1>1, <2>3, <2>5, <2>6
        DEF IInv, IntervalsWellFormed, OneActivePerSlot, Active
<1>5. CASE \E w \in Windows : Distill(d, w)
  <2>1. lease' = lease /\ pc'[d] = "waiting" /\ todo'[d] = todo[d]
    BY <1>0, <1>5 DEF TypeOK, Distill, Goto
  <2>2. \A e \in Distiller : PassInv(e)'
    <3>1. PassInv(d)'
      BY <1>0, <1>1, <1>3, <2>1
         DEF PassInv, LocalInv, FactInv, LosersInv, ExpireInv, TodoInv, Inside, Writing
    <3>2. \A e \in Distiller : e # d => PassInv(e)'
      BY <1>0, <1>1, <1>2, <2>1, FrameSame
    <3> QED BY <3>1, <3>2
  <2>3. \A s : Busy(s)' <=> Busy(s)
    BY <1>0, <1>1, <1>2, <2>1 DEF Busy
  <2> QED BY <1>0, <1>1, <2>2, <2>3
        DEF IInv, IntervalsWellFormed, OneActivePerSlot, Active
<1> QED BY <1>4, <1>5

\* Nothing changes.
LEMMA StutterStep ==
    ASSUME IInv, UNCHANGED vars
    PROVE  IInv'
<1>1. TypeOK'
  BY TypeStep
<1>2. IntervalsWellFormed' /\ OneActivePerSlot'
  BY DEF IInv, vars, IntervalsWellFormed, OneActivePerSlot, Active, Busy
<1>3. \A d \in Distiller : PassInv(d)'
  BY FrameSame DEF IInv, vars
<1> QED BY <1>1, <1>2, <1>3 DEF IInv

\* Every behaviour keeps the inductive invariant.
THEOREM Inductive == Spec => []IInv
<1>1. IInv /\ [Next]_vars => IInv'
  <2>1. SUFFICES ASSUME IInv, [Next]_vars PROVE IInv'
    OBVIOUS
  <2>2. TypeOK'
    BY <2>1, TypeStep
  <2>3. CASE UNCHANGED vars
    BY <2>1, <2>3, StutterStep
  <2>4. CASE Next
    BY <2>1, <2>2, <2>4, EnterStep, ReconcileStep, UpsertStep, ExpireStep, InvalidateLtmStep,
       InvalidateMtmStep, AnnounceStep, LeaveStep DEF Next, Step
  <2> QED BY <2>1, <2>3, <2>4
<1> QED BY InitIInv, <1>1, PTL DEF Spec

\* Types, for any windows and any number of passes: every fact the pipeline
\* stores is dated.
THEOREM TypeCorrect == Spec => []TypeOK
<1>1. IInv => TypeOK
  BY DEF IInv
<1> QED BY <1>1, Inductive, PTL

\* The validity intervals in LTM stay well formed and ids unique, cancelled
\* passes included.
THEOREM IntervalsStayWellFormed == Spec => []IntervalsWellFormed
<1>1. IInv => IntervalsWellFormed
  BY DEF IInv
<1> QED BY <1>1, Inductive, PTL

\* A functional predicate has at most one active object between passes, for
\* every candidate_k and any number of concurrent passes.
THEOREM FunctionalSlots == Spec => []OneActivePerSlot
<1>1. IInv => OneActivePerSlot
  BY DEF IInv
<1> QED BY <1>1, Inductive, PTL

-----------------------------------------------------------------------------
(***************************************************************************)
(* What an id stands for never changes: a minted id is fresh, and a        *)
(* structured item keeps the id of the one memory it is.  The two          *)
(* remaining properties of the graph rest on it.                           *)
(***************************************************************************)
Applying == {"upsert", "expire"} \cup Writing
Telling  == {"invalidate_mtm", "announce"}

\* What no write to a node changes.
Meaning(f) == <<f.id, f.slot, f.point, f.valid_at>>

\* A fact whose id was not minted is a structured item of some window.
FromItem(f) ==
    f.id < FirstFactId =>
        \E c \in WindowItems : c.structured /\ Meaning(f) = <<c.source, c.slot, c.source, c.valid_at>>
Known(f, n) == f.id < n /\ FromItem(f)

\* The facts still to be reconciled: known, minted ids pairwise different, and
\* from position k + 1 on not yet in the graph.
TodoKnown(q, n)  == \A i \in 1..Len(q) : Known(q[i], n)
TodoDistinct(q)  == \A i, j \in 1..Len(q) :
                        (i # j /\ q[i].id >= FirstFactId) => q[i].id # q[j].id
Fresh(q, k, S)   == \A i \in 1..Len(q) : (q[i].id >= FirstFactId /\ i > k) =>
                        \A f \in S : f.id # q[i].id

\* The fact being written agrees with the node of its id, if there is one.
FactKnown(d) ==
    pc[d] \in Applying =>
        /\ Known(fact[d], nextId)
        /\ \A f \in ltm : f.id = fact[d].id => Meaning(f) = Meaning(fact[d])
        /\ fact[d] \in ltm \/ fact[d].id = todo[d][1].id

InHand(d) ==
    /\ pc[d] \notin Inside => todo[d] = <<>>
    /\ TodoKnown(todo[d], nextId)
    /\ TodoDistinct(todo[d])
    /\ Fresh(todo[d], IF pc[d] \in {"reconcile", "upsert"} THEN 0 ELSE 1, ltm)
    /\ FactKnown(d)

Identity ==
    /\ FirstFactId <= nextId
    /\ \A f \in ltm : Known(f, nextId)
    /\ \A d \in Distiller : InHand(d)

\* Two facts of one id that was not minted are the same memory.
LEMMA OneMeaning ==
    ASSUME NEW f, NEW g, FromItem(f), FromItem(g), f.id = g.id, f.id < FirstFactId
    PROVE  Meaning(f) = Meaning(g)
<1>1. PICK c \in WindowItems : c.structured /\ Meaning(f) = <<c.source, c.slot, c.source, c.valid_at>>
  BY DEF FromItem
<1>2. PICK e \in WindowItems : e.structured /\ Meaning(g) = <<e.source, e.slot, e.source, e.valid_at>>
  BY DEF FromItem
<1>3. c.source = e.source
  BY <1>1, <1>2 DEF Meaning
<1>4. c = e
  BY <1>1, <1>2, <1>3, IdentityAssumption
<1> QED BY <1>1, <1>2, <1>4

\* Known depends on the meaning only, and the bound on ids may grow.
LEMMA KnownMeaning ==
    ASSUME NEW f, NEW g, NEW n \in Nat, NEW m \in Nat, Known(f, n), n <= m, f.id \in Nat,
           Meaning(g) = Meaning(f)
    PROVE  Known(g, m)
BY DEF Known, FromItem, Meaning

\* The stamp of invalidate changes no meaning, and only the node of the loser.
LEMMA StampMeaning ==
    ASSUME NEW S \in SUBSET Fact, AllWellFormed(S), NEW l \in S, NEW at \in Nat,
           NEW T, T = StampedIn(S, l, at)
    PROVE  /\ \A g \in T : \E f \in S : Meaning(g) = Meaning(f) /\ (g = f \/ f = l)
           /\ \A f \in S : \E g \in T : Meaning(g) = Meaning(f) /\ (g = f \/ f = l)
<1> DEFINE k == [l EXCEPT !.state = "superseded", !.invalid_at = at]
<1>1. \A g \in S : g.id = l.id <=> g = l
  BY DEF AllWellFormed
<1>2. T = (S \ {l}) \cup {k}
  BY <1>1, ZenonT(60) DEF StampedIn
<1>3. Meaning(k) = Meaning(l)
  BY DEF Meaning, Fact
<1> HIDE DEF k
<1> QED BY <1>2, <1>3

\* What a window yields: structured items as they are, minted ids beyond every
\* id in the graph.
LEMMA CollectKnown ==
    ASSUME NEW w \in Windows \cup {<<>>}, NEW base \in Nat, NEW now \in Nat, FirstFactId <= base,
           NEW S \in SUBSET Fact, \A f \in S : f.id < base,
           NEW q, q = _collect_facts(w, base, now)
    PROVE  TodoKnown(q, base + Len(w) + 1) /\ TodoDistinct(q) /\ Fresh(q, 0, S)
<1>0. w \in Seq(Candidate) /\ Len(w) \in Nat
  <2>1. CASE w \in Windows
    BY <2>1, WindowsAssumption
  <2>2. CASE w = <<>>
    BY <2>2
  <2> QED BY <2>1, <2>2
<1>1. Len(q) = Len(w) /\ \A i \in 1..Len(q) : q[i] = CollectedFact(w[i], i, base, now)
  BY <1>0 DEF _collect_facts
<1>2. ASSUME NEW i \in 1..Len(q)
      PROVE  /\ w[i] \in WindowItems /\ w[i].source \in 0..(FirstFactId - 1)
             /\ w[i].structured => w[i].valid_at \in Nat
             /\ w[i].structured \in BOOLEAN
  <2>1. w \in Windows
    BY <1>0, <1>1
  <2>2. w[i] \in Candidate
    BY <1>0, <1>1
  <2> QED BY <1>1, <2>1, <2>2, WindowsAssumption DEF WindowItems, Candidate
<1>3. ASSUME NEW i \in 1..Len(q)
      PROVE  /\ w[i].structured => /\ q[i].id = w[i].source
                                   /\ Meaning(q[i]) = <<w[i].source, w[i].slot, w[i].source, w[i].valid_at>>
             /\ ~w[i].structured => q[i].id = base + i
  <2>1. q[i] = CollectedFact(w[i], i, base, now)
    BY <1>1
  <2>2. /\ q[i].id = (IF w[i].structured THEN w[i].source ELSE base + i)
        /\ q[i].point = w[i].source /\ q[i].slot = w[i].slot
        /\ q[i].valid_at = (IF w[i].valid_at = None THEN now ELSE w[i].valid_at)
    BY <2>1 DEF CollectedFact
  <2>3. w[i].structured => w[i].valid_at # None
    BY <1>2, NoneAssumption
  <2> QED BY <2>2, <2>3 DEF Meaning
<1>4. FirstFactId \in Nat \ {0}
  BY BoundsAssumption
<1>5. TodoKnown(q, base + Len(w) + 1)
  <2> SUFFICES ASSUME NEW i \in 1..Len(q) PROVE Known(q[i], base + Len(w) + 1)
    BY DEF TodoKnown
  <2>0. i \in Nat /\ i <= Len(w)
    BY <1>0, <1>1
  <2>1. CASE w[i].structured
    <3>1. FromItem(q[i])
      <4>1. w[i] \in WindowItems
        BY <1>2
      <4>2. Meaning(q[i]) = <<w[i].source, w[i].slot, w[i].source, w[i].valid_at>>
        BY <1>3, <2>1
      <4> QED BY <4>1, <4>2, <2>1, Zenon DEF FromItem
    <3>2. q[i].id = w[i].source /\ w[i].source \in 0..(FirstFactId - 1)
      BY <1>2, <1>3, <2>1
    <3>3. q[i].id < base + Len(w) + 1
      BY <1>0, <1>4, <3>2
    <3> QED BY <3>1, <3>3 DEF Known
  <2>2. CASE ~w[i].structured
    <3>1. q[i].id = base + i
      BY <1>3, <2>2
    <3>2. q[i].id < base + Len(w) + 1
      BY <1>0, <2>0, <3>1
    <3>3. ~(q[i].id < FirstFactId)
      BY <1>4, <2>0, <3>1
    <3> QED BY <3>2, <3>3 DEF Known, FromItem
  <2> QED BY <2>1, <2>2
<1>a. ASSUME NEW i \in 1..Len(q)
      PROVE  /\ i \in Nat /\ i > 0
             /\ (w[i].structured /\ ~(q[i].id >= FirstFactId) /\ q[i].id \in Nat)
                  \/ q[i].id = base + i
  <2>1. i \in Nat /\ i > 0
    BY <1>0, <1>1
  <2>2. CASE w[i].structured
    <3>1. q[i].id = w[i].source
      BY <1>3, <2>2, Zenon
    <3>2. w[i].source \in 0..(FirstFactId - 1)
      BY <1>2, Zenon
    <3>3. q[i].id \in 0..(FirstFactId - 1)
      BY <3>1, <3>2, Zenon
    <3>4. ~(q[i].id >= FirstFactId) /\ q[i].id \in Nat
      BY <1>4, <3>3
    <3> QED BY <2>1, <2>2, <3>4, Zenon
  <2>3. CASE ~w[i].structured
    BY <1>3, <2>1, <2>3, Zenon
  <2> QED BY <2>2, <2>3
<1>6. TodoDistinct(q)
  <2> SUFFICES ASSUME NEW i \in 1..Len(q), NEW j \in 1..Len(q), i # j, q[i].id >= FirstFactId
               PROVE  q[i].id # q[j].id
    BY DEF TodoDistinct
  <2>0. i \in Nat /\ j \in Nat
    BY <1>a, Zenon
  <2>1. q[i].id = base + i
    BY <1>a, Zenon
  <2>2. CASE q[j].id = base + j
    BY <2>0, <2>1, <2>2
  <2>3. CASE ~(q[j].id >= FirstFactId)
    BY <2>3, Zenon
  <2> QED BY <1>a, <2>2, <2>3, Zenon
<1>7. Fresh(q, 0, S)
  <2> SUFFICES ASSUME NEW i \in 1..Len(q), q[i].id >= FirstFactId, NEW f \in S
               PROVE  f.id # q[i].id
    BY DEF Fresh
  <2>1. f.id \in Nat /\ f.id < base
    BY DEF Fact
  <2>2. q[i].id = base + i /\ i \in Nat
    BY <1>a, Zenon
  <2> QED BY <2>1, <2>2
<1> QED BY <1>5, <1>6, <1>7

\* The end of a fact: the rest of the window is still known and fresh.
LEMMA TailKnown ==
    ASSUME NEW q \in Seq(Fact), q # <<>>, NEW n \in Nat, NEW S, TodoKnown(q, n), TodoDistinct(q),
           Fresh(q, 1, S)
    PROVE  TodoKnown(Tail(q), n) /\ TodoDistinct(Tail(q)) /\ Fresh(Tail(q), 0, S)
<1>1. /\ Len(Tail(q)) = Len(q) - 1 /\ Len(q) \in Nat
      /\ \A i \in 1..Len(Tail(q)) : Tail(q)[i] = q[i + 1] /\ i + 1 \in 1..Len(q) /\ i + 1 > 1
  OBVIOUS
<1>2. TodoKnown(Tail(q), n)
  BY <1>1 DEF TodoKnown
<1>3. TodoDistinct(Tail(q))
  <2> SUFFICES ASSUME NEW i \in 1..Len(Tail(q)), NEW j \in 1..Len(Tail(q)), i # j,
                      Tail(q)[i].id >= FirstFactId
               PROVE  Tail(q)[i].id # Tail(q)[j].id
    BY DEF TodoDistinct
  <2>1. i + 1 # j + 1
    OBVIOUS
  <2> QED BY <1>1, <2>1 DEF TodoDistinct
<1>4. Fresh(Tail(q), 0, S)
  BY <1>1 DEF Fresh
<1> QED BY <1>2, <1>3, <1>4

\* A pass that a step leaves alone, when the graph only changes in ways that
\* keep every meaning, or when the pass is not inside.
LEMMA InHandFrame ==
    ASSUME NEW e \in Distiller, TypeOK, InHand(e), pc'[e] = pc[e], todo'[e] = todo[e],
           fact'[e] = fact[e], nextId' \in Nat, nextId <= nextId',
           pc[e] \notin Inside \/ ltm' = ltm,
           pc[e] \in Applying => fact[e] \in Fact
    PROVE  InHand(e)'
<1>1. todo[e] \in Seq(Fact) /\ nextId \in Nat
  BY DEF TypeOK
<1>2. CASE pc[e] \notin Inside
  <2>1. todo'[e] = <<>> /\ pc'[e] \notin Applying /\ pc'[e] \notin {"reconcile", "upsert"}
    BY <1>2 DEF InHand, Inside, Applying, Writing
  <2>2. Len(todo'[e]) = 0
    BY <2>1
  <2>3. TodoKnown(todo'[e], nextId') /\ TodoDistinct(todo'[e]) /\ Fresh(todo'[e], 1, ltm')
    BY <2>2 DEF TodoKnown, TodoDistinct, Fresh
  <2> QED BY <2>1, <2>3 DEF InHand, FactKnown
<1>3. CASE pc[e] \in Inside
  <2>1. TodoKnown(todo'[e], nextId')
    <3>1. \A i \in 1..Len(todo[e]) : todo[e][i] \in Fact /\ todo[e][i].id \in Nat
      <4>1. \A i \in 1..Len(todo[e]) : todo[e][i] \in Fact
        BY <1>1
      <4> QED BY <4>1 DEF Fact
    <3>2. TodoKnown(todo[e], nextId')
      BY <1>1, <3>1 DEF InHand, TodoKnown, Known
    <3> QED BY <3>2
  <2>2. FactKnown(e)'
    <3>1. pc[e] \in Applying => fact[e].id \in Nat
      BY DEF Fact
    <3> QED BY <1>1, <1>3, <3>1 DEF InHand, FactKnown, Known
  <2> QED BY <1>3, <2>1, <2>2 DEF InHand
<1> QED BY <1>2, <1>3

\* No id stands for anything yet.
LEMMA InitIdentity == Init => Identity
<1> SUFFICES ASSUME Init PROVE Identity
  OBVIOUS
<1>1. FirstFactId \in Nat /\ nextId = FirstFactId /\ ltm = {}
  BY BoundsAssumption DEF Init
<1>2. ASSUME NEW d \in Distiller PROVE InHand(d)
  <2>1. todo[d] = <<>> /\ pc[d] = "idle" /\ Len(todo[d]) = 0
    BY DEF Init
  <2> QED BY <2>1 DEF InHand, TodoKnown, TodoDistinct, Fresh, FactKnown, Applying, Writing
<1> QED BY <1>1, <1>2 DEF Identity

\* What the step of a pass inside finds: nobody else is inside.
LEMMA Alone ==
    ASSUME IInv, Identity, NEW d \in Distiller, pc[d] \in Inside
    PROVE  /\ TypeOK /\ AllWellFormed(ltm) /\ ltm \in SUBSET Fact /\ nextId \in Nat
           /\ \A e \in Distiller : e # d => pc[e] \notin Inside
           /\ \A s : Busy(s) <=> (pc[d] \in {"expire"} \cup Writing /\ fact[d].slot = s)
           /\ todo[d] \in Seq(Fact)
           /\ pc[d] \in Applying => fact[d] \in Fact /\ todo[d] # <<>>
<1>1. TypeOK /\ AllWellFormed(ltm) /\ (\A e \in Distiller : PassInv(e))
  BY Unfold DEF IInv
<1>2. ltm \in SUBSET Fact /\ nextId \in Nat /\ todo[d] \in Seq(Fact)
  BY <1>1 DEF TypeOK
<1>3. pc[d] \in Applying => fact[d] \in Fact /\ todo[d] # <<>>
  BY <1>1 DEF PassInv, LocalInv, Applying, Writing
<1> QED BY <1>1, <1>2, <1>3, OnlyOneInside

\* The others are not disturbed by a step of a pass inside.
LEMMA OthersInHand ==
    ASSUME IInv, Identity, NEW d \in Distiller, pc[d] \in Inside, nextId' = nextId,
           \A e \in Distiller : e # d => pc'[e] = pc[e] /\ todo'[e] = todo[e] /\ fact'[e] = fact[e]
    PROVE  \A e \in Distiller : e # d => InHand(e)'
<1> SUFFICES ASSUME NEW e \in Distiller, e # d PROVE InHand(e)'
  OBVIOUS
<1>1. TypeOK /\ pc[e] \notin Inside /\ nextId \in Nat
  BY Alone
<1>2. pc[e] \notin Applying
  BY <1>1 DEF Inside, Applying, Writing
<1>3. InHand(e)
  BY DEF Identity
<1> QED BY <1>1, <1>2, <1>3, InHandFrame

\* Collecting mints ids beyond all that are in the graph.
LEMMA EnterIdentity ==
    ASSUME IInv, Identity, NEW d \in Distiller, Acquire(d) \/ \E w \in Windows : Distill(d, w)
    PROVE  Identity'
<1>0. TypeOK /\ nextId \in Nat /\ ltm \in SUBSET Fact /\ (\A e \in Distiller : PassInv(e))
        /\ pc[d] \in {"idle", "waiting"} /\ ltm' = ltm /\ fact' = fact
  BY DEF IInv, TypeOK, Acquire, Distill, graph
<1>1. \A e \in Distiller : InHand(e) /\ (pc[e] \in Applying => fact[e] \in Fact)
  BY <1>0 DEF Identity, PassInv, LocalInv, Applying
<1>2. \A e \in Distiller : e # d => pc'[e] = pc[e] /\ todo'[e] = todo[e]
  BY <1>0 DEF TypeOK, Acquire, Distill, Goto
<1>3. \A f \in ltm : f.id \in Nat
  BY <1>0 DEF Fact
<1>4. CASE Acquire(d)
  <2>1. /\ todo'[d] = _collect_facts(window[d], nextId, clock + 1) /\ pc'[d] = "reconcile"
        /\ nextId' = nextId + Len(window[d]) + 1
    BY <1>0, <1>4 DEF TypeOK, Acquire, Goto
  <2>2. window[d] \in Windows \cup {<<>>} /\ clock + 1 \in Nat
    BY <1>0 DEF TypeOK
  <2>3. Len(window[d]) \in Nat
    <3>1. CASE window[d] \in Windows
      BY <3>1, WindowsAssumption
    <3>2. CASE window[d] = <<>>
      BY <3>2
    <3> QED BY <2>2, <3>1, <3>2
  <2>4. nextId' \in Nat /\ nextId <= nextId' /\ FirstFactId <= nextId'
    BY <1>0, <2>1, <2>3, BoundsAssumption DEF Identity
  <2>5. TodoKnown(todo'[d], nextId') /\ TodoDistinct(todo'[d]) /\ Fresh(todo'[d], 0, ltm)
    BY <1>0, <2>1, <2>2, CollectKnown DEF Identity, Known
  <2>6. InHand(d)'
    BY <1>0, <2>1, <2>5 DEF InHand, FactKnown, Inside, Applying, Writing
  <2>7. \A e \in Distiller : e # d => InHand(e)'
    BY <1>0, <1>1, <1>2, <2>4, InHandFrame
  <2>8. \A f \in ltm' : Known(f, nextId')
    BY <1>0, <1>3, <2>4 DEF Identity, Known
  <2> QED BY <2>4, <2>6, <2>7, <2>8 DEF Identity
<1>5. CASE \E w \in Windows : Distill(d, w)
  <2>1. nextId' = nextId /\ pc'[d] = "waiting" /\ todo' = todo /\ pc[d] = "idle"
    BY <1>0, <1>5 DEF TypeOK, Distill, Goto, ghost
  <2>2. \A e \in Distiller : e # d => InHand(e)'
    BY <1>0, <1>1, <1>2, <2>1, InHandFrame
  <2>3. InHand(d)'
    BY <1>0, <1>1, <2>1 DEF InHand, FactKnown, Inside, Applying, Writing
  <2> QED BY <1>0, <2>1, <2>2, <2>3 DEF Identity
<1> QED BY <1>4, <1>5

\* What Reconcile decides: it keeps an identical rival, lets the incoming fact
\* expire under a more recent rival, or makes it the winner.
LEMMA Decision ==
    ASSUME IInv, NEW d \in Distiller, Reconcile(d)
    PROVE  LET winner == Head(todo[d]) IN
           /\ winner \in Fact /\ winner = todo[d][1] /\ todo[d] \in Seq(Fact) /\ 1 \in 1..Len(todo[d])
           /\ \/ \E c \in RivalsIn(ltm, winner) : fact'[d] = c
              \/ \E c \in RivalsIn(ltm, winner) :
                    fact'[d] = SelfExpired(winner, c) /\ winner.valid_at < c.valid_at
              \/ fact'[d] = winner /\ winner.state = "active"
           /\ \A e \in Distiller : e # d => fact'[e] = fact[e] /\ pc'[e] = pc[e]
           /\ pc[d] = "reconcile" /\ pc'[d] = "upsert"
           /\ UNCHANGED <<ltm, edges, mtm, announced, nextId, torn, todo, loser>>
<1> DEFINE winner == Head(todo[d])
           S == {c \in find_conflicts(winner.slot) : c.id # winner.id}
<1>0. TypeOK /\ AllWellFormed(ltm) /\ PassInv(d)
  BY Unfold DEF IInv
<1>1. todo[d] \in Seq(Fact) /\ todo[d] # <<>>
  BY <1>0 DEF TypeOK, Reconcile
<1>2. winner = todo[d][1] /\ 1 \in 1..Len(todo[d]) /\ winner \in Fact
  BY <1>1
<1>3. winner.state = "active"
  BY <1>0, <1>2 DEF PassInv, TodoInv
<1>4. S \subseteq RivalsIn(ltm, winner)
  BY DEF find_conflicts, RivalsIn, ActiveIn
<1>5. PICK cands \in TopK(S) :
        \/ \E c \in cands : fact' = [fact EXCEPT ![d] = c]
        \/ \E n \in more_recent({c \in cands : _contradicts(winner, c)}, winner) :
              fact' = [fact EXCEPT ![d] = SelfExpired(winner, n)]
        \/ fact' = [fact EXCEPT ![d] = winner]
  BY DEF Reconcile
<1>6. cands \subseteq RivalsIn(ltm, winner)
  BY <1>4 DEF TopK
<1> HIDE DEF winner, S
<1>7. /\ UNCHANGED <<ltm, edges, mtm, announced, nextId, torn, todo, loser>>
      /\ pc' = [pc EXCEPT ![d] = "upsert"] /\ pc[d] = "reconcile"
  BY DEF Reconcile, Goto, graph, ghost
<1>8. pc'[d] = "upsert" /\ \A e \in Distiller : e # d => fact'[e] = fact[e] /\ pc'[e] = pc[e]
  BY <1>0, <1>5, <1>7 DEF TypeOK
<1>9. \/ \E c \in RivalsIn(ltm, winner) : fact'[d] = c
      \/ \E c \in RivalsIn(ltm, winner) :
            fact'[d] = SelfExpired(winner, c) /\ winner.valid_at < c.valid_at
      \/ fact'[d] = winner
  <2>1. CASE \E c \in cands : fact' = [fact EXCEPT ![d] = c]
    BY <1>0, <1>6, <2>1 DEF TypeOK
  <2>2. CASE \E n \in more_recent({c \in cands : _contradicts(winner, c)}, winner) :
                fact' = [fact EXCEPT ![d] = SelfExpired(winner, n)]
    <3>1. PICK n \in cands : fact' = [fact EXCEPT ![d] = SelfExpired(winner, n)]
                             /\ n.valid_at > winner.valid_at
      BY <2>2 DEF more_recent
    <3>2. n.valid_at \in Nat /\ winner.valid_at \in Nat
      BY <1>0, <1>2, <1>6, <3>1 DEF TypeOK, RivalsIn, ActiveIn, Fact
    <3>3. fact'[d] = SelfExpired(winner, n) /\ winner.valid_at < n.valid_at
      BY <1>0, <3>1, <3>2 DEF TypeOK
    <3> QED BY <1>6, <3>3
  <2>3. CASE fact' = [fact EXCEPT ![d] = winner]
    BY <1>0, <2>3 DEF TypeOK
  <2> QED BY <1>5, <2>1, <2>2, <2>3
<1> QED BY <1>1, <1>2, <1>3, <1>7, <1>8, <1>9 DEF winner

\* The decision takes the head of the window or a node of the graph.
LEMMA ReconcileIdentity ==
    ASSUME IInv, Identity, NEW d \in Distiller, Reconcile(d)
    PROVE  Identity'
<1> DEFINE winner == Head(todo[d])
<1>1. pc[d] \in Inside
  BY DEF Reconcile, Inside
<1>2. /\ winner \in Fact /\ winner = todo[d][1] /\ todo[d] \in Seq(Fact) /\ 1 \in 1..Len(todo[d])
      /\ \/ \E c \in RivalsIn(ltm, winner) : fact'[d] = c
         \/ \E c \in RivalsIn(ltm, winner) : fact'[d] = SelfExpired(winner, c)
         \/ fact'[d] = winner
      /\ \A e \in Distiller : e # d => fact'[e] = fact[e] /\ pc'[e] = pc[e]
      /\ pc[d] = "reconcile" /\ pc'[d] = "upsert"
      /\ UNCHANGED <<ltm, nextId, todo>>
  BY Decision
<1> HIDE DEF winner
<1>3. /\ AllWellFormed(ltm) /\ ltm \in SUBSET Fact /\ nextId \in Nat
  BY <1>1, Alone
<1>4. InHand(d) /\ (\A f \in ltm : Known(f, nextId)) /\ FirstFactId \in Nat
  BY BoundsAssumption DEF Identity
<1>5. Known(winner, nextId)
  BY <1>2, <1>4 DEF InHand, TodoKnown
<1>6. \A f \in ltm : f.id = winner.id => Meaning(f) = Meaning(winner)
  <2> SUFFICES ASSUME NEW f \in ltm, f.id = winner.id PROVE Meaning(f) = Meaning(winner)
    OBVIOUS
  <2>1. winner.id \in Nat
    BY <1>2 DEF Fact
  <2>2. ~(winner.id >= FirstFactId)
    <3>1. Fresh(todo[d], 0, ltm)
      BY <1>2, <1>4 DEF InHand
    <3> QED BY <1>2, <3>1 DEF Fresh
  <2> QED BY <1>4, <1>5, <2>1, <2>2, OneMeaning DEF Known
<1>7. \A c : Meaning(SelfExpired(winner, c)) = Meaning(winner)
            /\ SelfExpired(winner, c).id = winner.id
  BY <1>2 DEF SelfExpired, Meaning, Fact
<1>8. FactKnown(d)'
  <2>1. CASE \E c \in RivalsIn(ltm, winner) : fact'[d] = c
    BY <1>2, <1>3, <1>4, <2>1 DEF FactKnown, RivalsIn, ActiveIn, AllWellFormed
  <2>2. CASE fact'[d] = winner
    BY <1>2, <1>5, <1>6, <2>2 DEF FactKnown
  <2>3. CASE \E c \in RivalsIn(ltm, winner) : fact'[d] = SelfExpired(winner, c)
    <3>1. PICK c : fact'[d] = SelfExpired(winner, c)
      BY <2>3
    <3>2. Known(fact'[d], nextId)
      BY <1>5, <1>7, <3>1 DEF Known, FromItem
    <3>3. \A f \in ltm : f.id = fact'[d].id => Meaning(f) = Meaning(fact'[d])
      BY <1>6, <1>7, <3>1
    <3>4. fact'[d].id = todo[d][1].id
      BY <1>2, <1>7, <3>1
    <3> QED BY <1>2, <3>2, <3>3, <3>4 DEF FactKnown
  <2> QED BY <1>2, <2>1, <2>2, <2>3
<1>9. InHand(d)'
  BY <1>2, <1>4, <1>8 DEF InHand, Inside
<1>10. \A e \in Distiller : e # d => InHand(e)'
  BY <1>1, <1>2, OthersInHand
<1> QED BY <1>2, <1>4, <1>9, <1>10 DEF Identity

\* The head of the window is done: what is left of it is still known and fresh.
LEMMA NextInHand ==
    ASSUME TypeOK, NEW d \in Distiller, NextFact(d), InHand(d), todo[d] # <<>>,
           nextId' = nextId, Fresh(todo[d], 1, ltm')
    PROVE  /\ InHand(d)' /\ pc'[d] = "reconcile"
           /\ \A e \in Distiller : e # d =>
                pc'[e] = pc[e] /\ todo'[e] = todo[e] /\ fact'[e] = fact[e]
<1>1. todo[d] \in Seq(Fact) /\ nextId \in Nat
  BY DEF TypeOK
<1>2. pc'[d] = "reconcile" /\ todo'[d] = Tail(todo[d])
  BY DEF TypeOK, NextFact, Goto
<1>3. TodoKnown(todo'[d], nextId) /\ TodoDistinct(todo'[d]) /\ Fresh(todo'[d], 0, ltm')
  BY <1>1, <1>2, TailKnown DEF InHand
<1>4. InHand(d)'
  BY <1>2, <1>3 DEF InHand, FactKnown, Inside, Applying, Writing
<1>5. \A e \in Distiller : e # d => pc'[e] = pc[e] /\ todo'[e] = todo[e] /\ fact'[e] = fact[e]
  BY DEF TypeOK, NextFact, Goto
<1> QED BY <1>2, <1>4, <1>5

\* A fresh list is fresh from any later position on.
LEMMA FreshWeaker ==
    ASSUME NEW q, NEW S, Fresh(q, 0, S), Len(q) \in Nat
    PROVE  Fresh(q, 1, S)
BY DEF Fresh

\* upsert_fact puts the id of the head into the graph, or writes a node that
\* is there again.
LEMMA UpsertIdentity ==
    ASSUME IInv, Identity, NEW d \in Distiller, Upsert(d)
    PROVE  Identity'
<1>1. pc[d] = "upsert" /\ pc[d] \in Inside /\ pc[d] \in Applying
  BY DEF Upsert, Inside, Applying
<1>2. /\ TypeOK /\ ltm \in SUBSET Fact /\ nextId \in Nat /\ todo[d] \in Seq(Fact)
      /\ fact[d] \in Fact /\ todo[d] # <<>>
  BY <1>1, Alone
<1>3. InHand(d) /\ (\A f \in ltm : Known(f, nextId)) /\ FirstFactId <= nextId
  BY DEF Identity
<1>4. ltm' = Upserted(ltm, fact[d]) /\ nextId' = nextId
  BY DEF Upsert, upsert_fact, Upserted, ghost
<1>5. Known(fact[d], nextId) /\ (fact[d] \in ltm \/ fact[d].id = todo[d][1].id)
      /\ \A f \in ltm : f.id = fact[d].id => Meaning(f) = Meaning(fact[d])
  BY <1>1, <1>3 DEF InHand, FactKnown
<1>6. \A f \in ltm' : Known(f, nextId)
  BY <1>3, <1>4, <1>5 DEF Upserted
<1>7. Fresh(todo[d], 1, ltm')
  <2>1. Fresh(todo[d], 0, ltm) /\ Len(todo[d]) \in Nat /\ 1 \in 1..Len(todo[d])
    BY <1>1, <1>2, <1>3 DEF InHand
  <2>2. Fresh(todo[d], 1, ltm)
    BY <2>1, FreshWeaker
  <2>3. ASSUME NEW i \in 1..Len(todo[d]), todo[d][i].id >= FirstFactId, i > 1
        PROVE  todo[d][i].id # fact[d].id
    <3>1. CASE fact[d] \in ltm
      BY <2>2, <2>3, <3>1 DEF Fresh
    <3>2. CASE fact[d].id = todo[d][1].id
      <4>1. i # 1
        BY <2>1, <2>3
      <4> QED BY <1>3, <2>1, <2>3, <3>2, <4>1 DEF InHand, TodoDistinct
    <3> QED BY <1>5, <3>1, <3>2
  <2> QED BY <1>4, <2>2, <2>3 DEF Fresh, Upserted
<1>8. CASE NextFact(d)
  <2>1. /\ InHand(d)'
        /\ \A e \in Distiller : e # d =>
                pc'[e] = pc[e] /\ todo'[e] = todo[e] /\ fact'[e] = fact[e]
    BY <1>2, <1>3, <1>4, <1>7, <1>8, NextInHand
  <2>2. \A e \in Distiller : e # d => InHand(e)'
    BY <1>1, <1>4, <2>1, OthersInHand
  <2> QED BY <1>3, <1>4, <1>6, <2>1, <2>2 DEF Identity
<1>9. ASSUME NEW l \in {"expire", "invalidate_ltm"}, Goto(d, l),
             UNCHANGED <<todo, fact, losers, loser, newest>>
      PROVE  Identity'
  <2>1. pc'[d] = l /\ \A e \in Distiller : e # d =>
                pc'[e] = pc[e] /\ todo'[e] = todo[e] /\ fact'[e] = fact[e]
    BY <1>2, <1>9 DEF Goto, TypeOK
  <2>2. \A e \in Distiller : e # d => InHand(e)'
    BY <1>1, <1>4, <2>1, OthersInHand
  <2>3. FactKnown(d)'
    BY <1>4, <1>5, <1>9, <2>1 DEF FactKnown, Upserted
  <2>4. InHand(d)'
    BY <1>3, <1>4, <1>7, <1>9, <2>1, <2>3 DEF InHand, Inside
  <2> QED BY <1>3, <1>4, <1>6, <2>2, <2>4 DEF Identity
<1> QED BY <1>8, <1>9 DEF Upsert

\* invalidate, as a step of the graph: the node stamped is the one meant.
LEMMA InvalidateMeaning ==
    ASSUME IInv, Identity, NEW d \in Distiller, pc[d] \in Applying,
           NEW l \in ltm, NEW at \in Nat, ltm' = StampedIn(ltm, l, at), nextId' = nextId,
           pc[d] # "upsert"
    PROVE  /\ \A f \in ltm' : Known(f, nextId)
           /\ Fresh(todo[d], 1, ltm')
           /\ \A f \in ltm' : f.id = fact[d].id => Meaning(f) = Meaning(fact[d])
<1>1. pc[d] \in Inside /\ pc[d] \notin {"reconcile", "upsert"}
  BY DEF Inside, Applying, Writing
<1>2. AllWellFormed(ltm) /\ ltm \in SUBSET Fact /\ nextId \in Nat
  BY <1>1, Alone
<1>3. \A g \in ltm' : \E f \in ltm : Meaning(g) = Meaning(f)
  BY <1>2, StampMeaning
<1>4. /\ Fresh(todo[d], 1, ltm) /\ (\A f \in ltm : Known(f, nextId))
      /\ \A f \in ltm : f.id = fact[d].id => Meaning(f) = Meaning(fact[d])
  BY <1>1 DEF Identity, InHand, FactKnown
<1>5. \A g \in ltm' : \E f \in ltm : Meaning(g) = Meaning(f) /\ g.id = f.id /\ f.id \in Nat
  BY <1>2, <1>3 DEF Meaning, Fact
<1>6. \A g \in ltm' : Known(g, nextId)
  BY <1>2, <1>4, <1>5, KnownMeaning
<1>7. Fresh(todo[d], 1, ltm')
  BY <1>4, <1>5 DEF Fresh
<1> QED BY <1>4, <1>5, <1>6, <1>7

\* Stamping a node, at the end of a fact or in the middle of it.
LEMMA StampIdentity ==
    ASSUME IInv, IInv', Identity, NEW d \in Distiller, Expire(d) \/ InvalidateLtm(d)
    PROVE  Identity'
<1>1. pc[d] \in {"expire", "invalidate_ltm"} /\ pc[d] \in Inside /\ pc[d] \in Applying
  BY DEF Expire, InvalidateLtm, Inside, Applying, Writing
<1>2. /\ TypeOK /\ ltm \in SUBSET Fact /\ nextId \in Nat /\ todo[d] \in Seq(Fact)
      /\ fact[d] \in Fact /\ todo[d] # <<>> /\ PassInv(d)
  BY <1>1, Alone DEF IInv
<1>3. InHand(d) /\ FirstFactId <= nextId
  BY DEF Identity
<1>4. nextId' = nextId
  BY DEF Expire, InvalidateLtm, ghost
<1>5. PICK l \in ltm : \E at \in Nat : ltm' = StampedIn(ltm, l, at)
  <2>1. CASE Expire(d)
    <3>1. fact[d] \in ltm /\ fact[d].state = "superseded" /\ WellFormed(fact[d])
      BY <1>2, <2>1 DEF PassInv, LocalInv, FactInv, Expire
    <3>2. fact[d].invalid_at \in Nat
      BY <1>2, <3>1 DEF WellFormed, Fact
    <3> QED BY <2>1, <3>1, <3>2, InvalidateStamps DEF Expire
  <2>2. CASE InvalidateLtm(d)
    <3>0. PICK l \in losers[d] :
              invalidate(l.id, fact[d].id, fact[d].valid_at, "functional_supersede")
      BY <2>2 DEF InvalidateLtm
    <3>1. ltm' = StampedIn(ltm, l, fact[d].valid_at)
      BY <3>0, InvalidateStamps
    <3>2. l \in ltm /\ fact[d].valid_at \in Nat
      BY <1>2, <2>2, <3>1 DEF InvalidateLtm, PassInv, LosersInv, Pending, Rivals, RivalsIn, ActiveIn,
                              Writing, Fact
    <3> QED BY <3>1, <3>2
  <2> QED BY <2>1, <2>2
<1>6. /\ \A f \in ltm' : Known(f, nextId)
      /\ Fresh(todo[d], 1, ltm')
      /\ \A f \in ltm' : f.id = fact[d].id => Meaning(f) = Meaning(fact[d])
  BY <1>1, <1>4, <1>5, InvalidateMeaning
<1>7. CASE NextFact(d)
  <2>1. /\ InHand(d)'
        /\ \A e \in Distiller : e # d =>
                pc'[e] = pc[e] /\ todo'[e] = todo[e] /\ fact'[e] = fact[e]
    BY <1>2, <1>3, <1>4, <1>6, <1>7, NextInHand
  <2>2. \A e \in Distiller : e # d => InHand(e)'
    BY <1>1, <1>4, <2>1, OthersInHand
  <2> QED BY <1>3, <1>4, <1>6, <2>1, <2>2 DEF Identity
<1>8. CASE InvalidateLtm(d)
  <2>1. pc'[d] = "invalidate_mtm" /\ todo' = todo /\ fact' = fact
        /\ \A e \in Distiller : e # d => pc'[e] = pc[e]
    BY <1>2, <1>8 DEF InvalidateLtm, Goto, TypeOK
  <2>2. \A e \in Distiller : e # d => InHand(e)'
    BY <1>1, <1>4, <2>1, OthersInHand
  <2>3. fact[d] \in ltm'
    BY <2>1 DEF IInv, PassInv, LocalInv, Writing
  <2>4. Known(fact[d], nextId)
    BY <1>1, <1>3 DEF InHand, FactKnown
  <2>5. FactKnown(d)'
    BY <1>4, <1>6, <2>1, <2>3, <2>4 DEF FactKnown
  <2>6. InHand(d)'
    BY <1>3, <1>4, <1>6, <2>1, <2>5 DEF InHand, Inside
  <2> QED BY <1>3, <1>4, <1>6, <2>2, <2>6 DEF Identity
<1> QED BY <1>7, <1>8 DEF Expire

\* The other writes of a supersession leave the graph alone.
LEMMA TellIdentity ==
    ASSUME IInv, Identity, NEW d \in Distiller, InvalidateMtm(d) \/ Announce(d)
    PROVE  Identity'
<1>1. pc[d] \in Telling /\ pc[d] \in Inside /\ pc[d] \in Applying
  BY DEF InvalidateMtm, Announce, Telling, Inside, Applying, Writing
<1>2. TypeOK /\ nextId \in Nat /\ todo[d] \in Seq(Fact) /\ todo[d] # <<>>
  BY <1>1, Alone
<1>3. InHand(d) /\ FirstFactId <= nextId /\ \A f \in ltm : Known(f, nextId)
  BY DEF Identity
<1>4. nextId' = nextId /\ ltm' = ltm
  BY DEF InvalidateMtm, Announce, ghost
<1>5. CASE NextFact(d)
  <2>1. Fresh(todo[d], 1, ltm')
    BY <1>1, <1>3, <1>4 DEF InHand, Telling
  <2>2. /\ InHand(d)'
        /\ \A e \in Distiller : e # d =>
                pc'[e] = pc[e] /\ todo'[e] = todo[e] /\ fact'[e] = fact[e]
    BY <1>2, <1>3, <1>4, <1>5, <2>1, NextInHand
  <2>3. \A e \in Distiller : e # d => InHand(e)'
    BY <1>1, <1>4, <2>2, OthersInHand
  <2> QED BY <1>3, <1>4, <2>2, <2>3 DEF Identity
<1>6. CASE ~NextFact(d)
  <2>1. /\ todo' = todo /\ fact' = fact /\ pc'[d] \in Writing
        /\ \A e \in Distiller : e # d => pc'[e] = pc[e]
    BY <1>2, <1>6 DEF InvalidateMtm, Announce, Goto, TypeOK, Writing
  <2>2. \A e \in Distiller : e # d => InHand(e)'
    BY <1>1, <1>4, <2>1, OthersInHand
  <2>3. FactKnown(d)' /\ pc'[d] \in Inside /\ pc'[d] \notin {"reconcile", "upsert"}
    BY <1>1, <1>3, <1>4, <2>1 DEF InHand, FactKnown, Inside, Applying, Writing
  <2>4. InHand(d)'
    BY <1>1, <1>3, <1>4, <2>1, <2>3 DEF InHand, Telling
  <2> QED BY <1>3, <1>4, <2>2, <2>4 DEF Identity
<1> QED BY <1>5, <1>6

\* A pass that leaves forgets its window; the ids it minted are not used again.
LEMMA LeaveIdentity ==
    ASSUME IInv, Identity, NEW d \in Distiller, Finish(d) \/ Cancel(d)
    PROVE  Identity'
<1>1. TypeOK /\ (\A e \in Distiller : PassInv(e)) /\ nextId \in Nat
  BY DEF IInv, TypeOK
<1>2. Forget(d) /\ ltm' = ltm /\ nextId' = nextId
  BY DEF Finish, Cancel, graph
<1>3. /\ pc'[d] = "idle" /\ todo'[d] = <<>>
      /\ \A e \in Distiller : e # d => pc'[e] = pc[e] /\ todo'[e] = todo[e] /\ fact'[e] = fact[e]
  BY <1>1, <1>2 DEF TypeOK, Forget, Goto
<1>4. InHand(d)'
  <2>1. Len(todo'[d]) = 0
    BY <1>3
  <2> QED BY <1>3, <2>1 DEF InHand, TodoKnown, TodoDistinct, Fresh, FactKnown, Inside, Applying, Writing
<1>5. \A e \in Distiller : InHand(e) /\ (pc[e] \in Applying => fact[e] \in Fact)
  BY <1>1 DEF Identity, PassInv, LocalInv, Applying
<1>6. \A e \in Distiller : e # d => InHand(e)'
  BY <1>1, <1>2, <1>3, <1>5, InHandFrame
<1> QED BY <1>2, <1>4, <1>6 DEF Identity

\* Ids keep what they stand for, whatever passes run, fail or repeat.
THEOREM IdsKeepMeaning == Spec => []Identity
<1>1. IInv /\ IInv' /\ Identity /\ [Next]_vars => Identity'
  <2> SUFFICES ASSUME IInv, IInv', Identity, [Next]_vars PROVE Identity'
    OBVIOUS
  <2>1. CASE UNCHANGED vars
    BY <2>1 DEF vars, Identity, InHand, FactKnown
  <2>2. CASE Next
    BY <2>2, EnterIdentity, ReconcileIdentity, UpsertIdentity, StampIdentity, TellIdentity,
       LeaveIdentity DEF Next, Step
  <2> QED BY <2>1, <2>2
<1> QED BY InitIdentity, Inductive, <1>1, PTL DEF Spec

-----------------------------------------------------------------------------
(***************************************************************************)
(* The most recent fact of a functional slot is the active one.            *)
(***************************************************************************)
InSlot(S, s)   == {f \in S : f.slot = s}
Tops(S, g)     == \A f \in S : f.slot = g.slot => f.valid_at <= g.valid_at
LatestIn(S, s) == \A f \in InSlot(S, s) : \E g \in ActiveIn(S, s) : f.valid_at <= g.valid_at

\* While a fact is applied, nothing in its slot is more recent than it, or than
\* the active fact it has expired under.
TopFor(S, f) ==
    \/ f.state = "active" /\ Tops(S, f)
    \/ /\ f.state = "superseded"
       /\ \E g \in S : /\ g.slot = f.slot /\ g.state = "active" /\ g.id # f.id
                       /\ f.valid_at <= g.valid_at /\ Tops(S, g)
TopInv(d) == (pc[d] \in Applying /\ Guarded(d)) => TopFor(ltm, fact[d])

RestInv   == \A s \in Functional \ torn : ~Busy(s) => LatestIn(ltm, s)
LatestInv == RestInv /\ \A d \in Distiller : TopInv(d)

\* An active fact that tops its slot is what the slot needs at rest.
LEMMA ToppedIsLatest ==
    ASSUME NEW S, NEW g \in S, g.state = "active", Tops(S, g)
    PROVE  LatestIn(S, g.slot)
BY DEF LatestIn, InSlot, ActiveIn, Tops

\* A slot with the same facts as before is as it was.
LEMMA SameSlot ==
    ASSUME NEW S, NEW T, NEW s, InSlot(S, s) = InSlot(T, s), LatestIn(S, s)
    PROVE  LatestIn(T, s)
BY DEF LatestIn, InSlot, ActiveIn

\* Passes that are not inside have nothing to keep.
LEMMA OthersTop ==
    ASSUME NEW d \in Distiller, \A e \in Distiller : e # d => pc[e] \notin Inside /\ pc'[e] = pc[e]
    PROVE  \A e \in Distiller : e # d => TopInv(e)'
BY DEF TopInv, Inside, Applying, Writing

\* An empty graph has nothing to be more recent.
LEMMA InitLatest == Init => LatestInv
BY DEF Init, LatestInv, RestInv, LatestIn, InSlot, TopInv, Applying, Writing

\* Reconcile: the active fact of the slot is the most recent of it, so what
\* wins against it tops the slot.
LEMMA ReconcileLatest ==
    ASSUME IInv, IInv', Identity, Identity', LatestInv, NEW d \in Distiller, Reconcile(d)
    PROVE  LatestInv'
<1> DEFINE winner == Head(todo[d])
<1>1. /\ winner \in Fact
      /\ \/ \E c \in RivalsIn(ltm, winner) : fact'[d] = c
         \/ \E c \in RivalsIn(ltm, winner) :
               fact'[d] = SelfExpired(winner, c) /\ winner.valid_at < c.valid_at
         \/ fact'[d] = winner /\ winner.state = "active"
      /\ \A e \in Distiller : e # d => fact'[e] = fact[e] /\ pc'[e] = pc[e]
      /\ pc[d] = "reconcile" /\ pc'[d] = "upsert"
      /\ UNCHANGED <<ltm, torn>>
  BY Decision
<1> HIDE DEF winner
<1>2. /\ pc[d] \in Inside /\ AllWellFormed(ltm) /\ ltm \in SUBSET Fact
      /\ \A e \in Distiller : e # d => pc[e] \notin Inside
      /\ \A s : ~Busy(s)
  <2>1. pc[d] \in Inside /\ pc[d] \notin {"expire"} \cup Writing
    BY <1>1 DEF Inside, Writing
  <2> QED BY <2>1, Alone
<1>3. RestInv'
  BY <1>1, <1>2 DEF LatestInv, RestInv
<1>4. \A e \in Distiller : e # d => TopInv(e)'
  BY <1>1, <1>2, OthersTop
<1>5. TopInv(d)'
  <2> SUFFICES ASSUME Guarded(d)' PROVE TopFor(ltm, fact'[d])
    BY <1>1 DEF TopInv
  <2>1. \A c : /\ SelfExpired(winner, c).slot = winner.slot /\ SelfExpired(winner, c).id = winner.id
               /\ SelfExpired(winner, c).valid_at = winner.valid_at
               /\ SelfExpired(winner, c).state = "superseded"
    BY <1>1 DEF SelfExpired, Fact
  <2>2. \A c \in RivalsIn(ltm, winner) :
            c \in ltm /\ c.slot = winner.slot /\ c.state = "active" /\ c.id # winner.id
    BY DEF RivalsIn, ActiveIn
  <2>3. winner.slot \in Functional \ torn /\ fact'[d].slot = winner.slot
    BY <1>1, <2>1, <2>2 DEF Guarded
  <2>4. LatestIn(ltm, winner.slot) /\ AtMostOne(ActiveIn(ltm, winner.slot))
    <3>1. OneActivePerSlot
      BY DEF IInv
    <3> QED BY <1>2, <2>3, <3>1, Unfold DEF LatestInv, RestInv, OneActivePerSlot, AtMostOne
  <2>5. \A c \in RivalsIn(ltm, winner) : Tops(ltm, c)
    BY <2>2, <2>4 DEF Tops, LatestIn, InSlot, AtMostOne, ActiveIn
  <2>6. CASE \E c \in RivalsIn(ltm, winner) : fact'[d] = c
    BY <2>2, <2>5, <2>6 DEF TopFor
  <2>7. CASE \E c \in RivalsIn(ltm, winner) :
                fact'[d] = SelfExpired(winner, c) /\ winner.valid_at < c.valid_at
    <3>1. PICK c \in RivalsIn(ltm, winner) :
                fact'[d] = SelfExpired(winner, c) /\ winner.valid_at < c.valid_at
      BY <2>7
    <3>2. c.valid_at \in Nat /\ winner.valid_at \in Nat
      BY <1>1, <1>2, <2>2 DEF Fact
    <3>3. winner.valid_at <= c.valid_at
      BY <3>1, <3>2
    <3> QED BY <2>1, <2>2, <2>5, <3>1, <3>3 DEF TopFor
  <2>8. CASE fact'[d] = winner /\ winner.state = "active"
    <3>1. \A r \in RivalsIn(ltm, winner) : r.valid_at <= winner.valid_at
      <4>1. LosersInv(d)' /\ Pending(d)' = losers'[d] /\ Rivals(d)' = RivalsIn(ltm, winner)
        BY <1>1, <2>8 DEF IInv, PassInv, Pending, Rivals
      <4>2. RivalsIn(ltm, winner) = losers'[d]
            /\ \A l \in losers'[d] : l.valid_at <= winner.valid_at
        BY <1>1, <2>8, <4>1 DEF LosersInv
      <4> QED BY <4>2
    <3>2. \A g \in ActiveIn(ltm, winner.slot) : g.valid_at <= winner.valid_at
      <4> SUFFICES ASSUME NEW g \in ActiveIn(ltm, winner.slot), g.id = winner.id
                   PROVE  g.valid_at <= winner.valid_at
        BY <3>1 DEF RivalsIn
      <4>1. g \in ltm'
        BY <1>1 DEF ActiveIn
      <4>2. Meaning(g) = Meaning(winner)
        BY <1>1, <2>8, <4>1 DEF Identity, InHand, FactKnown, Applying
      <4>3. g.valid_at = winner.valid_at /\ winner.valid_at \in Nat
        BY <1>1, <4>2 DEF Meaning, Fact
      <4> QED BY <4>3
    <3>3. Tops(ltm, winner)
      <4> SUFFICES ASSUME NEW f \in ltm, f.slot = winner.slot PROVE f.valid_at <= winner.valid_at
        BY DEF Tops
      <4>1. PICK g \in ActiveIn(ltm, winner.slot) : f.valid_at <= g.valid_at
        BY <2>4 DEF LatestIn, InSlot
      <4>2. g.valid_at <= winner.valid_at
        BY <3>2, <4>1
      <4>3. f.valid_at \in Nat /\ g.valid_at \in Nat /\ winner.valid_at \in Nat
        BY <1>1, <1>2, <4>1 DEF ActiveIn, Fact
      <4> QED BY <4>1, <4>2, <4>3
    <3> QED BY <2>8, <3>3 DEF TopFor
  <2> QED BY <1>1, <2>6, <2>7, <2>8
<1> QED BY <1>3, <1>4, <1>5 DEF LatestInv

\* A slot other than the one being written keeps its facts.
LEMMA OtherSlots ==
    ASSUME IInv, Identity, NEW d \in Distiller, Upsert(d) \/ Expire(d) \/ InvalidateLtm(d)
    PROVE  \A s : s # fact[d].slot => InSlot(ltm', s) = InSlot(ltm, s)
<1>1. pc[d] \in Inside /\ pc[d] \in Applying
  BY DEF Upsert, Expire, InvalidateLtm, Inside, Applying, Writing
<1>2. AllWellFormed(ltm) /\ ltm \in SUBSET Fact /\ fact[d] \in Fact /\ PassInv(d)
  BY <1>1, Alone DEF IInv
<1>3. CASE Upsert(d)
  <2>1. ltm' = Upserted(ltm, fact[d])
    BY <1>3 DEF Upsert, upsert_fact, Upserted
  <2>2. \A f \in ltm : f.id = fact[d].id => f.slot = fact[d].slot
    BY <1>1 DEF Identity, InHand, FactKnown, Meaning
  <2> QED BY <2>1, <2>2 DEF Upserted, InSlot
<1>4. ASSUME NEW l \in ltm, l.slot = fact[d].slot, NEW at \in Nat, ltm' = StampedIn(ltm, l, at)
      PROVE  \A s : s # fact[d].slot => InSlot(ltm', s) = InSlot(ltm, s)
  <2>0. /\ \A g \in ltm' : \E f \in ltm : Meaning(g) = Meaning(f) /\ (g = f \/ f = l)
        /\ \A f \in ltm : \E g \in ltm' : Meaning(g) = Meaning(f) /\ (g = f \/ f = l)
    BY <1>2, <1>4, StampMeaning
  <2>1. /\ \A g \in ltm' : \E f \in ltm : g.slot = f.slot /\ (g = f \/ f = l)
        /\ \A f \in ltm : \E g \in ltm' : g.slot = f.slot /\ (g = f \/ f = l)
    <3>1. ASSUME NEW g, NEW f, Meaning(g) = Meaning(f) PROVE g.slot = f.slot
      BY <3>1 DEF Meaning
    <3> QED BY <2>0, <3>1
  <2> SUFFICES ASSUME NEW s, s # fact[d].slot PROVE InSlot(ltm', s) = InSlot(ltm, s)
    OBVIOUS
  <2>2. ASSUME NEW g \in ltm', g.slot = s PROVE g \in ltm
    BY <1>4, <2>1, <2>2
  <2>3. ASSUME NEW f \in ltm, f.slot = s PROVE f \in ltm'
    BY <1>4, <2>1, <2>3
  <2> QED BY <2>2, <2>3 DEF InSlot
<1>5. CASE Expire(d)
  <2>1. fact[d] \in ltm /\ fact[d].state = "superseded" /\ WellFormed(fact[d])
    BY <1>2, <1>5 DEF PassInv, LocalInv, FactInv, Expire
  <2>2. fact[d].invalid_at \in Nat
    BY <1>2, <2>1 DEF WellFormed, Fact
  <2>3. ltm' = StampedIn(ltm, fact[d], fact[d].invalid_at)
    BY <1>5, InvalidateStamps DEF Expire
  <2> QED BY <1>4, <2>1, <2>2, <2>3
<1>6. CASE InvalidateLtm(d)
  <2>1. PICK l \in losers[d] :
            invalidate(l.id, fact[d].id, fact[d].valid_at, "functional_supersede")
    BY <1>6 DEF InvalidateLtm
  <2>2. ltm' = StampedIn(ltm, l, fact[d].valid_at)
    BY <2>1, InvalidateStamps
  <2>3. l \in ltm /\ l.slot = fact[d].slot /\ fact[d].valid_at \in Nat
    BY <1>2, <1>6, <2>1 DEF InvalidateLtm, PassInv, LosersInv, Pending, Rivals, RivalsIn, ActiveIn,
                            Writing, Fact
  <2> QED BY <1>4, <2>2, <2>3
<1> QED BY <1>3, <1>5, <1>6

\* Writing the fact keeps its slot topped.
LEMMA UpsertTop ==
    ASSUME NEW S, NEW f \in Fact, TopFor(S, f), NEW T, T = Upserted(S, f)
    PROVE  TopFor(T, f)
<1>1. f.valid_at \in Nat /\ f.valid_at <= f.valid_at
  BY DEF Fact
<1>2. \A g : (Tops(S, g) /\ f.valid_at <= g.valid_at) => Tops(T, g)
  BY DEF Tops, Upserted
<1> QED BY <1>1, <1>2 DEF TopFor, Upserted

\* So does stamping a rival of an active fact, or a fact that has expired.
LEMMA StampTop ==
    ASSUME NEW S \in SUBSET Fact, AllWellFormed(S), NEW l \in S, NEW at \in Nat,
           NEW T, T = StampedIn(S, l, at),
           NEW f, TopFor(S, f), f.state = "active" \/ l = f
    PROVE  TopFor(T, f)
<1>1. /\ \A g \in T : \E h \in S : g.slot = h.slot /\ g.valid_at = h.valid_at
      /\ \A h \in S : h # l => h \in T
  BY StampMeaning DEF Meaning
<1>2. \A g : Tops(S, g) => Tops(T, g)
  BY <1>1 DEF Tops
<1> QED BY <1>1, <1>2 DEF TopFor

\* A topped slot has its most recent fact active, or one as recent.
LEMMA TopRest ==
    ASSUME NEW S, NEW f, TopFor(S, f), f.state = "active" => f \in S
    PROVE  LatestIn(S, f.slot)
<1>1. CASE f.state = "active" /\ Tops(S, f)
  BY <1>1, ToppedIsLatest
<1>2. CASE \E g \in S : g.slot = f.slot /\ g.state = "active" /\ Tops(S, g)
  BY <1>2, ToppedIsLatest
<1> QED BY <1>1, <1>2 DEF TopFor

\* The slots at rest after a write: those of nobody, and the one just finished.
LEMMA RestAfter ==
    ASSUME IInv, Identity, LatestInv, NEW d \in Distiller, pc[d] \in Inside, torn' = torn,
           \A s : s # fact[d].slot => InSlot(ltm', s) = InSlot(ltm, s),
           \A s \in Functional \ torn : (s = fact[d].slot /\ ~Busy(s)') => LatestIn(ltm', s)
    PROVE  RestInv'
<1> SUFFICES ASSUME NEW s \in Functional \ torn, ~Busy(s)' PROVE LatestIn(ltm', s)
  BY DEF RestInv
<1>1. CASE s = fact[d].slot
  BY <1>1
<1>2. CASE s # fact[d].slot
  <2>1. ~Busy(s)
    BY <1>2, Alone
  <2>2. LatestIn(ltm, s)
    BY <2>1 DEF LatestInv, RestInv
  <2> QED BY <1>2, <2>2, SameSlot
<1> QED BY <1>1, <1>2

\* Busy while the pass of the slot stands between its writes.
LEMMA StillBusy ==
    ASSUME NEW d \in Distiller, pc'[d] \in {"expire"} \cup Writing, NEW s, s = fact'[d].slot
    PROVE  Busy(s)'
BY DEF Busy, Writing

\* The three writes to the graph keep every slot at rest, or busy and topped.
LEMMA WriteLatest ==
    ASSUME IInv, IInv', Identity, LatestInv, NEW d \in Distiller,
           Upsert(d) \/ Expire(d) \/ InvalidateLtm(d)
    PROVE  LatestInv'
<1>1. pc[d] \in Inside /\ pc[d] \in Applying
  BY DEF Upsert, Expire, InvalidateLtm, Inside, Applying, Writing
<1>2. /\ TypeOK /\ AllWellFormed(ltm) /\ ltm \in SUBSET Fact /\ fact[d] \in Fact /\ PassInv(d)
      /\ \A e \in Distiller : e # d => pc[e] \notin Inside
  BY <1>1, Alone DEF IInv
<1>3. torn' = torn /\ \A e \in Distiller : e # d => pc'[e] = pc[e]
  BY <1>2 DEF TypeOK, Upsert, Expire, InvalidateLtm, NextFact, Goto, ghost
<1>4. \A s : s # fact[d].slot => InSlot(ltm', s) = InSlot(ltm, s)
  BY OtherSlots
<1>5. ASSUME Guarded(d) PROVE TopFor(ltm', fact[d])
  <2>1. TopFor(ltm, fact[d])
    BY <1>1, <1>5 DEF LatestInv, TopInv
  <2>2. CASE Upsert(d)
    <3>1. ltm' = Upserted(ltm, fact[d])
      BY <2>2 DEF Upsert, upsert_fact, Upserted
    <3> QED BY <1>2, <2>1, <3>1, UpsertTop
  <2>3. CASE Expire(d)
    <3>1. fact[d] \in ltm /\ fact[d].state = "superseded" /\ WellFormed(fact[d])
      BY <1>2, <2>3 DEF PassInv, LocalInv, FactInv, Expire
    <3>2. fact[d].invalid_at \in Nat
      BY <1>2, <3>1 DEF WellFormed, Fact
    <3>3. ltm' = StampedIn(ltm, fact[d], fact[d].invalid_at)
      BY <2>3, InvalidateStamps DEF Expire
    <3> QED BY <1>2, <2>1, <3>1, <3>2, <3>3, StampTop
  <2>4. CASE InvalidateLtm(d)
    <3>1. PICK l \in losers[d] :
              invalidate(l.id, fact[d].id, fact[d].valid_at, "functional_supersede")
      BY <2>4 DEF InvalidateLtm
    <3>2. ltm' = StampedIn(ltm, l, fact[d].valid_at)
      BY <3>1, InvalidateStamps
    <3>3. l \in ltm /\ fact[d].valid_at \in Nat /\ fact[d].state = "active"
      BY <1>2, <2>4, <3>1 DEF InvalidateLtm, PassInv, LocalInv, LosersInv, Pending, Rivals, RivalsIn,
                              ActiveIn, Writing, Fact
    <3> QED BY <1>2, <2>1, <3>2, <3>3, StampTop
  <2> QED BY <2>2, <2>3, <2>4
<1>6. CASE NextFact(d)
  <2>1. pc'[d] = "reconcile" /\ pc'[d] \notin Applying
    BY <1>2, <1>6 DEF TypeOK, NextFact, Goto, Applying, Writing
  <2>2. ASSUME Guarded(d) PROVE LatestIn(ltm', fact[d].slot)
    <3>1. fact[d].state = "active" => fact[d] \in ltm'
      <4>1. CASE Upsert(d)
        BY <4>1 DEF Upsert, upsert_fact
      <4>2. CASE Expire(d)
        BY <1>2, <4>2 DEF PassInv, LocalInv, Expire
      <4>3. ~InvalidateLtm(d)
        BY <1>2, <2>1 DEF InvalidateLtm, Goto, TypeOK
      <4> QED BY <4>1, <4>2, <4>3
    <3> QED BY <1>5, <2>2, <3>1, TopRest
  <2>3. RestInv'
    BY <1>1, <1>3, <1>4, <2>2, RestAfter DEF Guarded
  <2>4. TopInv(d)'
    BY <2>1 DEF TopInv
  <2> QED BY <1>2, <1>3, <2>3, <2>4, OthersTop DEF LatestInv
<1>7. CASE ~NextFact(d)
  <2>1. fact' = fact /\ pc'[d] \in {"expire"} \cup Writing
    BY <1>2, <1>7 DEF TypeOK, Upsert, Expire, InvalidateLtm, Goto, Writing
  <2>2. \A s : s = fact[d].slot => Busy(s)'
    BY <2>1, StillBusy
  <2>3. RestInv'
    BY <1>1, <1>3, <1>4, <2>2, RestAfter
  <2>4. TopInv(d)'
    BY <1>3, <1>5, <2>1 DEF TopInv, Guarded
  <2> QED BY <1>2, <1>3, <2>3, <2>4, OthersTop DEF LatestInv
<1> QED BY <1>6, <1>7

\* Telling MTM and the bus leaves the graph alone.
LEMMA TellLatest ==
    ASSUME IInv, Identity, LatestInv, NEW d \in Distiller, InvalidateMtm(d) \/ Announce(d)
    PROVE  LatestInv'
<1>1. pc[d] \in Inside /\ pc[d] \in Writing /\ pc[d] \in Applying
  BY DEF InvalidateMtm, Announce, Inside, Applying, Writing
<1>2. /\ TypeOK /\ fact[d] \in ltm /\ fact[d].state = "active"
      /\ \A e \in Distiller : e # d => pc[e] \notin Inside
  BY <1>1, Alone DEF IInv, PassInv, LocalInv
<1>3. torn' = torn /\ ltm' = ltm /\ \A e \in Distiller : e # d => pc'[e] = pc[e]
  BY <1>2 DEF TypeOK, InvalidateMtm, Announce, NextFact, Goto, ghost
<1>4. Guarded(d) => TopFor(ltm, fact[d])
  BY <1>1 DEF LatestInv, TopInv
<1>5. RestInv'
  <2>1. fact[d].slot \in Functional \ torn => LatestIn(ltm', fact[d].slot)
    BY <1>2, <1>3, <1>4, TopRest DEF Guarded
  <2> QED BY <1>1, <1>3, <2>1, RestAfter
<1>6. TopInv(d)'
  <2>1. CASE NextFact(d)
    BY <1>2, <2>1 DEF TypeOK, NextFact, Goto, TopInv, Applying, Writing
  <2>2. CASE ~NextFact(d)
    <3>1. fact' = fact
      BY <2>2 DEF InvalidateMtm, Announce
    <3> QED BY <1>3, <1>4, <3>1 DEF TopInv, Guarded
  <2> QED BY <2>1, <2>2
<1> QED BY <1>2, <1>3, <1>5, <1>6, OthersTop DEF LatestInv

\* Entering and leaving touch no fact; a pass cut between two writes marks its
\* slot torn.
LEMMA BorderLatest ==
    ASSUME IInv, Identity, LatestInv, NEW d \in Distiller,
           \/ Acquire(d) \/ (\E w \in Windows : Distill(d, w))
           \/ Finish(d) \/ Cancel(d)
    PROVE  LatestInv'
<1>1. TypeOK /\ ltm' = ltm /\ torn \subseteq torn'
  BY DEF IInv, Acquire, Distill, Finish, Cancel, graph, ghost
<1>2. /\ pc'[d] \notin Applying
      /\ \A e \in Distiller : e # d => pc'[e] = pc[e] /\ fact'[e] = fact[e]
      /\ (pc[d] \in {"expire"} \cup Writing => fact[d].slot \in torn')
  BY <1>1 DEF TypeOK, Acquire, Distill, Finish, Cancel, Forget, Goto, Applying, Writing
<1>3. \A s : (~Busy(s)' /\ s \notin torn') => ~Busy(s)
  BY <1>2 DEF Busy, Writing
<1>4. RestInv'
  BY <1>1, <1>3 DEF LatestInv, RestInv
<1>5. \A e \in Distiller : TopInv(e)'
  BY <1>1, <1>2 DEF LatestInv, TopInv, Guarded
<1> QED BY <1>4, <1>5 DEF LatestInv

\* The order of arrival does not decide, for any windows, candidate_k and
\* concurrent passes: outside torn slots the active fact of a functional slot
\* at rest is one of the most recent ever distilled into it, and there is one.
THEOREM LatestWins == Spec => []LatestIsActive
<1>1. IInv /\ IInv' /\ Identity /\ Identity' /\ LatestInv /\ [Next]_vars => LatestInv'
  <2> SUFFICES ASSUME IInv, IInv', Identity, Identity', LatestInv, [Next]_vars PROVE LatestInv'
    OBVIOUS
  <2>1. CASE UNCHANGED vars
    BY <2>1 DEF vars, LatestInv, RestInv, TopInv, Guarded, Busy
  <2>2. CASE Next
    BY <2>2, BorderLatest, ReconcileLatest, WriteLatest, TellLatest DEF Next, Step
  <2> QED BY <2>1, <2>2
<1>2. LatestInv => LatestIsActive
  BY Unfold DEF LatestInv, RestInv, LatestIn, InSlot, LatestIsActive
<1> QED BY InitLatest, Inductive, IdsKeepMeaning, <1>1, <1>2, PTL DEF Spec

-----------------------------------------------------------------------------
(***************************************************************************)
(* A supersession reaches the graph, then MTM, then the bus.               *)
(***************************************************************************)
Linked(E, i) == \E e \in E : e.loser = i
Has(S, l)    == \E f \in S : f.id = l.id /\ f.point = l.point
\* MTM and the bus know that f was superseded.
Reached(f) == f.point \in mtm /\ f.id \in announced
\* Some pass is about to tell them.
BeingTold(f) == \E d \in Distiller : pc[d] \in Telling /\ loser[d].id = f.id /\ fact[d].slot = f.slot

\* The loser a pass has just invalidated is linked in the graph.
LoserInv(d) ==
    pc[d] \in Telling =>
        /\ Linked(edges, loser[d].id) /\ Has(ltm, loser[d])
        /\ pc[d] = "announce" => loser[d].point \in mtm

EdgesKnown   == \A e \in edges : \E f \in ltm : f.id = e.loser
AnnouncedInv == \A i \in announced : Linked(edges, i) /\ \E f \in ltm : f.id = i /\ f.point \in mtm
EdgeInv ==
    \A e \in edges : \A f \in ltm :
        (e.loser = f.id /\ e.reason = "functional_supersede" /\ f.slot \notin torn)
            => Reached(f) \/ BeingTold(f)

ToldInv == EdgesKnown /\ AnnouncedInv /\ EdgeInv /\ \A d \in Distiller : LoserInv(d)

\* Every node is still there with its meaning, and none took another's id.
SameNodes(S, T) ==
    /\ \A f \in S : \E g \in T : Meaning(g) = Meaning(f)
    /\ \A g \in T : \A f \in S : g.id = f.id => Meaning(g) = Meaning(f)

\* upsert_fact keeps the nodes.
LEMMA UpsertNodes ==
    ASSUME NEW S, NEW f, \A g \in S : g.id = f.id => Meaning(g) = Meaning(f),
           \A g, h \in S : g.id = h.id => g = h, NEW T, T = Upserted(S, f)
    PROVE  SameNodes(S, T)
BY DEF SameNodes, Upserted

\* The stamp of invalidate keeps the nodes.
LEMMA StampNodes ==
    ASSUME NEW S \in SUBSET Fact, AllWellFormed(S), NEW l \in S, NEW at \in Nat,
           NEW T, T = StampedIn(S, l, at)
    PROVE  SameNodes(S, T)
<1>1. /\ \A g \in T : \E f \in S : Meaning(g) = Meaning(f) /\ g.id = f.id
      /\ \A f \in S : \E g \in T : Meaning(g) = Meaning(f)
  BY StampMeaning DEF Meaning
<1>2. \A f, g \in S : f.id = g.id => f = g
  BY DEF AllWellFormed
<1> QED BY <1>1, <1>2 DEF SameNodes

\* The edges that invalidate leaves: those there were, at most relabelled, and
\* one for the loser if both nodes are there.
LEMMA InvalidateEdges ==
    ASSUME NEW l, NEW w, NEW at, NEW reason, invalidate(l, w, at, reason)
    PROVE  /\ \A i : Linked(edges, i) => Linked(edges', i)
           /\ \A e \in edges' : e \in edges \/ (/\ e.loser = l /\ e.reason = reason
                                                /\ \E f \in ltm : f.id = l)
           /\ ((\E f \in ltm : f.id = l) /\ (\E f \in ltm : f.id = w)) => Linked(edges', l)
<1> DEFINE merged == {[loser |-> x.id, winner |-> y.id, reason |-> reason] :
                         x \in {g \in ltm : g.id = l}, y \in {g \in ltm : g.id = w}}
<1>1. edges' = merged \cup {e \in edges :
                  \A m \in merged : <<e.loser, e.winner>> # <<m.loser, m.winner>>}
  BY DEF invalidate
<1>2. \A m \in merged : m.loser = l /\ m.reason = reason /\ \E f \in ltm : f.id = l
  OBVIOUS
<1>3. ((\E f \in ltm : f.id = l) /\ (\E f \in ltm : f.id = w)) => \E m \in merged : TRUE
  <2> SUFFICES ASSUME NEW x \in ltm, x.id = l, NEW y \in ltm, y.id = w
               PROVE  \E m \in merged : TRUE
    OBVIOUS
  <2>1. [loser |-> x.id, winner |-> y.id, reason |-> reason] \in merged
    OBVIOUS
  <2> QED BY <2>1
<1> HIDE DEF merged
<1>4. ASSUME NEW e \in edges PROVE Linked(edges', e.loser)
  <2>1. CASE \E m \in merged : <<e.loser, e.winner>> = <<m.loser, m.winner>>
    BY <1>1, <2>1 DEF Linked
  <2>2. CASE \A m \in merged : <<e.loser, e.winner>> # <<m.loser, m.winner>>
    BY <1>1, <2>2 DEF Linked
  <2> QED BY <2>1, <2>2
<1> QED BY <1>1, <1>2, <1>3, <1>4 DEF Linked

\* There is no edge and no announcement yet.
LEMMA InitTold == Init => ToldInv
BY DEF Init, ToldInv, EdgesKnown, AnnouncedInv, EdgeInv, LoserInv, Telling

\* A write to the graph, when no pass is about to tell of a loser.
LEMMA WriteTold ==
    ASSUME IInv, IInv', Identity, ToldInv, NEW d \in Distiller,
           Upsert(d) \/ Expire(d) \/ InvalidateLtm(d)
    PROVE  ToldInv'
<1>1. pc[d] \in Inside /\ pc[d] \in Applying /\ pc[d] \notin Telling
  BY DEF Upsert, Expire, InvalidateLtm, Inside, Applying, Writing, Telling
<1>2. /\ TypeOK /\ AllWellFormed(ltm) /\ ltm \in SUBSET Fact /\ fact[d] \in Fact /\ PassInv(d)
      /\ \A e \in Distiller : e # d => pc[e] \notin Inside
  BY <1>1, Alone DEF IInv
<1>3. \A e \in Distiller : pc[e] \notin Telling /\ (e # d => pc'[e] = pc[e])
  BY <1>1, <1>2 DEF TypeOK, Upsert, Expire, InvalidateLtm, NextFact, Goto, Inside, Telling
<1>4. torn' = torn /\ mtm' = mtm /\ announced' = announced
  BY DEF Upsert, Expire, InvalidateLtm, ghost
<1>5. \A e \in edges : \A f \in ltm :
        (e.loser = f.id /\ e.reason = "functional_supersede" /\ f.slot \notin torn) => Reached(f)
  BY <1>3 DEF ToldInv, EdgeInv, BeingTold
<1>6. ASSUME SameNodes(ltm, ltm'), \A i : Linked(edges, i) => Linked(edges', i)
      PROVE  /\ \A e \in edges : \E f \in ltm' : f.id = e.loser
             /\ AnnouncedInv'
             /\ \A e \in edges : \A f \in ltm' :
                    (e.loser = f.id /\ e.reason = "functional_supersede" /\ f.slot \notin torn)
                        => f.point \in mtm /\ f.id \in announced
  <2>1. /\ \A f \in ltm : \E g \in ltm' : g.id = f.id /\ g.point = f.point
        /\ \A g \in ltm' : \A f \in ltm : g.id = f.id => g.slot = f.slot /\ g.point = f.point
    BY <1>6 DEF SameNodes, Meaning
  <2>2. \A e \in edges : \E f \in ltm : f.id = e.loser
    BY DEF ToldInv, EdgesKnown
  <2>3. \A e \in edges : \E f \in ltm' : f.id = e.loser
    BY <2>1, <2>2
  <2>4. AnnouncedInv'
    BY <1>4, <1>6, <2>1 DEF ToldInv, AnnouncedInv
  <2>5. \A e \in edges : \A f \in ltm' :
            (e.loser = f.id /\ e.reason = "functional_supersede" /\ f.slot \notin torn)
                => f.point \in mtm /\ f.id \in announced
    BY <1>5, <2>1, <2>2 DEF Reached
  <2> QED BY <2>3, <2>4, <2>5
<1>7. CASE Upsert(d)
  <2>1. ltm' = Upserted(ltm, fact[d]) /\ edges' = edges
    BY <1>7 DEF Upsert, upsert_fact, Upserted
  <2>2. SameNodes(ltm, ltm')
    BY <1>1, <1>2, <2>1, UpsertNodes DEF Identity, InHand, FactKnown, AllWellFormed
  <2>3. pc'[d] \notin Telling
    BY <1>2, <1>7 DEF TypeOK, Upsert, NextFact, Goto, Telling
  <2>4. \A e \in Distiller : LoserInv(e)'
    BY <1>3, <2>3 DEF LoserInv
  <2> QED BY <1>4, <1>6, <2>1, <2>2, <2>4 DEF ToldInv, EdgesKnown, EdgeInv, Reached
<1>8. CASE Expire(d)
  <2>1. fact[d] \in ltm /\ fact[d].state = "superseded" /\ WellFormed(fact[d])
    BY <1>2, <1>8 DEF PassInv, LocalInv, FactInv, Expire
  <2>2. fact[d].invalid_at \in Nat
    BY <1>2, <2>1 DEF WellFormed, Fact
  <2>3. invalidate(fact[d].id, newest[d], fact[d].invalid_at, "superseded_by_more_recent")
    BY <1>8 DEF Expire
  <2>4. ltm' = StampedIn(ltm, fact[d], fact[d].invalid_at)
    BY <2>3, InvalidateStamps
  <2>5. SameNodes(ltm, ltm')
    BY <1>2, <2>1, <2>2, <2>4, StampNodes
  <2>6. /\ \A i : Linked(edges, i) => Linked(edges', i)
        /\ \A e \in edges' : e \in edges \/ (/\ e.loser = fact[d].id
                                             /\ e.reason = "superseded_by_more_recent"
                                             /\ \E f \in ltm : f.id = fact[d].id)
    BY <2>3, InvalidateEdges
  <2>7. EdgesKnown'
    <3>1. \E f \in ltm' : f.id = fact[d].id
      BY <2>1, <2>5 DEF SameNodes, Meaning
    <3> QED BY <1>6, <2>5, <2>6, <3>1 DEF EdgesKnown
  <2>8. EdgeInv'
    BY <1>4, <1>6, <2>5, <2>6 DEF EdgeInv, Reached
  <2>9. pc'[d] \notin Telling
    BY <1>2, <1>8 DEF TypeOK, Expire, NextFact, Goto, Telling
  <2>10. \A e \in Distiller : LoserInv(e)'
    BY <1>3, <2>9 DEF LoserInv
  <2> QED BY <1>6, <2>5, <2>6, <2>7, <2>8, <2>10 DEF ToldInv
<1>9. CASE InvalidateLtm(d)
  <2>1. PICK l \in losers[d] :
            /\ loser' = [loser EXCEPT ![d] = l]
            /\ invalidate(l.id, fact[d].id, fact[d].valid_at, "functional_supersede")
    BY <1>9 DEF InvalidateLtm
  <2>2. ltm' = StampedIn(ltm, l, fact[d].valid_at)
    BY <2>1, InvalidateStamps
  <2>3. l \in ltm /\ l.slot = fact[d].slot /\ fact[d].valid_at \in Nat /\ fact[d] \in ltm
    BY <1>2, <1>9, <2>1 DEF InvalidateLtm, PassInv, LocalInv, LosersInv, Pending, Rivals, RivalsIn,
                            ActiveIn, Writing, Fact
  <2>4. SameNodes(ltm, ltm')
    BY <1>2, <2>2, <2>3, StampNodes
  <2>5. /\ \A i : Linked(edges, i) => Linked(edges', i)
        /\ \A e \in edges' : e \in edges \/ (/\ e.loser = l.id
                                             /\ e.reason = "functional_supersede"
                                             /\ \E f \in ltm : f.id = l.id)
        /\ ((\E f \in ltm : f.id = l.id) /\ (\E f \in ltm : f.id = fact[d].id))
              => Linked(edges', l.id)
    BY <2>1, InvalidateEdges
  <2>6. /\ pc'[d] = "invalidate_mtm" /\ loser'[d] = l /\ fact' = fact
    BY <1>2, <1>9, <2>1 DEF TypeOK, InvalidateLtm, Goto
  <2>7. /\ Has(ltm', l) /\ \A g \in ltm' : g.id = l.id => g.slot = fact[d].slot
    BY <2>3, <2>4 DEF SameNodes, Meaning, Has
  <2>8. EdgesKnown'
    BY <1>6, <2>4, <2>5, <2>7 DEF EdgesKnown, Has
  <2>9. EdgeInv'
    <3> SUFFICES ASSUME NEW e \in edges', NEW f \in ltm', e.loser = f.id,
                        e.reason = "functional_supersede", f.slot \notin torn
                 PROVE  (f.point \in mtm /\ f.id \in announced) \/ BeingTold(f)'
      BY <1>4 DEF EdgeInv, Reached
    <3>1. CASE e \in edges
      BY <1>6, <2>4, <2>5, <3>1
    <3>2. CASE e.loser = l.id
      <4>1. pc'[d] \in Telling /\ loser'[d].id = f.id /\ fact'[d].slot = f.slot
        BY <2>6, <2>7, <3>2 DEF Telling
      <4> QED BY <4>1 DEF BeingTold
    <3> QED BY <2>5, <3>1, <3>2
  <2>10. LoserInv(d)'
    BY <2>3, <2>5, <2>6, <2>7 DEF LoserInv
  <2>11. \A e \in Distiller : e # d => LoserInv(e)'
    BY <1>3 DEF LoserInv
  <2> QED BY <1>6, <2>4, <2>5, <2>8, <2>9, <2>10, <2>11 DEF ToldInv
<1> QED BY <1>7, <1>8, <1>9

\* MTM is told after the graph.
LEMMA InvalidateMtmTold ==
    ASSUME IInv, Identity, ToldInv, NEW d \in Distiller, InvalidateMtm(d)
    PROVE  ToldInv'
<1>1. pc[d] \in Inside /\ pc[d] \in Telling
  BY DEF InvalidateMtm, Inside, Telling
<1>2. TypeOK /\ \A e \in Distiller : e # d => pc[e] \notin Inside
  BY <1>1, Alone
<1>3. /\ UNCHANGED <<ltm, edges, announced, torn, loser, fact>>
      /\ mtm' = mtm \cup {loser[d].point} /\ pc'[d] = "announce"
      /\ \A e \in Distiller : e # d => pc'[e] = pc[e] /\ pc'[e] \notin Telling
  BY <1>2 DEF TypeOK, InvalidateMtm, _mtm_point_id, Goto, ghost, Inside, Telling
<1>4. EdgesKnown' /\ AnnouncedInv'
  BY <1>3 DEF ToldInv, EdgesKnown, AnnouncedInv
<1>5. EdgeInv'
  <2>1. \A f : Reached(f) => (f.point \in mtm' /\ f.id \in announced')
    BY <1>3 DEF Reached
  <2>2. \A f : BeingTold(f) => BeingTold(f)'
    BY <1>3 DEF BeingTold, Telling
  <2> QED BY <1>3, <2>1, <2>2 DEF ToldInv, EdgeInv, Reached
<1>6. \A e \in Distiller : LoserInv(e)'
  BY <1>1, <1>3 DEF ToldInv, LoserInv
<1> QED BY <1>4, <1>5, <1>6 DEF ToldInv

\* The bus is told after MTM, and the loser is then done with.
LEMMA AnnounceTold ==
    ASSUME IInv, Identity, ToldInv, NEW d \in Distiller, Announce(d)
    PROVE  ToldInv'
<1>1. pc[d] \in Inside /\ pc[d] \in Telling /\ pc[d] = "announce"
  BY DEF Announce, Inside, Telling
<1>2. TypeOK /\ AllWellFormed(ltm) /\ \A e \in Distiller : e # d => pc[e] \notin Inside
  BY <1>1, Alone
<1>3. /\ UNCHANGED <<ltm, edges, mtm, torn>> /\ announced' = announced \cup {loser[d].id}
      /\ \A e \in Distiller : pc'[e] \notin Telling /\ (e # d => pc[e] \notin Telling)
  BY <1>2 DEF TypeOK, Announce, NextFact, Goto, ghost, Inside, Telling
<1>4. Linked(edges, loser[d].id) /\ Has(ltm, loser[d]) /\ loser[d].point \in mtm
  BY <1>1 DEF ToldInv, LoserInv
<1>5. EdgesKnown'
  BY <1>3 DEF ToldInv, EdgesKnown
<1>6. AnnouncedInv'
  BY <1>3, <1>4 DEF ToldInv, AnnouncedInv, Has
<1>7. EdgeInv'
  <2>1. ASSUME NEW f \in ltm, BeingTold(f) PROVE f.point \in mtm /\ f.id = loser[d].id
    <3>1. f.id = loser[d].id
      BY <1>3, <2>1 DEF BeingTold
    <3> QED BY <1>2, <1>4, <3>1 DEF Has, AllWellFormed
  <2> QED BY <1>3, <2>1 DEF ToldInv, EdgeInv, Reached
<1>8. \A e \in Distiller : LoserInv(e)'
  BY <1>3 DEF LoserInv
<1> QED BY <1>5, <1>6, <1>7, <1>8 DEF ToldInv

\* The steps that write nothing.
LEMMA QuietTold ==
    ASSUME IInv, Identity, ToldInv, NEW d \in Distiller,
           \/ Acquire(d) \/ (\E w \in Windows : Distill(d, w)) \/ Reconcile(d)
           \/ Finish(d) \/ Cancel(d)
    PROVE  ToldInv'
<1>1. TypeOK /\ UNCHANGED <<ltm, edges, mtm, announced>> /\ torn \subseteq torn'
  BY DEF IInv, Acquire, Distill, Reconcile, Finish, Cancel, graph, ghost
<1>2. /\ pc'[d] \notin Telling
      /\ \A e \in Distiller : e # d => pc'[e] = pc[e] /\ fact'[e] = fact[e] /\ loser'[e] = loser[e]
      /\ (pc[d] \in Telling => fact[d].slot \in torn')
  <2>1. CASE Reconcile(d)
    BY <1>1, <2>1, Decision DEF TypeOK, Telling
  <2>2. CASE Acquire(d) \/ (\E w \in Windows : Distill(d, w)) \/ Finish(d) \/ Cancel(d)
    BY <1>1, <2>2 DEF TypeOK, Acquire, Distill, Finish, Cancel, Forget, Goto, Telling
  <2> QED BY <2>1, <2>2
<1>3. EdgesKnown' /\ AnnouncedInv'
  BY <1>1 DEF ToldInv, EdgesKnown, AnnouncedInv
<1>4. EdgeInv'
  <2>1. ASSUME NEW f \in ltm, BeingTold(f), f.slot \notin torn' PROVE BeingTold(f)'
    BY <1>2, <2>1 DEF BeingTold
  <2> QED BY <1>1, <2>1 DEF ToldInv, EdgeInv, Reached
<1>5. \A e \in Distiller : LoserInv(e)'
  BY <1>1, <1>2 DEF ToldInv, LoserInv
<1> QED BY <1>3, <1>4, <1>5 DEF ToldInv

\* A supersession is announced only when the graph and MTM know of it, and
\* outside torn slots every one reaches them all, for any windows and any
\* number of concurrent and cancelled passes.
THEOREM SupersedeIsComplete == Spec => []SupersedeReachesAll
<1>1. IInv /\ IInv' /\ Identity /\ ToldInv /\ [Next]_vars => ToldInv'
  <2> SUFFICES ASSUME IInv, IInv', Identity, ToldInv, [Next]_vars PROVE ToldInv'
    OBVIOUS
  <2>1. CASE UNCHANGED vars
    BY <2>1 DEF vars, ToldInv, EdgesKnown, AnnouncedInv, EdgeInv, LoserInv, Reached, BeingTold
  <2>2. CASE Next
    BY <2>2, QuietTold, WriteTold, InvalidateMtmTold, AnnounceTold DEF Next, Step
  <2> QED BY <2>1, <2>2
<1>2. ToldInv => SupersedeReachesAll
  <2> SUFFICES ASSUME ToldInv PROVE SupersedeReachesAll
    OBVIOUS
  <2>1. \A f : ~Busy(f.slot) => ~BeingTold(f)
    BY DEF Busy, BeingTold, Telling
  <2> QED BY <2>1 DEF ToldInv, AnnouncedInv, EdgeInv, Reached, Linked, SupersedeReachesAll
<1> QED BY InitTold, Inductive, IdsKeepMeaning, <1>1, <1>2, PTL DEF Spec

=============================================================================
