------------------------------- MODULE Recall -------------------------------
(***************************************************************************)
(* RecallService: one federated recall at a time over the private and the  *)
(* shared plane, while a distill pass supersedes a fact underneath it and  *)
(* stores fail.  Each plane is read by a ranker that runs its three        *)
(* channels (STM recency floor, MTM semantic, LTM graph) as concurrent     *)
(* tasks, fuses MTM and LTM by reciprocal rank and puts the floor in       *)
(* front; the service then fuses the planes, drops duplicate bodies and    *)
(* protects the floor again.                                               *)
(*                                                                         *)
(* A memory is [id, hash, plane]: its body is its content hash, and the    *)
(* namespace it lives in is its plane.  Similarity is not modelled: MTM    *)
(* and LTM return what they hold in any order.  Scores are the code's      *)
(* weight / (k + rank + 1), multiplied by a common multiple.               *)
(***************************************************************************)
EXTENDS Integers, Sequences, FiniteSets

CONSTANTS
    Memory,      \* records [id, hash, plane]
    Stm, Mtm, Ltm, \* the initial contents: plane -> sequences / sets of memories
    Old, New,    \* the memory a distill pass supersedes, and its winner
    Limits,      \* the limits recall is called with
    Weight,      \* [mtm, ltm, private, shared]: the RRF weights
    RrfK,        \* rrf_k
    MaxRank,     \* bound: the longest list that is fused
    Scale,       \* a common multiple of RrfK + 1 .. RrfK + MaxRank
    MaxRecalls,  \* bound: recalls made
    None

Plane == {"private", "shared"}
Channel == {"stm", "mtm", "ltm"}

ASSUME MemoryAssumption ==
    /\ IsFiniteSet(Memory) /\ \A m \in Memory : m.plane \in Plane
    /\ \A m, n \in Memory : m.id = n.id => m = n
    /\ {Old, New} \subseteq Memory /\ Old.plane = New.plane /\ Old # New
\* A tier of a plane holds memories of that plane, an STM window none twice,
\* and the fact to be superseded is in the graph.
ASSUME ContentsAssumption ==
    /\ \A s \in Stm : s \in [Plane -> Seq(Memory)]
    /\ \A s \in Stm, p \in Plane : \A i, j \in 1..Len(s[p]) :
          s[p][i].plane = p /\ (s[p][i] = s[p][j] => i = j)
    /\ Mtm \in [Plane -> SUBSET Memory] /\ Ltm \in [Plane -> SUBSET Memory]
    /\ \A p \in Plane : \A m \in Mtm[p] \cup Ltm[p] : m.plane = p
    /\ Old \in Ltm[Old.plane]
ASSUME SettingsAssumption ==
    /\ Limits \subseteq Nat \ {0} /\ RrfK \in Nat \ {0} /\ MaxRank \in Nat
    /\ Scale \in Nat \ {0} /\ \A n \in 1..MaxRank : Scale % (RrfK + n) = 0
    /\ Weight \in [{"mtm", "ltm", "private", "shared"} -> Nat]
ASSUME NoneAssumption == None \notin {"ltm_unavailable", "shared_recall_unavailable", "named"}

VARIABLES
    stm, mtm, ltm,  \* plane -> what the tier returns as active
    superseding,    \* how far the distill pass has come
    pc,
    query,          \* the call: limit, channels, own namespace, label
    fresh,          \* ghost: the pass had ended when the call began
    arm,            \* the plane being ranked
    got,            \* channel -> its hits in this arm, None until it answers
    ltmDown,        \* _ltm_channel degraded in this arm
    result,         \* plane -> the ranker's RecallResult, or None
    out,            \* the RecallResult returned
    lost,           \* ghost: a store failed and the call went on
    blame,          \* what ended a call that raised
    emitted,        \* components counted in mu_degraded_mode_total by this call
    recalls

vars == <<stm, mtm, ltm, superseding, pc, query, fresh, arm, got, ltmDown, result, out, lost, blame, emitted, recalls>>
stores == <<stm, mtm, ltm, superseding>>

NoQuery == [limit |-> 1, asked |-> {}, channels |-> {}, own |-> TRUE, label |-> None]
NoHits == [c \in Channel |-> None]

Init == /\ stm \in Stm /\ mtm = Mtm /\ ltm = Ltm /\ superseding = 0
        /\ pc = "idle" /\ query = NoQuery /\ fresh = FALSE
        /\ arm = "private" /\ got = NoHits /\ ltmDown = FALSE
        /\ result = [p \in Plane |-> None] /\ out = None /\ lost = FALSE /\ blame = None /\ emitted = {}
        /\ recalls = 0

-----------------------------------------------------------------------------
(* Fusion, deduplication and the floor. *)

Elements(s) == {s[i] : i \in 1..Len(s)}
IdsOf(s) == {s[i].id : i \in 1..Len(s)}
HashesOf(s) == {s[i].hash : i \in 1..Len(s)}
Orders(S) == {s \in [1..Cardinality(S) -> S] : \A i, j \in DOMAIN s : i # j => s[i] # s[j]}
Prefix(s, n) == SubSeq(s, 1, IF Len(s) < n THEN Len(s) ELSE n)

\* The elements of s at the places in P, in order.
Subsequence(s, P) ==
    [n \in 1..Cardinality(P) |-> s[CHOOSE i \in P : 1 + Cardinality({j \in P : j < i}) = n]]
Without(s, ids) == Subsequence(s, {i \in 1..Len(s) : s[i].id \notin ids})

\* The place of the first element with this id, or 0.
RankOf(s, id) == IF id \in IdsOf(s)
                 THEN CHOOSE i \in 1..Len(s) : /\ s[i].id = id
                                               /\ \A j \in 1..(i - 1) : s[j].id # id
                 ELSE 0

Term(weight, rank) == IF rank = 0 THEN 0 ELSE weight * (Scale \div (RrfK + rank))

\* An element in only one list still scores.
FusedScore(a, b, wa, wb, id) == Term(wa, RankOf(a, id)) + Term(wb, RankOf(b, id))

\* The union by id, best score first; ties and duplicates go to the occurrence
\* that came first, list by list (the sort is stable, setdefault keeps the first).
reciprocal_rank_fusion(a, b, wa, wb) ==
    LET union == a \o Without(b, IdsOf(a))
        score(i) == FusedScore(a, b, wa, wb, union[i].id)
        place(i) == 1 + Cardinality({j \in 1..Len(union) :
                            \/ score(j) > score(i)
                            \/ score(j) = score(i) /\ j < i})
    IN  [n \in 1..Len(union) |-> union[CHOOSE i \in 1..Len(union) : place(i) = n]]

\* The first occurrence of every content hash, in order.
dedup_by_content_hash(s) ==
    Subsequence(s, {i \in 1..Len(s) : \A j \in 1..(i - 1) : s[j].hash # s[i].hash})

\* Mutant: the limit is applied to the whole list.
cut_at_limit(floor, s, limit) ==
    Prefix(floor \o Without(s, IdsOf(floor)), limit)

\* The floor leads whole; the rest fills what room the limit leaves.
FloorFirst(floor, s, limit) ==
    LET tail == Without(s, IdsOf(floor))
    IN  floor \o Prefix(tail, IF limit > Len(floor) THEN limit - Len(floor) ELSE 0)

_protect_floor(s, limit) == FloorFirst(Subsequence(s, {i \in 1..Len(s) : s[i].floor}), s, limit)

_to_view(m, floor) == [id |-> m.id, hash |-> m.hash, plane |-> m.plane, floor |-> floor]
Views(s, floor) == [i \in 1..Len(s) |-> _to_view(s[i], floor)]

-----------------------------------------------------------------------------
(* The distill pass underneath: the winner is stored, then the loser leaves *)
(* LTM, then MTM.  The STM row of the loser is not touched.                 *)

\* Mutant: the loser is invalidated before the winner is stored.
InvalidateFirst ==
    LET p == Old.plane IN
    /\ superseding < 3 /\ superseding' = superseding + 1
    /\ ltm' = [ltm EXCEPT ![p] = CASE superseding = 0 -> @ \ {Old}
                                   [] superseding = 1 -> @ \cup {New}
                                   [] OTHER -> @]
    /\ mtm' = [mtm EXCEPT ![p] = IF superseding = 2 THEN @ \ {Old} ELSE @]
    /\ UNCHANGED <<stm, pc, query, fresh, arm, got, ltmDown, result, out, lost, blame, emitted, recalls>>

Supersede ==
    LET p == Old.plane IN
    /\ superseding < 3 /\ superseding' = superseding + 1
    /\ ltm' = [ltm EXCEPT ![p] = CASE superseding = 0 -> @ \cup {New}
                                   [] superseding = 1 -> @ \ {Old}
                                   [] OTHER -> @]
    /\ mtm' = [mtm EXCEPT ![p] = IF superseding = 2 THEN @ \ {Old} ELSE @]
    /\ UNCHANGED <<stm, pc, query, fresh, arm, got, ltmDown, result, out, lost, blame, emitted, recalls>>

-----------------------------------------------------------------------------
(* The call. *)

\* recall and recall_degraded, which drops the named channels up front and
\* labels the result with the reason it was given.
Recall ==
    /\ pc \in {"idle", "done", "raised"} /\ recalls < MaxRecalls
    /\ \E limit \in Limits, own \in BOOLEAN, asked \in SUBSET Channel : \E without \in SUBSET asked :
          query' = [limit |-> limit, asked |-> asked, channels |-> asked \ without, own |-> own,
                    label |-> IF without = {} THEN None ELSE "named"]
    /\ pc' = "resolve" /\ recalls' = recalls + 1 /\ fresh' = (superseding = 3)
    /\ arm' = "private" /\ got' = NoHits /\ ltmDown' = FALSE
    /\ result' = [p \in Plane |-> None] /\ out' = None /\ lost' = FALSE /\ blame' = None /\ emitted' = {}
    /\ UNCHANGED stores

Raise(cause) == pc' = "raised" /\ blame' = cause /\ got' = NoHits /\ ltmDown' = FALSE

\* assert_scope of both namespaces: another agent's private one is "not found".
Resolve == /\ pc = "resolve"
           /\ IF query.own THEN pc' = "embed" /\ UNCHANGED <<got, ltmDown, blame>> ELSE Raise("scope")
           /\ UNCHANGED <<stores, query, fresh, arm, result, out, lost, emitted, recalls>>

\* The query is embedded by the service, and again by the shared arm.
Embed == /\ pc = "embed" /\ pc' = "channels"
         /\ UNCHANGED <<stores, query, fresh, arm, got, ltmDown, result, out, lost, blame, emitted, recalls>>

\* A ProviderError is neither a store failure nor an unavailable shared arm.
EmbedFails == /\ pc = "embed" /\ Raise("embed")
              /\ UNCHANGED <<stores, query, fresh, arm, result, out, lost, emitted, recalls>>

Pending(c) == pc = "channels" /\ got[c] = None

\* What a channel returns now, most relevant first.
Answers(c) ==
    IF c \notin query.channels THEN {<<>>}
    ELSE CASE c = "stm" -> {stm[arm]}
           [] c = "mtm" -> Orders(mtm[arm])
           [] OTHER -> Orders(ltm[arm])

ChannelAnswers(c) ==
    /\ Pending(c)
    /\ \E hits \in Answers(c) : got' = [got EXCEPT ![c] = hits]
    /\ UNCHANGED <<stores, pc, query, fresh, arm, ltmDown, result, out, lost, blame, emitted, recalls>>

\* Only StoreUnavailableError is handled: LTM's drops the channel, and that of
\* another channel is a deny, which in the shared arm means the shared arm is
\* unavailable.  What an adapter raises when its retries are exhausted (a
\* TimeoutError, a ConnectionError) is not one, and ends the recall.
Handled(error) == error = "StoreUnavailableError"

\* Mutant: the graph arm returns nothing and says nothing.
LtmDegradesSilently(error) ==
    /\ Pending("ltm") /\ "ltm" \in query.channels /\ Handled(error)
    /\ got' = [got EXCEPT !["ltm"] = <<>>] /\ lost' = TRUE
    /\ UNCHANGED <<stores, pc, query, fresh, arm, ltmDown, result, out, blame, emitted, recalls>>

LtmDegrades(error) ==
    /\ Pending("ltm") /\ "ltm" \in query.channels /\ Handled(error)
    /\ got' = [got EXCEPT !["ltm"] = <<>>] /\ ltmDown' = TRUE /\ lost' = TRUE
    /\ UNCHANGED <<stores, pc, query, fresh, arm, result, out, blame, emitted, recalls>>

\* _degrade_private_only: the private arm, deduplicated, under the shared label.
PrivateOnly ==
    LET private == result["private"]
        n == IF private.items = <<>> THEN 1 ELSE Len(private.items)
    IN  /\ out' = [items |-> _protect_floor(dedup_by_content_hash(private.items), n),
                   ran |-> private.ran,
                   degraded |-> IF query.label = None THEN "shared_recall_unavailable"
                                                      ELSE query.label]
        /\ emitted' = emitted \cup {"shared-recall"}
                              \cup (IF query.label = None THEN {} ELSE {"recall"})
        /\ pc' = "done" /\ got' = NoHits /\ ltmDown' = FALSE

SharedUnavailable(c, error) ==
    /\ Pending(c) /\ c \in query.channels /\ c # "ltm"
    /\ Handled(error) /\ arm = "shared"
    /\ PrivateOnly /\ lost' = TRUE
    /\ UNCHANGED <<stores, query, fresh, arm, result, blame, recalls>>

ChannelRaises(c, error) ==
    /\ Pending(c) /\ c \in query.channels
    /\ IF Handled(error) THEN c # "ltm" /\ arm = "private" ELSE TRUE
    /\ Raise(c)
    /\ UNCHANGED <<stores, query, fresh, arm, result, out, lost, emitted, recalls>>

Error == {"StoreUnavailableError", "TimeoutError"}

\* The channels have answered: fuse MTM and LTM, put the floor in front.
Ranked == [items |-> FloorFirst(Views(got["stm"], TRUE),
                                Views(reciprocal_rank_fusion(got["mtm"], got["ltm"],
                                                             Weight["mtm"], Weight["ltm"]), FALSE),
                                query.limit),
           ran |-> query.channels \ (IF ltmDown THEN {"ltm"} ELSE {}),
           degraded |-> IF ltmDown THEN "ltm_unavailable" ELSE None]

Rank == /\ pc = "channels" /\ \A c \in Channel : got[c] # None
        /\ result' = [result EXCEPT ![arm] = Ranked]
        /\ IF arm = "private" THEN arm' = "shared" /\ pc' = "embed"
                              ELSE arm' = arm /\ pc' = "fuse"
        /\ got' = NoHits /\ ltmDown' = FALSE
        /\ UNCHANGED <<stores, query, fresh, out, lost, blame, emitted, recalls>>

\* private.degraded or shared.degraded
FirstLabel(a, b) == IF a # None THEN a ELSE b

Fuse ==
    LET private == result["private"]
        shared == result["shared"]
        fused == reciprocal_rank_fusion(private.items, shared.items,
                                        Weight["private"], Weight["shared"])
        degraded == FirstLabel(private.degraded, shared.degraded)
    IN  /\ pc = "fuse" /\ pc' = "done"
        /\ out' = [items |-> _protect_floor(dedup_by_content_hash(fused), query.limit),
                   ran |-> private.ran \cup shared.ran,
                   degraded |-> FirstLabel(query.label, degraded)]
        /\ emitted' = (IF degraded = None THEN {} ELSE {"ltm"})
                      \cup (IF query.label = None THEN {} ELSE {"recall"})
        /\ UNCHANGED <<stores, query, fresh, arm, got, ltmDown, result, lost, blame, recalls>>

Next == \/ Supersede \/ Recall \/ Resolve \/ Embed \/ EmbedFails \/ Rank \/ Fuse
        \/ \E c \in Channel : ChannelAnswers(c)
        \/ \E error \in Error : LtmDegrades(error)
        \/ \E c \in Channel, error \in Error : SharedUnavailable(c, error) \/ ChannelRaises(c, error)

Spec == Init /\ [][Next]_vars

-----------------------------------------------------------------------------
(* Properties. *)

View == [id : {m.id : m \in Memory}, hash : {m.hash : m \in Memory}, plane : Plane, floor : BOOLEAN]
Reasons == {"ltm_unavailable", "shared_recall_unavailable", "named"}
Result == [items : Seq(View), ran : SUBSET Channel, degraded : Reasons \cup {None}]

ASSUME ResultAssumption == None \notin Result

\* The state has its type: hits are memories of the tiers, results are lists of
\* views with the channels that ran and the label of the degradation.
TypeOK == /\ stm \in Stm /\ superseding \in 0..3
          /\ mtm \in [Plane -> SUBSET Memory] /\ ltm \in [Plane -> SUBSET Memory]
          /\ pc \in {"idle", "resolve", "embed", "channels", "fuse", "done", "raised"}
          /\ lost \in BOOLEAN /\ blame \in Channel \cup {None, "scope", "embed"}
          /\ query \in [limit : Limits \cup {1}, asked : SUBSET Channel, channels : SUBSET Channel, own : BOOLEAN,
                        label : {None, "named"}]
          /\ fresh \in BOOLEAN /\ arm \in Plane /\ ltmDown \in BOOLEAN
          /\ got \in [Channel -> Seq(Memory) \cup {None}]
          /\ result \in [Plane -> Result \cup {None}] /\ out \in Result \cup {None}
          /\ emitted \subseteq {"ltm", "shared-recall", "recall"} /\ recalls \in 0..MaxRecalls

Done == pc = "done"
Full == query.channels = Channel /\ query.limit >= Cardinality(Memory)

\* A conflict that a distill pass is resolving while recall reads the tiers one
\* after the other is answered: the body of either side is in the result, never
\* neither, and once the pass has ended the loser is returned only if the STM
\* window still holds it (the winner-first order of the pass, against the
\* order in which the ranker's tasks happen to read).
ConflictIsAnswered ==
    Done => /\ Full /\ result[Old.plane] # None /\ "ltm" \in result[Old.plane].ran
                 => {Old.hash, New.hash} \cap HashesOf(out.items) # {}
            /\ fresh /\ Old \notin Elements(stm[Old.plane]) => Old.id \notin IdsOf(out.items)

\* No body is returned twice, and the body of a floor member of either arm is
\* returned whatever the limit, unless the other arm returned the same body
\* (deduplication comes before the floor is protected: service.py).
FloorIsKept ==
    Done => /\ Cardinality(HashesOf(out.items)) = Len(out.items)
            /\ \A p \in Plane : result[p] # None /\ (p = "shared" => result["private"] # None) =>
                 \A v \in Elements(result[p].items) :
                    v.floor => \/ v.hash \in HashesOf(out.items)
                               \/ \E w \in UNION {Elements(result[o].items) :
                                       o \in {x \in Plane \ {p} : result[x] # None}} : w.hash = v.hash

\* A result without a channel that was asked for or without the shared arm says so and
\* is counted; a result with a label is one that lacks something.
MissingIsLabelled ==
    Done => /\ (out.degraded # None) <=> (lost \/ query.channels # query.asked)
            /\ (out.degraded # None) <=> (emitted # {})
=============================================================================
