---------------------------- MODULE RecallProofs ----------------------------
(***************************************************************************)
(* For any stores, queries, weights and failures: a recall that returns    *)
(* less than it was asked for says so, the recency floor of either arm     *)
(* survives fusion, deduplication and the limit, and a conflict that is    *)
(* being resolved underneath is answered.                                  *)
(***************************************************************************)
EXTENDS Recall, FiniteSetTheorems, TLAPS

\* The label of an arm whose ranker has finished.
Degraded(p) == result[p].degraded # None

\* Where in the call a loss is remembered until the result carries its label:
\* in the flag of the arm being ranked, in the label of an arm already ranked,
\* in the result.
LossIsCarried ==
    /\ pc = "resolve" \/ (pc \in {"embed", "channels"} /\ arm = "private")
         => (lost <=> ltmDown)
    /\ pc \in {"embed", "channels"} /\ arm = "shared"
         => (lost <=> (ltmDown \/ Degraded("private")))
    /\ pc = "fuse" => (lost <=> (Degraded("private") \/ Degraded("shared")))

CallShape ==
    /\ pc \in {"idle", "resolve", "embed", "channels", "fuse", "done", "raised"}
    /\ DOMAIN result = Plane
    /\ pc = "resolve" => arm = "private"
    /\ arm \in Plane /\ ltmDown \in BOOLEAN /\ lost \in BOOLEAN
    /\ pc \in {"resolve", "embed", "channels", "fuse", "done"}
         => /\ query.label \in {None, "named"}
            /\ query.label # None <=> query.channels # query.asked
    /\ pc \in {"resolve", "embed", "channels", "fuse"} => emitted = {}

LabelInv == CallShape /\ LossIsCarried /\ MissingIsLabelled

LEMMA LabelInit == Init => LabelInv
BY DEF Init, LabelInv, CallShape, LossIsCarried, MissingIsLabelled, Done, Plane

\* Every step keeps the loss where LossIsCarried says it is.
LEMMA LabelStep == LabelInv /\ [Next]_vars => LabelInv'
<1> SUFFICES ASSUME LabelInv, [Next]_vars PROVE LabelInv'
  OBVIOUS
<1> USE DEF LabelInv, CallShape, LossIsCarried, MissingIsLabelled, Done, Degraded
<1>1. CASE Supersede
  BY <1>1 DEF Supersede
<1>2. CASE Recall
  <2>1. query'.label \in {None, "named"} /\ (query'.label # None <=> query'.channels # query'.asked)
    BY <1>2, NoneAssumption DEF Recall
  <2>2. QED
    BY <1>2, <2>1 DEF Recall, stores, Plane
<1>3. CASE Resolve
  BY <1>3 DEF Resolve, Raise, stores
<1>4. CASE Embed
  BY <1>4 DEF Embed, stores
<1>5. CASE EmbedFails
  BY <1>5 DEF EmbedFails, Raise, stores
<1>6. CASE Rank
  <2>1. result'[arm].degraded = (IF ltmDown THEN "ltm_unavailable" ELSE None)
    BY <1>6 DEF Rank, Ranked
  <2>2. result'[arm].degraded # None <=> ltmDown
    BY <2>1, NoneAssumption
  <2>3. \A p \in Plane : p # arm => result'[p] = result[p]
    BY <1>6 DEF Rank
  <2>4. CASE arm = "private"
    BY <1>6, <2>2, <2>4 DEF Rank, stores, Plane
  <2>5. CASE arm = "shared"
    BY <1>6, <2>2, <2>3, <2>5 DEF Rank, stores, Plane
  <2>6. QED
    BY <2>4, <2>5 DEF Plane
<1>7. CASE Fuse
  <2>1. /\ out'.degraded = FirstLabel(query.label, FirstLabel(result["private"].degraded,
                                                              result["shared"].degraded))
        /\ emitted' = (IF FirstLabel(result["private"].degraded, result["shared"].degraded) = None
                       THEN {} ELSE {"ltm"})
                      \cup (IF query.label = None THEN {} ELSE {"recall"})
        /\ pc = "fuse" /\ pc' = "done"
        /\ query' = query /\ lost' = lost /\ result' = result
        /\ arm' = arm /\ ltmDown' = ltmDown
    BY <1>7 DEF Fuse
  <2>2. QED
    BY <2>1, NoneAssumption DEF FirstLabel
<1>8. ASSUME NEW c \in Channel, ChannelAnswers(c) PROVE LabelInv'
  BY <1>8 DEF ChannelAnswers, Pending, stores
<1>9. ASSUME NEW error \in Error, LtmDegrades(error) PROVE LabelInv'
  BY <1>9 DEF LtmDegrades, Pending, stores, Plane
<1>10. ASSUME NEW c \in Channel, NEW error \in Error, SharedUnavailable(c, error) PROVE LabelInv'
  <2>1. /\ out'.degraded = (IF query.label = None THEN "shared_recall_unavailable" ELSE query.label)
        /\ emitted' = emitted \cup {"shared-recall"}
                              \cup (IF query.label = None THEN {} ELSE {"recall"})
        /\ pc' = "done" /\ lost' = TRUE /\ ltmDown' = FALSE
        /\ query' = query /\ result' = result /\ arm' = arm
    BY <1>10 DEF SharedUnavailable, PrivateOnly
  <2>2. out'.degraded # None /\ emitted' # {}
    BY <2>1, NoneAssumption
  <2>3. QED
    BY <1>10, <2>1, <2>2 DEF SharedUnavailable, Pending
<1>11. ASSUME NEW c \in Channel, NEW error \in Error, ChannelRaises(c, error) PROVE LabelInv'
  BY <1>11 DEF ChannelRaises, Raise, Pending, stores
<1>12. CASE UNCHANGED vars
  BY <1>12 DEF vars
<1>13. QED
  BY <1>1, <1>2, <1>3, <1>4, <1>5, <1>6, <1>7, <1>8, <1>9, <1>10, <1>11, <1>12 DEF Next

\* No recall drops a channel or the shared arm in silence, and none cries wolf:
\* the label of the result and the operator's counter agree with what failed.
THEOREM LossIsLabelled == Spec => []MissingIsLabelled
<1>1. LabelInv => MissingIsLabelled
  BY DEF LabelInv
<1>2. QED
  BY LabelInit, LabelStep, <1>1, PTL DEF Spec

-----------------------------------------------------------------------------
(* The operators that rank, deduplicate and cut lists. *)

\* Counting what comes before an element, in any total order of a finite set,
\* numbers the elements without gaps: below[i] is what comes before i.
LEMMA Ranking ==
  ASSUME NEW S, IsFiniteSet(S), NEW below \in [S -> SUBSET S],
         \A i \in S : i \notin below[i],
         \A i, j \in S : i # j => \/ i \in below[j] /\ below[i] \subseteq below[j]
                                  \/ j \in below[i] /\ below[j] \subseteq below[i]
  PROVE  /\ \A i \in S : 1 + Cardinality(below[i]) \in 1..Cardinality(S)
         /\ \A i, j \in S : i \in below[j] => Cardinality(below[i]) < Cardinality(below[j])
         /\ \A n \in 1..Cardinality(S) : \E i \in S : 1 + Cardinality(below[i]) = n
<1>1. \A i \in S : IsFiniteSet(below[i]) /\ Cardinality(below[i]) \in Nat
  BY FS_Subset, FS_CardinalityType
<1>2. Cardinality(S) \in Nat
  BY FS_CardinalityType
<1>3. ASSUME NEW T \in SUBSET S, NEW U \in SUBSET S, NEW i \in U, i \notin T, T \subseteq U
      PROVE  Cardinality(T) < Cardinality(U)
  <2>1. IsFiniteSet(U) /\ IsFiniteSet(T)
    BY FS_Subset
  <2>2. Cardinality(T) <= Cardinality(U) /\ (Cardinality(U) = Cardinality(T) => U = T)
    BY <1>3, <2>1, FS_Subset
  <2>3. Cardinality(T) \in Nat /\ Cardinality(U) \in Nat /\ U # T
    BY <1>3, <2>1, FS_CardinalityType
  <2> QED BY <2>2, <2>3
<1>4. ASSUME NEW i \in S PROVE 1 + Cardinality(below[i]) \in 1..Cardinality(S)
  <2>1. Cardinality(below[i]) < Cardinality(S)
    BY <1>3
  <2> QED BY <1>1, <1>2, <2>1
<1>5. ASSUME NEW i \in S, NEW j \in S, i \in below[j]
      PROVE  Cardinality(below[i]) < Cardinality(below[j])
  <2>1. below[i] \subseteq below[j] /\ i \notin below[i]
    BY <1>5
  <2> QED BY <1>3, <1>5, <2>1
<1>6. ASSUME NEW n \in 1..Cardinality(S) PROVE \E i \in S : 1 + Cardinality(below[i]) = n
  <2> DEFINE f == [i \in S |-> 1 + Cardinality(below[i])]
  <2>1. f \in [S -> 1..Cardinality(S)]
    BY <1>4
  <2>2. ASSUME NEW i \in S, NEW j \in S, f[i] = f[j] PROVE i = j
    <3>1. Cardinality(below[i]) = Cardinality(below[j])
      BY <1>1, <2>2
    <3> QED BY <1>1, <1>5, <3>1
  <2>3. IsFiniteSet(1..Cardinality(S)) /\ Cardinality(1..Cardinality(S)) = Cardinality(S)
    BY <1>2, FS_Interval
  <2> HIDE DEF f
  <2>4. f \in Injection(S, 1..Cardinality(S))
    BY <2>1, <2>2 DEF Injection, IsInjective
  <2>5. f \in Surjection(S, 1..Cardinality(S))
    BY <2>3, <2>4, FS_Injection
  <2> QED BY <2>5 DEF Surjection, f
<1> QED BY <1>4, <1>5, <1>6

\* The same order as a list: at[n] is the element with the number n.
LEMMA Numbering ==
  ASSUME NEW S, IsFiniteSet(S), NEW below \in [S -> SUBSET S],
         \A i \in S : i \notin below[i],
         \A i, j \in S : i # j => \/ i \in below[j] /\ below[i] \subseteq below[j]
                                  \/ j \in below[i] /\ below[j] \subseteq below[i],
         NEW at \in [1..Cardinality(S) -> S],
         \A n \in 1..Cardinality(S) : 1 + Cardinality(below[at[n]]) = n
  PROVE  /\ \A i \in S : \E n \in 1..Cardinality(S) : at[n] = i
         /\ \A m, n \in 1..Cardinality(S) : m < n => at[m] \in below[at[n]]
<1>1. Cardinality(S) \in Nat
  BY FS_CardinalityType
<1>2. /\ \A i \in S : 1 + Cardinality(below[i]) \in 1..Cardinality(S)
      /\ \A i, j \in S : i \in below[j] => Cardinality(below[i]) < Cardinality(below[j])
  BY Ranking
<1>3. \A n \in 1..Cardinality(S) : at[n] \in S /\ 1 + Cardinality(below[at[n]]) = n
  OBVIOUS
<1>5. \A i \in S : Cardinality(below[i]) \in Nat
  BY FS_Subset, FS_CardinalityType
<1>6. ASSUME NEW i \in S PROVE \E n \in 1..Cardinality(S) : at[n] = i
  <2>1. PICK n \in 1..Cardinality(S) : n = 1 + Cardinality(below[i])
    BY <1>2
  <2>2. at[n] \in S /\ Cardinality(below[at[n]]) = Cardinality(below[i])
    <3>1. at[n] \in S /\ 1 + Cardinality(below[at[n]]) = n
      BY <1>3
    <3>2. Cardinality(below[at[n]]) \in Nat /\ Cardinality(below[i]) \in Nat
      BY <1>5, <3>1
    <3> QED BY <2>1, <3>1, <3>2
  <2>3. at[n] \notin below[i] /\ i \notin below[at[n]]
    <3>1. /\ at[n] \in below[i] => Cardinality(below[at[n]]) < Cardinality(below[i])
          /\ i \in below[at[n]] => Cardinality(below[i]) < Cardinality(below[at[n]])
      BY <1>2, <2>2
    <3>2. Cardinality(below[i]) \in Nat
      BY <1>5
    <3> QED BY <2>2, <3>1, <3>2
  <2>4. at[n] = i
    BY <2>2, <2>3
  <2> QED BY <2>4
<1>7. ASSUME NEW m \in 1..Cardinality(S), NEW n \in 1..Cardinality(S), m < n
      PROVE  at[m] \in below[at[n]]
  <2>1. at[m] \in S /\ at[n] \in S
    BY <1>3
  <2>2. Cardinality(below[at[m]]) < Cardinality(below[at[n]])
    <3>1. /\ 1 + Cardinality(below[at[m]]) = m /\ Cardinality(below[at[m]]) \in Nat
          /\ 1 + Cardinality(below[at[n]]) = n /\ Cardinality(below[at[n]]) \in Nat
      BY <1>3, <1>5
    <3> QED BY <1>7, <3>1
  <2>3. at[m] # at[n] /\ at[n] \notin below[at[m]]
    <3>1. at[n] \in below[at[m]] => Cardinality(below[at[n]]) < Cardinality(below[at[m]])
      BY <1>2, <2>1
    <3>2. Cardinality(below[at[m]]) \in Nat /\ Cardinality(below[at[n]]) \in Nat
      BY <1>5, <2>1
    <3> QED BY <2>2, <3>1, <3>2
  <2> QED BY <2>1, <2>3
<1> QED BY <1>6, <1>7

\* Both for the places of a list of length N.
LEMMA Places ==
  ASSUME NEW N \in Nat, NEW below \in [1..N -> SUBSET (1..N)],
         \A i \in 1..N : i \notin below[i],
         \A i, j \in 1..N : i # j => \/ i \in below[j] /\ below[i] \subseteq below[j]
                                     \/ j \in below[i] /\ below[j] \subseteq below[i]
  PROVE  /\ \A n \in 1..N : \E i \in 1..N : 1 + Cardinality(below[i]) = n
         /\ \A at \in [1..N -> 1..N] :
              (\A n \in 1..N : 1 + Cardinality(below[at[n]]) = n)
                => /\ \A i \in 1..N : \E n \in 1..N : at[n] = i
                   /\ \A m, n \in 1..N : m < n => at[m] \in below[at[n]]
<1> DEFINE S == 1..N
<1>1. IsFiniteSet(S) /\ Cardinality(S) = N
  <2>1. 1 \in Int /\ N \in Int
    OBVIOUS
  <2>2. IsFiniteSet(S) /\ Cardinality(S) = IF 1 > N THEN 0 ELSE N - 1 + 1
    BY <2>1, FS_Interval
  <2> QED BY <2>2
<1>2. 1..N = 1..Cardinality(S) /\ 1..N = S
  BY <1>1
<1> HIDE DEF S
<1>3. /\ below \in [S -> SUBSET S] /\ \A i \in S : i \notin below[i]
      /\ \A i, j \in S : i # j => \/ i \in below[j] /\ below[i] \subseteq below[j]
                                  \/ j \in below[i] /\ below[j] \subseteq below[i]
  BY <1>2
<1>4. \A n \in 1..Cardinality(S) : \E i \in S : 1 + Cardinality(below[i]) = n
  BY <1>1, <1>3, Ranking
<1>5. ASSUME NEW at \in [1..Cardinality(S) -> S],
             \A n \in 1..Cardinality(S) : 1 + Cardinality(below[at[n]]) = n
      PROVE  /\ \A i \in S : \E n \in 1..Cardinality(S) : at[n] = i
             /\ \A m, n \in 1..Cardinality(S) : m < n => at[m] \in below[at[n]]
  BY <1>1, <1>3, <1>5, Numbering
<1>6. ASSUME NEW at \in [1..N -> 1..N], \A n \in 1..N : 1 + Cardinality(below[at[n]]) = n
      PROVE  /\ \A i \in 1..N : \E n \in 1..N : at[n] = i
             /\ \A m, n \in 1..N : m < n => at[m] \in below[at[n]]
  <2>1. /\ at \in [1..Cardinality(S) -> S]
        /\ \A n \in 1..Cardinality(S) : 1 + Cardinality(below[at[n]]) = n
    BY <1>2, <1>6
  <2>2. /\ \A i \in S : \E n \in 1..Cardinality(S) : at[n] = i
        /\ \A m, n \in 1..Cardinality(S) : m < n => at[m] \in below[at[n]]
    BY <1>5, <2>1
  <2> QED BY <1>2, <2>2
<1>7. \A n \in 1..N : \E i \in 1..N : 1 + Cardinality(below[i]) = n
  BY <1>2, <1>4
<1> QED BY <1>6, <1>7

\* A subsequence reads its places once each, in increasing order.
LEMMA SubsequencePlaces ==
  ASSUME NEW s, NEW P \in SUBSET Nat, IsFiniteSet(P)
  PROVE  \E at \in [1..Cardinality(P) -> P] :
           /\ Subsequence(s, P) = [n \in 1..Cardinality(P) |-> s[at[n]]]
           /\ \A i \in P : \E n \in 1..Cardinality(P) : at[n] = i
           /\ \A m, n \in 1..Cardinality(P) : m < n => at[m] < at[n]
<1> DEFINE below == [i \in P |-> {j \in P : j < i}]
           at == [n \in 1..Cardinality(P) |->
                    CHOOSE i \in P : 1 + Cardinality({j \in P : j < i}) = n]
<1>1. below \in [P -> SUBSET P] /\ \A i \in P : i \notin below[i]
  OBVIOUS
<1>2. \A i, j \in P : i # j => \/ i \in below[j] /\ below[i] \subseteq below[j]
                               \/ j \in below[i] /\ below[j] \subseteq below[i]
  <2> SUFFICES ASSUME NEW i \in P, NEW j \in P, i < j
               PROVE  i \in below[j] /\ below[i] \subseteq below[j]
    <3>1. \A i, j \in P : i # j => i < j \/ j < i
      OBVIOUS
    <3> QED BY <3>1, Zenon
  <2>1. \A k \in P : k < i => k < j
    OBVIOUS
  <2> QED BY <2>1
<1>3. \A i \in P : below[i] = {j \in P : j < i}
  OBVIOUS
<1>4. Subsequence(s, P) = [n \in 1..Cardinality(P) |-> s[at[n]]]
  BY DEF Subsequence
<1> HIDE DEF below
<1>5. \A n \in 1..Cardinality(P) : \E i \in P : 1 + Cardinality(below[i]) = n
  BY <1>1, <1>2, Ranking
<1>6. \A n \in 1..Cardinality(P) : at[n] \in P /\ 1 + Cardinality(below[at[n]]) = n
  BY <1>3, <1>5
<1>7. at \in [1..Cardinality(P) -> P]
  BY <1>6
<1> HIDE DEF at
<1>8. /\ \A i \in P : \E n \in 1..Cardinality(P) : at[n] = i
      /\ \A m, n \in 1..Cardinality(P) : m < n => at[m] \in below[at[n]]
  BY <1>1, <1>2, <1>6, <1>7, Numbering
<1>9. \A m, n \in 1..Cardinality(P) : m < n => at[m] < at[n]
  BY <1>3, <1>7, <1>8
<1> QED BY <1>4, <1>7, <1>8, <1>9

\* A subsequence of a list is a list of its elements, no longer than it.
LEMMA SubsequenceFacts ==
  ASSUME NEW V, NEW s \in Seq(V), NEW P \in SUBSET (1..Len(s))
  PROVE  /\ Subsequence(s, P) \in Seq(V) /\ Len(Subsequence(s, P)) = Cardinality(P)
         /\ Cardinality(P) \in Nat /\ Cardinality(P) <= Len(s)
<1>1. Len(s) \in Nat /\ IsFiniteSet(1..Len(s)) /\ Cardinality(1..Len(s)) = Len(s)
  BY FS_Interval
<1>2. P \in SUBSET Nat /\ IsFiniteSet(P) /\ Cardinality(P) <= Len(s)
  <2>1. P \in SUBSET Nat
    BY <1>1
  <2>2. IsFiniteSet(P) /\ Cardinality(P) <= Cardinality(1..Len(s))
    BY <1>1, FS_Subset
  <2> QED BY <1>1, <2>1, <2>2
<1>3. Cardinality(P) \in Nat
  BY <1>2, FS_CardinalityType
<1>4. PICK at \in [1..Cardinality(P) -> P] :
           /\ Subsequence(s, P) = [n \in 1..Cardinality(P) |-> s[at[n]]]
           /\ \A i \in P : \E n \in 1..Cardinality(P) : at[n] = i
           /\ \A m, n \in 1..Cardinality(P) : m < n => at[m] < at[n]
  BY <1>2, SubsequencePlaces
<1>5. \A n \in 1..Cardinality(P) : s[at[n]] \in V
  <2>1. \A i \in 1..Len(s) : s[i] \in V
    OBVIOUS
  <2> QED BY <1>4, <2>1
<1>6. Subsequence(s, P) \in Seq(V) /\ Len(Subsequence(s, P)) = Cardinality(P)
  BY <1>3, <1>4, <1>5
<1> QED BY <1>2, <1>3, <1>6

\* No id stands twice in s.
DistinctIds(s) == \A i, j \in 1..Len(s) : s[i].id = s[j].id => i = j

\* What r takes from s stands in r in the order of s.
KeepsOrder(s, r) ==
  \A m, n \in 1..Len(r), i, j \in 1..Len(s) : r[m] = s[i] /\ r[n] = s[j] /\ i < j => m < n

\* What a subsequence holds, once each and in order.
LEMMA SubsequenceKeeps ==
  ASSUME NEW V, NEW s \in Seq(V), NEW P \in SUBSET (1..Len(s)), DistinctIds(s)
  PROVE  LET r == Subsequence(s, P) IN
         /\ r \in Seq(V) /\ Len(r) <= Len(s)
         /\ \A n \in 1..Len(r) : \E i \in P : r[n] = s[i]
         /\ \A i \in P : \E n \in 1..Len(r) : r[n] = s[i]
         /\ DistinctIds(r) /\ KeepsOrder(s, r)
<1> DEFINE r == Subsequence(s, P)
<1>1. /\ r \in Seq(V) /\ Len(r) = Cardinality(P)
      /\ Cardinality(P) \in Nat /\ Cardinality(P) <= Len(s)
  BY SubsequenceFacts
<1>2. PICK at \in [1..Cardinality(P) -> P] :
        /\ r = [n \in 1..Cardinality(P) |-> s[at[n]]]
        /\ \A i \in P : \E n \in 1..Cardinality(P) : at[n] = i
        /\ \A m, n \in 1..Cardinality(P) : m < n => at[m] < at[n]
  <2>1. P \in SUBSET Nat /\ IsFiniteSet(P)
    <3>1. Len(s) \in Nat /\ IsFiniteSet(1..Len(s))
      BY FS_Interval
    <3>2. IsFiniteSet(P)
      BY <3>1, FS_Subset
    <3> QED BY <3>1, <3>2
  <2> QED BY <2>1, SubsequencePlaces
<1> HIDE DEF r
<1>3. \A n \in 1..Len(r) : at[n] \in P /\ r[n] = s[at[n]] /\ at[n] \in 1..Len(s)
  BY <1>1, <1>2
<1>4. \A i \in P : \E n \in 1..Len(r) : r[n] = s[i]
  BY <1>1, <1>2
<1>5. \A m, n \in 1..Len(r) : m # n => at[m] # at[n]
  <2>1. \A m, n \in 1..Len(r) : m # n => m < n \/ n < m
    BY <1>1
  <2>2. \A m, n \in 1..Len(r) : m < n => at[m] < at[n]
    BY <1>1, <1>2
  <2>3. \A m, n \in 1..Len(r) : at[m] < at[n] => at[m] # at[n]
    BY <1>3
  <2> QED BY <2>1, <2>2, <2>3
<1>6. DistinctIds(r)
  <2> SUFFICES ASSUME NEW m \in 1..Len(r), NEW n \in 1..Len(r), r[m].id = r[n].id PROVE m = n
    BY DEF DistinctIds
  <2>1. /\ at[m] \in 1..Len(s) /\ r[m] = s[at[m]]
        /\ at[n] \in 1..Len(s) /\ r[n] = s[at[n]]
    BY <1>3
  <2>2. s[at[m]].id = s[at[n]].id
    BY <2>1
  <2>3. at[m] = at[n]
    BY <2>1, <2>2, Zenon DEF DistinctIds
  <2> QED BY <1>5, <2>3, Zenon
<1>7. KeepsOrder(s, r)
  <2> SUFFICES ASSUME NEW m \in 1..Len(r), NEW n \in 1..Len(r), NEW i \in 1..Len(s),
                      NEW j \in 1..Len(s), r[m] = s[i], r[n] = s[j], i < j
               PROVE  m < n
    BY DEF KeepsOrder
  <2>1. at[m] = i /\ at[n] = j
    <3>1. /\ at[m] \in 1..Len(s) /\ s[at[m]].id = s[i].id
          /\ at[n] \in 1..Len(s) /\ s[at[n]].id = s[j].id
      BY <1>3
    <3> QED BY <3>1 DEF DistinctIds
  <2>2. n < m => at[n] < at[m]
    BY <1>1, <1>2
  <2> QED BY <1>1, <2>1, <2>2
<1> QED BY <1>1, <1>3, <1>4, <1>6, <1>7 DEF r

\* Every set of naturals that is not empty has a least element.
LEMMA LeastPlace ==
  ASSUME NEW T \in SUBSET Nat, T # {}
  PROVE  \E n \in T : \A m \in T : n <= m
<1> DEFINE R == OpToRel(<, Nat)
<1>1. IsWellFoundedOn(R, Nat)
  BY NatLessThanWellFounded, Zenon
<1> HIDE DEF R
<1>2. PICK n \in T : \A m \in T : ~(<<m, n>> \in R)
  BY <1>1, WFMin
<1>3. ASSUME NEW m \in T PROVE n <= m
  <2>1. ~(<<m, n>> \in R)
    BY <1>2
  <2>2. ~(m < n)
    BY <2>1 DEF R, OpToRel
  <2> QED BY <2>2
<1> QED BY <1>3

\* dedup_by_content_hash returns every body of its list once, as its first
\* occurrence.
LEMMA DedupFacts ==
  ASSUME NEW V, NEW s \in Seq(V), DistinctIds(s)
  PROVE  LET d == dedup_by_content_hash(s) IN
         /\ d \in Seq(V) /\ Len(d) <= Len(s) /\ DistinctIds(d) /\ HashesOf(d) = HashesOf(s)
         /\ \A m, n \in 1..Len(d) : d[m].hash = d[n].hash => m = n
         /\ \A n \in 1..Len(d) : \E i \in 1..Len(s) :
              d[n] = s[i] /\ \A j \in 1..Len(s) : s[j].hash = d[n].hash => i <= j
<1> DEFINE P == {i \in 1..Len(s) : \A j \in 1..(i - 1) : s[j].hash # s[i].hash}
           d == dedup_by_content_hash(s)
<1>1. /\ d \in Seq(V) /\ Len(d) <= Len(s)
      /\ \A n \in 1..Len(d) : \E i \in P : d[n] = s[i]
      /\ \A i \in P : \E n \in 1..Len(d) : d[n] = s[i]
      /\ DistinctIds(d)
  <2>1. P \in SUBSET (1..Len(s)) /\ d = Subsequence(s, P)
    BY DEF dedup_by_content_hash
  <2> HIDE DEF P, d
  <2> QED BY <2>1, SubsequenceKeeps
<1>2. ASSUME NEW n \in 1..Len(d)
      PROVE  \E i \in 1..Len(s) : d[n] = s[i] /\ \A j \in 1..Len(s) : s[j].hash = d[n].hash => i <= j
  <2>1. PICK i \in P : d[n] = s[i]
    BY <1>1
  <2>2. i \in 1..Len(s) /\ \A j \in 1..(i - 1) : s[j].hash # s[i].hash
    OBVIOUS
  <2>3. \A j \in 1..Len(s) : s[j].hash = d[n].hash => i <= j
    BY <2>1, <2>2
  <2> QED BY <2>1, <2>2, <2>3
<1>3. ASSUME NEW i \in 1..Len(s) PROVE \E n \in 1..Len(d) : d[n].hash = s[i].hash
  <2> DEFINE T == {j \in 1..Len(s) : s[j].hash = s[i].hash}
  <2>1. T \in SUBSET Nat /\ T # {}
    OBVIOUS
  <2>2. PICK k \in T : \A j \in T : k <= j
    <3> HIDE DEF T
    <3> QED BY <2>1, LeastPlace
  <2>3. k \in P
    BY <2>2
  <2> QED BY <1>1, <2>2, <2>3
<1>4. ASSUME NEW m \in 1..Len(d), NEW n \in 1..Len(d), d[m].hash = d[n].hash PROVE m = n
  <2>1. PICK i \in 1..Len(s) : d[m] = s[i] /\ \A j \in 1..Len(s) : s[j].hash = d[m].hash => i <= j
    BY <1>2
  <2>2. PICK k \in 1..Len(s) : d[n] = s[k] /\ \A j \in 1..Len(s) : s[j].hash = d[n].hash => k <= j
    BY <1>2
  <2>3. i <= k /\ k <= i
    BY <1>4, <2>1, <2>2
  <2>4. d[m] = d[n]
    BY <2>1, <2>2, <2>3
  <2> QED BY <1>1, <2>4 DEF DistinctIds
<1> HIDE DEF d
<1>5. HashesOf(d) = HashesOf(s)
  <2>1. ASSUME NEW n \in 1..Len(d) PROVE \E i \in 1..Len(s) : d[n].hash = s[i].hash
    BY <1>2
  <2>2. HashesOf(d) \subseteq HashesOf(s)
    BY <2>1 DEF HashesOf
  <2>3. HashesOf(s) \subseteq HashesOf(d)
    BY <1>3 DEF HashesOf
  <2> QED BY <2>2, <2>3
<1> QED BY <1>1, <1>2, <1>4, <1>5 DEF d

\* Without keeps exactly the elements whose id is not in ids.
LEMMA WithoutFacts ==
  ASSUME NEW V, NEW s \in Seq(V), DistinctIds(s), NEW ids
  PROVE  LET r == Without(s, ids) IN
         /\ r \in Seq(V) /\ Len(r) <= Len(s) /\ DistinctIds(r) /\ KeepsOrder(s, r)
         /\ \A n \in 1..Len(r) : \E i \in 1..Len(s) : r[n] = s[i] /\ s[i].id \notin ids
         /\ \A i \in 1..Len(s) : s[i].id \notin ids => \E n \in 1..Len(r) : r[n] = s[i]
<1> DEFINE P == {i \in 1..Len(s) : s[i].id \notin ids}
           r == Without(s, ids)
<1>1. P \in SUBSET (1..Len(s)) /\ r = Subsequence(s, P)
  BY DEF Without
<1>2. \A i \in P : i \in 1..Len(s) /\ s[i].id \notin ids
  OBVIOUS
<1>3. \A i \in 1..Len(s) : s[i].id \notin ids => i \in P
  OBVIOUS
<1> HIDE DEF P, r
<1>4. /\ r \in Seq(V) /\ Len(r) <= Len(s)
      /\ \A n \in 1..Len(r) : \E i \in P : r[n] = s[i]
      /\ \A i \in P : \E n \in 1..Len(r) : r[n] = s[i]
      /\ DistinctIds(r) /\ KeepsOrder(s, r)
  BY <1>1, SubsequenceKeeps
<1>5. \A n \in 1..Len(r) : \E i \in 1..Len(s) : r[n] = s[i] /\ s[i].id \notin ids
  BY <1>2, <1>4
<1>6. \A i \in 1..Len(s) : s[i].id \notin ids => \E n \in 1..Len(r) : r[n] = s[i]
  BY <1>3, <1>4
<1> QED BY <1>4, <1>5, <1>6 DEF r

\* In a list without repetition the rank of an element is its place.
LEMMA RankFacts ==
  ASSUME NEW V, NEW s \in Seq(V), DistinctIds(s)
  PROVE  /\ \A i \in 1..Len(s) : RankOf(s, s[i].id) = i
         /\ \A id : id \notin IdsOf(s) => RankOf(s, id) = 0
         /\ \A id : RankOf(s, id) \in Nat
<1>1. ASSUME NEW i \in 1..Len(s) PROVE RankOf(s, s[i].id) = i
  <2>1. s[i].id \in IdsOf(s)
    BY DEF IdsOf
  <2>2. \A j \in 1..(i - 1) : s[j].id # s[i].id
    <3>1. \A j \in 1..(i - 1) : j \in 1..Len(s) /\ j # i
      OBVIOUS
    <3> QED BY <3>1 DEF DistinctIds
  <2> DEFINE Q(k) == s[k].id = s[i].id /\ \A j \in 1..(k - 1) : s[j].id # s[i].id
  <2>3. Q(i) /\ \A k \in 1..Len(s) : Q(k) => k = i
    BY <2>2 DEF DistinctIds
  <2> HIDE DEF Q
  <2>4. (CHOOSE k \in 1..Len(s) : Q(k)) = i
    BY <2>3
  <2> QED BY <2>1, <2>4 DEF RankOf, Q
<1>2. \A id : id \notin IdsOf(s) => RankOf(s, id) = 0
  BY DEF RankOf
<1>3. ASSUME NEW id PROVE RankOf(s, id) \in Nat
  <2>1. CASE id \in IdsOf(s)
    <3>1. PICK i \in 1..Len(s) : id = s[i].id
      BY <2>1 DEF IdsOf
    <3> QED BY <1>1, <3>1
  <2>2. CASE id \notin IdsOf(s)
    BY <1>2, <2>2
  <2> QED BY <2>1, <2>2
<1> QED BY <1>1, <1>2, <1>3

\* A term of the fused score falls as the rank grows.
LEMMA TermFacts ==
  ASSUME NEW w \in Nat
  PROVE  /\ \A r \in Nat : Term(w, r) \in Nat
         /\ Term(w, 0) = 0
         /\ \A i, j \in Nat \ {0} : i < j => Term(w, j) <= Term(w, i)
<1>1. Scale \in Nat /\ RrfK \in Nat \ {0}
  BY SettingsAssumption
<1>2. ASSUME NEW r \in Nat \ {0} PROVE Scale \div (RrfK + r) \in Nat
  BY <1>1
<1>3. ASSUME NEW i \in Nat \ {0}, NEW j \in Nat \ {0}, i < j
      PROVE  Scale \div (RrfK + j) <= Scale \div (RrfK + i)
  <2> DEFINE x == RrfK + i
             y == RrfK + j
             p == Scale \div x
             q == Scale \div y
  <2>1. x \in Nat \ {0} /\ y \in Nat \ {0} /\ x < y
    BY <1>1, <1>3
  <2>2. p \in Nat /\ q \in Nat
    BY <1>2
  <2>3. Scale < (p + 1) * x /\ q * y <= Scale
    BY <1>1, <2>1
  <2> HIDE DEF x, y, p, q
  <2>4. ASSUME p < q PROVE FALSE
    <3>1. (p + 1) * x <= q * x
      BY <2>1, <2>2, <2>4
    <3>2. q * x <= q * y
      BY <2>1, <2>2
    <3> QED BY <1>1, <2>1, <2>2, <2>3, <3>1, <3>2
  <2> QED BY <2>2, <2>4 DEF p, q, x, y
<1>4. ASSUME NEW r \in Nat PROVE Term(w, r) \in Nat
  BY <1>2 DEF Term
<1>5. ASSUME NEW i \in Nat \ {0}, NEW j \in Nat \ {0}, i < j PROVE Term(w, j) <= Term(w, i)
  <2> DEFINE p == Scale \div (RrfK + i)
             q == Scale \div (RrfK + j)
  <2>1. p \in Nat /\ q \in Nat /\ q <= p
    BY <1>2, <1>3, <1>5
  <2>2. Term(w, i) = w * p /\ Term(w, j) = w * q
    BY DEF Term
  <2> HIDE DEF p, q
  <2> QED BY <2>1, <2>2
<1> QED BY <1>4, <1>5 DEF Term

\* u is a and then b, which have no common id.
Apart(a, b) == \A n \in 1..Len(b) : b[n].id \notin IdsOf(a)
Joined(a, b, u) ==
    /\ Len(u) = Len(a) + Len(b) /\ Len(a) \in Nat /\ Len(b) \in Nat
    /\ \A n \in 1..Len(a) : u[n] = a[n]
    /\ \A n \in 1..Len(b) : u[Len(a) + n] = b[n]
    /\ \A n \in 1..Len(u) : \/ n \in 1..Len(a)
                            \/ n - Len(a) \in 1..Len(b) /\ u[n] = b[n - Len(a)]
    /\ DistinctIds(u)

LEMMA JoinFacts ==
  ASSUME NEW V, NEW a \in Seq(V), NEW b \in Seq(V), DistinctIds(a), DistinctIds(b), Apart(a, b)
  PROVE  a \o b \in Seq(V) /\ Joined(a, b, a \o b)
<1> DEFINE u == a \o b
<1>1. /\ u \in Seq(V) /\ Len(u) = Len(a) + Len(b) /\ Len(a) \in Nat /\ Len(b) \in Nat
      /\ \A n \in 1..Len(a) : u[n] = a[n]
      /\ \A n \in 1..Len(b) : u[Len(a) + n] = b[n]
  OBVIOUS
<1> HIDE DEF u
<1>2. \A n \in 1..Len(u) : \/ n \in 1..Len(a)
                           \/ n - Len(a) \in 1..Len(b) /\ u[n] = b[n - Len(a)]
  BY <1>1
<1>3. \A n \in 1..Len(a) : a[n].id \in IdsOf(a)
  BY DEF IdsOf
<1>4. DistinctIds(u)
  <2> SUFFICES ASSUME NEW m \in 1..Len(u), NEW n \in 1..Len(u), u[m].id = u[n].id
               PROVE  m = n
    BY DEF DistinctIds
  <2>1. CASE m \in 1..Len(a) /\ n \in 1..Len(a)
    BY <1>1, <2>1 DEF DistinctIds
  <2>2. CASE m \in 1..Len(a) /\ n \notin 1..Len(a)
    BY <1>1, <1>2, <1>3, <2>2 DEF Apart
  <2>3. CASE m \notin 1..Len(a) /\ n \in 1..Len(a)
    BY <1>1, <1>2, <1>3, <2>3 DEF Apart
  <2>4. CASE m \notin 1..Len(a) /\ n \notin 1..Len(a)
    <3>1. /\ m - Len(a) \in 1..Len(b) /\ n - Len(a) \in 1..Len(b)
          /\ b[m - Len(a)].id = b[n - Len(a)].id
      BY <1>2, <2>4
    <3>2. m - Len(a) = n - Len(a)
      BY <3>1 DEF DistinctIds
    <3> QED BY <1>1, <3>2
  <2> QED BY <2>1, <2>2, <2>3, <2>4
<1> QED BY <1>1, <1>2, <1>4 DEF u, Joined

\* The elements that fusion ranks, in the order it meets them.
Union(a, b) == a \o Without(b, IdsOf(a))

LEMMA UnionFacts ==
  ASSUME NEW V, NEW a \in Seq(V), NEW b \in Seq(V), DistinctIds(a), DistinctIds(b)
  PROVE  LET u == Union(a, b) IN
         /\ u \in Seq(V) /\ DistinctIds(u)
         /\ \A n \in 1..Len(u) : \/ \E i \in 1..Len(a) : u[n] = a[i]
                                 \/ \E i \in 1..Len(b) : u[n] = b[i]
         /\ \A i \in 1..Len(a) : \E n \in 1..Len(u) : u[n] = a[i]
         /\ \A i \in 1..Len(b) : b[i].id \notin IdsOf(a) => \E n \in 1..Len(u) : u[n] = b[i]
         /\ IdsOf(a) \cap IdsOf(b) = {} => KeepsOrder(a, u) /\ KeepsOrder(b, u)
<1> DEFINE w == Without(b, IdsOf(a))
           u == Union(a, b)
<1>1. /\ w \in Seq(V) /\ DistinctIds(w) /\ KeepsOrder(b, w)
      /\ \A n \in 1..Len(w) : \E i \in 1..Len(b) : w[n] = b[i] /\ b[i].id \notin IdsOf(a)
      /\ \A i \in 1..Len(b) : b[i].id \notin IdsOf(a) => \E n \in 1..Len(w) : w[n] = b[i]
  BY WithoutFacts
<1>2. u = a \o w
  BY DEF Union
<1> HIDE DEF w, u
<1>3. /\ u \in Seq(V) /\ Len(u) = Len(a) + Len(w) /\ Len(a) \in Nat /\ Len(w) \in Nat
      /\ \A n \in 1..Len(a) : u[n] = a[n]
      /\ \A n \in 1..Len(w) : u[Len(a) + n] = w[n]
      /\ \A n \in 1..Len(u) : \/ n \in 1..Len(a)
                              \/ n - Len(a) \in 1..Len(w) /\ u[n] = w[n - Len(a)]
      /\ DistinctIds(u)
  <2>1. Apart(a, w)
    BY <1>1 DEF Apart
  <2>2. u \in Seq(V) /\ Joined(a, w, u)
    BY <1>1, <1>2, <2>1, JoinFacts
  <2> QED BY <2>2 DEF Joined
<1>4. \A n \in 1..Len(u) : \/ \E i \in 1..Len(a) : u[n] = a[i]
                           \/ \E i \in 1..Len(b) : u[n] = b[i]
  BY <1>1, <1>3
<1>5. \A i \in 1..Len(a) : i \in 1..Len(u) /\ u[i] = a[i]
  BY <1>3
<1>6. ASSUME NEW i \in 1..Len(b), b[i].id \notin IdsOf(a)
       PROVE  \E n \in 1..Len(w) : w[n] = b[i] /\ Len(a) + n \in 1..Len(u) /\ u[Len(a) + n] = b[i]
  <2>1. PICK n \in 1..Len(w) : w[n] = b[i]
    BY <1>1, <1>6
  <2>2. Len(a) + n \in 1..Len(u) /\ u[Len(a) + n] = w[n]
    BY <1>3
  <2> QED BY <2>1, <2>2
<1>7. ASSUME IdsOf(a) \cap IdsOf(b) = {} PROVE KeepsOrder(a, u)
  <2> SUFFICES ASSUME NEW m \in 1..Len(u), NEW n \in 1..Len(u), NEW i \in 1..Len(a),
                      NEW j \in 1..Len(a), u[m] = a[i], u[n] = a[j], i < j
               PROVE  m < n
    BY DEF KeepsOrder
  <2>1. /\ i \in 1..Len(u) /\ u[m].id = u[i].id
        /\ j \in 1..Len(u) /\ u[n].id = u[j].id
    BY <1>5
  <2>2. m = i /\ n = j
    BY <1>3, <2>1 DEF DistinctIds
  <2> QED BY <2>2
<1>8. ASSUME IdsOf(a) \cap IdsOf(b) = {} PROVE KeepsOrder(b, u)
  <2> SUFFICES ASSUME NEW m \in 1..Len(u), NEW n \in 1..Len(u), NEW i \in 1..Len(b),
                      NEW j \in 1..Len(b), u[m] = b[i], u[n] = b[j], i < j
               PROVE  m < n
    BY DEF KeepsOrder
  <2>1. b[i].id \notin IdsOf(a) /\ b[j].id \notin IdsOf(a)
    BY <1>8 DEF IdsOf
  <2>2. PICK p \in 1..Len(w) : w[p] = b[i] /\ Len(a) + p \in 1..Len(u) /\ u[Len(a) + p] = b[i]
    BY <1>6, <2>1
  <2>3. PICK q \in 1..Len(w) : w[q] = b[j] /\ Len(a) + q \in 1..Len(u) /\ u[Len(a) + q] = b[j]
    BY <1>6, <2>1
  <2>4. p < q
    BY <1>1, <2>2, <2>3 DEF KeepsOrder
  <2>5. m = Len(a) + p /\ n = Len(a) + q
    BY <1>3, <2>2, <2>3 DEF DistinctIds
  <2> QED BY <1>3, <2>4, <2>5
<1> QED BY <1>3, <1>4, <1>5, <1>6, <1>7, <1>8 DEF u

\* r has the elements of a, those of b that a has not, and no others, and keeps
\* the order of each list when they have nothing in common.
Merges(a, b, r) ==
    /\ \A n \in 1..Len(r) : \/ \E i \in 1..Len(a) : r[n] = a[i]
                            \/ \E i \in 1..Len(b) : r[n] = b[i]
    /\ \A i \in 1..Len(a) : \E n \in 1..Len(r) : r[n] = a[i]
    /\ \A i \in 1..Len(b) : b[i].id \notin IdsOf(a) => \E n \in 1..Len(r) : r[n] = b[i]
    /\ IdsOf(a) \cap IdsOf(b) = {} => KeepsOrder(a, r) /\ KeepsOrder(b, r)

\* Reciprocal rank fusion returns every element of either list once, and two
\* elements of one list keep their order unless the other list knows them:
\* the ranking of one arm is never reversed by an arm with other memories.
LEMMA FusionFacts ==
  ASSUME NEW V, NEW a \in Seq(V), NEW b \in Seq(V), DistinctIds(a), DistinctIds(b),
         NEW wa \in Nat, NEW wb \in Nat
  PROVE  LET r == reciprocal_rank_fusion(a, b, wa, wb) IN
         r \in Seq(V) /\ DistinctIds(r) /\ Merges(a, b, r)
<1> DEFINE u == Union(a, b)
           r == reciprocal_rank_fusion(a, b, wa, wb)
           score(i) == FusedScore(a, b, wa, wb, u[i].id)
           N == Len(u)
           before(i) == {j \in 1..N : score(j) > score(i) \/ (score(j) = score(i) /\ j < i)}
           nth(n) == CHOOSE i \in 1..N : 1 + Cardinality(before(i)) = n
           below == [i \in 1..N |-> before(i)]
           at == [n \in 1..N |-> nth(n)]
<1>1. /\ u \in Seq(V) /\ DistinctIds(u)
      /\ \A n \in 1..Len(u) : \/ \E i \in 1..Len(a) : u[n] = a[i]
                              \/ \E i \in 1..Len(b) : u[n] = b[i]
      /\ \A i \in 1..Len(a) : \E n \in 1..Len(u) : u[n] = a[i]
      /\ \A i \in 1..Len(b) : b[i].id \notin IdsOf(a) => \E n \in 1..Len(u) : u[n] = b[i]
      /\ IdsOf(a) \cap IdsOf(b) = {} => KeepsOrder(a, u) /\ KeepsOrder(b, u)
  BY UnionFacts
<1>2. r = [n \in 1..N |-> u[nth(n)]]
  BY DEF reciprocal_rank_fusion, Union
<1>3. ASSUME NEW i PROVE score(i) \in Nat
  <2>1. RankOf(a, u[i].id) \in Nat /\ RankOf(b, u[i].id) \in Nat
    BY RankFacts
  <2>2. Term(wa, RankOf(a, u[i].id)) \in Nat /\ Term(wb, RankOf(b, u[i].id)) \in Nat
    BY <2>1, TermFacts
  <2> QED BY <2>2 DEF FusedScore
<1>4. N \in Nat
  BY <1>1
<1> HIDE DEF u, r, score, N
<1>5. \A i \in 1..N : \A j : j \in below[i] <=>
        j \in 1..N /\ (score(j) > score(i) \/ (score(j) = score(i) /\ j < i))
  OBVIOUS
<1>6. below \in [1..N -> SUBSET (1..N)] /\ \A i \in 1..N : below[i] = before(i)
  OBVIOUS
<1> HIDE DEF before, below
<1>7. \A i \in 1..N : i \notin below[i]
  BY <1>3, <1>4, <1>5
<1>8. \A i, j \in 1..N : i # j => \/ i \in below[j] /\ below[i] \subseteq below[j]
                                  \/ j \in below[i] /\ below[j] \subseteq below[i]
  <2>1. \A i, j \in 1..N : i # j => i \in below[j] \/ j \in below[i]
    BY <1>3, <1>4, <1>5
  <2>2. ASSUME NEW i \in 1..N, NEW j \in 1..N, i \in below[j], NEW k \in below[i]
        PROVE  k \in below[j]
    BY <1>3, <1>4, <1>5, <2>2
  <2> QED BY <2>1, <2>2
<1>9. \A n \in 1..N : nth(n) \in 1..N /\ 1 + Cardinality(below[nth(n)]) = n
  <2>1. \A n \in 1..N : \E i \in 1..N : 1 + Cardinality(below[i]) = n
    BY <1>4, <1>6, <1>7, <1>8, Places
  <2> QED BY <1>6, <2>1
<1> HIDE DEF nth
<1>10. /\ at \in [1..N -> 1..N]
       /\ \A n \in 1..N : at[n] = nth(n) /\ 1 + Cardinality(below[at[n]]) = n
  BY <1>9
<1> HIDE DEF at
<1>11. /\ r \in Seq(V) /\ Len(r) = N /\ \A n \in 1..N : at[n] \in 1..N /\ r[n] = u[at[n]]
  <2>1. \A n \in 1..N : u[nth(n)] \in V
    BY <1>1, <1>9 DEF N
  <2>2. r \in Seq(V) /\ Len(r) = N
    BY <1>2, <1>4, <2>1
  <2> QED BY <1>2, <1>10, <2>2
<1>12. /\ \A i \in 1..N : \E n \in 1..N : at[n] = i
       /\ \A m, n \in 1..N : m < n => at[m] \in below[at[n]]
  BY <1>4, <1>6, <1>7, <1>8, <1>10, Places
<1>13. DistinctIds(r)
  <2>1. \A m, n \in 1..N : m < n => at[m] # at[n]
    BY <1>7, <1>11, <1>12
  <2>2. \A m, n \in 1..N : m # n => m < n \/ n < m
    BY <1>4
  <2>3. \A m, n \in 1..N : at[m] = at[n] => m = n
    BY <2>1, <2>2
  <2> SUFFICES ASSUME NEW m \in 1..N, NEW n \in 1..N, r[m].id = r[n].id
               PROVE  m = n
    BY <1>11 DEF DistinctIds
  <2>4. at[m] \in 1..N /\ at[n] \in 1..N /\ u[at[m]].id = u[at[n]].id
    BY <1>11
  <2>5. at[m] = at[n]
    BY <1>1, <2>4 DEF DistinctIds, N
  <2> QED BY <2>3, <2>5
<1>14. ASSUME NEW s \in {a, b}, IdsOf(a) \cap IdsOf(b) = {} PROVE KeepsOrder(s, r)
  <2> SUFFICES ASSUME NEW m \in 1..Len(r), NEW n \in 1..Len(r), NEW i \in 1..Len(s),
                      NEW j \in 1..Len(s), r[m] = s[i], r[n] = s[j], i < j
               PROVE  m < n
    BY DEF KeepsOrder
  <2>1. s \in Seq(V) /\ DistinctIds(s) /\ KeepsOrder(s, u) /\ Len(s) \in Nat
    BY <1>1, <1>14
  <2>2. /\ at[m] \in 1..N /\ at[n] \in 1..N /\ u[at[m]] = s[i] /\ u[at[n]] = s[j]
    BY <1>11
  <2>3. at[m] < at[n]
    BY <2>1, <2>2 DEF KeepsOrder, N
  <2>4. score(at[n]) <= score(at[m])
    <3>1. score(at[m]) = FusedScore(a, b, wa, wb, s[i].id) /\ score(at[n]) = FusedScore(a, b, wa, wb, s[j].id)
      BY <2>2 DEF score
    <3>2. i \in Nat \ {0} /\ j \in Nat \ {0}
      BY <2>1
    <3>3. CASE s = a
      <4>1. RankOf(a, s[i].id) = i /\ RankOf(a, s[j].id) = j
        BY <3>3, RankFacts
      <4>2. s[i].id \notin IdsOf(b) /\ s[j].id \notin IdsOf(b)
        BY <1>14, <3>3 DEF IdsOf
      <4>3. RankOf(b, s[i].id) = 0 /\ RankOf(b, s[j].id) = 0
        BY <4>2, RankFacts
      <4>4. /\ score(at[m]) = Term(wa, i) + Term(wb, 0)
            /\ score(at[n]) = Term(wa, j) + Term(wb, 0)
        BY <3>1, <4>1, <4>3 DEF FusedScore
      <4>5. /\ Term(wa, i) \in Nat /\ Term(wa, j) \in Nat /\ Term(wb, 0) = 0
            /\ Term(wa, j) <= Term(wa, i)
        BY <3>2, TermFacts
      <4> QED BY <4>4, <4>5
    <3>4. CASE s = b
      <4>1. RankOf(b, s[i].id) = i /\ RankOf(b, s[j].id) = j
        BY <3>4, RankFacts
      <4>2. s[i].id \notin IdsOf(a) /\ s[j].id \notin IdsOf(a)
        BY <1>14, <3>4 DEF IdsOf
      <4>3. RankOf(a, s[i].id) = 0 /\ RankOf(a, s[j].id) = 0
        BY <4>2, RankFacts
      <4>4. /\ score(at[m]) = Term(wa, 0) + Term(wb, i)
            /\ score(at[n]) = Term(wa, 0) + Term(wb, j)
        BY <3>1, <4>1, <4>3 DEF FusedScore
      <4>5. /\ Term(wb, i) \in Nat /\ Term(wb, j) \in Nat /\ Term(wa, 0) = 0
            /\ Term(wb, j) <= Term(wb, i)
        BY <3>2, TermFacts
      <4> QED BY <4>4, <4>5
    <3> QED BY <3>3, <3>4
  <2>5. at[n] \notin below[at[m]]
    <3>1. score(at[m]) \in Nat /\ score(at[n]) \in Nat
      BY <1>3
    <3>2. at[n] \in below[at[m]] =>
            score(at[n]) > score(at[m]) \/ (score(at[n]) = score(at[m]) /\ at[n] < at[m])
      BY <1>5, <2>2
    <3> QED BY <1>4, <2>2, <2>3, <2>4, <3>1, <3>2
  <2>6. m # n
    BY <1>4, <2>2, <2>3
  <2>7. m \in 1..N /\ n \in 1..N /\ (n < m => at[n] \in below[at[m]])
    BY <1>11, <1>12
  <2> QED BY <1>4, <2>5, <2>6, <2>7
<1>15. /\ \A n \in 1..Len(r) : \/ \E i \in 1..Len(a) : r[n] = a[i]
                               \/ \E i \in 1..Len(b) : r[n] = b[i]
       /\ \A i \in 1..Len(a) : \E n \in 1..Len(r) : r[n] = a[i]
       /\ \A i \in 1..Len(b) : b[i].id \notin IdsOf(a) => \E n \in 1..Len(r) : r[n] = b[i]
  <2>1. \A i \in 1..N : \E n \in 1..N : r[n] = u[i]
    <3> SUFFICES ASSUME NEW i \in 1..N PROVE \E n \in 1..N : r[n] = u[i]
      OBVIOUS
    <3>1. PICK n \in 1..N : at[n] = i
      BY <1>12
    <3> QED BY <1>11, <3>1
  <2>2. 1..Len(r) = 1..N
    BY <1>11
  <2>3. \A n \in 1..N : \/ \E i \in 1..Len(a) : r[n] = a[i]
                        \/ \E i \in 1..Len(b) : r[n] = b[i]
    <3> SUFFICES ASSUME NEW n \in 1..N
                 PROVE  \/ \E i \in 1..Len(a) : r[n] = a[i]
                        \/ \E i \in 1..Len(b) : r[n] = b[i]
      OBVIOUS
    <3>1. at[n] \in 1..Len(u) /\ r[n] = u[at[n]]
      BY <1>11 DEF N
    <3> QED BY <1>1, <3>1
  <2>4. ASSUME NEW x, \E k \in 1..Len(u) : u[k] = x PROVE \E n \in 1..N : r[n] = x
    BY <2>1, <2>4 DEF N
  <2>5. \A i \in 1..Len(a) : \E n \in 1..N : r[n] = a[i]
    BY <1>1, <2>4
  <2>6. \A i \in 1..Len(b) : b[i].id \notin IdsOf(a) => \E n \in 1..N : r[n] = b[i]
    BY <1>1, <2>4
  <2> QED BY <2>2, <2>3, <2>5, <2>6
<1> QED BY <1>11, <1>13, <1>14, <1>15 DEF r, Merges

\* A list without repetition is no longer than a set that holds its ids.
LEMMA FitsIn ==
  ASSUME NEW V, NEW s \in Seq(V), DistinctIds(s),
         NEW B, IsFiniteSet(B), \A i \in 1..Len(s) : s[i].id \in B
  PROVE  Len(s) <= Cardinality(B)
<1> DEFINE f == [i \in 1..Len(s) |-> s[i].id]
<1>1. Len(s) \in Nat
  OBVIOUS
<1>2. Cardinality(1..Len(s)) = Len(s)
  <2>1. Cardinality(1..Len(s)) = IF 1 > Len(s) THEN 0 ELSE Len(s) - 1 + 1
    BY <1>1, FS_Interval
  <2> QED BY <1>1, <2>1
<1>3. f \in Injection(1..Len(s), B)
  <2>1. f \in [1..Len(s) -> B]
    OBVIOUS
  <2>2. \A i, j \in DOMAIN f : f[i] = f[j] => i = j
    BY DEF DistinctIds
  <2> QED BY <2>1, <2>2 DEF Injection, IsInjective
<1> HIDE DEF f
<1>4. Cardinality(1..Len(s)) <= Cardinality(B)
  BY <1>3, FS_Injection
<1> QED BY <1>2, <1>4

\* A list whose ids are those is not cut at the limit.
RoomFor(ids, limit) == IsFiniteSet(ids) /\ Cardinality(ids) <= limit

\* r is the floor and then elements of s, or all of them.
Leads(floor, s, r) ==
    /\ Len(floor) <= Len(r) /\ \A n \in 1..Len(floor) : r[n] = floor[n]
    /\ \A n \in 1..Len(r) : n > Len(floor) => \E i \in 1..Len(s) : r[n] = s[i]
HoldsRest(floor, s, r) ==
    \A i \in 1..Len(s) : s[i].id \notin IdsOf(floor) => \E n \in 1..Len(r) : r[n] = s[i]

\* FloorFirst puts the whole floor first, then elements that are not in it,
\* and cuts nothing if the limit is no less than the number of ids there are.
LEMMA FloorFirstFacts ==
  ASSUME NEW V, NEW floor \in Seq(V), NEW s \in Seq(V), DistinctIds(floor), DistinctIds(s),
         NEW limit \in Nat
  PROVE  LET r == FloorFirst(floor, s, limit) IN
         /\ r \in Seq(V) /\ DistinctIds(r) /\ Leads(floor, s, r)
         /\ RoomFor(IdsOf(floor) \cup IdsOf(s), limit) => HoldsRest(floor, s, r)
<1> DEFINE t == Without(s, IdsOf(floor))
           room == IF limit > Len(floor) THEN limit - Len(floor) ELSE 0
           k == IF Len(t) < room THEN Len(t) ELSE room
           r == FloorFirst(floor, s, limit)
<1>1. /\ t \in Seq(V) /\ DistinctIds(t)
      /\ \A n \in 1..Len(t) : \E i \in 1..Len(s) : t[n] = s[i] /\ s[i].id \notin IdsOf(floor)
      /\ \A i \in 1..Len(s) : s[i].id \notin IdsOf(floor) => \E n \in 1..Len(t) : t[n] = s[i]
  BY WithoutFacts
<1>2. r = floor \o SubSeq(t, 1, k)
  BY DEF FloorFirst, Prefix
<1> HIDE DEF t, r
<1>3. Len(floor) \in Nat /\ Len(t) \in Nat /\ room \in Nat /\ k \in 0..Len(t)
  BY <1>1
<1> HIDE DEF k
<1>4. /\ SubSeq(t, 1, k) \in Seq(V) /\ Len(SubSeq(t, 1, k)) = k
      /\ \A n \in 1..k : SubSeq(t, 1, k)[n] = t[n]
  BY <1>1, <1>3
<1>5. \A n \in 1..Len(t) : t[n].id \notin IdsOf(floor)
  BY <1>1
<1>6. DistinctIds(SubSeq(t, 1, k)) /\ \A n \in 1..k : SubSeq(t, 1, k)[n].id \notin IdsOf(floor)
  <2>1. \A n \in 1..k : n \in 1..Len(t)
    BY <1>3
  <2> DEFINE q == SubSeq(t, 1, k)
  <2>2. Len(q) = k /\ \A n \in 1..k : q[n] = t[n]
    BY <1>4
  <2> HIDE DEF q
  <2>3. DistinctIds(q)
    BY <1>1, <2>1, <2>2 DEF DistinctIds
  <2>4. \A n \in 1..k : q[n].id \notin IdsOf(floor)
    BY <1>5, <2>1, <2>2
  <2> QED BY <2>3, <2>4 DEF q
<1>7. /\ r \in Seq(V) /\ Len(r) = Len(floor) + k /\ DistinctIds(r)
      /\ \A n \in 1..Len(floor) : r[n] = floor[n]
      /\ \A n \in 1..k : r[Len(floor) + n] = t[n]
      /\ \A n \in 1..Len(r) : \/ n \in 1..Len(floor)
                              \/ n - Len(floor) \in 1..k /\ r[n] = t[n - Len(floor)]
  <2> DEFINE q == SubSeq(t, 1, k)
  <2>1. q \in Seq(V) /\ DistinctIds(q) /\ r = floor \o q
        /\ \A n \in 1..Len(q) : q[n].id \notin IdsOf(floor)
    BY <1>2, <1>4, <1>6
  <2>2. Len(q) = k /\ \A n \in 1..k : q[n] = t[n]
    BY <1>4
  <2> HIDE DEF q
  <2>3. /\ r \in Seq(V) /\ Len(r) = Len(floor) + Len(q) /\ DistinctIds(r)
        /\ \A n \in 1..Len(floor) : r[n] = floor[n]
        /\ \A n \in 1..Len(q) : r[Len(floor) + n] = q[n]
        /\ \A n \in 1..Len(r) : \/ n \in 1..Len(floor)
                                \/ n - Len(floor) \in 1..Len(q) /\ r[n] = q[n - Len(floor)]
    <3>1. r \in Seq(V) /\ Joined(floor, q, r)
      BY <2>1, JoinFacts DEF Apart
    <3> QED BY <3>1 DEF Joined
  <2> QED BY <2>2, <2>3
<1>8. ASSUME NEW n \in 1..Len(r), n > Len(floor) PROVE \E i \in 1..Len(s) : r[n] = s[i]
  <2>1. n - Len(floor) \in 1..Len(t) /\ r[n] = t[n - Len(floor)]
    BY <1>3, <1>7, <1>8
  <2> QED BY <1>1, <2>1
<1>9. ASSUME RoomFor(IdsOf(floor) \cup IdsOf(s), limit),
             NEW i \in 1..Len(s), s[i].id \notin IdsOf(floor)
      PROVE  \E n \in 1..Len(r) : r[n] = s[i]
  <2> DEFINE B == IdsOf(floor) \cup IdsOf(s)
  <2>0. /\ IsFiniteSet(B) /\ Cardinality(B) <= limit
        /\ \A j \in 1..Len(floor) : floor[j].id \in B
        /\ \A j \in 1..Len(s) : s[j].id \in B
    BY <1>9 DEF RoomFor, IdsOf
  <2> HIDE DEF B
  <2>1. Len(floor) + Len(t) <= limit
    <3> DEFINE x == floor \o t
    <3>1. /\ x \in Seq(V) /\ Len(x) = Len(floor) + Len(t) /\ DistinctIds(x)
          /\ \A n \in 1..Len(floor) : x[n] = floor[n]
          /\ \A n \in 1..Len(x) : \/ n \in 1..Len(floor)
                                  \/ n - Len(floor) \in 1..Len(t) /\ x[n] = t[n - Len(floor)]
      <4>1. x \in Seq(V) /\ Joined(floor, t, x)
        <5>1. Apart(floor, t)
          BY <1>5 DEF Apart
        <5> QED BY <1>1, <5>1, JoinFacts
      <4> QED BY <4>1 DEF Joined
    <3> HIDE DEF x
    <3>2. ASSUME NEW n \in 1..Len(x) PROVE x[n].id \in B
      <4>1. CASE n \in 1..Len(floor)
        BY <2>0, <3>1, <4>1
      <4>2. CASE n - Len(floor) \in 1..Len(t) /\ x[n] = t[n - Len(floor)]
        <5>1. PICK m \in 1..Len(s) : t[n - Len(floor)] = s[m]
          BY <1>1, <4>2
        <5> QED BY <2>0, <4>2, <5>1
      <4> QED BY <3>1, <4>1, <4>2
    <3>3. Len(x) <= Cardinality(B)
      BY <2>0, <3>1, <3>2, FitsIn
    <3>4. Cardinality(B) \in Nat
      BY <2>0, FS_CardinalityType
    <3> QED BY <1>3, <2>0, <3>1, <3>3, <3>4
  <2>2. k = Len(t)
    BY <1>3, <2>1 DEF k
  <2>3. PICK n \in 1..Len(t) : t[n] = s[i]
    BY <1>1, <1>9
  <2>4. Len(floor) + n \in 1..Len(r) /\ r[Len(floor) + n] = s[i]
    BY <1>3, <1>7, <2>2, <2>3
  <2> QED BY <2>4
<1> QED BY <1>3, <1>7, <1>8, <1>9 DEF r, Leads, HoldsRest

\* Every element of r is in s; every floor member of s is in r.
AllIn(r, s) == \A n \in 1..Len(r) : \E i \in 1..Len(s) : r[n] = s[i]
FloorIn(s, r) == \A i \in 1..Len(s) : s[i].floor => \E n \in 1..Len(r) : r[n] = s[i]

\* _protect_floor returns elements of its list, every floor member among them,
\* and all of them if the limit is no less than the number of ids there are.
LEMMA ProtectFacts ==
  ASSUME NEW V, NEW s \in Seq(V), DistinctIds(s), NEW limit \in Nat
  PROVE  LET r == _protect_floor(s, limit) IN
         /\ r \in Seq(V) /\ DistinctIds(r)
         /\ AllIn(r, s) /\ FloorIn(s, r)
         /\ RoomFor(IdsOf(s), limit) => AllIn(s, r)
<1> DEFINE P == {i \in 1..Len(s) : s[i].floor}
           f == Subsequence(s, P)
           r == _protect_floor(s, limit)
<1>1. r = FloorFirst(f, s, limit)
  BY DEF _protect_floor
<1>2. P \in SUBSET (1..Len(s)) /\ \A i \in 1..Len(s) : s[i].floor => i \in P
  OBVIOUS
<1> HIDE DEF P
<1>3. /\ f \in Seq(V) /\ DistinctIds(f)
      /\ \A n \in 1..Len(f) : \E i \in P : f[n] = s[i]
      /\ \A i \in P : \E n \in 1..Len(f) : f[n] = s[i]
  BY <1>2, SubsequenceKeeps
<1> HIDE DEF f, r
<1>4. /\ r \in Seq(V) /\ DistinctIds(r) /\ Len(f) <= Len(r)
      /\ \A n \in 1..Len(f) : r[n] = f[n]
      /\ \A n \in 1..Len(r) : n > Len(f) => \E i \in 1..Len(s) : r[n] = s[i]
  <2>1. r \in Seq(V) /\ DistinctIds(r) /\ Leads(f, s, r)
    BY <1>1, <1>3, FloorFirstFacts
  <2> QED BY <2>1 DEF Leads
<1>5. Len(f) \in Nat /\ Len(r) \in Nat
  BY <1>3, <1>4
<1>6. ASSUME NEW n \in 1..Len(r) PROVE \E i \in 1..Len(s) : r[n] = s[i]
  <2>1. CASE n > Len(f)
    BY <1>4, <2>1
  <2>2. CASE n \in 1..Len(f)
    BY <1>2, <1>3, <1>4, <2>2
  <2> QED BY <1>5, <2>1, <2>2
<1>7. ASSUME NEW i \in 1..Len(s), \E n \in 1..Len(f) : f[n] = s[i]
      PROVE  \E n \in 1..Len(r) : r[n] = s[i]
  <2>1. PICK n \in 1..Len(f) : f[n] = s[i]
    BY <1>7
  <2>2. n \in 1..Len(r) /\ r[n] = s[i]
    BY <1>4, <1>5, <2>1
  <2> QED BY <2>2
<1>8. \A i \in 1..Len(s) : s[i].floor => \E n \in 1..Len(r) : r[n] = s[i]
  BY <1>2, <1>3, <1>7
<1>9. ASSUME RoomFor(IdsOf(s), limit), NEW i \in 1..Len(s)
      PROVE  \E n \in 1..Len(r) : r[n] = s[i]
  <2>1. CASE s[i].id \in IdsOf(f)
    <3>1. PICK n \in 1..Len(f) : f[n].id = s[i].id
      BY <2>1 DEF IdsOf
    <3>2. PICK j \in 1..Len(s) : f[n] = s[j]
      BY <1>2, <1>3
    <3>3. j = i
      BY <3>1, <3>2 DEF DistinctIds
    <3> QED BY <1>7, <3>2, <3>3
  <2>2. CASE s[i].id \notin IdsOf(f)
    <3>1. IdsOf(f) \cup IdsOf(s) = IdsOf(s)
      <4>1. \A n \in 1..Len(f) : f[n].id \in IdsOf(s)
        BY <1>2, <1>3 DEF IdsOf
      <4> QED BY <4>1 DEF IdsOf
    <3>2. \A k \in 1..Len(s) : s[k].id \notin IdsOf(f) => \E n \in 1..Len(r) : r[n] = s[k]
      <4>1. HoldsRest(f, s, r)
        BY <1>1, <1>3, <1>9, <3>1, FloorFirstFacts
      <4> QED BY <4>1 DEF HoldsRest
    <3> QED BY <2>2, <3>2
  <2> QED BY <2>1, <2>2
<1> QED BY <1>4, <1>6, <1>8, <1>9 DEF r, AllIn, FloorIn

\* What the service returns of a ranked list: deduplicated, then protected.
Returned(s, limit) == _protect_floor(dedup_by_content_hash(s), limit)

\* Whatever the limit, no body is returned twice, and the body of a floor member
\* is returned unless an element before it that is not in the floor has it.
LEMMA ReturnedFacts ==
  ASSUME NEW V, NEW s \in Seq(V), DistinctIds(s), NEW limit \in Nat
  PROVE  LET r == Returned(s, limit) IN
         /\ r \in Seq(V) /\ Cardinality(HashesOf(r)) = Len(r) /\ AllIn(r, s)
         /\ \A i \in 1..Len(s) : s[i].floor =>
              \/ s[i].hash \in HashesOf(r)
              \/ \E j \in 1..Len(s) : j < i /\ ~s[j].floor /\ s[j].hash = s[i].hash
         /\ RoomFor(IdsOf(s), limit) => HashesOf(s) \subseteq HashesOf(r)
<1> DEFINE d == dedup_by_content_hash(s)
           r == Returned(s, limit)
<1>1. r = _protect_floor(d, limit)
  BY DEF Returned
<1>2. /\ d \in Seq(V) /\ DistinctIds(d) /\ HashesOf(d) = HashesOf(s)
      /\ \A m, n \in 1..Len(d) : d[m].hash = d[n].hash => m = n
      /\ \A n \in 1..Len(d) : \E i \in 1..Len(s) :
           d[n] = s[i] /\ \A j \in 1..Len(s) : s[j].hash = d[n].hash => i <= j
  BY DedupFacts
<1> HIDE DEF d, r
<1>3. /\ r \in Seq(V) /\ DistinctIds(r)
      /\ \A n \in 1..Len(r) : \E i \in 1..Len(d) : r[n] = d[i]
      /\ \A i \in 1..Len(d) : d[i].floor => \E n \in 1..Len(r) : r[n] = d[i]
  <2>1. r \in Seq(V) /\ DistinctIds(r) /\ AllIn(r, d) /\ FloorIn(d, r)
    BY <1>1, <1>2, ProtectFacts
  <2> QED BY <2>1 DEF AllIn, FloorIn
<1>4. AllIn(r, s)
  BY <1>2, <1>3 DEF AllIn
<1>5. Cardinality(HashesOf(r)) = Len(r)
  <2> DEFINE N == Len(r)
             f == [n \in 1..N |-> r[n].hash]
  <2>1. N \in Nat
    BY <1>3
  <2>2. ASSUME NEW m \in 1..N, NEW n \in 1..N, r[m].hash = r[n].hash PROVE m = n
    <3>1. PICK i \in 1..Len(d) : r[m] = d[i]
      BY <1>3
    <3>2. PICK j \in 1..Len(d) : r[n] = d[j]
      BY <1>3
    <3>3. i = j
      BY <1>2, <2>2, <3>1, <3>2
    <3>4. r[m].id = r[n].id
      BY <3>1, <3>2, <3>3
    <3> QED BY <1>3, <3>4 DEF DistinctIds
  <2>3. HashesOf(r) = {r[n].hash : n \in 1..N}
    BY DEF HashesOf
  <2> HIDE DEF N
  <2>4. f \in [1..N -> HashesOf(r)] /\ \A i, j \in DOMAIN f : f[i] = f[j] => i = j
    BY <2>2, <2>3
  <2>5. \A h \in HashesOf(r) : \E n \in DOMAIN f : f[n] = h
    BY <2>3
  <2> HIDE DEF f
  <2>6. f \in Surjection(1..N, HashesOf(r)) /\ f \in Injection(1..N, HashesOf(r))
    BY <2>4, <2>5 DEF Surjection, Injection, IsInjective
  <2>7. IsFiniteSet(1..N) /\ Cardinality(1..N) = N
    <3>1. /\ IsFiniteSet(1..N)
          /\ Cardinality(1..N) = IF 1 > N THEN 0 ELSE N - 1 + 1
      BY <2>1, FS_Interval
    <3> QED BY <2>1, <3>1
  <2>8. Cardinality(HashesOf(r)) = Cardinality(1..N)
    BY <2>6, <2>7, FS_Surjection
  <2> QED BY <2>7, <2>8 DEF N
<1>6. ASSUME NEW i \in 1..Len(s), s[i].floor
      PROVE  \/ s[i].hash \in HashesOf(r)
             \/ \E j \in 1..Len(s) : j < i /\ ~s[j].floor /\ s[j].hash = s[i].hash
  <2>1. s[i].hash \in HashesOf(d)
    BY <1>2 DEF HashesOf
  <2>2. PICK n \in 1..Len(d) : d[n].hash = s[i].hash
    BY <2>1 DEF HashesOf
  <2>3. PICK k \in 1..Len(s) : d[n] = s[k] /\ \A j \in 1..Len(s) : s[j].hash = d[n].hash => k <= j
    BY <1>2
  <2>4. k <= i
    BY <2>2, <2>3
  <2>5. CASE d[n].floor
    <3>1. PICK m \in 1..Len(r) : r[m] = d[n]
      BY <1>3, <2>5
    <3> QED BY <2>2, <3>1 DEF HashesOf
  <2>6. CASE ~d[n].floor
    <3>1. k # i
      BY <1>6, <2>3, <2>6
    <3>2. k < i
      BY <2>4, <3>1
    <3> QED BY <2>2, <2>3, <2>6, <3>2
  <2> QED BY <2>5, <2>6
<1>7. ASSUME RoomFor(IdsOf(s), limit)
      PROVE  HashesOf(s) \subseteq HashesOf(r)
  <2>1. RoomFor(IdsOf(d), limit)
    <3>1. IdsOf(d) \subseteq IdsOf(s)
      BY <1>2 DEF IdsOf
    <3>2. IsFiniteSet(IdsOf(s)) /\ Cardinality(IdsOf(s)) <= limit
      BY <1>7 DEF RoomFor
    <3>3. IsFiniteSet(IdsOf(d)) /\ Cardinality(IdsOf(d)) <= Cardinality(IdsOf(s))
      BY <3>1, <3>2, FS_Subset
    <3>4. Cardinality(IdsOf(d)) \in Nat /\ Cardinality(IdsOf(s)) \in Nat
      BY <3>2, <3>3, FS_CardinalityType
    <3>5. Cardinality(IdsOf(d)) <= limit
      BY <3>2, <3>3, <3>4
    <3> QED BY <3>3, <3>5 DEF RoomFor
  <2>2. \A i \in 1..Len(d) : \E n \in 1..Len(r) : r[n] = d[i]
    <3>1. AllIn(d, r)
      BY <1>1, <1>2, <2>1, ProtectFacts
    <3> QED BY <3>1 DEF AllIn
  <2>3. HashesOf(d) \subseteq HashesOf(r)
    BY <2>2 DEF HashesOf
  <2> QED BY <1>2, <2>3
<1> QED BY <1>3, <1>4, <1>5, <1>6, <1>7 DEF r

-----------------------------------------------------------------------------
(* What a call carries from the tiers to its result. *)

\* The views of the memories.
Shown == {_to_view(m, f) : m \in Memory, f \in BOOLEAN}

\* The hits of a channel in plane p.
Hits(p, h) == h \in Seq(Memory) /\ DistinctIds(h) /\ \A i \in 1..Len(h) : h[i].plane = p

FloorLeads(s) == \A i, j \in 1..Len(s) : i < j /\ s[j].floor => s[i].floor

\* The ranked list of plane p.
ArmList(p, s) == /\ s \in Seq(Shown) /\ DistinctIds(s) /\ FloorLeads(s)
                 /\ \A i \in 1..Len(s) : s[i].plane = p

\* The pass had ended when the call began and no STM window has the loser.
Gone == fresh /\ Old \notin Elements(stm[Old.plane])

\* The result r of plane p, for a call that asks for everything (full), or one
\* that must not see the loser (gone).
ArmInv(p, r, full, gone) ==
    /\ r \in Result /\ ArmList(p, r.items)
    /\ p = Old.plane /\ full /\ "ltm" \in r.ran => Old.id \in IdsOf(r.items) \/ New.id \in IdsOf(r.items)
    /\ p = Old.plane /\ gone => Old.id \notin IdsOf(r.items)

\* Either side of the conflict is in the graph at every moment, and the loser is
\* nowhere but in an STM window once the pass has ended.
StoreInv ==
    /\ stm \in Stm /\ superseding \in 0..3
    /\ mtm \in [Plane -> SUBSET Memory] /\ ltm \in [Plane -> SUBSET Memory]
    /\ \A p \in Plane : \A m \in mtm[p] \cup ltm[p] : m.plane = p
    /\ superseding < 2 => Old \in ltm[Old.plane]
    /\ superseding > 0 => New \in ltm[Old.plane]
    /\ superseding > 1 => Old \notin ltm[Old.plane]
    /\ superseding > 2 => Old \notin mtm[Old.plane]
    /\ fresh => superseding = 3

HitsInv ==
    /\ arm \in Plane /\ ltmDown \in BOOLEAN /\ DOMAIN got = Channel
    /\ \A c \in Channel : got[c] # None => Hits(arm, got[c])
    /\ got["stm"] # None => \A i \in 1..Len(got["stm"]) : got["stm"][i] \in Elements(stm[arm])
    /\ got["ltm"] # None /\ arm = Old.plane /\ "ltm" \in query.channels /\ ~ltmDown
         => \E i \in 1..Len(got["ltm"]) : got["ltm"][i] \in {Old, New}
    /\ arm = Old.plane /\ fresh
         => \A c \in {"mtm", "ltm"} : got[c] # None => \A i \in 1..Len(got[c]) : got[c][i] # Old

\* Which arms have been ranked.
ArmsInv ==
    /\ DOMAIN result = Plane /\ query.limit \in Nat /\ query.channels \subseteq Channel
    /\ pc \in {"resolve", "embed", "channels"} /\ arm = "private" => \A p \in Plane : result[p] = None
    /\ pc = "resolve" => arm = "private"
    /\ pc \in {"embed", "channels"} /\ arm = "shared"
         => ArmInv("private", result["private"], Full, Gone) /\ result["shared"] = None
    /\ pc = "fuse" => \A p \in Plane : ArmInv(p, result[p], Full, Gone)

AnswerInv == StoreInv /\ HitsInv /\ ArmsInv /\ FloorIsKept /\ ConflictIsAnswered

\* An id names one memory, so a list of views that has the id of a memory has
\* its body.
LEMMA ShownFacts ==
  ASSUME NEW v \in Shown
  PROVE  /\ \E m \in Memory : v.id = m.id /\ v.hash = m.hash /\ v.plane = m.plane
         /\ v.floor \in BOOLEAN
         /\ \A m \in Memory : v.id = m.id => v.hash = m.hash /\ v.plane = m.plane
<1>1. PICK m \in Memory, f \in BOOLEAN : v = _to_view(m, f)
  BY DEF Shown
<1>2. v.id = m.id /\ v.hash = m.hash /\ v.plane = m.plane /\ v.floor = f
  BY <1>1 DEF _to_view
<1> QED BY <1>2, MemoryAssumption

\* There are no more ids than memories.
LEMMA MemoryIds ==
  LET ids == {m.id : m \in Memory} IN IsFiniteSet(ids) /\ Cardinality(ids) <= Cardinality(Memory)
<1> DEFINE ids == {m.id : m \in Memory}
           f == [m \in Memory |-> m.id]
<1>1. f \in [Memory -> ids] /\ \A x \in ids : \E m \in DOMAIN f : f[m] = x
  OBVIOUS
<1> HIDE DEF f, ids
<1>2. f \in Surjection(Memory, ids)
  BY <1>1 DEF Surjection
<1>3. IsFiniteSet(ids) /\ Cardinality(ids) <= Cardinality(Memory)
  BY <1>2, MemoryAssumption, FS_Surjection
<1> QED BY <1>3 DEF ids

\* A limit of as many as there are memories cuts nothing.
LEMMA RoomForMemories ==
  ASSUME NEW limit \in Nat, Cardinality(Memory) <= limit, NEW S \in SUBSET {m.id : m \in Memory}
  PROVE  RoomFor(S, limit)
<1> DEFINE ids == {m.id : m \in Memory}
<1>1. IsFiniteSet(ids) /\ Cardinality(ids) <= Cardinality(Memory)
  BY MemoryIds
<1>2. S \subseteq ids
  OBVIOUS
<1> HIDE DEF ids
<1>3. IsFiniteSet(S) /\ Cardinality(S) <= Cardinality(ids)
  BY <1>1, <1>2, FS_Subset
<1>4. Cardinality(S) \in Nat /\ Cardinality(ids) \in Nat /\ Cardinality(Memory) \in Nat
  BY <1>1, <1>3, MemoryAssumption, FS_CardinalityType
<1>5. Cardinality(S) <= limit
  BY <1>1, <1>3, <1>4
<1> QED BY <1>3, <1>5 DEF RoomFor

\* A list has no more ids than elements.
LEMMA RoomForIds ==
  ASSUME NEW V, NEW s \in Seq(V), NEW limit \in Nat, Len(s) <= limit
  PROVE  RoomFor(IdsOf(s), limit)
<1> DEFINE N == Len(s)
           f == [i \in 1..N |-> s[i].id]
<1>1. N \in Nat /\ N <= limit
  OBVIOUS
<1>2. IdsOf(s) = {s[i].id : i \in 1..N}
  BY DEF IdsOf
<1> HIDE DEF N
<1>3. f \in [1..N -> IdsOf(s)] /\ \A x \in IdsOf(s) : \E i \in DOMAIN f : f[i] = x
  BY <1>2
<1> HIDE DEF f
<1>4. f \in Surjection(1..N, IdsOf(s))
  BY <1>3 DEF Surjection
<1>5. IsFiniteSet(1..N) /\ Cardinality(1..N) = N
  <2>1. IsFiniteSet(1..N) /\ Cardinality(1..N) = IF 1 > N THEN 0 ELSE N - 1 + 1
    BY <1>1, FS_Interval
  <2> QED BY <1>1, <2>1
<1>6. IsFiniteSet(IdsOf(s)) /\ Cardinality(IdsOf(s)) <= N
  BY <1>4, <1>5, FS_Surjection
<1>7. Cardinality(IdsOf(s)) \in Nat
  BY <1>6, FS_CardinalityType
<1>8. Cardinality(IdsOf(s)) <= limit
  BY <1>1, <1>6, <1>7
<1> QED BY <1>6, <1>8 DEF RoomFor

\* The views of a list of memories.
LEMMA ViewsFacts ==
  ASSUME NEW h \in Seq(Memory), DistinctIds(h), NEW b \in BOOLEAN
  PROVE  LET s == Views(h, b) IN
         /\ s \in Seq(Shown) /\ Len(s) = Len(h) /\ DistinctIds(s) /\ IdsOf(s) = IdsOf(h)
         /\ \A i \in 1..Len(s) : s[i].id = h[i].id /\ s[i].plane = h[i].plane /\ s[i].floor = b
<1> DEFINE s == Views(h, b)
<1>1. Len(h) \in Nat /\ \A i \in 1..Len(h) : h[i] \in Memory
  OBVIOUS
<1>2. s \in Seq(Shown) /\ Len(s) = Len(h)
  <2>1. \A i \in 1..Len(h) : _to_view(h[i], b) \in Shown
    BY <1>1 DEF Shown
  <2> QED BY <1>1, <2>1 DEF Views
<1>3. \A i \in 1..Len(h) : s[i] = _to_view(h[i], b)
  BY DEF Views
<1> HIDE DEF s
<1>4. \A i \in 1..Len(s) : s[i].id = h[i].id /\ s[i].plane = h[i].plane /\ s[i].floor = b
  <2>1. ASSUME NEW i \in 1..Len(s)
        PROVE  s[i].id = h[i].id /\ s[i].plane = h[i].plane /\ s[i].floor = b
    <3>1. s[i] = _to_view(h[i], b)
      BY <1>2, <1>3
    <3>2. _to_view(h[i], b).id = h[i].id /\ _to_view(h[i], b).plane = h[i].plane
      BY DEF _to_view
    <3>3. _to_view(h[i], b).floor = b
      BY DEF _to_view
    <3> QED BY <3>1, <3>2, <3>3
  <2> QED BY <2>1
<1>5. DistinctIds(s)
  BY <1>2, <1>4 DEF DistinctIds
<1>6. IdsOf(s) = IdsOf(h)
  BY <1>2, <1>4 DEF IdsOf
<1> QED BY <1>2, <1>4, <1>5, <1>6 DEF s

\* What the ranker makes of the hits of its channels: a list of the plane that
\* the floor leads, with nothing but hits, and with every graph hit when the
\* limit is no less than the number of memories.
LEMMA RankedFacts ==
  ASSUME NEW p \in Plane, NEW st, NEW mt, NEW lt, Hits(p, st), Hits(p, mt), Hits(p, lt),
         NEW wm \in Nat, NEW wl \in Nat, NEW limit \in Nat
  PROVE  LET r == FloorFirst(Views(st, TRUE),
                             Views(reciprocal_rank_fusion(mt, lt, wm, wl), FALSE), limit)
         IN  /\ ArmList(p, r)
             /\ IdsOf(r) \subseteq IdsOf(st) \cup IdsOf(mt) \cup IdsOf(lt)
             /\ Cardinality(Memory) <= limit => IdsOf(lt) \subseteq IdsOf(r)
<1> DEFINE u == reciprocal_rank_fusion(mt, lt, wm, wl)
           f == Views(st, TRUE)
           s == Views(u, FALSE)
           r == FloorFirst(f, s, limit)
<1>1. /\ st \in Seq(Memory) /\ DistinctIds(st) /\ \A i \in 1..Len(st) : st[i].plane = p
      /\ mt \in Seq(Memory) /\ DistinctIds(mt) /\ \A i \in 1..Len(mt) : mt[i].plane = p
      /\ lt \in Seq(Memory) /\ DistinctIds(lt) /\ \A i \in 1..Len(lt) : lt[i].plane = p
  BY DEF Hits
<1>2. u \in Seq(Memory) /\ DistinctIds(u) /\ Merges(mt, lt, u)
  BY <1>1, FusionFacts
<1> HIDE DEF u
<1>3. \A n \in 1..Len(u) : u[n].plane = p
  <2>1. ASSUME NEW n \in 1..Len(u) PROVE u[n].plane = p
    <3>1. \/ \E i \in 1..Len(mt) : u[n] = mt[i]
          \/ \E i \in 1..Len(lt) : u[n] = lt[i]
      BY <1>2 DEF Merges
    <3> QED BY <1>1, <3>1
  <2> QED BY <2>1
<1>4. /\ f \in Seq(Shown) /\ Len(f) = Len(st) /\ DistinctIds(f) /\ IdsOf(f) = IdsOf(st)
      /\ \A i \in 1..Len(f) : f[i].id = st[i].id /\ f[i].plane = st[i].plane /\ f[i].floor = TRUE
  BY <1>1, ViewsFacts
<1>5. /\ s \in Seq(Shown) /\ Len(s) = Len(u) /\ DistinctIds(s) /\ IdsOf(s) = IdsOf(u)
      /\ \A i \in 1..Len(s) : s[i].id = u[i].id /\ s[i].plane = u[i].plane /\ s[i].floor = FALSE
  BY <1>2, ViewsFacts
<1> HIDE DEF f, s
<1>6. /\ r \in Seq(Shown) /\ DistinctIds(r) /\ Leads(f, s, r)
      /\ RoomFor(IdsOf(f) \cup IdsOf(s), limit) => HoldsRest(f, s, r)
  BY <1>4, <1>5, FloorFirstFacts
<1> HIDE DEF r
<1>7. Len(f) \in Nat /\ Len(r) \in Nat
  BY <1>4, <1>6
<1>8. ASSUME NEW n \in 1..Len(r)
      PROVE  \/ n \in 1..Len(f) /\ r[n] = f[n]
             \/ n > Len(f) /\ \E i \in 1..Len(s) : r[n] = s[i]
  <2>1. CASE n <= Len(f)
    BY <1>6, <1>7, <2>1 DEF Leads
  <2>2. CASE n > Len(f)
    BY <1>6, <2>2 DEF Leads
  <2> QED BY <1>7, <2>1, <2>2
<1>9. \A n \in 1..Len(r) : r[n].plane = p
  <2>1. ASSUME NEW n \in 1..Len(r) PROVE r[n].plane = p
    <3>1. CASE n \in 1..Len(f) /\ r[n] = f[n]
      BY <1>1, <1>4, <3>1
    <3>2. CASE \E i \in 1..Len(s) : r[n] = s[i]
      BY <1>3, <1>5, <3>2
    <3> QED BY <1>8, <3>1, <3>2
  <2> QED BY <2>1
<1>10. FloorLeads(r)
  <2> SUFFICES ASSUME NEW i \in 1..Len(r), NEW j \in 1..Len(r), i < j, r[j].floor
               PROVE  r[i].floor
    BY DEF FloorLeads
  <2>1. j \in 1..Len(f)
    BY <1>5, <1>8
  <2>2. i \in 1..Len(f)
    BY <1>7, <2>1
  <2>3. r[i] = f[i]
    BY <1>6, <2>2 DEF Leads
  <2> QED BY <1>4, <2>2, <2>3
<1>11. IdsOf(u) \subseteq IdsOf(mt) \cup IdsOf(lt)
  <2> SUFFICES ASSUME NEW n \in 1..Len(u) PROVE u[n].id \in IdsOf(mt) \cup IdsOf(lt)
    BY DEF IdsOf
  <2>1. \/ \E i \in 1..Len(mt) : u[n] = mt[i]
        \/ \E i \in 1..Len(lt) : u[n] = lt[i]
    BY <1>2 DEF Merges
  <2> QED BY <2>1 DEF IdsOf
<1>12. IdsOf(r) \subseteq IdsOf(f) \cup IdsOf(s)
  BY <1>8 DEF IdsOf
<1>13. IdsOf(f) \subseteq IdsOf(r)
  <2>1. \A n \in 1..Len(f) : n \in 1..Len(r) /\ r[n] = f[n]
    BY <1>6, <1>7 DEF Leads
  <2> QED BY <2>1 DEF IdsOf
<1>14. IdsOf(lt) \subseteq IdsOf(u)
  <2> SUFFICES ASSUME NEW i \in 1..Len(lt) PROVE lt[i].id \in IdsOf(u)
    BY DEF IdsOf
  <2>1. CASE lt[i].id \in IdsOf(mt)
    <3>1. PICK k \in 1..Len(mt) : mt[k].id = lt[i].id
      BY <2>1 DEF IdsOf
    <3>2. PICK n \in 1..Len(u) : u[n] = mt[k]
      BY <1>2 DEF Merges
    <3> QED BY <3>1, <3>2 DEF IdsOf
  <2>2. CASE lt[i].id \notin IdsOf(mt)
    <3>1. PICK n \in 1..Len(u) : u[n] = lt[i]
      BY <1>2, <2>2 DEF Merges
    <3> QED BY <3>1 DEF IdsOf
  <2> QED BY <2>1, <2>2
<1>15. ASSUME Cardinality(Memory) <= limit PROVE IdsOf(lt) \subseteq IdsOf(r)
  <2>1. \A i \in 1..Len(f) : f[i].id \in {m.id : m \in Memory}
    BY <1>1, <1>4
  <2>2. \A i \in 1..Len(s) : s[i].id \in {m.id : m \in Memory}
    BY <1>2, <1>5
  <2>3. IdsOf(f) \cup IdsOf(s) \in SUBSET {m.id : m \in Memory}
    BY <2>1, <2>2 DEF IdsOf
  <2>4. HoldsRest(f, s, r)
    <3>1. RoomFor(IdsOf(f) \cup IdsOf(s), limit)
      BY <1>15, <2>3, RoomForMemories
    <3> QED BY <1>6, <3>1
  <2>5. IdsOf(s) \subseteq IdsOf(f) \cup IdsOf(r)
    BY <2>4 DEF HoldsRest, IdsOf
  <2> QED BY <1>5, <1>13, <1>14, <2>5
<1> QED BY <1>4, <1>5, <1>6, <1>9, <1>10, <1>11, <1>12, <1>15 DEF ArmList, r, f, s, u

\* In a list that the floor leads, no element outside the floor comes before a
\* member of it, so deduplication cannot cost the floor a body.
LEMMA AloneFacts ==
  ASSUME NEW p \in Plane, NEW a, ArmList(p, a), NEW limit \in Nat
  PROVE  LET r == Returned(a, limit) IN
         /\ Cardinality(HashesOf(r)) = Len(r) /\ IdsOf(r) \subseteq IdsOf(a)
         /\ \A i \in 1..Len(a) : a[i].floor => a[i].hash \in HashesOf(r)
         /\ Len(a) <= limit => HashesOf(a) \subseteq HashesOf(r)
<1> DEFINE r == Returned(a, limit)
<1>1. a \in Seq(Shown) /\ DistinctIds(a) /\ FloorLeads(a) /\ Len(a) \in Nat
  BY DEF ArmList
<1>2. /\ Cardinality(HashesOf(r)) = Len(r) /\ AllIn(r, a)
      /\ \A i \in 1..Len(a) : a[i].floor =>
           \/ a[i].hash \in HashesOf(r)
           \/ \E j \in 1..Len(a) : j < i /\ ~a[j].floor /\ a[j].hash = a[i].hash
      /\ RoomFor(IdsOf(a), limit) => HashesOf(a) \subseteq HashesOf(r)
  BY <1>1, ReturnedFacts
<1> HIDE DEF r
<1>3. IdsOf(r) \subseteq IdsOf(a)
  BY <1>2 DEF AllIn, IdsOf
<1>4. \A i \in 1..Len(a) : a[i].floor => a[i].hash \in HashesOf(r)
  BY <1>1, <1>2 DEF FloorLeads
<1>5. Len(a) <= limit => HashesOf(a) \subseteq HashesOf(r)
  BY <1>1, <1>2, RoomForIds
<1> QED BY <1>2, <1>3, <1>4, <1>5 DEF r

\* The list s of one arm, r the fusion of it with the list o of the other arm,
\* and q what is returned.
FloorBodies(s, o, q) ==
  \A i \in 1..Len(s) : s[i].floor => \/ s[i].hash \in HashesOf(q)
                                     \/ \E k \in 1..Len(o) : o[k].hash = s[i].hash

LEMMA OneArm ==
  ASSUME NEW s, NEW o, NEW r, NEW q, FloorLeads(s), KeepsOrder(s, r), AllIn(s, r),
         Len(s) \in Nat, Len(r) \in Nat,
         \A n \in 1..Len(r) : \/ \E i \in 1..Len(s) : r[n] = s[i]
                              \/ \E i \in 1..Len(o) : r[n] = o[i],
         \A i \in 1..Len(r) : r[i].floor =>
              \/ r[i].hash \in HashesOf(q)
              \/ \E j \in 1..Len(r) : j < i /\ ~r[j].floor /\ r[j].hash = r[i].hash
  PROVE  FloorBodies(s, o, q)
<1> SUFFICES ASSUME NEW i \in 1..Len(s), s[i].floor, s[i].hash \notin HashesOf(q)
             PROVE  \E k \in 1..Len(o) : o[k].hash = s[i].hash
  BY DEF FloorBodies
<1>1. PICK n \in 1..Len(r) : s[i] = r[n]
  BY DEF AllIn
<1>2. PICK j \in 1..Len(r) : j < n /\ ~r[j].floor /\ r[j].hash = r[n].hash
  BY <1>1
<1>3. ASSUME NEW k \in 1..Len(s), r[j] = s[k] PROVE FALSE
  <2>1. ~s[k].floor
    BY <1>2, <1>3
  <2>2. ~(k < i) /\ k # i
    BY <2>1 DEF FloorLeads
  <2>3. i < k
    BY <2>2
  <2>4. n < j
    BY <1>1, <1>3, <2>3 DEF KeepsOrder
  <2> QED BY <1>2, <2>4
<1>4. PICK k \in 1..Len(o) : r[j] = o[k]
  BY <1>3
<1> QED BY <1>1, <1>2, <1>4

\* What the service makes of the two arms.  Their memories have no common id,
\* so fusion keeps the order of each.
LEMMA FusedFacts ==
  ASSUME NEW a, NEW b, ArmList("private", a), ArmList("shared", b),
         NEW wa \in Nat, NEW wb \in Nat, NEW limit \in Nat
  PROVE  LET q == Returned(reciprocal_rank_fusion(a, b, wa, wb), limit) IN
         /\ Cardinality(HashesOf(q)) = Len(q) /\ IdsOf(q) \subseteq IdsOf(a) \cup IdsOf(b)
         /\ FloorBodies(a, b, q) /\ FloorBodies(b, a, q)
         /\ Cardinality(Memory) <= limit => HashesOf(a) \cup HashesOf(b) \subseteq HashesOf(q)
<1> DEFINE r == reciprocal_rank_fusion(a, b, wa, wb)
           q == Returned(r, limit)
<1>1. /\ a \in Seq(Shown) /\ DistinctIds(a) /\ FloorLeads(a) /\ Len(a) \in Nat
      /\ b \in Seq(Shown) /\ DistinctIds(b) /\ FloorLeads(b) /\ Len(b) \in Nat
      /\ \A i \in 1..Len(a) : a[i].plane = "private"
      /\ \A i \in 1..Len(b) : b[i].plane = "shared"
  BY DEF ArmList
<1>2. r \in Seq(Shown) /\ DistinctIds(r) /\ Merges(a, b, r) /\ Len(r) \in Nat
  <2>1. r \in Seq(Shown) /\ DistinctIds(r) /\ Merges(a, b, r)
    BY <1>1, FusionFacts
  <2> HIDE DEF r
  <2> QED BY <2>1
<1> HIDE DEF r
<1>3. /\ Cardinality(HashesOf(q)) = Len(q) /\ AllIn(q, r)
      /\ \A i \in 1..Len(r) : r[i].floor =>
           \/ r[i].hash \in HashesOf(q)
           \/ \E j \in 1..Len(r) : j < i /\ ~r[j].floor /\ r[j].hash = r[i].hash
      /\ RoomFor(IdsOf(r), limit) => HashesOf(r) \subseteq HashesOf(q)
  BY <1>2, ReturnedFacts
<1> HIDE DEF q
<1>4. ASSUME NEW i \in 1..Len(a), NEW j \in 1..Len(b) PROVE a[i].id # b[j].id
  <2>1. a[i] \in Shown /\ b[j] \in Shown
    BY <1>1
  <2>2. PICK m \in Memory : b[j].id = m.id /\ b[j].plane = m.plane
    BY <2>1, ShownFacts
  <2>3. a[i].id = m.id => a[i].plane = m.plane
    BY <2>1, ShownFacts
  <2> QED BY <1>1, <2>2, <2>3
<1>5. IdsOf(a) \cap IdsOf(b) = {}
  BY <1>4 DEF IdsOf
<1>6. /\ KeepsOrder(a, r) /\ KeepsOrder(b, r)
      /\ \A n \in 1..Len(r) : \/ \E i \in 1..Len(a) : r[n] = a[i]
                              \/ \E i \in 1..Len(b) : r[n] = b[i]
  BY <1>2, <1>5 DEF Merges
<1>7. AllIn(a, r) /\ AllIn(b, r)
  <2>1. \A i \in 1..Len(b) : b[i].id \notin IdsOf(a)
    BY <1>4 DEF IdsOf
  <2> QED BY <1>2, <2>1 DEF Merges, AllIn
<1>8. FloorBodies(a, b, q)
  BY <1>1, <1>2, <1>3, <1>6, <1>7, OneArm
<1>9. FloorBodies(b, a, q)
  BY <1>1, <1>2, <1>3, <1>6, <1>7, OneArm
<1>10. IdsOf(q) \subseteq IdsOf(a) \cup IdsOf(b)
  <2> SUFFICES ASSUME NEW n \in 1..Len(q) PROVE q[n].id \in IdsOf(a) \cup IdsOf(b)
    BY DEF IdsOf
  <2>1. PICK m \in 1..Len(r) : q[n] = r[m]
    BY <1>3 DEF AllIn
  <2>2. \/ \E i \in 1..Len(a) : r[m] = a[i]
        \/ \E i \in 1..Len(b) : r[m] = b[i]
    BY <1>6
  <2> QED BY <2>1, <2>2 DEF IdsOf
<1>11. ASSUME Cardinality(Memory) <= limit
       PROVE  HashesOf(a) \cup HashesOf(b) \subseteq HashesOf(q)
  <2>1. ASSUME NEW n \in 1..Len(r) PROVE r[n].id \in {m.id : m \in Memory}
    <3>1. r[n] \in Shown
      BY <1>2
    <3>2. PICK m \in Memory : r[n].id = m.id
      BY <3>1, ShownFacts
    <3> QED BY <3>2
  <2>2. IdsOf(r) \in SUBSET {m.id : m \in Memory}
    BY <2>1 DEF IdsOf
  <2>3. HashesOf(r) \subseteq HashesOf(q)
    BY <1>3, <1>11, <2>2, RoomForMemories
  <2>4. HashesOf(a) \subseteq HashesOf(r) /\ HashesOf(b) \subseteq HashesOf(r)
    BY <1>7 DEF AllIn, HashesOf
  <2> QED BY <2>3, <2>4
<1> QED BY <1>3, <1>8, <1>9, <1>10, <1>11 DEF q, r

-----------------------------------------------------------------------------
(* The invariant of a call. *)

LEMMA OldPlane == Old \in Memory /\ New \in Memory /\ Old # New /\ Old.plane \in Plane /\ New.plane = Old.plane
BY MemoryAssumption

LEMMA AnswerInit == Init => AnswerInv
<1> SUFFICES ASSUME Init PROVE AnswerInv
  OBVIOUS
<1>1. StoreInv
  BY OldPlane, ContentsAssumption DEF Init, StoreInv
<1>2. HitsInv
  BY DEF Init, HitsInv, NoHits, Channel, Plane
<1>3. ArmsInv
  BY DEF Init, ArmsInv, NoQuery
<1>4. FloorIsKept /\ ConflictIsAnswered
  BY DEF Init, FloorIsKept, ConflictIsAnswered, Done
<1> QED BY <1>1, <1>2, <1>3, <1>4 DEF AnswerInv

\* A step that leaves the call alone keeps what is known of it.
LEMMA SameCall ==
  ASSUME ArmsInv, UNCHANGED <<stm, query, fresh, arm, result>>,
         pc' = pc \/ pc' = "raised" \/ pc' = "done"
         \/ (pc \in {"resolve", "embed", "channels"} /\ pc' \in {"embed", "channels"})
  PROVE  ArmsInv'
<1>1. ASSUME NEW p, NEW r, ArmInv(p, r, Full, Gone) PROVE ArmInv(p, r, Full', Gone')
  BY <1>1 DEF ArmInv, Full, Gone
<1> QED BY <1>1 DEF ArmsInv

LEMMA SameAnswer ==
  ASSUME FloorIsKept, ConflictIsAnswered, UNCHANGED <<stm, query, fresh, result, out>>, pc' = pc
  PROVE  FloorIsKept' /\ ConflictIsAnswered'
<1>1. FloorIsKept'
  BY DEF FloorIsKept, Done
<1>2. ConflictIsAnswered'
  BY Zenon DEF ConflictIsAnswered, Done, Full
<1> QED BY <1>1, <1>2

LEMMA NotDone == ASSUME pc' # "done" PROVE FloorIsKept' /\ ConflictIsAnswered'
BY DEF FloorIsKept, ConflictIsAnswered, Done

LEMMA SameStores ==
  ASSUME StoreInv, UNCHANGED stores, fresh' => fresh \/ superseding = 3
  PROVE  StoreInv'
BY DEF StoreInv, stores

LEMMA SameHits ==
  ASSUME HitsInv, UNCHANGED <<stm, query, fresh, arm, got, ltmDown>> PROVE HitsInv'
BY DEF HitsInv

LEMMA FreshHits ==
  ASSUME got' = NoHits, ltmDown' = FALSE, arm' \in Plane PROVE HitsInv'
BY DEF HitsInv, NoHits, Channel

\* The winner is stored before the loser leaves.
LEMMA StoreStep == StoreInv /\ Supersede => StoreInv'
<1> SUFFICES ASSUME StoreInv, Supersede PROVE StoreInv'
  OBVIOUS
<1> DEFINE p == Old.plane
<1>1. p \in Plane /\ Old \in Memory /\ New \in Memory /\ Old # New /\ New.plane = p
  BY OldPlane
<1>2. superseding \in 0..2 /\ superseding' = superseding + 1 /\ stm' = stm /\ fresh' = fresh
  BY DEF Supersede, StoreInv
<1>3. CASE superseding = 0
  BY <1>1, <1>2, <1>3 DEF Supersede, StoreInv
<1>4. CASE superseding = 1
  BY <1>1, <1>2, <1>4 DEF Supersede, StoreInv
<1>5. CASE superseding = 2
  BY <1>1, <1>2, <1>5 DEF Supersede, StoreInv
<1> QED BY <1>2, <1>3, <1>4, <1>5

\* An order of a set of memories has each of them once.
LEMMA OrdersFacts ==
  ASSUME NEW S \in SUBSET Memory, NEW h \in Orders(S)
  PROVE  /\ h \in Seq(Memory) /\ DistinctIds(h)
         /\ \A i \in 1..Len(h) : h[i] \in S
         /\ \A m \in S : \E i \in 1..Len(h) : h[i] = m
<1> DEFINE N == Cardinality(S)
<1>1. IsFiniteSet(S) /\ N \in Nat
  BY MemoryAssumption, FS_Subset, FS_CardinalityType
<1>2. h \in [1..N -> S] /\ \A i, j \in DOMAIN h : i # j => h[i] # h[j]
  BY DEF Orders
<1>3. IsFiniteSet(1..N) /\ Cardinality(1..N) = N
  <2> HIDE DEF N
  <2>1. IsFiniteSet(1..N) /\ Cardinality(1..N) = IF 1 > N THEN 0 ELSE N - 1 + 1
    BY <1>1, FS_Interval
  <2> QED BY <1>1, <2>1
<1>4. h \in Injection(1..N, S)
  BY <1>2 DEF Injection, IsInjective
<1>5. h \in Surjection(1..N, S)
  <2>1. Cardinality(1..N) = Cardinality(S) <=> h \in Surjection(1..N, S)
    BY <1>1, <1>4, FS_Injection
  <2> QED BY <1>3, <2>1
<1>6. h \in Seq(Memory) /\ Len(h) = N
  <2> HIDE DEF N
  <2> QED BY <1>1, <1>2
<1> HIDE DEF N
<1>7. \A m \in S : \E i \in 1..Len(h) : h[i] = m
  BY <1>2, <1>5, <1>6 DEF Surjection
<1>8. DistinctIds(h)
  <2> SUFFICES ASSUME NEW i \in 1..Len(h), NEW j \in 1..Len(h), h[i].id = h[j].id PROVE i = j
    BY DEF DistinctIds
  <2>1. h[i] \in Memory /\ h[j] \in Memory
    BY <1>6
  <2>2. h[i] = h[j]
    BY <2>1, MemoryAssumption
  <2> QED BY <1>2, <1>6, <2>2
<1> QED BY <1>2, <1>6, <1>7, <1>8

\* What a channel answers.
LEMMA AnswersFacts ==
  ASSUME StoreInv, arm \in Plane, NEW c \in Channel, NEW h \in Answers(c)
  PROVE  /\ Hits(arm, h)
         /\ c = "stm" => \A i \in 1..Len(h) : h[i] \in Elements(stm[arm])
         /\ c = "ltm" /\ c \in query.channels /\ arm = Old.plane
              => \E i \in 1..Len(h) : h[i] \in {Old, New}
         /\ c \in {"mtm", "ltm"} /\ fresh /\ arm = Old.plane => \A i \in 1..Len(h) : h[i] # Old
<1>1. CASE c \notin query.channels
  <2>1. h = <<>>
    BY <1>1 DEF Answers
  <2>2. h \in Seq(Memory) /\ Len(h) = 0
    BY <2>1
  <2> QED BY <1>1, <2>2 DEF Hits, DistinctIds
<1>2. CASE c \in query.channels /\ c = "stm"
  <2>1. h = stm[arm]
    BY <1>2 DEF Answers
  <2>2. /\ h \in Seq(Memory)
        /\ \A i, j \in 1..Len(h) : h[i].plane = arm /\ (h[i] = h[j] => i = j)
    BY <2>1, ContentsAssumption DEF StoreInv
  <2>3. DistinctIds(h)
    <3>1. \A i \in 1..Len(h) : h[i] \in Memory
      BY <2>2
    <3> QED BY <2>2, <3>1, MemoryAssumption DEF DistinctIds
  <2>4. \A i \in 1..Len(h) : h[i] \in Elements(stm[arm])
    BY <2>1 DEF Elements
  <2> QED BY <1>2, <2>2, <2>3, <2>4 DEF Hits
<1>3. CASE c \in query.channels /\ c = "mtm"
  <2>1. h \in Orders(mtm[arm]) /\ mtm[arm] \in SUBSET Memory
    BY <1>3 DEF Answers, StoreInv
  <2>2. /\ h \in Seq(Memory) /\ DistinctIds(h)
        /\ \A i \in 1..Len(h) : h[i] \in mtm[arm]
    BY <2>1, OrdersFacts
  <2>3. \A i \in 1..Len(h) : h[i].plane = arm
    BY <2>2 DEF StoreInv
  <2>4. fresh /\ arm = Old.plane => Old \notin mtm[arm]
    BY DEF StoreInv
  <2> QED BY <1>3, <2>2, <2>3, <2>4 DEF Hits
<1>4. CASE c \in query.channels /\ c = "ltm"
  <2>1. h \in Orders(ltm[arm]) /\ ltm[arm] \in SUBSET Memory
    BY <1>4 DEF Answers, StoreInv
  <2>2. /\ h \in Seq(Memory) /\ DistinctIds(h)
        /\ \A i \in 1..Len(h) : h[i] \in ltm[arm]
        /\ \A m \in ltm[arm] : \E i \in 1..Len(h) : h[i] = m
    BY <2>1, OrdersFacts
  <2>3. \A i \in 1..Len(h) : h[i].plane = arm
    BY <2>2 DEF StoreInv
  <2>4. fresh /\ arm = Old.plane => Old \notin ltm[arm]
    BY DEF StoreInv
  <2>5. arm = Old.plane => Old \in ltm[arm] \/ New \in ltm[arm]
    BY DEF StoreInv
  <2>6. arm = Old.plane => \E i \in 1..Len(h) : h[i] \in {Old, New}
    BY <2>2, <2>5
  <2> QED BY <1>4, <2>2, <2>3, <2>4, <2>6 DEF Hits
<1> QED BY <1>1, <1>2, <1>3, <1>4 DEF Channel

LEMMA HitsStep ==
  ASSUME StoreInv, HitsInv, NEW c \in Channel, ChannelAnswers(c) PROVE HitsInv'
<1>1. PICK h \in Answers(c) : got' = [got EXCEPT ![c] = h]
  BY DEF ChannelAnswers
<1>2. UNCHANGED <<stm, query, fresh, arm, ltmDown>>
  BY DEF ChannelAnswers, stores
<1>3. /\ Hits(arm, h)
      /\ c = "stm" => \A i \in 1..Len(h) : h[i] \in Elements(stm[arm])
      /\ c = "ltm" /\ c \in query.channels /\ arm = Old.plane
           => \E i \in 1..Len(h) : h[i] \in {Old, New}
      /\ c \in {"mtm", "ltm"} /\ fresh /\ arm = Old.plane => \A i \in 1..Len(h) : h[i] # Old
  BY AnswersFacts DEF HitsInv
<1>4. got'[c] = h /\ DOMAIN got' = Channel /\ \A d \in Channel : d # c => got'[d] = got[d]
  BY <1>1 DEF HitsInv
<1>5. "stm" \in Channel /\ "mtm" \in Channel /\ "ltm" \in Channel
  BY DEF Channel
<1>6. \A d \in Channel : got'[d] # None => Hits(arm, got'[d])
  BY <1>3, <1>4 DEF HitsInv
<1>7. got'["stm"] # None => \A i \in 1..Len(got'["stm"]) : got'["stm"][i] \in Elements(stm[arm])
  BY <1>3, <1>4, <1>5 DEF HitsInv
<1>8. got'["ltm"] # None /\ arm = Old.plane /\ "ltm" \in query.channels /\ ~ltmDown
        => \E i \in 1..Len(got'["ltm"]) : got'["ltm"][i] \in {Old, New}
  BY <1>3, <1>4, <1>5 DEF HitsInv
<1>9. ASSUME NEW d \in {"mtm", "ltm"}, arm = Old.plane, fresh, got'[d] # None,
             NEW i \in 1..Len(got'[d])
      PROVE  got'[d][i] # Old
  BY <1>3, <1>4, <1>5, <1>9 DEF HitsInv
<1> QED BY <1>2, <1>4, <1>6, <1>7, <1>8, <1>9 DEF HitsInv

LEMMA DegradeStep ==
  ASSUME HitsInv, NEW error \in Error, LtmDegrades(error) PROVE HitsInv'
<1>1. /\ got' = [got EXCEPT !["ltm"] = <<>>] /\ ltmDown' = TRUE
      /\ UNCHANGED <<stm, query, fresh, arm>>
  BY DEF LtmDegrades, stores
<1>2. /\ got'["ltm"] = <<>> /\ DOMAIN got' = Channel
      /\ \A d \in Channel : d # "ltm" => got'[d] = got[d]
  BY <1>1 DEF HitsInv, Channel
<1>3. "stm" \in Channel /\ "mtm" \in Channel /\ "ltm" \in Channel
  BY DEF Channel
<1>4. Hits(arm, <<>>) /\ Len(<<>>) = 0
  BY DEF Hits, DistinctIds
<1>5. \A d \in Channel : got'[d] # None => Hits(arm, got'[d])
  BY <1>2, <1>4 DEF HitsInv
<1>6. got'["stm"] # None => \A i \in 1..Len(got'["stm"]) : got'["stm"][i] \in Elements(stm[arm])
  BY <1>2, <1>3 DEF HitsInv
<1>7. ASSUME NEW d \in {"mtm", "ltm"}, arm = Old.plane, fresh, got'[d] # None,
             NEW i \in 1..Len(got'[d])
      PROVE  got'[d][i] # Old
  <2>1. CASE d = "ltm"
    BY <1>2, <1>4, <1>7, <2>1
  <2>2. CASE d = "mtm"
    BY <1>2, <1>3, <1>7, <2>2 DEF HitsInv
  <2> QED BY <2>1, <2>2
<1> QED BY <1>1, <1>2, <1>5, <1>6, <1>7 DEF HitsInv

\* The list the ranker makes of the hits of one plane.
LEMMA RankedInv ==
  ASSUME HitsInv, ArmsInv, \A c \in Channel : got[c] # None
  PROVE  ArmInv(arm, Ranked, Full, Gone)
<1> DEFINE st == got["stm"]
           mt == got["mtm"]
           lt == got["ltm"]
           items == FloorFirst(Views(st, TRUE),
                               Views(reciprocal_rank_fusion(mt, lt, Weight["mtm"], Weight["ltm"]), FALSE),
                               query.limit)
<1>1. Ranked.items = items /\ Ranked.ran = query.channels \ (IF ltmDown THEN {"ltm"} ELSE {})
  BY DEF Ranked
<1>2. arm \in Plane /\ Hits(arm, st) /\ Hits(arm, mt) /\ Hits(arm, lt)
  BY DEF HitsInv, Channel
<1>3. query.limit \in Nat /\ Weight["mtm"] \in Nat /\ Weight["ltm"] \in Nat
  BY SettingsAssumption DEF ArmsInv
<1>4. /\ \A i \in 1..Len(st) : st[i] \in Elements(stm[arm])
      /\ arm = Old.plane /\ "ltm" \in query.channels /\ ~ltmDown
           => \E i \in 1..Len(lt) : lt[i] \in {Old, New}
      /\ arm = Old.plane /\ fresh => /\ \A i \in 1..Len(mt) : mt[i] # Old
                                     /\ \A i \in 1..Len(lt) : lt[i] # Old
  BY DEF HitsInv, Channel
<1> HIDE DEF st, mt, lt
<1>5. /\ ArmList(arm, items)
      /\ IdsOf(items) \subseteq IdsOf(st) \cup IdsOf(mt) \cup IdsOf(lt)
      /\ Cardinality(Memory) <= query.limit => IdsOf(lt) \subseteq IdsOf(items)
  BY <1>2, <1>3, RankedFacts
<1> HIDE DEF items
<1>6. ASSUME arm = Old.plane, Full, "ltm" \in Ranked.ran
      PROVE  Old.id \in IdsOf(items) \/ New.id \in IdsOf(items)
  <2>1. "ltm" \in query.channels /\ ~ltmDown
    BY <1>1, <1>6
  <2>2. PICK i \in 1..Len(lt) : lt[i] \in {Old, New}
    BY <1>4, <1>6, <2>1
  <2>3. Cardinality(Memory) <= query.limit
    <3>1. Cardinality(Memory) \in Nat
      BY MemoryAssumption, FS_CardinalityType
    <3> QED BY <1>3, <1>6, <3>1 DEF Full
  <2>4. lt[i].id \in IdsOf(items)
    BY <1>5, <2>3 DEF IdsOf
  <2> QED BY <2>2, <2>4
<1>7. ASSUME arm = Old.plane, Gone PROVE Old.id \notin IdsOf(items)
  <2>1. ASSUME NEW h, Hits(arm, h), \A i \in 1..Len(h) : h[i] # Old PROVE Old.id \notin IdsOf(h)
    <3>1. \A i \in 1..Len(h) : h[i] \in Memory
      BY <2>1 DEF Hits
    <3>2. \A i \in 1..Len(h) : h[i].id # Old.id
      BY <2>1, <3>1, OldPlane, MemoryAssumption
    <3> QED BY <3>2 DEF IdsOf
  <2>2. \A i \in 1..Len(st) : st[i] # Old
    BY <1>4, <1>7 DEF Gone
  <2>3. /\ \A i \in 1..Len(mt) : mt[i] # Old
        /\ \A i \in 1..Len(lt) : lt[i] # Old
    BY <1>4, <1>7 DEF Gone
  <2>4. Old.id \notin IdsOf(st) /\ Old.id \notin IdsOf(mt) /\ Old.id \notin IdsOf(lt)
    BY <1>2, <2>1, <2>2, <2>3
  <2> QED BY <1>5, <2>4
<1>8. Ranked \in Result
  <2>1. items \in Seq(Shown)
    BY <1>5 DEF ArmList
  <2>2. Shown \subseteq View
    <3> SUFFICES ASSUME NEW m \in Memory, NEW f \in BOOLEAN PROVE _to_view(m, f) \in View
      BY DEF Shown
    <3>1. m.plane \in Plane
      BY MemoryAssumption
    <3> QED BY <3>1 DEF _to_view, View
  <2>3. items \in Seq(View)
    BY <2>1, <2>2
  <2>4. query.channels \ (IF ltmDown THEN {"ltm"} ELSE {}) \in SUBSET Channel
    BY DEF ArmsInv
  <2> QED BY <2>3, <2>4 DEF Ranked, Result, Reasons, items, st, mt, lt
<1> QED BY <1>1, <1>5, <1>6, <1>7, <1>8 DEF ArmInv

LEMMA RankStep == ASSUME HitsInv, ArmsInv, Rank PROVE ArmsInv'
<1>1. /\ pc = "channels" /\ \A c \in Channel : got[c] # None
      /\ result' = [result EXCEPT ![arm] = Ranked] /\ UNCHANGED <<stm, query, fresh>>
      /\ IF arm = "private" THEN arm' = "shared" /\ pc' = "embed" ELSE arm' = arm /\ pc' = "fuse"
  BY DEF Rank, stores
<1>2. ArmInv(arm, Ranked, Full, Gone)
  BY <1>1, RankedInv
<1>3. ASSUME NEW p, NEW r, ArmInv(p, r, Full, Gone) PROVE ArmInv(p, r, Full', Gone')
  BY <1>1, <1>3 DEF ArmInv, Full, Gone
<1>4. arm \in Plane /\ DOMAIN result = Plane /\ Plane = {"private", "shared"}
  BY DEF HitsInv, ArmsInv, Plane
<1>5. result'[arm] = Ranked /\ DOMAIN result' = Plane /\ \A p \in Plane : p # arm => result'[p] = result[p]
  BY <1>1, <1>4
<1>6. CASE arm = "private"
  <2>1. result["shared"] = None /\ pc' = "embed" /\ arm' = "shared"
    BY <1>1, <1>4, <1>6 DEF ArmsInv
  <2>2. result'["shared"] = None
    BY <1>4, <1>5, <1>6, <2>1
  <2>3. ArmInv("private", result'["private"], Full', Gone')
    BY <1>2, <1>3, <1>5, <1>6
  <2> QED BY <1>1, <1>5, <2>1, <2>2, <2>3 DEF ArmsInv
<1>7. CASE arm = "shared"
  <2>1. ArmInv("private", result["private"], Full, Gone) /\ pc' = "fuse"
    BY <1>1, <1>7 DEF ArmsInv
  <2>2. result'["private"] = result["private"]
    BY <1>4, <1>5, <1>7
  <2>3. ArmInv("private", result'["private"], Full', Gone')
    BY <1>3, <2>1, <2>2
  <2>4. ArmInv("shared", result'["shared"], Full', Gone')
    BY <1>2, <1>3, <1>5, <1>7
  <2> QED BY <1>1, <1>4, <1>5, <2>1, <2>3, <2>4 DEF ArmsInv
<1> QED BY <1>4, <1>6, <1>7

\* A list of a plane that has the id of a memory has its body, and its plane is
\* that of the memory.
LEMMA BodyOf ==
  ASSUME NEW p \in Plane, NEW s, ArmList(p, s), NEW m \in Memory, m.id \in IdsOf(s)
  PROVE  m.hash \in HashesOf(s) /\ m.plane = p
<1>1. PICK i \in 1..Len(s) : s[i].id = m.id
  BY DEF IdsOf
<1>2. s[i] \in Shown /\ s[i].plane = p
  BY DEF ArmList
<1>3. s[i].hash = m.hash /\ s[i].plane = m.plane
  BY <1>1, <1>2, ShownFacts
<1> QED BY <1>2, <1>3 DEF HashesOf

LEMMA FuseStep == ASSUME ArmsInv, Fuse PROVE FloorIsKept' /\ ConflictIsAnswered'
<1> DEFINE a == result["private"].items
           b == result["shared"].items
           q == Returned(reciprocal_rank_fusion(a, b, Weight["private"], Weight["shared"]), query.limit)
<1>1. /\ pc = "fuse" /\ pc' = "done" /\ UNCHANGED <<stm, query, fresh, result>>
      /\ out'.items = q
  BY DEF Fuse, stores, Returned
<1>2. /\ ArmInv("private", result["private"], Full, Gone)
      /\ ArmInv("shared", result["shared"], Full, Gone)
      /\ query.limit \in Nat /\ Weight["private"] \in Nat /\ Weight["shared"] \in Nat
  BY <1>1, SettingsAssumption DEF ArmsInv, Plane
<1>3. ArmList("private", a) /\ ArmList("shared", b)
  BY <1>2 DEF ArmInv
<1>4. /\ Cardinality(HashesOf(q)) = Len(q) /\ IdsOf(q) \subseteq IdsOf(a) \cup IdsOf(b)
      /\ FloorBodies(a, b, q) /\ FloorBodies(b, a, q)
      /\ Cardinality(Memory) <= query.limit => HashesOf(a) \cup HashesOf(b) \subseteq HashesOf(q)
  <2> HIDE DEF a, b
  <2> QED BY <1>2, <1>3, FusedFacts
<1> HIDE DEF q
<1>5. result["private"] # None /\ result["shared"] # None
  BY <1>2, ResultAssumption DEF ArmInv
<1>6. ASSUME NEW p \in Plane, NEW v \in Elements(result[p].items), v.floor, v.hash \notin HashesOf(q)
      PROVE  \E w \in UNION {Elements(result[o].items) :
                               o \in {x \in Plane \ {p} : result[x] # None}} : w.hash = v.hash
  <2>1. CASE p = "private"
    <3>1. PICK k \in 1..Len(b) : b[k].hash = v.hash
      BY <1>4, <1>6, <2>1 DEF FloorBodies, Elements
    <3>2. b[k] \in Elements(result["shared"].items)
      BY DEF Elements
    <3>3. "shared" \in {x \in Plane \ {p} : result[x] # None}
      BY <1>5, <2>1 DEF Plane
    <3> QED BY <3>1, <3>2, <3>3
  <2>2. CASE p = "shared"
    <3>1. PICK k \in 1..Len(a) : a[k].hash = v.hash
      BY <1>4, <1>6, <2>2 DEF FloorBodies, Elements
    <3>2. a[k] \in Elements(result["private"].items)
      BY DEF Elements
    <3>3. "private" \in {x \in Plane \ {p} : result[x] # None}
      BY <1>5, <2>2 DEF Plane
    <3> QED BY <3>1, <3>2, <3>3
  <2> QED BY <2>1, <2>2 DEF Plane
<1>7. FloorIsKept'
  BY <1>1, <1>4, <1>6 DEF FloorIsKept
<1>8. ASSUME Full, "ltm" \in result[Old.plane].ran
      PROVE  {Old.hash, New.hash} \cap HashesOf(q) # {}
  <2> DEFINE s == result[Old.plane].items
  <2>1. Old.plane \in Plane /\ Old \in Memory /\ New \in Memory
    BY OldPlane
  <2>2. ArmList(Old.plane, s) /\ (Old.id \in IdsOf(s) \/ New.id \in IdsOf(s))
    <3>1. ArmInv(Old.plane, result[Old.plane], Full, Gone)
      BY <1>2, <2>1 DEF Plane
    <3> QED BY <1>8, <3>1 DEF ArmInv
  <2>3. s = a \/ s = b
    BY <2>1 DEF Plane
  <2> HIDE DEF s, a, b
  <2>4. Old.hash \in HashesOf(s) \/ New.hash \in HashesOf(s)
    BY <2>1, <2>2, BodyOf
  <2>5. Cardinality(Memory) <= query.limit
    <3>1. Cardinality(Memory) \in Nat
      BY MemoryAssumption, FS_CardinalityType
    <3> QED BY <1>2, <1>8, <3>1 DEF Full
  <2> QED BY <1>4, <2>3, <2>4, <2>5
<1>9. ASSUME Gone PROVE Old.id \notin IdsOf(q)
  <2>1. Old.plane \in Plane /\ Old \in Memory
    BY OldPlane
  <2>2. Old.plane = "private" => Old.id \notin IdsOf(a)
    BY <1>2, <1>9 DEF ArmInv
  <2>3. Old.plane = "shared" => Old.id \notin IdsOf(b)
    BY <1>2, <1>9 DEF ArmInv
  <2> HIDE DEF a, b
  <2>4. Old.id \in IdsOf(a) => Old.plane = "private"
    BY <1>3, <2>1, BodyOf DEF Plane
  <2>5. Old.id \in IdsOf(b) => Old.plane = "shared"
    BY <1>3, <2>1, BodyOf DEF Plane
  <2> QED BY <1>4, <2>2, <2>3, <2>4, <2>5
<1>10. ConflictIsAnswered'
  <2>1. (Full' <=> Full) /\ (fresh' /\ Old \notin Elements(stm'[Old.plane]) <=> Gone)
    BY <1>1 DEF Full, Gone
  <2> QED BY <1>1, <1>8, <1>9, <2>1 DEF ConflictIsAnswered
<1> QED BY <1>7, <1>10

\* Without the shared arm the private one is returned whole.
LEMMA PrivateOnlyStep ==
  ASSUME ArmsInv, NEW c \in Channel, NEW error \in Error, SharedUnavailable(c, error)
  PROVE  FloorIsKept' /\ ConflictIsAnswered'
<1> DEFINE a == result["private"].items
           n == IF a = <<>> THEN 1 ELSE Len(a)
           q == Returned(a, n)
<1>1. /\ pc = "channels" /\ arm = "shared" /\ UNCHANGED <<stm, query, fresh, result>>
      /\ out'.items = q
  BY DEF SharedUnavailable, PrivateOnly, Pending, stores, Returned
<1>2. ArmInv("private", result["private"], Full, Gone) /\ result["shared"] = None
  BY <1>1 DEF ArmsInv
<1>3. ArmList("private", a) /\ n \in Nat /\ Len(a) <= n
  <2>1. ArmList("private", a)
    BY <1>2 DEF ArmInv
  <2>2. a \in Seq(Shown)
    BY <2>1 DEF ArmList
  <2> HIDE DEF a
  <2> QED BY <2>1, <2>2
<1>4. /\ Cardinality(HashesOf(q)) = Len(q) /\ IdsOf(q) \subseteq IdsOf(a)
      /\ \A i \in 1..Len(a) : a[i].floor => a[i].hash \in HashesOf(q)
      /\ HashesOf(a) \subseteq HashesOf(q)
  <2> HIDE DEF a, n
  <2> QED BY <1>3, AloneFacts DEF Plane
<1> HIDE DEF n, q
<1>5. \A v \in Elements(a) : v.floor => v.hash \in HashesOf(q)
  BY <1>4 DEF Elements
<1>6. FloorIsKept'
  BY <1>1, <1>2, <1>4, <1>5 DEF FloorIsKept, Plane
<1>7. ASSUME Full, result[Old.plane] # None, "ltm" \in result[Old.plane].ran
      PROVE  {Old.hash, New.hash} \cap HashesOf(q) # {}
  <2>1. Old.plane = "private" /\ Old \in Memory /\ New \in Memory
    BY <1>2, <1>7, OldPlane DEF Plane
  <2>2. Old.id \in IdsOf(a) \/ New.id \in IdsOf(a)
    BY <1>2, <1>7, <2>1 DEF ArmInv
  <2> HIDE DEF a
  <2>3. Old.hash \in HashesOf(a) \/ New.hash \in HashesOf(a)
    BY <1>3, <2>1, <2>2, BodyOf DEF Plane
  <2> QED BY <1>4, <2>3
<1>8. ASSUME Gone PROVE Old.id \notin IdsOf(q)
  <2>1. Old.plane = "private" => Old.id \notin IdsOf(a)
    BY <1>2, <1>8 DEF ArmInv
  <2> HIDE DEF a
  <2>2. Old.id \in IdsOf(a) => Old.plane = "private"
    BY <1>3, OldPlane, BodyOf DEF Plane
  <2> QED BY <1>4, <2>1, <2>2
<1>9. ConflictIsAnswered'
  <2>1. (Full' <=> Full) /\ (fresh' /\ Old \notin Elements(stm'[Old.plane]) <=> Gone)
    BY <1>1 DEF Full, Gone
  <2> QED BY <1>1, <1>7, <1>8, <2>1 DEF ConflictIsAnswered
<1> QED BY <1>6, <1>9

\* Every step keeps what a call carries.
LEMMA AnswerStep == AnswerInv /\ [Next]_vars => AnswerInv'
<1> SUFFICES ASSUME AnswerInv, [Next]_vars PROVE AnswerInv'
  OBVIOUS
<1> USE DEF AnswerInv
<1>1. CASE Supersede
  BY <1>1, StoreStep, SameHits, SameCall, SameAnswer DEF Supersede
<1>2. CASE Recall
  <2>1. StoreInv'
    BY <1>2, SameStores DEF Recall
  <2>2. HitsInv'
    BY <1>2, FreshHits DEF Recall, Plane
  <2>3. query'.limit \in Nat /\ query'.channels \subseteq Channel
    BY <1>2, SettingsAssumption DEF Recall
  <2>4. ArmsInv'
    BY <1>2, <2>3 DEF Recall, ArmsInv
  <2>5. FloorIsKept' /\ ConflictIsAnswered'
    BY <1>2, NotDone DEF Recall
  <2> QED BY <2>1, <2>2, <2>4, <2>5
<1>3. CASE Resolve
  <2>1. HitsInv'
    BY <1>3, SameHits, FreshHits DEF Resolve, Raise, HitsInv, stores
  <2>2. StoreInv' /\ ArmsInv'
    BY <1>3, SameStores, SameCall DEF Resolve, Raise, stores
  <2>3. FloorIsKept' /\ ConflictIsAnswered'
    BY <1>3, NotDone DEF Resolve, Raise
  <2> QED BY <2>1, <2>2, <2>3
<1>4. CASE Embed
  <2>1. StoreInv' /\ HitsInv' /\ ArmsInv'
    BY <1>4, SameStores, SameHits, SameCall DEF Embed, stores
  <2>2. FloorIsKept' /\ ConflictIsAnswered'
    BY <1>4, NotDone DEF Embed
  <2> QED BY <2>1, <2>2
<1>5. CASE EmbedFails
  <2>1. StoreInv' /\ HitsInv' /\ ArmsInv'
    BY <1>5, SameStores, FreshHits, SameCall DEF EmbedFails, Raise, HitsInv, stores
  <2>2. FloorIsKept' /\ ConflictIsAnswered'
    BY <1>5, NotDone DEF EmbedFails, Raise
  <2> QED BY <2>1, <2>2
<1>6. CASE Rank
  <2>1. StoreInv' /\ HitsInv'
    BY <1>6, SameStores, FreshHits DEF Rank, HitsInv, Plane
  <2>2. ArmsInv'
    BY <1>6, RankStep
  <2>3. FloorIsKept' /\ ConflictIsAnswered'
    BY <1>6, NotDone DEF Rank
  <2> QED BY <2>1, <2>2, <2>3
<1>7. CASE Fuse
  <2>1. StoreInv' /\ HitsInv' /\ ArmsInv'
    BY <1>7, SameStores, SameHits, SameCall DEF Fuse, stores
  <2>2. FloorIsKept' /\ ConflictIsAnswered'
    BY <1>7, FuseStep
  <2> QED BY <2>1, <2>2
<1>8. ASSUME NEW c \in Channel, ChannelAnswers(c) PROVE AnswerInv'
  <2>1. StoreInv' /\ HitsInv' /\ ArmsInv'
    BY <1>8, SameStores, HitsStep, SameCall DEF ChannelAnswers, stores
  <2>2. FloorIsKept' /\ ConflictIsAnswered'
    BY <1>8, NotDone DEF ChannelAnswers, Pending
  <2> QED BY <2>1, <2>2
<1>9. ASSUME NEW error \in Error, LtmDegrades(error) PROVE AnswerInv'
  <2>1. StoreInv' /\ HitsInv' /\ ArmsInv'
    BY <1>9, SameStores, DegradeStep, SameCall DEF LtmDegrades, stores
  <2>2. FloorIsKept' /\ ConflictIsAnswered'
    BY <1>9, NotDone DEF LtmDegrades, Pending
  <2> QED BY <2>1, <2>2
<1>10. ASSUME NEW c \in Channel, NEW error \in Error, SharedUnavailable(c, error) PROVE AnswerInv'
  <2>1. StoreInv' /\ HitsInv' /\ ArmsInv'
    BY <1>10, SameStores, FreshHits, SameCall DEF SharedUnavailable, PrivateOnly, HitsInv, stores
  <2>2. FloorIsKept' /\ ConflictIsAnswered'
    BY <1>10, PrivateOnlyStep
  <2> QED BY <2>1, <2>2
<1>11. ASSUME NEW c \in Channel, NEW error \in Error, ChannelRaises(c, error) PROVE AnswerInv'
  <2>1. StoreInv' /\ HitsInv' /\ ArmsInv'
    BY <1>11, SameStores, FreshHits, SameCall DEF ChannelRaises, Raise, HitsInv, stores
  <2>2. FloorIsKept' /\ ConflictIsAnswered'
    BY <1>11, NotDone DEF ChannelRaises, Raise
  <2> QED BY <2>1, <2>2
<1>12. CASE UNCHANGED vars
  <2>1. UNCHANGED stores
    BY <1>12 DEF vars, stores
  <2> QED BY <1>12, <2>1, SameStores, SameHits, SameCall, SameAnswer DEF vars
<1> QED
  BY <1>1, <1>2, <1>3, <1>4, <1>5, <1>6, <1>7, <1>8, <1>9, <1>10, <1>11, <1>12 DEF Next

\* Whatever the limit, the weights and the orders in which the tiers answer,
\* fusion, deduplication and the cut cost neither arm a body of its recency
\* floor, and no body is returned twice.
THEOREM FloorSurvives == Spec => []FloorIsKept
<1>1. AnswerInv => FloorIsKept
  BY DEF AnswerInv
<1>2. QED
  BY AnswerInit, AnswerStep, <1>1, PTL DEF Spec

\* A recall that reads the graph while a distill pass supersedes a fact in it
\* returns one side of the conflict, and one that begins after the pass never
\* returns the loser unless the STM window has it.
THEOREM ConflictAnswered == Spec => []ConflictIsAnswered
<1>1. AnswerInv => ConflictIsAnswered
  BY DEF AnswerInv
<1>2. QED
  BY AnswerInit, AnswerStep, <1>1, PTL DEF Spec
=============================================================================
