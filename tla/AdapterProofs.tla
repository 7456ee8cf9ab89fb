--------------------------- MODULE AdapterProofs ----------------------------
(***************************************************************************)
(* The adapters that concurrent callers share with no transaction around   *)
(* them: the recency list of the short-term tier, which the Memcached      *)
(* adapter rewrites by compare-and-swap, and the model layer, whose warm   *)
(* models are kept in one table under a double-checked lock.  The list is  *)
(* shown to implement the abstract recency floor for every backend.  For   *)
(* any callers, items, catalogs, requests and bounds.                      *)
(***************************************************************************)
EXTENDS Stm, SequencesExt, SequenceTheorems, FiniteSetTheorems, FunctionTheorems,
        WellFoundedInduction, TLAPS

\* Every set of naturals that is not empty has a least element.
LEMMA LeastElement ==
    ASSUME NEW T \in SUBSET Nat, T # {}
    PROVE  \E n \in T : \A m \in T : n <= m
<1> DEFINE R == OpToRel(<, Nat)
<1>1. IsWellFoundedOn(R, Nat)
  BY NatLessThanWellFounded, Zenon
<1> HIDE DEF R
<1>2. PICK n \in T : \A m \in T : ~(<<m, n>> \in R)
  BY <1>1, WFMin
<1>3. ASSUME NEW m \in T PROVE n <= m
  <2>1. ~(<<m, n>> \in R)
    BY <1>2
  <2>2. ~(m < n)
    BY <2>1 DEF R, OpToRel
  <2> QED BY <2>2
<1> QED BY <1>3

-----------------------------------------------------------------------------
(***************************************************************************)
(* The short-term tier: "recency CAS failed" means contention.             *)
(***************************************************************************)
Fields == {"pc", "op", "item", "limit", "todo", "read", "seen", "tries", "since"}

Shape == /\ DOMAIN call = Task
         /\ \A p \in Task : DOMAIN call[p] = Fields
         /\ changes \in Nat

\* What a call in the loop knows: the key changed once for each attempt that
\* failed, and once more if its token is no longer the one that was read.
Behind(c, t, n) ==
    /\ c.pc \in {"read", "cas", "raised"}
         => c.since \in Nat /\ c.tries \in Nat /\ n >= c.since + c.tries
    /\ c.pc = "cas" /\ t # c.seen => n >= c.since + c.tries + 1
    /\ c.pc = "raised" => c.tries >= CasMax

LoopInv == Shape /\ \A p \in Task : Behind(call[p], token, changes)

\* The token never changes without the count of changes.
Counted == /\ changes' \in Nat /\ changes' >= changes
           /\ token' # token => changes' >= changes + 1

LEMMA UnchangedIsCounted ==
    ASSUME LoopInv, changes' = changes, token' = token PROVE Counted
BY DEF LoopInv, Shape, Counted

\* A step leaves every other call alone and changes the token only together
\* with the count of changes; then it is enough to look at the call it moves.
LEMMA OthersStayBehind ==
    ASSUME LoopInv, Counted,
           NEW q \in Task, call'[q] = call[q]
    PROVE  Behind(call'[q], token', changes')
BY DEF LoopInv, Shape, Behind, Counted

LEMMA OneCallMoves ==
    ASSUME LoopInv, Counted,
           NEW p \in Task, NEW c, call' = [call EXCEPT ![p] = c],
           DOMAIN c = Fields, Behind(c, token', changes')
    PROVE  LoopInv'
<1>1. \A q \in Task : q # p => call'[q] = call[q]
  BY DEF LoopInv, Shape
<1>2. call'[p] = c
  BY DEF LoopInv, Shape
<1>3. Shape'
  BY <1>1, <1>2 DEF LoopInv, Shape, Counted
<1>4. ASSUME NEW q \in Task PROVE Behind(call'[q], token', changes')
  BY <1>1, <1>2, OthersStayBehind
<1>5. QED
  BY <1>3, <1>4 DEF LoopInv

LEMMA NoCallMoves ==
    ASSUME LoopInv, Counted, call' = call
    PROVE  LoopInv'
<1>1. ASSUME NEW q \in Task PROVE Behind(call'[q], token', changes')
  BY OthersStayBehind
<1>2. QED
  BY <1>1 DEF LoopInv, Shape, Counted

\* A call that is not in the loop has nothing to show.
LEMMA IdleIsBehind ==
    ASSUME NEW t, NEW n PROVE Behind(Idle, t, n) /\ DOMAIN Idle = Fields
BY DEF Behind, Idle, Fields

LEMMA OpenedIsBehind ==
    ASSUME NEW op, NEW item, NEW limit, NEW t, NEW n
    PROVE  Behind(Opened(op, item, limit), t, n) /\ DOMAIN Opened(op, item, limit) = Fields
<1>1. FirstStep(op) \in {"exec", "fetch", "list", "row"}
  BY DEF FirstStep
<1>2. /\ Opened(op, item, limit).pc = FirstStep(op)
      /\ DOMAIN Opened(op, item, limit) = Fields
  BY DEF Opened, Idle, Fields
<1>3. QED
  BY <1>1, <1>2 DEF Behind

LEMMA LoopingIsBehind ==
    ASSUME NEW c, DOMAIN c = Fields, changes \in Nat, Counted
    PROVE  Behind(Looping(c), token', changes') /\ DOMAIN Looping(c) = Fields
<1>1. /\ Looping(c).pc = "read" /\ Looping(c).tries = 0
      /\ Looping(c).since = changes /\ DOMAIN Looping(c) = Fields
  BY DEF Looping, Fields
<1>2. QED
  BY <1>1 DEF Behind, Counted

LEMMA AdvanceIsBehind ==
    ASSUME NEW c, DOMAIN c = Fields, NEW t, NEW n
    PROVE  Behind(Advance(c), t, n) /\ DOMAIN Advance(c) = Fields
BY IdleIsBehind DEF Behind, Advance, Fields

LEMMA LoopInit == Init => LoopInv
<1> SUFFICES ASSUME Init PROVE LoopInv
  OBVIOUS
<1>1. \A p \in Task : call[p] = Idle
  BY DEF Init
<1>2. \A p \in Task : Behind(call[p], token, changes) /\ DOMAIN call[p] = Fields
  BY <1>1, IdleIsBehind
<1>3. QED
  BY <1>2 DEF Init, LoopInv, Shape

\* One case per action.  Only the expiry of the key and a successful
\* compare-and-swap write the token, and each of them counts a change.
LEMMA LoopStep == LoopInv /\ [Next]_vars => LoopInv'
<1> SUFFICES ASSUME LoopInv, [Next]_vars PROVE LoopInv'
  OBVIOUS
<1>c. changes \in Nat /\ \A p \in Task : DOMAIN call[p] = Fields
  BY DEF LoopInv, Shape
<1>1. CASE UNCHANGED vars
  BY <1>1, UnchangedIsCounted, NoCallMoves DEF vars
<1>2. CASE Tick
  <2>1. Counted /\ call' = call
    BY <1>2, <1>c DEF Tick, Counted
  <2>2. QED
    BY <2>1, NoCallMoves
<1>3. ASSUME NEW p \in Task, Begin(p) PROVE LoopInv'
  <2>1. Counted
    BY <1>3, UnchangedIsCounted DEF Begin
  <2>2. PICK op, item, limit : call' = [call EXCEPT ![p] = Opened(op, item, limit)]
    BY <1>3 DEF Begin
  <2>3. QED
    BY <1>c, <2>1, <2>2, OpenedIsBehind, OneCallMoves, Zenon
<1>4. ASSUME NEW p \in Task, Retry(p) PROVE LoopInv'
  <2>1. Counted
    BY <1>4, UnchangedIsCounted DEF Retry
  <2>2. CASE call' = [call EXCEPT ![p] = Opened(@.op, @.item, @.limit)]
    BY <1>c, <2>1, <2>2, OpenedIsBehind, OneCallMoves, Zenon
  <2>3. CASE call' = [call EXCEPT ![p] = Looping(@)]
    BY <1>c, <2>1, <2>3, LoopingIsBehind, OneCallMoves, Zenon
  <2>4. QED
    BY <1>4, <2>2, <2>3 DEF Retry
<1>5. ASSUME NEW p \in Task,
             Cancel(p) \/ Reply(p) \/ MemoryPut(p) \/ MemoryGet(p)
               \/ MemoryEvict(p) \/ MemoryRecent(p)
      PROVE  LoopInv'
  <2>1. Counted /\ call' = [call EXCEPT ![p] = Idle]
    BY <1>5, UnchangedIsCounted DEF Cancel, Reply, MemoryPut, MemoryGet, MemoryEvict,
       MemoryRecent, MemoryReturn
  <2>2. QED
    BY <1>c, <2>1, IdleIsBehind, OneCallMoves, Zenon
<1>6. ASSUME NEW p \in Task, RedisPut(p) \/ RedisEvict(p) PROVE LoopInv'
  <2> DEFINE c == [call[p] EXCEPT !.pc = "reply"]
  <2>1. Counted /\ call' = [call EXCEPT ![p] = c]
    BY <1>6, UnchangedIsCounted DEF RedisPut, RedisEvict, Goto
  <2>2. Behind(c, token', changes') /\ DOMAIN c = Fields
    BY <1>c DEF Behind, Fields
  <2> HIDE DEF c
  <2>3. QED
    BY <1>c, <2>1, <2>2, OneCallMoves, Zenon
<1>7. ASSUME NEW p \in Task, List(p) PROVE LoopInv'
  <2>1. Counted
    BY <1>7, UnchangedIsCounted DEF List
  <2>2. PICK ids : call' = [call EXCEPT ![p] = IF ids = <<>> THEN Idle
                                ELSE [call[p] EXCEPT !.todo = ids, !.pc = "fetch"]]
    BY <1>7 DEF List
  <2> DEFINE c == [call[p] EXCEPT !.todo = ids, !.pc = "fetch"]
  <2>3. Behind(c, token', changes') /\ DOMAIN c = Fields
    BY <1>c DEF Behind, Fields
  <2>4. CASE ids = <<>>
    BY <1>c, <2>1, <2>2, <2>4, IdleIsBehind, OneCallMoves, Zenon
  <2>5. CASE ids # <<>>
    <3>1. call' = [call EXCEPT ![p] = c]
      BY <2>2, <2>5
    <3> HIDE DEF c
    <3>2. QED
      BY <1>c, <2>1, <2>3, <3>1, OneCallMoves, Zenon
  <2>6. QED
    BY <2>4, <2>5
<1>8. ASSUME NEW p \in Task, Fetch(p) PROVE LoopInv'
  <2>1. Counted
    BY <1>8, UnchangedIsCounted DEF Fetch
  <2> DEFINE c == [call[p] EXCEPT !.pc = "heal"]
  <2>2. \/ call' = [call EXCEPT ![p] = Advance(call[p])]
        \/ call' = [call EXCEPT ![p] = c]
        \/ call' = [call EXCEPT ![p] = Looping(call[p])]
    BY <1>8 DEF Fetch
  <2>3. Behind(c, token', changes') /\ DOMAIN c = Fields
    BY <1>c DEF Behind, Fields
  <2> HIDE DEF c
  <2>4. CASE call' = [call EXCEPT ![p] = Advance(call[p])]
    BY <1>c, <2>1, <2>4, AdvanceIsBehind, OneCallMoves, Zenon
  <2>5. CASE call' = [call EXCEPT ![p] = c]
    BY <1>c, <2>1, <2>3, <2>5, OneCallMoves, Zenon
  <2>6. CASE call' = [call EXCEPT ![p] = Looping(call[p])]
    BY <1>c, <2>1, <2>6, LoopingIsBehind, OneCallMoves, Zenon
  <2>7. QED
    BY <2>2, <2>4, <2>5, <2>6
<1>9. ASSUME NEW p \in Task, RedisHeal(p) PROVE LoopInv'
  <2>1. /\ Counted
        /\ call' = [call EXCEPT ![p] = Advance(call[p])]
    BY <1>9, UnchangedIsCounted DEF RedisHeal
  <2>2. QED
    BY <1>c, <2>1, AdvanceIsBehind, OneCallMoves, Zenon
<1>10. ASSUME NEW p \in Task, WriteRow(p) PROVE LoopInv'
  <2>1. /\ Counted
        /\ call' = [call EXCEPT ![p] = Looping(call[p])]
    BY <1>10, UnchangedIsCounted DEF WriteRow
  <2>2. QED
    BY <1>c, <2>1, LoopingIsBehind, OneCallMoves, Zenon
<1>11. ASSUME NEW p \in Task, ReadRecency(p) PROVE LoopInv'
  <2> DEFINE c == [call[p] EXCEPT !.pc = "cas", !.read = index, !.seen = token]
  <2>1. call' = [call EXCEPT ![p] = c] /\ changes' = changes /\ token' = token
    BY <1>11, <1>c DEF ReadRecency, LoopInv
  <2>2. Behind(call[p], token, changes) /\ call[p].pc = "read"
    BY <1>11 DEF ReadRecency, LoopInv
  <2>3. /\ c.pc = "cas" /\ c.seen = token /\ DOMAIN c = Fields
        /\ c.since = call[p].since /\ c.tries = call[p].tries
    BY <1>c DEF Fields
  <2>4. Behind(c, token', changes')
    BY <1>c, <2>1, <2>2, <2>3 DEF Behind
  <2>5. Counted
    BY <2>1, UnchangedIsCounted
  <2> HIDE DEF c
  <2>6. QED
    BY <1>c, <2>1, <2>3, <2>4, <2>5, OneCallMoves, Zenon
<1>12. ASSUME NEW p \in Task, CasSucceeds(p) PROVE LoopInv'
  <2> DEFINE c == [Looped(call[p]) EXCEPT !.pc = "reply"]
  <2>1. changes' = changes + 1
    BY <1>12 DEF CasSucceeds
  <2>2. Counted
    BY <1>c, <2>1 DEF Counted
  <2>3. \/ call' = [call EXCEPT ![p] = Advance(Looped(call[p]))]
        \/ call' = [call EXCEPT ![p] = c]
    BY <1>12 DEF CasSucceeds
  <2>4. DOMAIN Looped(call[p]) = Fields
    BY <1>c DEF Looped, Fields
  <2>5. Behind(c, token', changes') /\ DOMAIN c = Fields
    BY <2>4 DEF Behind, Fields
  <2> HIDE DEF c
  <2>6. CASE call' = [call EXCEPT ![p] = Advance(Looped(call[p]))]
    BY <1>c, <2>2, <2>4, <2>6, AdvanceIsBehind, OneCallMoves, Zenon
  <2>7. CASE call' = [call EXCEPT ![p] = c]
    BY <1>c, <2>2, <2>5, <2>7, OneCallMoves, Zenon
  <2>8. QED
    BY <2>6, <2>7, <2>3
<1>13. ASSUME NEW p \in Task, CasFails(p) PROVE LoopInv'
  <2> DEFINE next == IF call[p].tries + 1 < CasMax THEN "read" ELSE "raised"
             c == [call[p] EXCEPT !.tries = @ + 1, !.read = <<>>, !.seen = 0, !.pc = next]
  <2>1. call' = [call EXCEPT ![p] = c] /\ changes' = changes /\ token' = token
    BY <1>13, <1>c DEF CasFails, LoopInv
  <2>2. Behind(call[p], token, changes) /\ call[p].pc = "cas" /\ token # call[p].seen
    BY <1>13 DEF CasFails, LoopInv
  <2>3. /\ call[p].since \in Nat /\ call[p].tries \in Nat
        /\ changes >= call[p].since + call[p].tries + 1
    BY <2>2 DEF Behind
  <2>4. /\ c.pc = next /\ DOMAIN c = Fields
        /\ c.since = call[p].since /\ c.tries = call[p].tries + 1
    BY <1>c DEF Fields
  <2>5. CasMax \in Nat /\ (next = "raised" => call[p].tries + 1 >= CasMax) /\ next # "cas"
    BY <2>3, BoundAssumption
  <2>6. Behind(c, token', changes')
    BY <1>c, <2>1, <2>3, <2>4, <2>5 DEF Behind
  <2>7. Counted
    BY <2>1, UnchangedIsCounted
  <2> HIDE DEF c
  <2>8. QED
    BY <1>c, <2>1, <2>4, <2>6, <2>7, OneCallMoves, Zenon
<1>14. QED
  BY <1>1, <1>2, <1>3, <1>4, <1>5, <1>6, <1>7, <1>8, <1>9, <1>10, <1>11, <1>12, <1>13
     DEF Next, Step

\* "recency CAS failed" is raised only by a call under which the recency list
\* changed cas_max_attempts times, for any number of tasks, timeouts, retries
\* of the loop and expiries of the key.
THEOREM ContentionWasReal == Spec => []ContentionIsReal
<1>1. LoopInv => ContentionIsReal
  <2> SUFFICES ASSUME LoopInv, NEW p \in Task, call[p].pc = "raised"
               PROVE  changes - call[p].since >= CasMax
    BY DEF ContentionIsReal
  <2>1. Behind(call[p], token, changes) /\ changes \in Nat
    BY DEF LoopInv, Shape
  <2>2. QED
    BY <2>1, BoundAssumption DEF Behind
<1>2. QED
  BY <1>1, LoopInit, LoopStep, PTL DEF Spec

-----------------------------------------------------------------------------
(***************************************************************************)
(* Selecting from a list.                                                  *)
(***************************************************************************)
\* The lists that a selection passes through.
Selects(f, s, I, n) ==
    /\ f = [i \in 0..n |-> f[i]]
    /\ f[0] = <<>>
    /\ \A i \in 1..n : f[i] = IF i \in I THEN Append(f[i - 1], s[i]) ELSE f[i - 1]

LEMMA SelectionExists ==
    ASSUME NEW n \in Nat, NEW s, NEW I PROVE \E f : Selects(f, s, I, n)
<1> DEFINE Bad == {k \in 0..n : ~ \E f : Selects(f, s, I, k)}
<1>1. Bad = {}
  <2> SUFFICES ASSUME Bad # {} PROVE FALSE
    OBVIOUS
  <2>1. PICK k \in Bad : \A j \in Bad : k <= j
    <3>1. Bad \in SUBSET Nat
      OBVIOUS
    <3> HIDE DEF Bad
    <3> QED BY <3>1, LeastElement
  <2>2. k \in 0..n /\ ~ \E f : Selects(f, s, I, k)
    BY <2>1
  <2>3. k # 0
    <3> DEFINE f == [i \in 0..0 |-> <<>>]
    <3>1. Selects(f, s, I, 0)
      BY DEF Selects
    <3> QED BY <2>2, <3>1
  <2>4. k - 1 \in 0..n /\ k - 1 \notin Bad
    <3> HIDE DEF Bad
    <3> QED BY <2>1, <2>2, <2>3
  <2>5. PICK f : Selects(f, s, I, k - 1)
    BY <2>4
  <2> DEFINE g == [i \in 0..k |-> IF i = k THEN (IF k \in I THEN Append(f[k - 1], s[k]) ELSE f[k - 1]) ELSE f[i]]
  <2>6. \A i \in 0..k : g[i] = IF i = k THEN (IF k \in I THEN Append(f[k - 1], s[k]) ELSE f[k - 1]) ELSE f[i]
    OBVIOUS
  <2>7. g = [i \in 0..k |-> g[i]]
    OBVIOUS
  <2> HIDE DEF g
  <2>8. g[0] = <<>>
    BY <2>2, <2>3, <2>5, <2>6 DEF Selects
  <2>9. ASSUME NEW i \in 1..k PROVE g[i] = IF i \in I THEN Append(g[i - 1], s[i]) ELSE g[i - 1]
    <3>1. i - 1 \in 0..k /\ i - 1 # k /\ i \in 0..k
      BY <2>2
    <3>2. g[i - 1] = f[i - 1]
      BY <2>6, <3>1
    <3>3. CASE i = k
      BY <2>6, <3>1, <3>2, <3>3
    <3>4. CASE i # k
      <4>1. i \in 1..(k - 1) /\ g[i] = f[i]
        BY <2>2, <2>6, <3>1, <3>4
      <4>2. f[i] = IF i \in I THEN Append(f[i - 1], s[i]) ELSE f[i - 1]
        BY <2>5, <4>1 DEF Selects
      <4> QED BY <3>2, <4>1, <4>2
    <3> QED BY <3>3, <3>4
  <2>10. Selects(g, s, I, k)
    BY <2>7, <2>8, <2>9 DEF Selects
  <2> QED BY <2>2, <2>10
<1>2. n \notin Bad /\ n \in 0..n
  <2> HIDE DEF Bad
  <2> QED BY <1>1
<1> QED BY <1>2

LEMMA SelectionUnique ==
    ASSUME NEW n \in Nat, NEW s, NEW I, NEW f, NEW g, Selects(f, s, I, n), Selects(g, s, I, n)
    PROVE  f[n] = g[n]
<1> DEFINE Bad == {k \in 0..n : f[k] # g[k]}
<1>1. Bad = {}
  <2> SUFFICES ASSUME Bad # {} PROVE FALSE
    OBVIOUS
  <2>1. PICK k \in Bad : \A j \in Bad : k <= j
    <3>1. Bad \in SUBSET Nat
      OBVIOUS
    <3> HIDE DEF Bad
    <3> QED BY <3>1, LeastElement
  <2>2. k \in 0..n /\ f[k] # g[k]
    BY <2>1
  <2>3. k # 0
    BY <2>2 DEF Selects
  <2>4. k \in 1..n /\ k - 1 \in 0..n /\ k - 1 \notin Bad
    <3> HIDE DEF Bad
    <3> QED BY <2>1, <2>2, <2>3
  <2>5. f[k - 1] = g[k - 1]
    BY <2>4
  <2>6. /\ f[k] = IF k \in I THEN Append(f[k - 1], s[k]) ELSE f[k - 1]
        /\ g[k] = IF k \in I THEN Append(g[k - 1], s[k]) ELSE g[k - 1]
    BY <2>4 DEF Selects
  <2> QED BY <2>2, <2>5, <2>6
<1>2. n \notin Bad /\ n \in 0..n
  <2> HIDE DEF Bad
  <2> QED BY <1>1
<1> QED BY <1>2

Recurs(g, s, I) ==
    g = [i \in 0..Len(s) |-> IF i = 0 THEN <<>>
                             ELSE IF i \in I THEN Append(g[i - 1], s[i]) ELSE g[i - 1]]

LEMMA SelectsRecurs ==
    ASSUME NEW s, Len(s) \in Nat, NEW I, NEW f
    PROVE  Selects(f, s, I, Len(s)) <=> Recurs(f, s, I)
<1> DEFINE n == Len(s)
           e(i) == IF i = 0 THEN <<>> ELSE IF i \in I THEN Append(f[i - 1], s[i]) ELSE f[i - 1]
<1>1. ASSUME Selects(f, s, I, n) PROVE Recurs(f, s, I)
  <2>1. ASSUME NEW i \in 0..n PROVE f[i] = e(i)
    <3>1. CASE i = 0
      BY <1>1, <3>1 DEF Selects
    <3>2. CASE i # 0
      <4>1. i \in 1..n
        BY <3>2
      <4> QED BY <1>1, <3>2, <4>1 DEF Selects
    <3> QED BY <3>1, <3>2
  <2>2. f = [i \in 0..n |-> f[i]]
    BY <1>1 DEF Selects
  <2>3. f = [i \in 0..n |-> e(i)]
    <3> HIDE DEF e
    <3> QED BY <2>1, <2>2
  <2> QED BY <2>3 DEF Recurs
<1>2. ASSUME Recurs(f, s, I) PROVE Selects(f, s, I, n)
  <2>1. f = [i \in 0..n |-> e(i)]
    BY <1>2 DEF Recurs
  <2>2. f = [i \in 0..n |-> f[i]] /\ \A i \in 0..n : f[i] = e(i)
    <3> HIDE DEF e
    <3> QED BY <2>1
  <2>3. f[0] = <<>>
    <3>1. 0 \in 0..n
      OBVIOUS
    <3>2. f[0] = e(0)
      <4> HIDE DEF e
      <4> QED BY <2>2, <3>1
    <3> QED BY <3>2
  <2>4. ASSUME NEW i \in 1..n PROVE f[i] = IF i \in I THEN Append(f[i - 1], s[i]) ELSE f[i - 1]
    <3>1. i \in 0..n /\ i # 0
      OBVIOUS
    <3> QED BY <2>2, <3>1
  <2> HIDE DEF e
  <2> QED BY <2>2, <2>3, <2>4 DEF Selects
<1> QED BY <1>1, <1>2

\* What a selection is.
LEMMA SelectedIs ==
    ASSUME NEW s, Len(s) \in Nat, NEW I
    PROVE  \E f : Selects(f, s, I, Len(s)) /\ Selected(s, I) = f[Len(s)]
<1> DEFINE h == CHOOSE g : Recurs(g, s, I)
<1>1. \E g : Recurs(g, s, I)
  BY SelectionExists, SelectsRecurs
<1>2. Recurs(h, s, I)
  BY <1>1
<1>3. Selected(s, I) = h[Len(s)]
  BY DEF Selected, Recurs
<1> HIDE DEF h
<1> QED BY <1>2, <1>3, SelectsRecurs

\* The abstract list drops entries the way the concrete one does.
LEMMA FloorWithout ==
    ASSUME NEW s, Len(s) \in Nat, NEW ids
    PROVE  Floor!Without(s, ids) = Without(s, ids)
<1> DEFINE I == {i \in 1..Len(s) : s[i].id \notin ids}
           Of(g) == g = [i \in 0..Len(s) |-> IF i = 0 THEN <<>>
                          ELSE IF s[i].id \notin ids THEN Append(g[i - 1], s[i]) ELSE g[i - 1]]
           h == CHOOSE g : Of(g)
<1>1. ASSUME NEW g PROVE Of(g) <=> Recurs(g, s, I)
  <2> DEFINE a(i) == IF i = 0 THEN <<>> ELSE IF s[i].id \notin ids THEN Append(g[i - 1], s[i]) ELSE g[i - 1]
             b(i) == IF i = 0 THEN <<>> ELSE IF i \in I THEN Append(g[i - 1], s[i]) ELSE g[i - 1]
  <2>1. ASSUME NEW i \in 0..Len(s) PROVE a(i) = b(i)
    <3>1. i # 0 => (i \in I <=> s[i].id \notin ids)
      OBVIOUS
    <3> HIDE DEF I
    <3> QED BY <3>1
  <2> HIDE DEF a, b
  <2>2. [i \in 0..Len(s) |-> a(i)] = [i \in 0..Len(s) |-> b(i)]
    BY <2>1
  <2> QED BY <2>2 DEF a, b, Recurs
<1>2. \E g : Of(g)
  <2> HIDE DEF Of
  <2> QED BY <1>1, SelectionExists, SelectsRecurs
<1>3. Of(h)
  <2> HIDE DEF Of
  <2> QED BY <1>2
<1>4. Floor!Without(s, ids) = h[Len(s)]
  BY DEF Floor!Without
<1> HIDE DEF h, Of
<1>5. Selects(h, s, I, Len(s))
  BY <1>1, <1>3, SelectsRecurs
<1>6. PICK f : Selects(f, s, I, Len(s)) /\ Selected(s, I) = f[Len(s)]
  BY SelectedIs
<1>7. f[Len(s)] = h[Len(s)]
  BY <1>5, <1>6, SelectionUnique
<1> QED BY <1>4, <1>6, <1>7 DEF Without


-----------------------------------------------------------------------------
\* A selection is a list of entries of the list, at increasing positions,
\* which are all the positions asked for.
Sublist(r, s, I, n) ==
    \E h : /\ \A k \in 1..Len(r) : h[k] \in I /\ h[k] \in 1..n /\ r[k] = s[h[k]]
           /\ \A k, l \in 1..Len(r) : k < l => h[k] < h[l]
           /\ \A i \in I \cap 1..n : \E k \in 1..Len(r) : h[k] = i

Good(r, s, I, n, S) == r \in Seq(S) /\ Len(r) <= n /\ Sublist(r, s, I, n)

LEMMA SublistGrows ==
    ASSUME NEW S, NEW s, NEW I, NEW n \in Nat \ {0}, NEW r, Good(r, s, I, n - 1, S), s[n] \in S
    PROVE  /\ n \notin I => Good(r, s, I, n, S)
           /\ n \in I => Good(Append(r, s[n]), s, I, n, S)
<1>1. r \in Seq(S) /\ Len(r) \in Nat /\ Len(r) <= n - 1
  BY DEF Good
<1>2. PICK h : /\ \A k \in 1..Len(r) : h[k] \in I /\ h[k] \in 1..(n - 1) /\ r[k] = s[h[k]]
               /\ \A k, l \in 1..Len(r) : k < l => h[k] < h[l]
               /\ \A i \in I \cap 1..(n - 1) : \E k \in 1..Len(r) : h[k] = i
  BY DEF Good, Sublist
<1>3. ASSUME n \notin I PROVE Good(r, s, I, n, S)
  <2>1. \A k \in 1..Len(r) : h[k] \in I /\ h[k] \in 1..n /\ r[k] = s[h[k]]
    BY <1>2
  <2>2. I \cap 1..n = I \cap 1..(n - 1)
    BY <1>3
  <2>3. \A i \in I \cap 1..n : \E k \in 1..Len(r) : h[k] = i
    BY <1>2, <2>2
  <2>4. Sublist(r, s, I, n)
    BY <1>2, <2>1, <2>3 DEF Sublist
  <2> QED BY <1>1, <2>4 DEF Good
<1>4. ASSUME n \in I PROVE Good(Append(r, s[n]), s, I, n, S)
  <2> DEFINE t == Append(r, s[n])
             g == [k \in 1..Len(r) + 1 |-> IF k = Len(r) + 1 THEN n ELSE h[k]]
  <2>1. t \in Seq(S) /\ Len(t) = Len(r) + 1 /\ t[Len(r) + 1] = s[n]
         /\ \A k \in 1..Len(r) : t[k] = r[k]
    BY <1>1
  <2>2. g[Len(r) + 1] = n /\ \A k \in 1..Len(r) : g[k] = h[k]
    BY <1>1
  <2> HIDE DEF t, g
  <2>3. ASSUME NEW k \in 1..Len(t) PROVE g[k] \in I /\ g[k] \in 1..n /\ t[k] = s[g[k]]
    <3>1. CASE k = Len(r) + 1
      BY <1>4, <2>1, <2>2, <3>1
    <3>2. CASE k # Len(r) + 1
      <4>1. k \in 1..Len(r)
        BY <1>1, <2>1, <3>2
      <4> QED BY <1>2, <2>1, <2>2, <4>1
    <3> QED BY <3>1, <3>2
  <2>4. ASSUME NEW k \in 1..Len(t), NEW l \in 1..Len(t), k < l PROVE g[k] < g[l]
    <3>1. k \in 1..Len(r)
      BY <1>1, <2>1, <2>4
    <3>2. CASE l = Len(r) + 1
      <4>1. g[k] \in 1..(n - 1)
        BY <1>2, <2>2, <3>1
      <4> QED BY <2>2, <3>2, <4>1
    <3>3. CASE l # Len(r) + 1
      <4>1. l \in 1..Len(r)
        BY <1>1, <2>1, <3>3
      <4> QED BY <1>2, <2>2, <2>4, <3>1, <4>1
    <3> QED BY <3>2, <3>3
  <2>5. ASSUME NEW i \in I \cap 1..n PROVE \E k \in 1..Len(t) : g[k] = i
    <3>1. CASE i = n
      <4>1. Len(r) + 1 \in 1..Len(t)
        BY <1>1, <2>1
      <4> QED BY <2>2, <3>1, <4>1
    <3>2. CASE i # n
      <4>1. PICK k \in 1..Len(r) : h[k] = i
        BY <1>2, <3>2
      <4>2. k \in 1..Len(t)
        BY <1>1, <2>1
      <4> QED BY <2>2, <4>1, <4>2
    <3> QED BY <3>1, <3>2
  <2>6. Sublist(t, s, I, n)
    BY <2>3, <2>4, <2>5 DEF Sublist
  <2>7. Good(t, s, I, n, S)
    BY <1>1, <2>1, <2>6 DEF Good
  <2> QED BY <2>7 DEF t
<1> QED BY <1>3, <1>4

LEMMA SelectedGood ==
    ASSUME NEW S, NEW s \in Seq(S), NEW I
    PROVE  Good(Selected(s, I), s, I, Len(s), S)
<1> DEFINE n == Len(s)
<1>1. n \in Nat /\ \A i \in 1..n : s[i] \in S
  OBVIOUS
<1>2. PICK f : Selects(f, s, I, n) /\ Selected(s, I) = f[n]
  BY <1>1, SelectedIs
<1> HIDE DEF n
<1> DEFINE Bad == {k \in 0..n : ~Good(f[k], s, I, k, S)}
<1>3. Bad = {}
  <2> SUFFICES ASSUME Bad # {} PROVE FALSE
    OBVIOUS
  <2>1. PICK k \in Bad : \A j \in Bad : k <= j
    <3>1. Bad \in SUBSET Nat
      BY <1>1
    <3> HIDE DEF Bad
    <3> QED BY <3>1, LeastElement
  <2>2. k \in 0..n /\ ~Good(f[k], s, I, k, S)
    BY <2>1
  <2>3. k # 0
    <3>1. <<>> \in Seq(S) /\ Len(<<>>) = 0
      OBVIOUS
    <3>2. Sublist(<<>>, s, I, 0)
      BY <3>1 DEF Sublist
    <3>3. f[0] = <<>>
      BY <1>2 DEF Selects
    <3>4. Good(f[0], s, I, 0, S)
      BY <3>1, <3>2, <3>3 DEF Good
    <3> QED BY <2>2, <3>4
  <2>4. k \in 1..n /\ k - 1 \in 0..n /\ k - 1 \notin Bad /\ k \in Nat \ {0}
    <3> HIDE DEF Bad
    <3> QED BY <1>1, <2>1, <2>2, <2>3
  <2>5. Good(f[k - 1], s, I, k - 1, S) /\ s[k] \in S
    BY <1>1, <2>4
  <2>6. f[k] = IF k \in I THEN Append(f[k - 1], s[k]) ELSE f[k - 1]
    BY <1>2, <2>4 DEF Selects
  <2> HIDE DEF Bad
  <2>7. CASE k \in I
    BY <2>2, <2>4, <2>5, <2>6, <2>7, SublistGrows
  <2>8. CASE k \notin I
    BY <2>2, <2>4, <2>5, <2>6, <2>8, SublistGrows
  <2> QED BY <2>7, <2>8
<1>4. n \notin Bad /\ n \in 0..n
  <2> HIDE DEF Bad
  <2> QED BY <1>1, <1>3
<1>5. Good(f[n], s, I, n, S)
  BY <1>4
<1> QED BY <1>2, <1>5 DEF n

\* Nothing is dropped that is selected, everything when nothing is.
LEMMA SelectedAll ==
    ASSUME NEW S, NEW s \in Seq(S), NEW I, 1..Len(s) \subseteq I
    PROVE  Selected(s, I) = s
<1> DEFINE n == Len(s)
           P == [i \in 0..n |-> SubSeq(s, 1, i)]
<1>1. n \in Nat
  OBVIOUS
<1>2. PICK f : Selects(f, s, I, n) /\ Selected(s, I) = f[n]
  BY <1>1, SelectedIs
<1>3. \A i \in 0..n : SubSeq(s, 1, i) \in Seq(S) /\ Len(SubSeq(s, 1, i)) = i
                      /\ \A j \in 1..i : SubSeq(s, 1, i)[j] = s[j]
  OBVIOUS
<1>4. ASSUME NEW i \in 1..n PROVE P[i] = Append(P[i - 1], s[i])
  <2>1. i \in 0..n /\ i - 1 \in 0..n /\ s[i] \in S
    OBVIOUS
  <2> DEFINE a == SubSeq(s, 1, i)
             b == SubSeq(s, 1, i - 1)
             t == Append(b, s[i])
  <2>2. a \in Seq(S) /\ Len(a) = i /\ \A j \in 1..i : a[j] = s[j]
    BY <1>3, <2>1
  <2>3. b \in Seq(S) /\ Len(b) = i - 1 /\ \A j \in 1..(i - 1) : b[j] = s[j]
    BY <1>3, <2>1
  <2>4. P[i] = a /\ P[i - 1] = b
    BY <2>1
  <2> HIDE DEF a, b
  <2>5. t \in Seq(S) /\ Len(t) = i /\ t[i] = s[i] /\ \A j \in 1..(i - 1) : t[j] = b[j]
    BY <2>1, <2>3
  <2> HIDE DEF t
  <2>6. \A j \in 1..i : a[j] = t[j]
    BY <2>2, <2>3, <2>5
  <2>7. a = t
    BY <2>2, <2>5, <2>6, SeqEqual
  <2> HIDE DEF P
  <2> QED BY <2>4, <2>7 DEF t
<1>5. P[0] = <<>>
  <2>1. 0 \in 0..n /\ SubSeq(s, 1, 0) = <<>>
    BY <1>3, EmptySeq
  <2> QED BY <2>1
<1>6. P = [i \in 0..n |-> P[i]]
  OBVIOUS
<1>7. P[n] = s
  <2>1. n \in 0..n /\ SubSeq(s, 1, n) = s
    BY <1>3, SeqEqual
  <2> QED BY <2>1
<1> HIDE DEF P, n
<1>8. Selects(P, s, I, n)
  BY <1>4, <1>5, <1>6 DEF Selects, n
<1> QED BY <1>1, <1>2, <1>7, <1>8, SelectionUnique

LEMMA SelectedNone ==
    ASSUME NEW S, NEW s \in Seq(S), NEW I, I \cap 1..Len(s) = {}
    PROVE  Selected(s, I) = <<>>
<1> DEFINE n == Len(s)
           P == [i \in 0..n |-> <<>>]
<1>1. n \in Nat
  OBVIOUS
<1>2. PICK f : Selects(f, s, I, n) /\ Selected(s, I) = f[n]
  BY <1>1, SelectedIs
<1>3. P[0] = <<>> /\ P[n] = <<>> /\ \A i \in 1..n : i \notin I /\ P[i] = P[i - 1]
  BY <1>1
<1>4. P = [i \in 0..n |-> P[i]]
  OBVIOUS
<1> HIDE DEF P, n
<1>5. Selects(P, s, I, n)
  BY <1>3, <1>4 DEF Selects
<1> QED BY <1>1, <1>2, <1>3, <1>5, SelectionUnique

-----------------------------------------------------------------------------
(***************************************************************************)
(* The operations on the recency list.                                     *)
(***************************************************************************)
Ordered(s) == \A i, j \in 1..Len(s) : i < j => s[i].created >= s[j].created

Outside(s, ids) == {i \in 1..Len(s) : s[i].id \notin ids}

LEMMA ItemIs ==
    ASSUME NEW item \in Item PROVE item.id \in Nat /\ item.created \in Nat /\ item.id \in Ids
BY ItemAssumption DEF Ids

\* What the properties of a list need of a selection from it: its entries, in
\* their order, are entries of the list, and no other is missing.
Shorter(r, s, ids) ==
    /\ r \in Seq(Item) /\ Len(r) \in Nat /\ Len(r) <= Len(s)
    /\ Ordered(s) => Ordered(r)
    /\ \A k \in 1..Len(r) : r[k].id \notin ids /\ \E i \in 1..Len(s) : s[i] = r[k]
    /\ \A i \in 1..Len(s) : s[i].id \notin ids => \E k \in 1..Len(r) : r[k] = s[i]
    /\ (\A i, j \in 1..Len(s) : s[i].id = s[j].id => i = j)
         => (\A k, l \in 1..Len(r) : r[k].id = r[l].id => k = l)

LEMMA WithoutShorter ==
    ASSUME NEW s \in Seq(Item), NEW ids
    PROVE  Shorter(Without(s, ids), s, ids)
<1> DEFINE I == Outside(s, ids)
           r == Without(s, ids)
<1>1. Good(r, s, I, Len(s), Item)
  BY SelectedGood DEF Without, Outside
<1>2. \A i \in I : i \in 1..Len(s) /\ s[i].id \notin ids
  BY DEF Outside
<1>3. \A i \in 1..Len(s) : s[i].id \notin ids => i \in I \cap 1..Len(s)
  BY DEF Outside
<1> HIDE DEF I, r
<1>4. PICK h : /\ \A k \in 1..Len(r) : h[k] \in I /\ h[k] \in 1..Len(s) /\ r[k] = s[h[k]]
               /\ \A k, l \in 1..Len(r) : k < l => h[k] < h[l]
               /\ \A i \in I \cap 1..Len(s) : \E k \in 1..Len(r) : h[k] = i
  BY <1>1 DEF Good, Sublist
<1>5. r \in Seq(Item) /\ Len(r) \in Nat /\ Len(r) <= Len(s)
  BY <1>1 DEF Good
<1>6. Ordered(s) => Ordered(r)
  BY <1>4, <1>5 DEF Ordered
<1>7. ASSUME NEW k \in 1..Len(r) PROVE r[k].id \notin ids /\ \E i \in 1..Len(s) : s[i] = r[k]
  BY <1>2, <1>4
<1>8. ASSUME NEW i \in 1..Len(s), s[i].id \notin ids PROVE \E k \in 1..Len(r) : r[k] = s[i]
  <2>1. PICK k \in 1..Len(r) : h[k] = i
    BY <1>3, <1>4, <1>8
  <2> QED BY <1>4, <2>1
<1>9. ASSUME \A i, j \in 1..Len(s) : s[i].id = s[j].id => i = j,
             NEW k \in 1..Len(r), NEW l \in 1..Len(r), r[k].id = r[l].id
      PROVE  k = l
  <2>1. h[k] \in 1..Len(s) /\ h[l] \in 1..Len(s) /\ r[k] = s[h[k]] /\ r[l] = s[h[l]]
    BY <1>4
  <2>2. h[k] = h[l]
    BY <1>9, <2>1
  <2>3. ~(k < l) /\ ~(l < k)
    BY <1>4, <2>1, <2>2
  <2> QED BY <1>5, <2>3
<1> QED BY <1>5, <1>6, <1>7, <1>8, <1>9 DEF Shorter, r

LEMMA WithoutNothing ==
    ASSUME NEW s \in Seq(Item), NEW ids, \A i \in 1..Len(s) : s[i].id \notin ids
    PROVE  Without(s, ids) = s
<1>1. 1..Len(s) \subseteq Outside(s, ids)
  BY DEF Outside
<1> QED BY <1>1, SelectedAll DEF Without, Outside

LEMMA WithoutAll ==
    ASSUME NEW s \in Seq(Item), NEW ids, \A i \in 1..Len(s) : s[i].id \in ids
    PROVE  Without(s, ids) = <<>>
<1>1. Outside(s, ids) \cap 1..Len(s) = {}
  BY DEF Outside
<1> QED BY <1>1, SelectedNone DEF Without, Outside

\* _evict_locked drops the entry of the id, since the row is the entry's.
LEMMA EvictedIsWithout ==
    ASSUME NEW s, NEW ids,
           \A i \in 1..Len(s) : rows[s[i].id] # None /\ rows[s[i].id].item = s[i]
    PROVE  Evicted(s, ids) = Without(s, ids)
<1>1. {i \in 1..Len(s) : ~(s[i].id \in ids /\ rows[s[i].id] # None /\ rows[s[i].id].item = s[i])}
        = {i \in 1..Len(s) : s[i].id \notin ids}
  OBVIOUS
<1> QED BY <1>1 DEF Evicted, Without

\* Where an entry is put in a list.
Inserted(s, k, item) == SubSeq(s, 1, k) \o <<item>> \o SubSeq(s, k + 1, Len(s))

\* A list that has the entry at a position and the others around it.
Around(t, s, k, item) ==
    /\ t \in Seq(Item) /\ Len(t) = Len(s) + 1 /\ t[k + 1] = item
    /\ \A i \in 1..k : t[i] = s[i]
    /\ \A i \in (k + 2)..(Len(s) + 1) : t[i] = s[i - 1]

LEMMA InsertedAround ==
    ASSUME NEW s \in Seq(Item), NEW item \in Item, NEW k \in 0..Len(s)
    PROVE  Around(Inserted(s, k, item), s, k, item)
<1> DEFINE n == Len(s)
           a == SubSeq(s, 1, k)
           b == <<item>>
           c == SubSeq(s, k + 1, n)
<1>1. n \in Nat
  OBVIOUS
<1>2. a \in Seq(Item) /\ Len(a) = k /\ \A i \in 1..k : a[i] = s[i]
  OBVIOUS
<1>3. b \in Seq(Item) /\ Len(b) = 1 /\ b[1] = item
  OBVIOUS
<1>4. c \in Seq(Item) /\ Len(c) = n - k /\ \A i \in 1..(n - k) : c[i] = s[k + i]
  OBVIOUS
<1> HIDE DEF a, b, c, n
<1> DEFINE d == a \o b
<1>5. /\ d \in Seq(Item) /\ Len(d) = k + 1 /\ d[k + 1] = item
      /\ \A i \in 1..k : d[i] = s[i]
  <2>1. /\ a \o b \in Seq(Item)
        /\ Len(a \o b) = Len(a) + Len(b)
        /\ \A i \in 1..Len(a) + Len(b) : (a \o b)[i] = IF i <= Len(a) THEN a[i] ELSE b[i - Len(a)]
    BY ONLY <1>2, <1>3, ConcatProperties, Zenon
  <2> HIDE DEF d
  <2>2. /\ d \in Seq(Item) /\ Len(d) = Len(a) + Len(b)
        /\ \A i \in 1..Len(a) + Len(b) : d[i] = IF i <= Len(a) THEN a[i] ELSE b[i - Len(a)]
    BY ONLY <2>1, Zenon DEF d
  <2>3. k + 1 \in 1..Len(a) + Len(b) /\ ~(k + 1 <= Len(a)) /\ (k + 1) - Len(a) = 1
    BY <1>1, <1>2, <1>3
  <2>4. d[k + 1] = item
    BY <1>3, <2>2, <2>3
  <2>5. ASSUME NEW i \in 1..k PROVE d[i] = s[i]
    <3>1. i \in 1..Len(a) + Len(b) /\ i <= Len(a)
      BY <1>1, <1>2, <1>3
    <3> QED BY <1>2, <2>2, <3>1
  <2> QED BY <1>2, <1>3, <2>2, <2>4, <2>5
<1> HIDE DEF d
<1> DEFINE t == d \o c
<1>6. /\ t \in Seq(Item) /\ Len(t) = n + 1
      /\ \A i \in 1..(k + 1) : t[i] = d[i]
      /\ \A i \in (k + 2)..(n + 1) : t[i] = c[i - (k + 1)]
  <2>1. /\ d \o c \in Seq(Item)
        /\ Len(d \o c) = Len(d) + Len(c)
        /\ \A i \in 1..Len(d) + Len(c) : (d \o c)[i] = IF i <= Len(d) THEN d[i] ELSE c[i - Len(d)]
    BY ONLY <1>4, <1>5, ConcatProperties, Zenon
  <2> HIDE DEF t
  <2>2. /\ t \in Seq(Item) /\ Len(t) = Len(d) + Len(c)
        /\ \A i \in 1..Len(d) + Len(c) : t[i] = IF i <= Len(d) THEN d[i] ELSE c[i - Len(d)]
    BY ONLY <2>1, Zenon DEF t
  <2>3. Len(d) + Len(c) = n + 1
    BY <1>1, <1>4, <1>5
  <2>4. ASSUME NEW i \in 1..(k + 1) PROVE t[i] = d[i]
    <3>1. i \in 1..Len(d) + Len(c) /\ i <= Len(d)
      BY <1>1, <1>4, <1>5
    <3> QED BY <2>2, <3>1
  <2>5. ASSUME NEW i \in (k + 2)..(n + 1) PROVE t[i] = c[i - (k + 1)]
    <3>1. i \in 1..Len(d) + Len(c) /\ ~(i <= Len(d))
      BY <1>1, <1>4, <1>5
    <3> QED BY <1>5, <2>2, <3>1
  <2> QED BY <2>2, <2>3, <2>4, <2>5
<1>7. ASSUME NEW i \in (k + 2)..(n + 1) PROVE t[i] = s[i - 1]
  <2>1. i - (k + 1) \in 1..(n - k) /\ k + (i - (k + 1)) = i - 1
    BY <1>1
  <2> QED BY <1>4, <1>6, <2>1
<1>8. t[k + 1] = item /\ \A i \in 1..k : t[i] = s[i]
  BY <1>5, <1>6
<1>9. Inserted(s, k, item) = t
  BY DEF Inserted, t, d, a, b, c, n
<1> HIDE DEF t
<1> QED BY <1>6, <1>7, <1>8, <1>9 DEF Around, n

\* The position of _update_recency's new entry, of ZADD's and of insort's.
Place(rest, item) == Cardinality({i \in 1..Len(rest) : ~Before(item, rest[i])})

Fits(s, k, item) ==
    /\ k \in 0..Len(s)
    /\ \A i \in 1..k : s[i].created >= item.created
    /\ \A i \in (k + 1)..Len(s) : item.created >= s[i].created

LEMMA PlaceFits ==
    ASSUME NEW s \in Seq(Item), Ordered(s), NEW item \in Item
    PROVE  Fits(s, Place(s, item), item)
<1> DEFINE n == Len(s)
           T == {i \in 1..n : ~Before(item, s[i])}
           k == Cardinality(T)
<1>1. n \in Nat /\ \A i \in 1..n : s[i] \in Item /\ s[i].created \in Nat
  BY ItemIs
<1>2. item.created \in Nat
  BY ItemIs
<1>3. \A i \in 1..n : /\ i \in T => s[i].created >= item.created
                      /\ i \notin T => item.created >= s[i].created
  BY <1>1, <1>2 DEF Before
<1>4. T \in SUBSET (1..n)
  OBVIOUS
<1> HIDE DEF T, n
<1>5. IsFiniteSet(1..n) /\ Cardinality(1..n) = n
  <2>1. 1 \in Int /\ n \in Int
    BY <1>1
  <2> QED BY <1>1, <2>1, FS_Interval
<1>6. IsFiniteSet(T) /\ k \in Nat /\ k <= n
  <2>1. IsFiniteSet(T) /\ Cardinality(T) <= Cardinality(1..n)
    BY <1>4, <1>5, FS_Subset
  <2>2. Cardinality(T) \in Nat
    BY <2>1, FS_CardinalityType
  <2> QED BY <1>5, <2>1, <2>2
<1>7. ASSUME NEW i \in 1..k, ~(s[i].created >= item.created) PROVE FALSE
  <2>0. i \in 1..n
    BY <1>1, <1>6
  <2>1. ASSUME NEW j \in T PROVE j \in 1..(i - 1)
    <3>1. j \in 1..n /\ s[j].created >= item.created
      BY <1>3, <1>4
    <3>2. ~(i <= j)
      <4>1. i < j => s[i].created >= s[j].created
        BY <2>0, <3>1 DEF Ordered, n
      <4>2. i = j => s[i].created >= s[j].created
        BY <1>1, <2>0
      <4> QED BY <1>1, <1>2, <1>7, <2>0, <3>1, <4>1, <4>2
    <3> QED BY <1>1, <2>0, <3>1, <3>2
  <2>2. IsFiniteSet(1..(i - 1)) /\ Cardinality(1..(i - 1)) = i - 1
    <3>1. 1 \in Int /\ i - 1 \in Int /\ (1 > i - 1 => i - 1 = 0)
      BY <1>1, <2>0
    <3> QED BY <2>0, <3>1, FS_Interval
  <2>3. T \in SUBSET (1..(i - 1))
    BY <2>1
  <2>4. k <= i - 1
    BY <2>2, <2>3, FS_Subset
  <2> QED BY <1>1, <1>6, <2>0, <2>4
<1>8. ASSUME NEW i \in (k + 1)..n, ~(item.created >= s[i].created) PROVE FALSE
  <2>0. i \in 1..n
    BY <1>1, <1>6
  <2>1. ASSUME NEW j \in 1..i PROVE j \in T
    <3>1. j \in 1..n /\ (j < i => s[j].created >= s[i].created)
      BY <1>1, <2>0 DEF Ordered, n
    <3>2. s[j].created >= s[i].created
      BY <1>1, <2>0, <3>1
    <3>3. s[i].created \in Nat /\ s[j].created \in Nat
      BY <1>1, <2>0, <3>1
    <3>4. \A a, b, c \in Nat : ~(a >= b) /\ c >= b => ~(a >= c)
      OBVIOUS
    <3>5. ~(item.created >= s[j].created)
      BY <1>2, <1>8, <3>2, <3>3, <3>4, Zenon
    <3> QED BY <1>3, <3>1, <3>5
  <2>2. Cardinality(1..i) = i
    <3>1. 1 \in Int /\ i \in Int /\ ~(1 > i)
      BY <1>1, <2>0
    <3> QED BY <3>1, FS_Interval
  <2>3. 1..i \in SUBSET T
    BY <2>1
  <2>4. i <= k
    BY <1>6, <2>2, <2>3, FS_Subset
  <2> QED BY <1>1, <1>6, <2>0, <2>4
<1>9. k = Place(s, item)
  BY DEF Place, T, n
<1>10. k \in 0..n
  BY <1>1, <1>6
<1> HIDE DEF k
<1>11. Fits(s, k, item)
  BY <1>7, <1>8, <1>10 DEF Fits, n
<1> QED BY <1>9, <1>11

LEMMA AroundOrdered ==
    ASSUME NEW s \in Seq(Item), Ordered(s), NEW item \in Item, NEW k, Fits(s, k, item),
           NEW t, Around(t, s, k, item)
    PROVE  Ordered(t)
<1>1. Len(s) \in Nat /\ k \in 0..Len(s) /\ item.created \in Nat
      /\ \A i \in 1..Len(s) : s[i].created \in Nat
  BY ItemIs DEF Fits
<1>2. Len(t) = Len(s) + 1
  BY DEF Around
<1>3. SUFFICES ASSUME NEW i \in 1..Len(t), NEW j \in 1..Len(t), i < j
               PROVE  t[i].created >= t[j].created
  BY DEF Ordered
<1>4. CASE i <= k /\ j <= k
  <2>1. i \in 1..k /\ j \in 1..k /\ i \in 1..Len(s) /\ j \in 1..Len(s)
    BY <1>1, <1>4
  <2>2. t[i] = s[i] /\ t[j] = s[j]
    BY <2>1 DEF Around
  <2> QED BY <1>3, <2>1, <2>2 DEF Ordered
<1>5. CASE i <= k /\ j = k + 1
  <2>1. i \in 1..k
    BY <1>1, <1>5
  <2>2. t[i] = s[i] /\ t[j] = item
    BY <1>5, <2>1 DEF Around
  <2> QED BY <2>1, <2>2 DEF Fits
<1>6. CASE i <= k /\ j >= k + 2
  <2>1. i \in 1..k /\ j \in (k + 2)..(Len(s) + 1) /\ i \in 1..Len(s) /\ j - 1 \in 1..Len(s)
         /\ i < j - 1
    BY <1>1, <1>2, <1>6
  <2>2. t[i] = s[i] /\ t[j] = s[j - 1]
    BY <2>1 DEF Around
  <2> QED BY <2>1, <2>2 DEF Ordered
<1>7. CASE i = k + 1
  <2>1. j \in (k + 2)..(Len(s) + 1) /\ j - 1 \in (k + 1)..Len(s)
    BY <1>1, <1>2, <1>3, <1>7
  <2>2. t[i] = item /\ t[j] = s[j - 1]
    BY <1>7, <2>1 DEF Around
  <2> QED BY <2>1, <2>2 DEF Fits
<1>8. CASE i >= k + 2
  <2>1. /\ i \in (k + 2)..(Len(s) + 1) /\ j \in (k + 2)..(Len(s) + 1)
        /\ i - 1 \in 1..Len(s) /\ j - 1 \in 1..Len(s) /\ i - 1 < j - 1
    BY <1>1, <1>2, <1>3, <1>8
  <2>2. t[i] = s[i - 1] /\ t[j] = s[j - 1]
    BY <2>1 DEF Around
  <2> QED BY <2>1, <2>2 DEF Ordered
<1> QED BY <1>1, <1>2, <1>3, <1>4, <1>5, <1>6, <1>7, <1>8

\* What Added returns: the list without the entry's id, and the entry in its
\* place.
LEMMA AddedIs ==
    ASSUME NEW s \in Seq(Item), Ordered(s), NEW item \in Item
    PROVE  LET rest == Without(s, {item.id})
               k == Place(rest, item)
               t == Added(s, item)
           IN  /\ rest \in Seq(Item) /\ Ordered(rest) /\ Fits(rest, k, item)
               /\ t = Inserted(rest, k, item)
               /\ Around(t, rest, k, item) /\ Ordered(t)
<1> DEFINE rest == Without(s, {item.id})
           k == Place(rest, item)
           t == Added(s, item)
<1>1. rest \in Seq(Item) /\ Ordered(rest)
  BY WithoutShorter DEF Shorter
<1>2. t = Inserted(rest, k, item)
  BY DEF Added, Inserted, Place
<1> HIDE DEF rest, t
<1>3. Fits(rest, k, item)
  BY <1>1, PlaceFits
<1> HIDE DEF k
<1>4. Around(t, rest, k, item)
  BY <1>1, <1>2, <1>3, InsertedAround DEF Fits
<1>5. Ordered(t)
  BY <1>1, <1>3, <1>4, AroundOrdered
<1> QED BY <1>1, <1>2, <1>3, <1>4, <1>5 DEF rest, k, t

\* What Truncated returns.
LEMMA TruncatedIs ==
    ASSUME NEW s \in Seq(Item)
    PROVE  LET t == Truncated(s) IN
           /\ t \in Seq(Item) /\ Len(t) \in Nat /\ Len(t) <= Cap /\ Len(t) <= Len(s)
           /\ Len(s) > Cap => Len(t) = Cap
           /\ \A i \in 1..Len(t) : t[i] = s[i]
           /\ Len(s) <= Cap => t = s
           /\ t = Floor!Capped(s)
           /\ Ordered(s) => Ordered(t)
<1> DEFINE n == Len(s)
           m == IF n > Cap THEN Cap ELSE n
           t == SubSeq(s, 1, m)
<1>1. n \in Nat /\ Cap \in Nat \ {0} /\ m \in Nat /\ m <= n /\ m <= Cap
  BY BoundAssumption
<1>2. t \in Seq(Item) /\ Len(t) = m /\ \A i \in 1..m : t[i] = s[i]
  BY <1>1
<1>3. Truncated(s) = t
  BY DEF Truncated
<1>4. n <= Cap => t = s
  <2> SUFFICES ASSUME n <= Cap PROVE t = s
    OBVIOUS
  <2>1. m = n
    BY <1>1
  <2> HIDE DEF t, m
  <2> QED BY <1>2, <2>1, SeqEqual
<1>5. t = Floor!Capped(s)
  <2>1. CASE n > Cap
    <3>1. m = Cap
      BY <2>1
    <3> QED BY <2>1, <3>1 DEF Floor!Capped
  <2>2. CASE ~(n > Cap)
    <3>1. t = s
      BY <1>1, <1>4, <2>2
    <3> HIDE DEF t
    <3> QED BY <2>2, <3>1 DEF Floor!Capped
  <2> QED BY <2>1, <2>2
<1>6. n > Cap => m = Cap
  OBVIOUS
<1> HIDE DEF m, t
<1>7. Ordered(s) => Ordered(t)
  BY <1>1, <1>2 DEF Ordered
<1> QED BY <1>1, <1>2, <1>3, <1>4, <1>5, <1>6, <1>7

-----------------------------------------------------------------------------
(***************************************************************************)
(* The inductive invariant of the tier.                                    *)
(***************************************************************************)
\* A stored row is an item of its id, and expires within a time to live.
RowOk(r, id, t) ==
    /\ DOMAIN r = {"item", "expires", "indexed"}
    /\ r.item \in Item /\ r.item.id = id
    /\ r.expires \in Nat /\ r.expires <= t + Ttl

RowsOk(r, t) ==
    /\ DOMAIN r = Ids
    /\ \A id \in Ids : r[id] # None => RowOk(r[id], id, t)

KeyOk(x, l, t, n, m) ==
    /\ x \in Seq(Item) /\ Ordered(x)
    /\ m \in Nat /\ l \in Nat /\ l <= m + Ttl
    /\ t \in Nat /\ n \in Nat /\ t <= n

\* A server's index key outlives the rows that are in it.
ServerOk(b, r, l) ==
    b # "memory" => \A id \in Ids : r[id] # None /\ r[id].indexed => r[id].expires <= l

\* The dict and the sorted list of the process hold the same items.
MemoryOk(b, x, r) ==
    b = "memory" =>
      /\ Len(x) <= Cap
      /\ \A i \in 1..Len(x) : r[x[i].id] # None /\ r[x[i].id].item = x[i]
      /\ \A id \in Ids : r[id] # None => \E i \in 1..Len(x) : x[i].id = id
      /\ \A i, j \in 1..Len(x) : x[i].id = x[j].id => i = j

CasOk(b, x, t) == b = "memcached" => Len(x) <= Cap /\ (t = 0 => x = <<>>)

\* What a call asks for, and where it may be.
Asked(c, b) ==
    /\ DOMAIN c = Fields
    /\ c.pc # "idle" => c.op \in {"put", "get", "evict", "recent"}
    /\ c.op = "put" => c.item \in Item
    /\ c.op \in {"get", "evict"} => c.item.id \in Ids
    /\ c.limit \in Nat /\ c.todo \in Seq(Ids)
    /\ c.pc \in {"fetch", "heal"} => c.todo # <<>>
    /\ c.pc \in {"fetch", "heal"} => c.op \in {"get", "recent"}
    /\ c.pc = "list" => c.op = "recent"
    /\ c.pc = "row" => c.op \in {"put", "evict"}
    /\ c.pc \in {"read", "cas"} => c.op \in {"put", "evict", "recent"}
    /\ c.pc \in {"read", "cas"} /\ c.op = "recent" => c.todo # <<>>
    /\ c.pc = "heal" => b = "redis"
    /\ c.pc \in {"list", "fetch"} => b # "memory"
    /\ c.pc \in {"row", "read", "cas"} => b = "memcached"

\* The token of the key that a call read stands for the list that it read.
ReadOk(c, t, n, x) ==
    c.pc = "cas" =>
      /\ c.seen \in Nat /\ c.seen <= n
      /\ c.seen = t => c.read = x
      /\ c.seen = 0 => c.read = <<>>

StoreInv ==
    /\ backend \in {"memory", "redis", "memcached"}
    /\ RowsOk(rows, now) /\ KeyOk(index, lapses, token, changes, now)
    /\ ServerOk(backend, rows, lapses) /\ MemoryOk(backend, index, rows)
    /\ CasOk(backend, index, token)

TasksInv ==
    /\ DOMAIN call = Task
    /\ \A p \in Task : Asked(call[p], backend) /\ ReadOk(call[p], token, changes, index)

FloorInv == StoreInv /\ TasksInv

LEMMA StoreStays ==
    ASSUME StoreInv, UNCHANGED <<backend, rows, index, lapses, token, changes, now>>
    PROVE  StoreInv'
BY DEF StoreInv

\* A step that leaves the key alone, or replaces it under a new token, leaves
\* what the other calls know.
KeyMoves ==
    /\ changes' \in Nat /\ changes' >= changes
    /\ \/ token' = token /\ index' = index
       \/ token' = changes + 1 /\ changes' = changes + 1
       \/ token' = 0 /\ index' = <<>>
       \/ backend # "memcached"

LEMMA OthersKnow ==
    ASSUME NEW c, Asked(c, backend), ReadOk(c, token, changes, index), changes \in Nat, KeyMoves
    PROVE  ReadOk(c, token', changes', index')
BY DEF Asked, ReadOk, KeyMoves

LEMMA TaskMoves ==
    ASSUME StoreInv, TasksInv, KeyMoves, backend' = backend, NEW p \in Task, NEW c,
           call' = [call EXCEPT ![p] = c],
           Asked(c, backend), ReadOk(c, token', changes', index')
    PROVE  TasksInv'
<1>1. DOMAIN call' = Task /\ call'[p] = c /\ \A q \in Task \ {p} : call'[q] = call[q]
  BY DEF TasksInv
<1>2. changes \in Nat
  BY DEF StoreInv, KeyOk
<1>3. ASSUME NEW q \in Task
      PROVE  Asked(call'[q], backend') /\ ReadOk(call'[q], token', changes', index')
  <2>1. CASE q = p
    BY <1>1, <2>1
  <2>2. CASE q # p
    <3>1. Asked(call[q], backend) /\ ReadOk(call[q], token, changes, index) /\ call'[q] = call[q]
      BY <1>1, <2>2 DEF TasksInv
    <3>2. ReadOk(call[q], token', changes', index')
      BY <1>2, <3>1, OthersKnow
    <3> QED BY <3>1, <3>2
  <2> QED BY <2>1, <2>2
<1> QED BY <1>1, <1>3 DEF TasksInv

LEMMA TasksStay ==
    ASSUME StoreInv, TasksInv, KeyMoves, backend' = backend, call' = call
    PROVE  TasksInv'
<1>1. changes \in Nat
  BY DEF StoreInv, KeyOk
<1>2. ASSUME NEW q \in Task PROVE ReadOk(call[q], token', changes', index')
  BY <1>1, OthersKnow DEF TasksInv
<1> QED BY <1>2 DEF TasksInv

\* The calls that the actions make of a call.
LEMMA IdleAsked ==
    ASSUME NEW b, NEW t, NEW n, NEW x
    PROVE  Asked(Idle, b) /\ ReadOk(Idle, t, n, x)
<1>1. /\ DOMAIN Idle = Fields /\ Idle.pc = "idle" /\ Idle.op = "none" /\ Idle.todo = <<>>
      /\ Idle.limit = 0
  BY DEF Idle, Fields
<1>2. <<>> \in Seq(Ids)
  OBVIOUS
<1> QED BY <1>1, <1>2 DEF Asked, ReadOk

LEMMA OpenedAsked ==
    ASSUME backend \in {"memory", "redis", "memcached"}, NEW op, NEW item, NEW limit \in Nat,
           \/ op = "put" /\ item \in Item
           \/ op \in {"get", "evict"} /\ item.id \in Ids
           \/ op = "recent",
           NEW t, NEW n, NEW x
    PROVE  Asked(Opened(op, item, limit), backend) /\ ReadOk(Opened(op, item, limit), t, n, x)
<1> DEFINE c == Opened(op, item, limit)
<1>1. /\ DOMAIN c = Fields /\ c.pc = FirstStep(op) /\ c.op = op /\ c.item = item /\ c.limit = limit
      /\ c.todo = IF op = "get" THEN <<item.id>> ELSE <<>>
  BY DEF Opened, Idle, Fields
<1>2. <<>> \in Seq(Ids) /\ (op = "get" => <<item.id>> \in Seq(Ids) /\ <<item.id>> # <<>>)
  OBVIOUS
<1> HIDE DEF c
<1>3. /\ c.todo \in Seq(Ids)
      /\ op = "get" => c.todo # <<>>
  BY <1>1, <1>2
<1>4. /\ FirstStep(op) \in {"exec", "fetch", "list", "row"}
      /\ FirstStep(op) = "fetch" => op = "get" /\ backend # "memory"
      /\ FirstStep(op) = "list" => op = "recent" /\ backend # "memory"
      /\ FirstStep(op) = "row" => backend = "memcached" /\ op \notin {"get", "recent"}
  BY DEF FirstStep
<1>5. ReadOk(c, t, n, x)
  BY <1>1, <1>4 DEF ReadOk
<1>6. Asked(c, backend)
  BY <1>1, <1>3, <1>4 DEF Asked
<1> QED BY <1>5, <1>6 DEF c

\* A call that leaves the loop, or goes on to the next id.
LEMMA AdvanceAsked ==
    ASSUME NEW b, NEW c, Asked(c, b), b # "memory", c.op \in {"get", "recent"}, c.todo # <<>>,
           NEW t, NEW n, NEW x
    PROVE  Asked(Advance(c), b) /\ ReadOk(Advance(c), t, n, x)
<1>1. CASE Len(c.todo) > 1
  <2> DEFINE d == [c EXCEPT !.todo = Tail(@), !.pc = "fetch"]
  <2>1. Advance(c) = d
    BY <1>1 DEF Advance
  <2>2. DOMAIN d = Fields /\ d.pc = "fetch" /\ d.op = c.op /\ d.item = c.item
         /\ d.limit = c.limit /\ d.todo = Tail(c.todo)
    BY DEF Asked, Fields
  <2>3. Tail(c.todo) \in Seq(Ids) /\ Tail(c.todo) # <<>>
    <3>1. c.todo \in Seq(Ids)
      BY DEF Asked
    <3>2. Tail(c.todo) \in Seq(Ids) /\ Len(Tail(c.todo)) = Len(c.todo) - 1
      <4> DEFINE q == c.todo
      <4> HIDE DEF q
      <4>1. q \in Seq(Ids) /\ q # <<>>
        BY <3>1 DEF q
      <4>2. Tail(q) \in Seq(Ids) /\ Len(Tail(q)) = Len(q) - 1
        BY ONLY <4>1, HeadTailProperties
      <4> QED BY <4>2 DEF q
    <3>3. Len(Tail(c.todo)) # 0
      <4> DEFINE u == Len(c.todo)
                 v == Len(Tail(c.todo))
      <4>1. u \in Nat /\ u > 1
        BY <1>1, <3>1, LenProperties
      <4>2. v = u - 1
        BY <3>2, Zenon
      <4> HIDE DEF u, v
      <4>3. v # 0
        BY ONLY <4>1, <4>2
      <4> QED BY <4>3 DEF v
    <3> QED BY <3>2, <3>3, EmptySeq
  <2> HIDE DEF d
  <2>4. Asked(d, b)
    BY <2>2, <2>3 DEF Asked
  <2>5. ReadOk(d, t, n, x)
    BY <2>2 DEF ReadOk
  <2> QED BY <2>1, <2>4, <2>5
<1>2. CASE ~(Len(c.todo) > 1)
  <2>1. Advance(c) = Idle
    BY <1>2 DEF Advance
  <2> QED BY <2>1, IdleAsked
<1> QED BY <1>1, <1>2

LEMMA LoopingAsked ==
    ASSUME NEW c, Asked(c, "memcached"), c.op \in {"put", "evict", "recent"},
           c.op = "recent" => c.todo # <<>>, NEW t, NEW n, NEW x
    PROVE  Asked(Looping(c), "memcached") /\ ReadOk(Looping(c), t, n, x)
<1> DEFINE d == Looping(c)
<1>1. DOMAIN d = Fields /\ d.pc = "read" /\ d.op = c.op /\ d.item = c.item
       /\ d.limit = c.limit /\ d.todo = c.todo
  BY DEF Looping, Asked, Fields
<1> HIDE DEF d
<1>2. Asked(d, "memcached")
  BY <1>1 DEF Asked
<1>3. ReadOk(d, t, n, x)
  BY <1>1 DEF ReadOk
<1> QED BY <1>2, <1>3 DEF d

LEMMA LoopedAsked ==
    ASSUME NEW b, NEW c, Asked(c, b) PROVE Asked(Looped(c), b) /\ Looped(c).op = c.op
           /\ Looped(c).todo = c.todo
<1> DEFINE d == Looped(c)
<1>1. DOMAIN d = Fields /\ d.pc = c.pc /\ d.op = c.op /\ d.item = c.item /\ d.limit = c.limit
       /\ d.todo = c.todo
  BY DEF Looped, Asked, Fields
<1> HIDE DEF d
<1>2. Asked(d, b)
  BY <1>1 DEF Asked
<1> QED BY <1>1, <1>2 DEF d

\* A call at another step that asks for the same.
LEMMA GotoAsked ==
    ASSUME NEW b, NEW c, Asked(c, b), NEW pc, pc \in {"reply", "raised"}, c.pc # "idle", NEW t, NEW n, NEW x,
           NEW d, DOMAIN d = Fields, d.pc = pc, d.op = c.op, d.item = c.item, d.limit = c.limit, d.todo = c.todo
    PROVE  Asked(d, b) /\ ReadOk(d, t, n, x)
BY DEF Asked, ReadOk

-----------------------------------------------------------------------------
(***************************************************************************)
(* The steps that touch no store.                                          *)
(***************************************************************************)
StoreUnchanged == UNCHANGED <<backend, rows, index, lapses, token, changes, now>>

LEMMA CallOnly ==
    ASSUME FloorInv, StoreUnchanged, NEW p \in Task, NEW c, call' = [call EXCEPT ![p] = c],
           Asked(c, backend), ReadOk(c, token, changes, index)
    PROVE  FloorInv'
<1>1. StoreInv'
  BY StoreStays DEF FloorInv, StoreUnchanged
<1>2. KeyMoves /\ backend' = backend /\ ReadOk(c, token', changes', index')
  BY DEF FloorInv, StoreInv, KeyOk, StoreUnchanged, KeyMoves
<1>3. TasksInv'
  BY <1>2, TaskMoves DEF FloorInv
<1> QED BY <1>1, <1>3 DEF FloorInv

LEMMA BeginInv == ASSUME FloorInv, NEW p \in Task, Begin(p) PROVE FloorInv'
<1>1. StoreUnchanged /\ backend \in {"memory", "redis", "memcached"}
  BY DEF Begin, StoreUnchanged, FloorInv, StoreInv
<1>2. ASSUME NEW item \in Item, call' = [call EXCEPT ![p] = Opened("put", item, 0)] PROVE FloorInv'
  <2>1. 0 \in Nat
    OBVIOUS
  <2> QED BY <2>1, <1>1, <1>2, OpenedAsked, CallOnly
<1>3. ASSUME NEW op \in {"get", "evict"}, NEW id \in Ids,
             call' = [call EXCEPT ![p] = Opened(op, [id |-> id, created |-> 0], 0)]
      PROVE  FloorInv'
  <2>1. [id |-> id, created |-> 0].id \in Ids /\ 0 \in Nat
    OBVIOUS
  <2> QED BY <1>1, <1>3, <2>1, OpenedAsked, CallOnly
<1>4. ASSUME NEW limit \in Limits, call' = [call EXCEPT ![p] = Opened("recent", None, limit)] PROVE FloorInv'
  <2>1. limit \in Nat
    BY BoundAssumption
  <2> QED BY <2>1, <1>1, <1>4, OpenedAsked, CallOnly
<1> QED BY <1>2, <1>3, <1>4 DEF Begin

LEMMA StopInv == ASSUME FloorInv, NEW p \in Task, Reply(p) \/ Cancel(p) PROVE FloorInv'
<1>1. StoreUnchanged /\ call' = [call EXCEPT ![p] = Idle]
  BY DEF Reply, Cancel, StoreUnchanged
<1> QED BY <1>1, IdleAsked, CallOnly

LEMMA RetryInv == ASSUME FloorInv, NEW p \in Task, Retry(p) PROVE FloorInv'
<1> DEFINE c == call[p]
<1>1. StoreUnchanged /\ backend \in {"memory", "redis", "memcached"}
  BY DEF Retry, StoreUnchanged, FloorInv, StoreInv
<1>2. Asked(c, backend) /\ DOMAIN call = Task /\ c.pc \notin {"idle", "raised"}
  BY DEF FloorInv, TasksInv, Retry, Waiting
<1>3. CASE call' = [call EXCEPT ![p] = Opened(@.op, @.item, @.limit)]
  <2>1. call' = [call EXCEPT ![p] = Opened(c.op, c.item, c.limit)]
    BY <1>3
  <2>2. \/ c.op = "put" /\ c.item \in Item
        \/ c.op \in {"get", "evict"} /\ c.item.id \in Ids
        \/ c.op = "recent"
    BY <1>2 DEF Asked
  <2>4. c.limit \in Nat
    BY <1>2 DEF Asked
  <2>3. /\ Asked(Opened(c.op, c.item, c.limit), backend)
        /\ ReadOk(Opened(c.op, c.item, c.limit), token, changes, index)
    BY <1>1, <2>2, <2>4, OpenedAsked
  <2> QED BY <1>1, <2>1, <2>3, CallOnly
<1>4. CASE c.pc = "cas" /\ call' = [call EXCEPT ![p] = Looping(@)]
  <2>1. call' = [call EXCEPT ![p] = Looping(c)]
    BY <1>4
  <2>2. backend = "memcached" /\ c.op \in {"put", "evict", "recent"}
         /\ (c.op = "recent" => c.todo # <<>>)
    BY <1>2, <1>4 DEF Asked
  <2>3. Asked(Looping(c), backend) /\ ReadOk(Looping(c), token, changes, index)
    BY <1>2, <2>2, LoopingAsked
  <2> QED BY <1>1, <2>1, <2>3, CallOnly
<1> QED BY <1>3, <1>4 DEF Retry

LEMMA ListInv == ASSUME FloorInv, NEW p \in Task, List(p) PROVE FloorInv'
<1> DEFINE c == call[p]
           n == Requested(c.limit)
           m == IF Len(index) < n THEN Len(index) ELSE n
           ids == [i \in 1..m |-> index[i].id]
           d == [c EXCEPT !.todo = ids, !.pc = "fetch"]
<1>1. /\ StoreUnchanged /\ c.pc = "list"
      /\ call' = [call EXCEPT ![p] = IF ids = <<>> THEN Idle ELSE d]
  BY DEF List, StoreUnchanged
<1>2. Asked(c, backend) /\ index \in Seq(Item)
  BY DEF FloorInv, TasksInv, StoreInv, KeyOk
<1>3. CASE ids = <<>>
  BY <1>1, <1>3, IdleAsked, CallOnly
<1>4. CASE ids # <<>>
  <2>1. ids \in Seq(Ids)
    <3>1. CASE m \in Nat
      <4>1. m <= Len(index)
        BY <1>2, <3>1
      <4>2. \A i \in 1..m : index[i].id \in Ids
        BY <1>2, <3>1, <4>1 DEF Ids
      <4> HIDE DEF m
      <4> QED BY <3>1, <4>2, IsASeq
    <3>2. m \in Nat
      <4>1. n \in Nat
        BY <1>2 DEF Asked, Requested
      <4> HIDE DEF n
      <4> QED BY <1>2, <4>1
    <3> QED BY <3>1, <3>2
  <2>2. DOMAIN d = Fields /\ d.pc = "fetch" /\ d.op = c.op /\ d.item = c.item
         /\ d.limit = c.limit /\ d.todo = ids
    BY <1>2 DEF Asked, Fields
  <2>3. c.op = "recent" /\ backend # "memory"
    BY <1>1, <1>2 DEF Asked
  <2> HIDE DEF ids, d
  <2>4. Asked(d, backend)
    BY <1>2, <1>4, <2>1, <2>2, <2>3 DEF Asked
  <2>5. ReadOk(d, token, changes, index)
    BY <2>2 DEF ReadOk
  <2> QED BY <1>1, <1>4, <2>4, <2>5, CallOnly
<1> QED BY <1>3, <1>4

LEMMA FetchInv == ASSUME FloorInv, NEW p \in Task, Fetch(p) PROVE FloorInv'
<1> DEFINE c == call[p]
           heal == [c EXCEPT !.pc = "heal"]
           d == IF Live(Head(c.todo)) \/ c.op = "get" THEN Advance(c)
                ELSE IF backend = "redis" THEN heal ELSE Looping(c)
<1>1. StoreUnchanged /\ c.pc = "fetch" /\ call' = [call EXCEPT ![p] = d]
  BY DEF Fetch, StoreUnchanged
<1>2. Asked(c, backend) /\ backend \in {"memory", "redis", "memcached"}
  BY DEF FloorInv, TasksInv, StoreInv
<1>3. c.todo # <<>> /\ c.op \in {"get", "recent"} /\ backend # "memory"
  BY <1>1, <1>2 DEF Asked
<1>4. Asked(Advance(c), backend) /\ ReadOk(Advance(c), token, changes, index)
  BY <1>2, <1>3, AdvanceAsked
<1>5. ASSUME c.op # "get", backend = "redis" PROVE Asked(heal, backend)
       /\ ReadOk(heal, token, changes, index)
  <2>1. DOMAIN heal = Fields /\ heal.pc = "heal" /\ heal.op = c.op /\ heal.item = c.item
         /\ heal.limit = c.limit /\ heal.todo = c.todo
    BY <1>2 DEF Asked, Fields
  <2> HIDE DEF heal
  <2>2. Asked(heal, backend)
    BY <1>2, <1>3, <1>5, <2>1 DEF Asked
  <2>3. ReadOk(heal, token, changes, index)
    BY <2>1 DEF ReadOk
  <2> QED BY <2>2, <2>3
<1>6. ASSUME c.op # "get", backend # "redis"
      PROVE  Asked(Looping(c), backend) /\ ReadOk(Looping(c), token, changes, index)
  <2>1. backend = "memcached" /\ c.op = "recent"
    BY <1>2, <1>3, <1>6
  <2> QED BY <1>2, <1>3, <2>1, LoopingAsked
<1>7. Asked(d, backend) /\ ReadOk(d, token, changes, index)
  BY <1>4, <1>5, <1>6
<1> HIDE DEF d
<1> QED BY <1>1, <1>7, CallOnly

LEMMA ReadInv == ASSUME FloorInv, NEW p \in Task, ReadRecency(p) PROVE FloorInv'
<1> DEFINE c == call[p]
           d == [c EXCEPT !.pc = "cas", !.read = index, !.seen = token]
<1>1. /\ StoreUnchanged /\ c.pc = "read"
      /\ call' = [call EXCEPT ![p] = d]
  BY DEF ReadRecency, StoreUnchanged, FloorInv, TasksInv
<1>2. Asked(c, backend) /\ KeyOk(index, lapses, token, changes, now) /\ CasOk(backend, index, token)
  BY DEF FloorInv, TasksInv, StoreInv
<1>3. /\ DOMAIN d = Fields /\ d.pc = "cas" /\ d.op = c.op /\ d.item = c.item
      /\ d.limit = c.limit /\ d.todo = c.todo
      /\ d.read = index /\ d.seen = token
  BY <1>2 DEF Asked, Fields
<1> HIDE DEF d
<1>4. Asked(d, backend)
  BY <1>1, <1>2, <1>3 DEF Asked
<1>5. ReadOk(d, token, changes, index)
  BY <1>1, <1>2, <1>3 DEF ReadOk, KeyOk, CasOk, Asked
<1> QED BY <1>1, <1>4, <1>5, CallOnly

LEMMA CasFailsInv == ASSUME FloorInv, NEW p \in Task, CasFails(p) PROVE FloorInv'
<1> DEFINE c == call[p]
           pc == IF c.tries + 1 < CasMax THEN "read" ELSE "raised"
           d == [c EXCEPT !.tries = c.tries + 1, !.read = <<>>, !.seen = 0, !.pc = pc]
<1>1. /\ StoreUnchanged /\ c.pc = "cas"
      /\ call' = [call EXCEPT ![p] = d]
  BY DEF CasFails, StoreUnchanged, FloorInv, TasksInv
<1>2. Asked(c, backend)
  BY DEF FloorInv, TasksInv
<1>3. DOMAIN d = Fields /\ d.pc = pc /\ d.op = c.op /\ d.item = c.item /\ d.limit = c.limit
       /\ d.todo = c.todo
  BY <1>2 DEF Asked, Fields
<1> HIDE DEF d
<1>4. Asked(d, backend)
  BY <1>1, <1>2, <1>3 DEF Asked
<1>5. ReadOk(d, token, changes, index)
  BY <1>3 DEF ReadOk
<1> QED BY <1>1, <1>4, <1>5, CallOnly

-----------------------------------------------------------------------------
(***************************************************************************)
(* The steps of the floor.                                                 *)
(***************************************************************************)
Kept == {id \in Ids : Live(id) /\ rows[id].indexed}

LEMMA FloorLeaves ==
    ASSUME StoreInv, NEW ids, index' = Without(index, ids),
           \/ ids \subseteq Ids \ (Kept \cap Kept')
           \/ \E id \in Ids : ids = {id}
    PROVE  Floor!Next
<1>1. index \in Seq(Item) /\ Len(index) \in Nat
  BY DEF StoreInv, KeyOk
<1>2. index' = Floor!Without(index, ids)
  BY <1>1, FloorWithout
<1>3. Floor!Leave(ids)
  BY <1>2 DEF Floor!Leave
<1>4. Floor!Ids = Ids
  BY DEF Floor!Ids, Ids
<1>5. Floor!Unkept = Ids \ (Kept \cap Kept')
  BY <1>4 DEF Floor!Unkept, Kept
<1>6. Kept' \in SUBSET Floor!Ids
  BY <1>4 DEF Kept
<1>7. \/ \E i \in SUBSET Floor!Unkept : Floor!Leave(i)
      \/ \E id \in Floor!Ids : Floor!Leave({id})
  BY <1>3, <1>4, <1>5
<1> QED BY <1>6, <1>7 DEF Floor!Next, Kept

LEMMA FloorStays ==
    ASSUME StoreInv, index' = index PROVE Floor!Next
<1>1. index' = Without(index, {})
  BY WithoutNothing DEF StoreInv, KeyOk
<1> QED BY <1>1, FloorLeaves

LEMMA FloorEnters ==
    ASSUME StoreInv, NEW item \in Item, NEW gone, gone \subseteq Ids \ (Kept \cap Kept'),
           NEW rest, rest = Without(index, gone \cup {item.id}), NEW k, Fits(rest, k, item),
           NEW t, t = Inserted(rest, k, item), Ordered(t),
           index' = t \/ index' = Truncated(t), t \in Seq(Item)
    PROVE  Floor!Next
<1>1. index \in Seq(Item) /\ Len(index) \in Nat
  BY DEF StoreInv, KeyOk
<1>2. rest = Floor!Without(index, gone \cup {item.id})
  BY <1>1, FloorWithout
<1>3. t = Floor!Insert(rest, k, item) /\ Floor!Descending(t) /\ Truncated(t) = Floor!Capped(t)
  BY TruncatedIs DEF Floor!Insert, Inserted, Floor!Descending, Ordered
<1>4. k \in 0..Len(rest)
  BY DEF Fits
<1>5. /\ Floor!Descending(Floor!Insert(rest, k, item))
      /\ index' \in {Floor!Insert(rest, k, item), Floor!Capped(Floor!Insert(rest, k, item))}
  BY <1>3
<1>6. Floor!Enter(item, gone)
  BY <1>2, <1>4, <1>5 DEF Floor!Enter
<1>7. Floor!Ids = Ids
  BY DEF Floor!Ids, Ids
<1>8. Floor!Unkept = Ids \ (Kept \cap Kept')
  BY <1>7 DEF Floor!Unkept, Kept
<1>9. Kept' \in SUBSET Floor!Ids
  BY <1>7 DEF Kept
<1>10. \E i \in Item, g \in SUBSET Floor!Unkept : Floor!Enter(i, g)
  BY <1>6, <1>8
<1> QED BY <1>9, <1>10 DEF Floor!Next, Kept

\* A row that is written.
LEMMA RowIs ==
    ASSUME NEW item \in Item, now \in Nat, NEW indexed \in BOOLEAN
    PROVE  LET r == Row(item, indexed) IN
           /\ RowOk(r, item.id, now) /\ r # None
           /\ r.item = item /\ r.expires = now + Ttl /\ r.indexed = indexed
<1> DEFINE r == Row(item, indexed)
<1>1. Ttl \in Nat
  BY BoundAssumption
<1>2. r \in [item : Item, expires : Nat, indexed : BOOLEAN]
  BY <1>1 DEF Row
<1>3. r # None
  BY <1>2, BoundAssumption
<1>4. DOMAIN r = {"item", "expires", "indexed"} /\ r.item = item /\ r.expires = now + Ttl
       /\ r.indexed = indexed
  BY DEF Row
<1> HIDE DEF r
<1> QED BY <1>1, <1>3, <1>4 DEF RowOk, r

LEMMA ExpiredIsNotKept ==
    ASSUME StoreInv PROVE ExpiredIds \subseteq Ids \ (Kept \cap Kept')
<1>1. ASSUME NEW id \in ExpiredIds PROVE id \in Ids /\ id \notin Kept
  <2>1. id \in Ids /\ rows[id] # None /\ rows[id].expires <= now
    BY DEF ExpiredIds, Expired
  <2>2. rows[id].expires \in Nat /\ now \in Nat
    BY <2>1 DEF StoreInv, RowsOk, RowOk, KeyOk
  <2>3. ~(rows[id].expires > now)
    BY <2>1, <2>2
  <2> QED BY <2>1, <2>3 DEF Kept, Live
<1> QED BY <1>1

-----------------------------------------------------------------------------
(***************************************************************************)
(* InMemoryStmAdapter.                                                     *)
(***************************************************************************)
\* A call that returns under the lock: what is left to show is the store.
LEMMA MemoryReturns ==
    ASSUME FloorInv, backend = "memory", NEW p \in Task, MemoryReturn(p),
           RowsOk(rows', now), index' \in Seq(Item), Ordered(index'), MemoryOk("memory", index', rows')
    PROVE  FloorInv'
<1>1. /\ call' = [call EXCEPT ![p] = Idle]
      /\ backend' = backend /\ lapses' = lapses /\ token' = token /\ changes' = changes
      /\ now' = now
  BY DEF MemoryReturn
<1>2. KeyOk(index, lapses, token, changes, now)
  BY DEF FloorInv, StoreInv
<1>3. KeyOk(index', lapses', token', changes', now')
  BY <1>1, <1>2 DEF KeyOk
<1>4. ServerOk(backend', rows', lapses') /\ CasOk(backend', index', token')
       /\ MemoryOk(backend', index', rows')
  BY <1>1 DEF ServerOk, CasOk
<1>5. backend' \in {"memory", "redis", "memcached"} /\ RowsOk(rows', now')
  BY <1>1
<1>6. StoreInv'
  BY <1>3, <1>4, <1>5 DEF StoreInv
<1>7. KeyMoves
  BY <1>1, <1>2 DEF KeyMoves, KeyOk
<1>8. TasksInv'
  BY <1>1, <1>7, IdleAsked, TaskMoves DEF FloorInv
<1> QED BY <1>6, <1>8 DEF FloorInv

LEMMA MemoryDrops ==
    ASSUME FloorInv, backend = "memory", NEW p \in Task, MemoryReturn(p), NEW gone,
           index' = Evicted(index, gone), rows' = Drop(gone)
    PROVE  FloorInv' /\ index' = Without(index, gone)
<1>1. index \in Seq(Item) /\ Ordered(index) /\ MemoryOk("memory", index, rows) /\ RowsOk(rows, now)
  BY DEF FloorInv, StoreInv, KeyOk
<1>2. /\ Len(index) <= Cap
      /\ \A i \in 1..Len(index) : rows[index[i].id] # None /\ rows[index[i].id].item = index[i]
      /\ \A id \in Ids : rows[id] # None => \E i \in 1..Len(index) : index[i].id = id
      /\ \A i, j \in 1..Len(index) : index[i].id = index[j].id => i = j
  BY <1>1 DEF MemoryOk
<1>3. index' = Without(index, gone)
  BY <1>2, EvictedIsWithout
<1>4. Shorter(index', index, gone)
  BY <1>1, <1>3, WithoutShorter
<1>5. index' \in Seq(Item) /\ Ordered(index') /\ Len(index') \in Nat /\ Len(index') <= Len(index)
  BY <1>1, <1>4 DEF Shorter
<1>6. DOMAIN rows' = Ids /\ \A id \in Ids : rows'[id] = IF id \in gone THEN None ELSE rows[id]
  BY DEF Drop
<1>7. RowsOk(rows', now)
  BY <1>1, <1>6 DEF RowsOk
<1>8. ASSUME NEW k \in 1..Len(index') PROVE rows'[index'[k].id] # None
       /\ rows'[index'[k].id].item = index'[k]
  <2>1. PICK i \in 1..Len(index) : index[i] = index'[k]
    BY <1>4 DEF Shorter
  <2>2. index'[k].id \notin gone /\ index'[k].id \in Ids
    BY <1>4, <1>5, ItemIs DEF Shorter
  <2> QED BY <1>2, <1>6, <2>1, <2>2
<1>9. ASSUME NEW id \in Ids, rows'[id] # None PROVE \E k \in 1..Len(index') : index'[k].id = id
  <2>1. id \notin gone /\ rows[id] # None
    BY <1>6, <1>9
  <2>2. PICK i \in 1..Len(index) : index[i].id = id
    BY <1>2, <2>1
  <2> QED BY <1>4, <2>1, <2>2 DEF Shorter
<1>10. \A i, j \in 1..Len(index') : index'[i].id = index'[j].id => i = j
  BY <1>2, <1>4 DEF Shorter
<1>11. Len(index') <= Cap
  BY <1>1, <1>2, <1>5, BoundAssumption
<1>12. MemoryOk("memory", index', rows')
  BY <1>8, <1>9, <1>10, <1>11 DEF MemoryOk
<1> QED BY <1>3, <1>5, <1>7, <1>12, MemoryReturns

LEMMA MemoryGetStep ==
    ASSUME FloorInv, NEW p \in Task, MemoryGet(p) \/ MemoryEvict(p) \/ MemoryRecent(p)
    PROVE  FloorInv' /\ Floor!Next
<1>1. StoreInv
  BY DEF FloorInv
<1>2. CASE MemoryGet(p)
  <2> DEFINE gone == {call[p].item.id} \cap ExpiredIds
  <2>1. backend = "memory" /\ MemoryReturn(p) /\ index' = Evicted(index, gone) /\ rows' = Drop(gone)
    BY <1>2 DEF MemoryGet, InMemory
  <2>2. gone \subseteq Ids \ (Kept \cap Kept')
    BY <1>1, ExpiredIsNotKept
  <2> HIDE DEF gone
  <2>3. FloorInv' /\ index' = Without(index, gone)
    BY <2>1, MemoryDrops
  <2> QED BY <1>1, <2>2, <2>3, FloorLeaves
<1>3. CASE MemoryEvict(p)
  <2> DEFINE gone == {call[p].item.id}
  <2>1. /\ backend = "memory" /\ MemoryReturn(p) /\ index' = Evicted(index, gone)
        /\ rows' = Drop(gone)
        /\ call[p].op = "evict"
    BY <1>3 DEF MemoryEvict, InMemory
  <2>2. \E id \in Ids : gone = {id}
    BY <2>1 DEF FloorInv, TasksInv, Asked
  <2> HIDE DEF gone
  <2>3. FloorInv' /\ index' = Without(index, gone)
    BY <2>1, MemoryDrops
  <2> QED BY <1>1, <2>2, <2>3, FloorLeaves
<1>4. CASE MemoryRecent(p)
  <2>1. backend = "memory" /\ MemoryReturn(p) /\ index' = Evicted(index, ExpiredIds)
         /\ rows' = Drop(ExpiredIds)
    BY <1>4 DEF MemoryRecent, InMemory
  <2>2. ExpiredIds \subseteq Ids \ (Kept \cap Kept')
    BY <1>1, ExpiredIsNotKept
  <2>3. FloorInv' /\ index' = Without(index, ExpiredIds)
    BY <2>1, MemoryDrops
  <2> QED BY <1>1, <2>2, <2>3, FloorLeaves
<1> QED BY <1>2, <1>3, <1>4

\* The entries of a list with one more.
Extends(t, s, item) ==
    /\ \A i \in 1..Len(t) : t[i] = item \/ \E j \in 1..Len(s) : t[i] = s[j]
    /\ \E i \in 1..Len(t) : t[i] = item
    /\ \A j \in 1..Len(s) : \E i \in 1..Len(t) : t[i] = s[j]
    /\ (\A i, j \in 1..Len(s) : s[i].id = s[j].id => i = j)
           /\ (\A j \in 1..Len(s) : s[j].id # item.id)
         => \A i, j \in 1..Len(t) : t[i].id = t[j].id => i = j

LEMMA AroundExtends ==
    ASSUME NEW s \in Seq(Item), NEW item, NEW k \in 0..Len(s), NEW t, Around(t, s, k, item)
    PROVE  Extends(t, s, item)
<1> DEFINE n == Len(s)
           At(i) == IF i <= k THEN i ELSE i - 1
<1>1. n \in Nat /\ Len(t) = n + 1 /\ k \in 0..n
  BY DEF Around
<1>2. t[k + 1] = item /\ k + 1 \in 1..Len(t)
  BY <1>1 DEF Around
<1>3. ASSUME NEW i \in 1..Len(t), i # k + 1
      PROVE  At(i) \in 1..n /\ t[i] = s[At(i)]
  <2>1. CASE i <= k
    <3>1. i \in 1..k /\ At(i) = i /\ i \in 1..n
      BY <1>1, <2>1
    <3> QED BY <3>1 DEF Around
  <2>2. CASE ~(i <= k)
    <3>1. i \in (k + 2)..(n + 1) /\ At(i) = i - 1 /\ i - 1 \in 1..n
      BY <1>1, <1>3, <2>2
    <3> QED BY <3>1 DEF Around
  <2> QED BY <2>1, <2>2
<1>4. ASSUME NEW j \in 1..n PROVE \E i \in 1..Len(t) : t[i] = s[j]
  <2>1. CASE j <= k
    <3>1. j \in 1..k /\ j \in 1..Len(t)
      BY <1>1, <2>1
    <3>2. t[j] = s[j]
      BY <3>1 DEF Around
    <3> QED BY <3>1, <3>2
  <2>2. CASE ~(j <= k)
    <3>1. j + 1 \in (k + 2)..(n + 1) /\ j + 1 \in 1..Len(t) /\ (j + 1) - 1 = j
      BY <1>1, <2>2
    <3>2. t[j + 1] = s[(j + 1) - 1]
      BY <3>1 DEF Around
    <3> QED BY <3>1, <3>2
  <2> QED BY <2>1, <2>2
<1>5. ASSUME \A i, j \in 1..n : s[i].id = s[j].id => i = j, \A j \in 1..n : s[j].id # item.id,
             NEW i \in 1..Len(t), NEW j \in 1..Len(t), t[i].id = t[j].id
      PROVE  i = j
  <2>1. CASE i = k + 1 /\ j = k + 1
    BY <2>1
  <2>2. CASE i = k + 1 /\ j # k + 1
    BY <1>2, <1>3, <1>5, <2>2
  <2>3. CASE i # k + 1 /\ j = k + 1
    BY <1>2, <1>3, <1>5, <2>3
  <2>4. CASE i # k + 1 /\ j # k + 1
    <3>1. At(i) = At(j)
      <4> HIDE DEF At
      <4> QED BY <1>3, <1>5, <2>4
    <3> QED BY <1>1, <2>4, <3>1
  <2> QED BY <2>1, <2>2, <2>3, <2>4
<1>6. \A i \in 1..Len(t) : t[i] = item \/ \E j \in 1..n : t[i] = s[j]
  <2> HIDE DEF At
  <2> QED BY <1>2, <1>3
<1>7. \E i \in 1..Len(t) : t[i] = item
  BY <1>2
<1> HIDE DEF At
<1> QED BY <1>4, <1>5, <1>6, <1>7 DEF Extends

\* put of the in-process adapter: the entries it keeps are the first of a list
\* that is the old one without the expired entries and the replaced one, and
\* with the new entry in its place.
PutFacts(item, rest, entries, over) ==
    /\ item \in Item
    /\ rest = Without(index, ExpiredIds \cup {item.id})
    /\ Shorter(rest, index, ExpiredIds \cup {item.id})
    /\ \E k : Fits(rest, k, item) /\ entries = Inserted(rest, k, item)
           /\ Len(entries) = Len(rest) + 1
    /\ entries \in Seq(Item) /\ Ordered(entries) /\ Extends(entries, rest, item)
    /\ index' = Truncated(entries)
    /\ over = IdsOf(entries) \ IdsOf(Truncated(entries))
    /\ DOMAIN rows' = Ids
    /\ \A id \in Ids : rows'[id] = IF id \in over THEN None
                                   ELSE IF id = item.id THEN Row(item, TRUE)
                                   ELSE IF id \in ExpiredIds THEN None ELSE rows[id]

LEMMA MemoryIndexIs ==
    ASSUME StoreInv, backend = "memory"
    PROVE  /\ index \in Seq(Item) /\ Ordered(index) /\ Len(index) \in Nat /\ Len(index) <= Cap
           /\ \A i \in 1..Len(index) : rows[index[i].id] # None /\ rows[index[i].id].item = index[i]
           /\ \A id \in Ids : rows[id] # None => \E i \in 1..Len(index) : index[i].id = id
           /\ \A i, j \in 1..Len(index) : index[i].id = index[j].id => i = j
BY DEF StoreInv, KeyOk, MemoryOk

LEMMA MemoryPutFacts ==
    ASSUME FloorInv, NEW p \in Task, MemoryPut(p)
    PROVE  \E rest, entries, over : PutFacts(call[p].item, rest, entries, over)
<1> DEFINE item == call[p].item
           gone == ExpiredIds \cup {item.id}
           rest == Evicted(index, gone)
           entries == Added(rest, item)
           over == IdsOf(entries) \ IdsOf(Truncated(entries))
<1>1. /\ backend = "memory" /\ call[p].op = "put"
      /\ index' = Truncated(entries)
      /\ rows' = [id \in Ids |-> IF id \in over THEN None
                                 ELSE IF id = item.id THEN Row(item, TRUE)
                                 ELSE Drop(gone)[id]]
  BY DEF MemoryPut, InMemory
<1>2. item \in Item
  BY <1>1 DEF FloorInv, TasksInv, Asked
<1>3. StoreInv
  BY DEF FloorInv
<1>4. /\ index \in Seq(Item) /\ Ordered(index)
      /\ \A i \in 1..Len(index) : rows[index[i].id] # None /\ rows[index[i].id].item = index[i]
  BY <1>1, <1>3, MemoryIndexIs
<1>5. DOMAIN rows' = Ids
      /\ \A id \in Ids : rows'[id] = IF id \in over THEN None
                                     ELSE IF id = item.id THEN Row(item, TRUE)
                                     ELSE IF id \in ExpiredIds THEN None ELSE rows[id]
  <2> HIDE DEF over, item
  <2>1. \A id \in Ids : id # item.id => Drop(gone)[id] = IF id \in ExpiredIds THEN None ELSE rows[id]
    BY DEF Drop
  <2>2. DOMAIN rows' = Ids /\ \A id \in Ids : rows'[id] = IF id \in over THEN None
                                 ELSE IF id = item.id THEN Row(item, TRUE)
                                 ELSE Drop(gone)[id]
    BY <1>1
  <2> QED BY <2>1, <2>2
<1> HIDE DEF item
<1>6. rest = Without(index, gone)
  BY <1>4, EvictedIsWithout
<1>7. Shorter(rest, index, gone)
  BY <1>4, <1>6, WithoutShorter
<1> HIDE DEF rest
<1>8. rest \in Seq(Item) /\ Ordered(rest) /\ \A j \in 1..Len(rest) : rest[j].id \notin {item.id}
  BY <1>4, <1>7 DEF Shorter
<1>9. Without(rest, {item.id}) = rest
  BY <1>8, WithoutNothing
<1>10. /\ Fits(rest, Place(rest, item), item) /\ entries = Inserted(rest, Place(rest, item), item)
       /\ Around(entries, rest, Place(rest, item), item) /\ Ordered(entries)
  BY <1>2, <1>8, <1>9, AddedIs
<1> HIDE DEF entries, over
<1>11. entries \in Seq(Item) /\ Len(entries) = Len(rest) + 1 /\ Place(rest, item) \in 0..Len(rest)
  BY <1>10 DEF Around, Fits
<1>12. Extends(entries, rest, item)
  BY <1>8, <1>10, <1>11, AroundExtends
<1>13. PutFacts(item, rest, entries, over)
  BY <1>1, <1>2, <1>5, <1>6, <1>7, <1>10, <1>11, <1>12 DEF PutFacts, over
<1> QED BY <1>13 DEF item

LEMMA MemoryPutStep ==
    ASSUME FloorInv, NEW p \in Task, MemoryPut(p)
    PROVE  FloorInv' /\ Floor!Next
<1> DEFINE item == call[p].item
<1>1. PICK rest, entries, over : PutFacts(item, rest, entries, over)
  BY MemoryPutFacts
<1>2. StoreInv /\ backend = "memory" /\ MemoryReturn(p)
  BY DEF FloorInv, MemoryPut, InMemory
<1> HIDE DEF item
<1>3. /\ index \in Seq(Item) /\ Ordered(index) /\ Len(index) \in Nat /\ Len(index) <= Cap
      /\ \A i \in 1..Len(index) : rows[index[i].id] # None /\ rows[index[i].id].item = index[i]
      /\ \A id \in Ids : rows[id] # None => \E i \in 1..Len(index) : index[i].id = id
      /\ \A i, j \in 1..Len(index) : index[i].id = index[j].id => i = j
  BY <1>2, MemoryIndexIs
<1>4. item \in Item /\ item.id \in Ids /\ now \in Nat /\ RowsOk(rows, now)
  BY <1>1, <1>2, ItemIs DEF PutFacts, StoreInv, KeyOk
<1> DEFINE r == Row(item, TRUE)
<1>5. RowOk(r, item.id, now) /\ r # None /\ r.item = item
  BY <1>4, RowIs
<1> HIDE DEF r
<1>6. DOMAIN rows' = Ids
      /\ \A id \in Ids : rows'[id] = IF id \in over THEN None
                                     ELSE IF id = item.id THEN r
                                     ELSE IF id \in ExpiredIds THEN None ELSE rows[id]
  BY <1>1 DEF PutFacts, r
<1>7. entries \in Seq(Item) /\ Ordered(entries) /\ index' = Truncated(entries)
  BY <1>1 DEF PutFacts
<1>8. /\ index' \in Seq(Item) /\ Ordered(index') /\ Len(index') \in Nat /\ Len(index') <= Cap
      /\ Len(index') <= Len(entries) /\ \A i \in 1..Len(index') : index'[i] = entries[i]
  BY <1>7, TruncatedIs
<1>9. /\ \A i \in 1..Len(entries) : entries[i] = item
             \/ \E j \in 1..Len(rest) : entries[i] = rest[j]
      /\ \E i \in 1..Len(entries) : entries[i] = item
      /\ \A j \in 1..Len(rest) : \E i \in 1..Len(entries) : entries[i] = rest[j]
  BY <1>1 DEF PutFacts, Extends
<1>10. /\ \A j \in 1..Len(rest) : rest[j].id \notin ExpiredIds /\ rest[j].id # item.id
                                  /\ \E i \in 1..Len(index) : index[i] = rest[j]
       /\ \A i \in 1..Len(index) : index[i].id \notin ExpiredIds /\ index[i].id # item.id
             => \E j \in 1..Len(rest) : rest[j] = index[i]
       /\ \A i, j \in 1..Len(rest) : rest[i].id = rest[j].id => i = j
  BY <1>1, <1>3 DEF PutFacts, Shorter
<1>11. \A i, j \in 1..Len(entries) : entries[i].id = entries[j].id => i = j
  BY <1>1, <1>10 DEF PutFacts, Extends
<1>12. over = IdsOf(entries) \ IdsOf(index')
  BY <1>1 DEF PutFacts
<1>13. RowsOk(rows', now)
  BY <1>4, <1>5, <1>6 DEF RowsOk
<1>14. ASSUME NEW k \in 1..Len(index')
       PROVE  rows'[index'[k].id] # None /\ rows'[index'[k].id].item = index'[k]
  <2> DEFINE e == index'[k]
  <2>1. e.id \notin over
    BY <1>12 DEF IdsOf
  <2>2. k \in 1..Len(entries) /\ e = entries[k]
    BY <1>7, <1>8
  <2>3. e \in Item /\ e.id \in Ids
    BY <1>8, ItemIs
  <2>4. CASE e = item
    BY <1>5, <1>6, <2>1, <2>3, <2>4
  <2>5. CASE \E j \in 1..Len(rest) : e = rest[j]
    <3>1. e.id \notin ExpiredIds /\ e.id # item.id /\ \E i \in 1..Len(index) : index[i] = e
      BY <1>10, <2>5
    <3>2. rows[e.id] # None /\ rows[e.id].item = e
      BY <1>3, <3>1
    <3> QED BY <1>6, <2>1, <2>3, <3>1, <3>2
  <2> QED BY <1>9, <2>2, <2>4, <2>5
<1>15. ASSUME NEW id \in Ids, rows'[id] # None PROVE \E k \in 1..Len(index') : index'[k].id = id
  <2>1. id \notin over
    BY <1>6, <1>15
  <2>2. id \in IdsOf(entries)
    <3>1. CASE id = item.id
      BY <1>9, <3>1 DEF IdsOf
    <3>2. CASE id # item.id
      <4>1. id \notin ExpiredIds /\ rows[id] # None
        BY <1>6, <1>15, <2>1, <3>2
      <4>2. PICK i \in 1..Len(index) : index[i].id = id
        BY <1>3, <4>1
      <4>3. PICK j \in 1..Len(rest) : rest[j] = index[i]
        BY <1>10, <3>2, <4>1, <4>2
      <4> QED BY <1>9, <4>2, <4>3 DEF IdsOf
    <3> QED BY <3>1, <3>2
  <2>3. id \in IdsOf(index')
    BY <1>12, <2>1, <2>2
  <2> QED BY <2>3 DEF IdsOf
<1>16. \A i, j \in 1..Len(index') : index'[i].id = index'[j].id => i = j
  <2>1. \A i \in 1..Len(index') : i \in 1..Len(entries)
    BY <1>7, <1>8
  <2> QED BY <1>8, <1>11, <2>1
<1>17. MemoryOk("memory", index', rows')
  BY <1>8, <1>14, <1>15, <1>16 DEF MemoryOk
<1>18. FloorInv'
  BY <1>2, <1>8, <1>13, <1>17, MemoryReturns
<1>19. ExpiredIds \subseteq Ids \ (Kept \cap Kept')
  BY <1>2, ExpiredIsNotKept
<1>20. PICK k : Fits(rest, k, item) /\ entries = Inserted(rest, k, item)
  BY <1>1 DEF PutFacts
<1>21. rest = Without(index, ExpiredIds \cup {item.id})
  BY <1>1 DEF PutFacts
<1>22. Floor!Next
  BY <1>2, <1>4, <1>7, <1>19, <1>20, <1>21, FloorEnters
<1> QED BY <1>18, <1>22

-----------------------------------------------------------------------------
(***************************************************************************)
(* RedisStmAdapter.                                                        *)
(***************************************************************************)
\* A transaction of the server: what is left to show is the rows and the list.
LEMMA RedisReturns ==
    ASSUME FloorInv, backend = "redis", NEW p \in Task, NEW c, call' = [call EXCEPT ![p] = c],
           Asked(c, backend), c.pc # "cas",
           UNCHANGED <<backend, token, changes, now>>,
           lapses' \in Nat, lapses' <= now + Ttl,
           RowsOk(rows', now), index' \in Seq(Item), Ordered(index'), ServerOk("redis", rows', lapses')
    PROVE  FloorInv'
<1>1. backend' = backend /\ token' = token /\ changes' = changes /\ now' = now
  OBVIOUS
<1>2. KeyOk(index, lapses, token, changes, now)
  BY DEF FloorInv, StoreInv
<1>3. KeyOk(index', lapses', token', changes', now')
  BY <1>1, <1>2 DEF KeyOk
<1>4. ServerOk(backend', rows', lapses') /\ CasOk(backend', index', token')
       /\ MemoryOk(backend', index', rows')
  BY <1>1 DEF CasOk, MemoryOk
<1>5. backend' \in {"memory", "redis", "memcached"} /\ RowsOk(rows', now')
  BY <1>1
<1>6. StoreInv'
  BY <1>3, <1>4, <1>5 DEF StoreInv
<1>7. KeyMoves
  BY <1>1, <1>2 DEF KeyMoves, KeyOk
<1>8. ReadOk(c, token', changes', index')
  BY DEF ReadOk
<1>9. TasksInv'
  BY <1>1, <1>7, <1>8, TaskMoves DEF FloorInv
<1> QED BY <1>6, <1>9 DEF FloorInv

LEMMA ReplyAsked ==
    ASSUME NEW b, NEW c, Asked(c, b), c.pc # "idle"
    PROVE  Asked([c EXCEPT !.pc = "reply"], b) /\ [c EXCEPT !.pc = "reply"].pc = "reply"
<1> DEFINE d == [c EXCEPT !.pc = "reply"]
<1>1. /\ DOMAIN d = Fields /\ d.pc = "reply" /\ d.op = c.op /\ d.item = c.item /\ d.limit = c.limit
      /\ d.todo = c.todo
  BY DEF Asked, Fields
<1> HIDE DEF d
<1>2. Asked(d, b)
  BY <1>1, GotoAsked
<1> QED BY <1>1, <1>2 DEF d

LEMMA RedisPutStep == ASSUME FloorInv, NEW p \in Task, RedisPut(p) PROVE FloorInv' /\ Floor!Next
<1> DEFINE item == call[p].item
           r == Row(item, TRUE)
           d == [call[p] EXCEPT !.pc = "reply"]
<1>1. /\ backend = "redis" /\ call[p].op = "put" /\ call[p].pc = "exec"
      /\ rows' = [rows EXCEPT ![item.id] = r]
      /\ index' = Added(index, item)
      /\ lapses' = now + Ttl
      /\ UNCHANGED <<backend, token, changes, now>>
  BY DEF RedisPut, InRedis
<1>2. StoreInv /\ TasksInv /\ DOMAIN call = Task /\ Asked(call[p], backend)
  BY DEF FloorInv, TasksInv
<1>3. call' = [call EXCEPT ![p] = d]
  BY <1>2 DEF RedisPut, Goto
<1>4. Asked(d, backend) /\ d.pc = "reply"
  BY <1>1, <1>2, ReplyAsked
<1>5. item \in Item /\ item.id \in Ids
  BY <1>1, <1>2, ItemIs DEF Asked
<1> HIDE DEF item, d
<1>6. /\ now \in Nat /\ RowsOk(rows, now) /\ index \in Seq(Item) /\ Ordered(index) /\ Ttl \in Nat
  BY <1>2, BoundAssumption DEF StoreInv, KeyOk
<1>7. RowOk(r, item.id, now) /\ r # None
  BY <1>5, <1>6, RowIs
<1> HIDE DEF r
<1>8. DOMAIN rows' = Ids /\ \A id \in Ids : rows'[id] = IF id = item.id THEN r ELSE rows[id]
  BY <1>1, <1>6 DEF RowsOk
<1>9. RowsOk(rows', now)
  BY <1>6, <1>7, <1>8 DEF RowsOk
<1>10. ServerOk("redis", rows', lapses')
  <2>1. \A id \in Ids : rows'[id] # None => rows'[id].expires <= now + Ttl
    BY <1>9 DEF RowsOk, RowOk
  <2> QED BY <1>1, <2>1 DEF ServerOk
<1> DEFINE rest == Without(index, {item.id})
           k == Place(rest, item)
<1>11. /\ rest \in Seq(Item) /\ Fits(rest, k, item) /\ index' = Inserted(rest, k, item)
       /\ Around(index', rest, k, item) /\ Ordered(index')
  BY <1>1, <1>5, <1>6, AddedIs
<1> HIDE DEF rest, k
<1>12. index' \in Seq(Item)
  BY <1>11 DEF Around
<1>13. lapses' \in Nat /\ lapses' <= now + Ttl
  BY <1>1, <1>6
<1>14. FloorInv'
  BY <1>1, <1>3, <1>4, <1>9, <1>10, <1>11, <1>12, <1>13, RedisReturns
<1>15. rest = Without(index, {} \cup {item.id})
  BY DEF rest
<1>16. Floor!Next
  BY <1>2, <1>5, <1>11, <1>12, <1>15, FloorEnters
<1> QED BY <1>14, <1>16

\* An id leaves the recency set, with its row or after it.
LEMMA RedisLeaves ==
    ASSUME FloorInv, backend = "redis", NEW p \in Task, NEW c, call' = [call EXCEPT ![p] = c],
           Asked(c, backend), c.pc # "cas", UNCHANGED <<backend, lapses, token, changes, now>>,
           NEW id \in Ids, index' = Without(index, {id}), rows' = rows \/ rows' = Drop({id})
    PROVE  FloorInv' /\ Floor!Next
<1>1. /\ StoreInv /\ RowsOk(rows, now) /\ ServerOk("redis", rows, lapses)
      /\ index \in Seq(Item) /\ Ordered(index) /\ lapses \in Nat /\ lapses <= now + Ttl
  BY DEF FloorInv, StoreInv, KeyOk
<1>2. DOMAIN rows' = Ids /\ \A x \in Ids : rows'[x] = None \/ rows'[x] = rows[x]
  BY <1>1 DEF Drop, RowsOk
<1>3. RowsOk(rows', now) /\ ServerOk("redis", rows', lapses)
  BY <1>1, <1>2 DEF RowsOk, ServerOk
<1>4. index' \in Seq(Item) /\ Ordered(index')
  BY <1>1, WithoutShorter DEF Shorter
<1>5. FloorInv'
  BY <1>1, <1>3, <1>4, RedisReturns
<1> QED BY <1>1, <1>5, FloorLeaves

LEMMA RedisEvictStep == ASSUME FloorInv, NEW p \in Task, RedisEvict(p) PROVE FloorInv' /\ Floor!Next
<1> DEFINE id == call[p].item.id
           d == [call[p] EXCEPT !.pc = "reply"]
<1>1. /\ backend = "redis" /\ call[p].op = "evict" /\ call[p].pc = "exec"
      /\ rows' = Drop({id}) /\ index' = Without(index, {id})
      /\ UNCHANGED <<backend, lapses, token, changes, now>>
  BY DEF RedisEvict, InRedis
<1>2. DOMAIN call = Task /\ Asked(call[p], backend)
  BY DEF FloorInv, TasksInv
<1>3. call' = [call EXCEPT ![p] = d]
  BY <1>2 DEF RedisEvict, Goto
<1>4. Asked(d, backend) /\ d.pc = "reply"
  BY <1>1, <1>2, ReplyAsked
<1>5. id \in Ids
  BY <1>1, <1>2 DEF Asked
<1> HIDE DEF id, d
<1> QED BY <1>1, <1>3, <1>4, <1>5, RedisLeaves

LEMMA AdvancePc == ASSUME NEW b, NEW c, Asked(c, b) PROVE Advance(c).pc # "cas"
<1>1. CASE Len(c.todo) > 1
  BY <1>1 DEF Advance, Asked, Fields
<1>2. CASE ~(Len(c.todo) > 1)
  BY <1>2 DEF Advance, Idle
<1> QED BY <1>1, <1>2

LEMMA RedisHealStep == ASSUME FloorInv, NEW p \in Task, RedisHeal(p) PROVE FloorInv' /\ Floor!Next
<1> DEFINE c == call[p]
           id == Head(c.todo)
           d == Advance(c)
<1>1. /\ c.pc = "heal" /\ index' = Without(index, {id}) /\ rows' = rows
      /\ call' = [call EXCEPT ![p] = d]
      /\ UNCHANGED <<backend, lapses, token, changes, now>>
  BY DEF RedisHeal
<1>2. Asked(c, backend)
  BY DEF FloorInv, TasksInv
<1>3. backend = "redis" /\ c.todo # <<>> /\ c.todo \in Seq(Ids)
  BY <1>1, <1>2 DEF Asked
<1>4. id \in Ids
  BY <1>3, HeadTailProperties
<1>5. Asked(d, backend)
  <2>1. c.op \in {"get", "recent"} /\ backend # "memory"
    BY <1>1, <1>2, <1>3 DEF Asked
  <2> QED BY <1>2, <1>3, <2>1, AdvanceAsked
<1>6. d.pc # "cas"
  BY <1>2, AdvancePc
<1> HIDE DEF id, d
<1> QED BY <1>1, <1>3, <1>4, <1>5, <1>6, RedisLeaves

-----------------------------------------------------------------------------
(***************************************************************************)
(* MemcachedStmAdapter.                                                    *)
(***************************************************************************)
LEMMA WriteRowStep == ASSUME FloorInv, NEW p \in Task, WriteRow(p) PROVE FloorInv' /\ Floor!Next
<1> DEFINE c == call[p]
           item == c.item
           r == Row(item, FALSE)
<1>1. /\ c.pc = "row" /\ call' = [call EXCEPT ![p] = Looping(c)]
      /\ rows' = IF c.op = "put" THEN [rows EXCEPT ![item.id] = r] ELSE Drop({item.id})
      /\ UNCHANGED <<backend, index, lapses, token, changes, now>>
  BY DEF WriteRow
<1>2. StoreInv /\ TasksInv /\ Asked(c, backend)
  BY DEF FloorInv, TasksInv
<1>3. /\ backend = "memcached" /\ c.op \in {"put", "evict"}
      /\ c.op = "put" => item \in Item
  BY <1>1, <1>2 DEF Asked
<1>4. Asked(Looping(c), backend) /\ ReadOk(Looping(c), token', changes', index')
  BY <1>2, <1>3, LoopingAsked
<1> HIDE DEF item
<1>5. /\ RowsOk(rows, now) /\ now \in Nat /\ changes \in Nat
      /\ ServerOk("memcached", rows, lapses) /\ CasOk("memcached", index, token)
      /\ KeyOk(index, lapses, token, changes, now)
  BY <1>2, <1>3 DEF StoreInv, KeyOk
<1>6. RowsOk(rows', now) /\ ServerOk("memcached", rows', lapses)
  <2>1. CASE c.op = "put"
    <3>1. RowOk(r, item.id, now) /\ r.indexed = FALSE
      BY <1>3, <1>5, <2>1, RowIs
    <3>2. rows' = [rows EXCEPT ![item.id] = r]
      BY <1>1, <2>1
    <3> HIDE DEF r
    <3>3. DOMAIN rows' = Ids /\ \A id \in Ids : rows'[id] = IF id = item.id THEN r ELSE rows[id]
      BY <1>5, <3>2 DEF RowsOk
    <3>4. RowsOk(rows', now)
      BY <1>5, <3>1, <3>3 DEF RowsOk
    <3>5. ServerOk("memcached", rows', lapses)
      BY <1>5, <3>1, <3>3 DEF ServerOk
    <3> QED BY <3>4, <3>5
  <2>2. CASE c.op # "put"
    <3>1. DOMAIN rows' = Ids /\ \A id \in Ids : rows'[id] = None \/ rows'[id] = rows[id]
      BY <1>1, <2>2 DEF Drop
    <3> QED BY <1>5, <3>1 DEF RowsOk, ServerOk
  <2> QED BY <2>1, <2>2
<1>7. StoreInv'
  <2>1. backend' = "memcached" /\ index' = index /\ lapses' = lapses /\ token' = token
        /\ changes' = changes /\ now' = now
    BY <1>1, <1>3
  <2>2. MemoryOk(backend', index', rows')
    BY <2>1 DEF MemoryOk
  <2> QED BY <1>5, <1>6, <2>1, <2>2 DEF StoreInv
<1>8. KeyMoves
  BY <1>1, <1>5 DEF KeyMoves
<1>9. TasksInv'
  <2> HIDE DEF c
  <2> QED BY <1>1, <1>2, <1>4, <1>8, TaskMoves
<1>10. Floor!Next
  BY <1>1, <1>2, FloorStays
<1> QED BY <1>7, <1>9, <1>10 DEF FloorInv

\* The list that a successful compare-and-swap writes: the list it read is the
\* one it replaces.
LEMMA UpdatedIs ==
    ASSUME StoreInv, backend = "memcached", NEW c, Asked(c, "memcached"),
           c.op \in {"put", "evict", "recent"}, c.op = "recent" => c.todo # <<>>,
           c.read = index, index' = Updated(c)
    PROVE  index' \in Seq(Item) /\ Ordered(index') /\ Len(index') <= Cap /\ Floor!Next
<1>1. /\ index \in Seq(Item) /\ Ordered(index) /\ Len(index) <= Cap /\ Len(index) \in Nat
      /\ Cap \in Nat
  BY BoundAssumption DEF StoreInv, KeyOk, CasOk
<1>2. CASE c.op = "put"
  <2> DEFINE item == c.item
             rest == Without(index, {item.id})
             k == Place(rest, item)
             t == Added(index, item)
  <2>1. item \in Item
    BY <1>2 DEF Asked
  <2>2. index' = Truncated(t)
    BY <1>2 DEF Updated
  <2>3. /\ rest \in Seq(Item) /\ Fits(rest, k, item) /\ t = Inserted(rest, k, item)
        /\ Around(t, rest, k, item) /\ Ordered(t)
    BY <1>1, <2>1, AddedIs
  <2>4. rest = Without(index, {} \cup {item.id})
    OBVIOUS
  <2> HIDE DEF item, rest, k, t
  <2>5. t \in Seq(Item)
    BY <2>3 DEF Around
  <2>6. index' \in Seq(Item) /\ Ordered(index') /\ Len(index') <= Cap
    BY <2>2, <2>3, <2>5, TruncatedIs
  <2>7. Floor!Next
    BY <2>1, <2>2, <2>3, <2>4, <2>5, FloorEnters
  <2> QED BY <2>6, <2>7
<1>3. CASE c.op # "put"
  <2> DEFINE id == Target(c)
             w == Without(index, {id})
  <2>1. id \in Ids
    <3>1. CASE c.op = "recent"
      <4>1. id = Head(c.todo) /\ c.todo # <<>> /\ c.todo \in Seq(Ids)
        BY <3>1 DEF Target, Asked
      <4> QED BY <4>1, HeadTailProperties
    <3>2. CASE c.op # "recent"
      <4>1. c.op = "evict" /\ id = c.item.id
        BY <1>3, <3>2 DEF Target
      <4> QED BY <4>1 DEF Asked
    <3> QED BY <3>1, <3>2
  <2>2. index' = Truncated(w)
    BY <1>3 DEF Updated
  <2> HIDE DEF id
  <2>3. w \in Seq(Item) /\ Ordered(w) /\ Len(w) <= Len(index) /\ Len(w) \in Nat
    BY <1>1, WithoutShorter DEF Shorter
  <2> HIDE DEF w
  <2>4. Len(w) <= Cap
    BY <1>1, <2>3
  <2>5. index' = w
    BY <2>2, <2>3, <2>4, TruncatedIs
  <2>6. Floor!Next
    BY <2>1, <2>5, FloorLeaves DEF w
  <2> QED BY <2>3, <2>4, <2>5, <2>6
<1> QED BY <1>2, <1>3

LEMMA CasSucceedsStep == ASSUME FloorInv, NEW p \in Task, CasSucceeds(p) PROVE FloorInv'
       /\ Floor!Next
<1> DEFINE c == call[p]
           e == Looped(c)
           d == IF c.op = "recent" THEN Advance(e) ELSE [e EXCEPT !.pc = "reply"]
           marked == c.op = "put" /\ rows[c.item.id] # None
<1>1. /\ c.pc = "cas" /\ token = c.seen /\ index' = Updated(c) /\ lapses' = now + Ttl
      /\ changes' = changes + 1 /\ token' = changes + 1 /\ UNCHANGED <<backend, now>>
      /\ call' = [call EXCEPT ![p] = d]
  BY DEF CasSucceeds
<1>2. rows' = IF marked THEN [rows EXCEPT ![c.item.id].indexed = TRUE] ELSE rows
  BY DEF CasSucceeds
<1>3. StoreInv /\ TasksInv /\ Asked(c, backend) /\ ReadOk(c, token, changes, index)
  BY DEF FloorInv, TasksInv
<1>4. /\ backend = "memcached" /\ c.op \in {"put", "evict", "recent"}
      /\ (c.op = "recent" => c.todo # <<>>)
  BY <1>1, <1>3 DEF Asked
<1>5. c.read = index
  BY <1>1, <1>3 DEF ReadOk
<1>6. /\ RowsOk(rows, now) /\ now \in Nat /\ changes \in Nat /\ Ttl \in Nat
      /\ KeyOk(index, lapses, token, changes, now)
  BY <1>3, BoundAssumption DEF StoreInv, KeyOk
<1>7. index' \in Seq(Item) /\ Ordered(index') /\ Len(index') <= Cap /\ Floor!Next
  <2> HIDE DEF c
  <2> QED BY <1>1, <1>3, <1>4, <1>5, UpdatedIs
<1>8. RowsOk(rows', now)
  <2>1. CASE marked
    <3> DEFINE r == rows[c.item.id]
               m == [r EXCEPT !.indexed = TRUE]
    <3>1. c.item.id \in Ids /\ RowOk(r, c.item.id, now)
      <4>1. c.item \in Item
        BY <1>3, <2>1 DEF Asked
      <4> QED BY <1>6, <2>1, <4>1, ItemIs DEF RowsOk
    <3>2. RowOk(m, c.item.id, now)
      BY <3>1 DEF RowOk
    <3>3. rows' = [rows EXCEPT ![c.item.id] = m]
      BY <1>2, <2>1
    <3> HIDE DEF m
    <3>4. DOMAIN rows' = Ids /\ \A id \in Ids : rows'[id] = IF id = c.item.id THEN m ELSE rows[id]
      BY <1>6, <3>1, <3>3 DEF RowsOk
    <3> QED BY <1>6, <3>2, <3>4 DEF RowsOk
  <2>2. CASE ~marked
    BY <1>2, <1>6, <2>2
  <2> QED BY <2>1, <2>2
<1> HIDE DEF marked
<1>9. ServerOk("memcached", rows', lapses')
  <2>1. \A id \in Ids : rows'[id] # None => rows'[id].expires <= now + Ttl
    BY <1>8 DEF RowsOk, RowOk
  <2> QED BY <1>1, <2>1 DEF ServerOk
<1>10. StoreInv'
  <2>1. /\ backend' = "memcached" /\ now' = now /\ lapses' \in Nat /\ lapses' <= now' + Ttl
        /\ token' \in Nat /\ changes' \in Nat /\ token' <= changes' /\ token' # 0
    BY <1>1, <1>4, <1>6
  <2>2. MemoryOk(backend', index', rows') /\ CasOk(backend', index', token')
    BY <1>7, <2>1 DEF MemoryOk, CasOk
  <2>3. KeyOk(index', lapses', token', changes', now')
    BY <1>6, <1>7, <2>1 DEF KeyOk
  <2> QED BY <1>8, <1>9, <2>1, <2>2, <2>3 DEF StoreInv
<1>11. KeyMoves
  BY <1>1, <1>6 DEF KeyMoves
<1>12. Asked(e, backend) /\ e.op = c.op /\ e.todo = c.todo /\ e.pc = "cas"
  <2>1. e.pc = "cas"
    BY <1>1, <1>3 DEF Looped, Asked, Fields
  <2> QED BY <1>3, <2>1, LoopedAsked
<1> HIDE DEF c, e
<1>13. Asked(d, backend) /\ ReadOk(d, token', changes', index')
  <2>1. CASE c.op = "recent"
    <3>1. Asked(Advance(e), backend) /\ ReadOk(Advance(e), token', changes', index')
      BY <1>4, <1>12, <2>1, AdvanceAsked
    <3> QED BY <2>1, <3>1
  <2>2. CASE c.op # "recent"
    <3>1. Asked([e EXCEPT !.pc = "reply"], backend) /\ [e EXCEPT !.pc = "reply"].pc = "reply"
      BY <1>12, ReplyAsked
    <3>2. d = [e EXCEPT !.pc = "reply"]
      BY <2>2
    <3> HIDE DEF d
    <3> QED BY <3>1, <3>2 DEF ReadOk
  <2> QED BY <2>1, <2>2
<1> HIDE DEF d
<1>14. TasksInv'
  BY <1>1, <1>3, <1>11, <1>13, TaskMoves
<1> QED BY <1>7, <1>10, <1>14 DEF FloorInv

-----------------------------------------------------------------------------
(***************************************************************************)
(* The clock, and the theorems.                                            *)
(***************************************************************************)
LEMMA TickStep == ASSUME FloorInv, Tick PROVE FloorInv' /\ Floor!Next
<1> DEFINE dead == {id \in Ids : rows[id] # None /\ rows[id].expires <= now + 1}
           lapsed == backend # "memory" /\ lapses <= now + 1
<1>1. /\ now' = now + 1
      /\ rows' = IF backend = "memory" THEN rows ELSE Drop(dead)
      /\ index' = IF lapsed THEN <<>> ELSE index
      /\ token' = IF lapsed THEN 0 ELSE token
      /\ changes' = IF lapsed /\ token # 0 THEN changes + 1 ELSE changes
      /\ backend' = backend /\ lapses' = lapses /\ call' = call
  BY DEF Tick
<1>2. /\ StoreInv /\ TasksInv /\ RowsOk(rows, now) /\ KeyOk(index, lapses, token, changes, now)
      /\ ServerOk(backend, rows, lapses) /\ MemoryOk(backend, index, rows)
      /\ CasOk(backend, index, token) /\ Ttl \in Nat /\ Cap \in Nat
      /\ backend \in {"memory", "redis", "memcached"}
  BY BoundAssumption DEF FloorInv, StoreInv
<1>3. /\ index \in Seq(Item) /\ Ordered(index) /\ now \in Nat /\ lapses \in Nat
      /\ lapses <= now + Ttl
      /\ token \in Nat /\ changes \in Nat /\ token <= changes
  BY <1>2 DEF KeyOk
<1>4. \A id \in dead : id \in Ids
  OBVIOUS
<1>5. \A id \in Ids : rows[id] # None /\ id \notin dead => ~(rows[id].expires <= now + 1)
  OBVIOUS
<1>6. DOMAIN rows' = Ids /\ \A id \in Ids : rows'[id] = rows[id] \/ rows'[id] = None
  BY <1>1, <1>2 DEF Drop, RowsOk
<1>7. backend # "memory" => \A id \in Ids : rows'[id] # None => id \notin dead
  BY <1>1 DEF Drop
<1> HIDE DEF dead
<1>8. RowsOk(rows', now')
  <2>1. ASSUME NEW id \in Ids, rows[id] # None PROVE RowOk(rows[id], id, now')
    <3>1. RowOk(rows[id], id, now)
      BY <1>2, <2>1 DEF RowsOk
    <3> QED BY <1>1, <1>2, <1>3, <3>1 DEF RowOk
  <2> QED BY <1>6, <2>1 DEF RowsOk
<1>9. index' \in Seq(Item) /\ Ordered(index')
  <2>1. <<>> \in Seq(Item) /\ Ordered(<<>>)
    BY DEF Ordered
  <2> QED BY <1>1, <1>3, <2>1
<1>10. KeyOk(index', lapses', token', changes', now')
  <2>1. token' \in Nat /\ changes' \in Nat /\ token' <= changes' /\ now' \in Nat
         /\ lapses' <= now' + Ttl
    BY <1>1, <1>2, <1>3
  <2> QED BY <1>1, <1>3, <1>9, <2>1 DEF KeyOk
<1>11. ServerOk(backend', rows', lapses')
  BY <1>1, <1>2, <1>6 DEF ServerOk
<1>12. MemoryOk(backend', index', rows')
  BY <1>1, <1>2 DEF MemoryOk
<1>13. CasOk(backend', index', token')
  BY <1>1, <1>2 DEF CasOk
<1>14. StoreInv'
  BY <1>1, <1>2, <1>8, <1>10, <1>11, <1>12, <1>13 DEF StoreInv
<1>15. KeyMoves
  BY <1>1, <1>3 DEF KeyMoves
<1>16. TasksInv'
  BY <1>1, <1>2, <1>15, TasksStay
<1>17. Floor!Next
  <2>1. CASE ~lapsed
    BY <1>1, <1>2, <2>1, FloorStays
  <2>2. CASE lapsed
    <3>1. \A i \in 1..Len(index) : index[i].id \in Ids
      BY <1>3, ItemIs
    <3>2. index' = Without(index, Ids)
      BY <1>1, <1>3, <2>2, <3>1, WithoutAll
    <3>3. ASSUME NEW id \in Ids, id \in Kept, id \in Kept' PROVE FALSE
      <4>1. rows[id] # None /\ rows[id].indexed /\ rows'[id] # None
        BY <3>3 DEF Kept, Live
      <4>2. rows[id].expires <= lapses /\ rows[id].expires \in Nat
        BY <1>2, <2>2, <4>1 DEF ServerOk, RowsOk, RowOk
      <4>3. rows[id].expires <= now + 1
        BY <1>3, <2>2, <4>2
      <4> QED BY <1>5, <1>7, <2>2, <4>1, <4>3
    <3>4. Ids \subseteq Ids \ (Kept \cap Kept')
      BY <3>3
    <3> QED BY <1>2, <3>2, <3>4, FloorLeaves
  <2> QED BY <2>1, <2>2
<1> QED BY <1>14, <1>16, <1>17 DEF FloorInv

LEMMA CallOnlyFloor ==
    ASSUME FloorInv, NEW p \in Task,
           Begin(p) \/ Reply(p) \/ Cancel(p) \/ Retry(p) \/ List(p) \/ Fetch(p)
                  \/ ReadRecency(p) \/ CasFails(p)
    PROVE  FloorInv' /\ Floor!Next
<1>1. FloorInv'
  BY BeginInv, StopInv, RetryInv, ListInv, FetchInv, ReadInv, CasFailsInv
<1>2. index' = index
  BY DEF Begin, Reply, Cancel, Retry, List, Fetch, ReadRecency, CasFails
<1> QED BY <1>1, <1>2, FloorStays DEF FloorInv

LEMMA FloorInit == ASSUME Init PROVE FloorInv /\ Floor!Init
<1>1. /\ backend \in {"memory", "redis", "memcached"} /\ Ttl \in Nat /\ Cap \in Nat
  BY BoundAssumption DEF Init
<1>2. DOMAIN rows = Ids /\ \A id \in Ids : rows[id] = None
  BY DEF Init
<1>3. /\ index = <<>> /\ lapses = 0 /\ token = 0 /\ changes = 0 /\ now = 0
      /\ call = [p \in Task |-> Idle]
  BY DEF Init
<1>4. RowsOk(rows, now) /\ ServerOk(backend, rows, lapses)
  BY <1>2 DEF RowsOk, ServerOk
<1>5. index \in Seq(Item) /\ Ordered(index) /\ Len(index) = 0
  BY <1>3 DEF Ordered
<1>6. KeyOk(index, lapses, token, changes, now) /\ CasOk(backend, index, token)
  BY <1>1, <1>3, <1>5 DEF KeyOk, CasOk
<1>7. MemoryOk(backend, index, rows)
  BY <1>1, <1>2, <1>5 DEF MemoryOk
<1>8. StoreInv
  BY <1>1, <1>4, <1>6, <1>7 DEF StoreInv
<1>9. TasksInv
  BY <1>3, IdleAsked DEF TasksInv
<1>10. Kept = {}
  BY <1>2 DEF Kept, Live
<1>11. Floor!Init
  BY <1>3, <1>10 DEF Floor!Init, Kept
<1> QED BY <1>8, <1>9, <1>11 DEF FloorInv

LEMMA FloorStep ==
    ASSUME FloorInv, [Next]_vars PROVE FloorInv' /\ [Floor!Next]_<<index, Kept>>
<1>1. CASE UNCHANGED vars
  <2>1. StoreInv' /\ TasksInv'
    BY <1>1, StoreStays DEF FloorInv, TasksInv, vars
  <2>2. Kept' = Kept /\ index' = index
    BY <1>1 DEF Kept, Live, vars
  <2> QED BY <2>1, <2>2 DEF FloorInv
<1>2. ASSUME NEW p \in Task, Begin(p) \/ Step(p) \/ Retry(p) \/ Cancel(p)
      PROVE  FloorInv' /\ Floor!Next
  BY <1>2, CallOnlyFloor, MemoryGetStep, MemoryPutStep, RedisPutStep, RedisEvictStep, RedisHealStep,
     WriteRowStep, CasSucceedsStep DEF Step
<1>3. CASE Tick
  BY <1>3, TickStep
<1> QED BY <1>1, <1>2, <1>3 DEF Next

\* Every backend, under every interleaving, retry, cancellation and expiry,
\* keeps its recency index the way the abstract floor does: no step loses the
\* entry of another id whose row is live and indexed (memcached_stm.py, the
\* compare-and-swap loop; redis_stm.py, the transactions; memory_stm.py).
THEOREM IndexIsFloor == Spec => ImplementsFloor
<1>1. Init => FloorInv /\ Floor!Init
  BY FloorInit
<1>2. FloorInv /\ [Next]_vars => FloorInv' /\ [Floor!Next]_<<index, Kept>>
  BY FloorStep
<1> QED BY <1>1, <1>2, PTL DEF Spec, ImplementsFloor, Floor!Spec, Kept

-----------------------------------------------------------------------------
(***************************************************************************)
(* The cap of the in-process adapter.                                      *)
(***************************************************************************)
Distinct(s) == \A i, j \in 1..Len(s) : s[i].id = s[j].id => i = j

\* A list of entries of distinct ids is as long as its ids are many.
LEMMA CountIds ==
    ASSUME NEW s \in Seq(Item), Distinct(s)
    PROVE  IsFiniteSet(IdsOf(s)) /\ Cardinality(IdsOf(s)) = Len(s)
<1> DEFINE S == 1..Len(s)
           T == IdsOf(s)
           f == [i \in S |-> s[i].id]
<1>1. Len(s) \in Nat
  OBVIOUS
<1>2. IsFiniteSet(S) /\ Cardinality(S) = Len(s)
  <2> DEFINE n == Len(s)
  <2>1. 1 \in Int /\ n \in Int /\ n \in Nat
    BY <1>1
  <2> HIDE DEF n
  <2>2. IsFiniteSet(1..n) /\ Cardinality(1..n) = n
    BY <2>1, FS_Interval
  <2> QED BY <2>2 DEF n
<1>3. f \in [S -> T]
  BY DEF IdsOf
<1>4. \A i, j \in S : f[i] = f[j] => i = j
  BY DEF Distinct
<1>5. \A t \in T : \E i \in S : f[i] = t
  BY DEF IdsOf
<1> HIDE DEF f, S, T
<1>6. f \in Bijection(S, T)
  BY <1>3, <1>4, <1>5, Fun_IsBij
<1>7. ExistsBijection(S, T)
  BY <1>6 DEF ExistsBijection
<1>8. IsFiniteSet(T) /\ Cardinality(T) = Cardinality(S)
  BY <1>2, <1>7, FS_Bijection
<1> QED BY <1>2, <1>8 DEF T

\* A live row that a put drops was pushed out by the cap.
LEMMA PushedOut ==
    ASSUME FloorInv, NEW p \in Task, MemoryPut(p), NEW id \in Ids, Live(id), rows'[id] = None
    PROVE  /\ Cardinality({x \in Ids : rows'[x] # None}) = Cap
           /\ \A x \in Ids : rows'[x] # None => rows'[x].item.created >= rows[id].item.created
<1> DEFINE item == call[p].item
<1>1. PICK rest, entries, over : PutFacts(item, rest, entries, over)
  BY MemoryPutFacts
<1>2. StoreInv /\ backend = "memory"
  BY DEF FloorInv, MemoryPut, InMemory
<1> HIDE DEF item
<1>3. /\ index \in Seq(Item) /\ Len(index) \in Nat /\ Len(index) <= Cap
      /\ \A i \in 1..Len(index) : rows[index[i].id] # None /\ rows[index[i].id].item = index[i]
      /\ \A x \in Ids : rows[x] # None => \E i \in 1..Len(index) : index[i].id = x
      /\ Distinct(index)
  BY <1>2, MemoryIndexIs DEF Distinct
<1>4. item \in Item /\ now \in Nat /\ Cap \in Nat /\ RowsOk(rows, now)
  BY <1>1, <1>2, BoundAssumption DEF PutFacts, StoreInv, KeyOk
<1>5. /\ rest \in Seq(Item) /\ Len(rest) \in Nat
      /\ \A j \in 1..Len(rest) : rest[j].id # item.id /\ \E i \in 1..Len(index) : index[i] = rest[j]
      /\ Distinct(rest)
  BY <1>1, <1>3 DEF PutFacts, Shorter, Distinct
<1>6. /\ entries \in Seq(Item) /\ Ordered(entries) /\ index' = Truncated(entries)
      /\ Len(entries) = Len(rest) + 1
      /\ \A i \in 1..Len(entries) : entries[i] = item
             \/ \E j \in 1..Len(rest) : entries[i] = rest[j]
  BY <1>1 DEF PutFacts, Extends
<1>7. over = IdsOf(entries) \ IdsOf(index')
  BY <1>1 DEF PutFacts
<1>8. /\ index' \in Seq(Item) /\ Len(index') \in Nat
      /\ Len(entries) > Cap => Len(index') = Cap
      /\ \A i \in 1..Len(index') : index'[i] = entries[i]
      /\ Len(entries) <= Cap => index' = entries
  BY <1>6, TruncatedIs
<1>9. id \notin ExpiredIds /\ rows[id] # None
  <2>1. rows[id] # None /\ rows[id].expires > now
    BY DEF Live
  <2>2. rows[id].expires \in Nat
    BY <1>4, <2>1 DEF RowsOk, RowOk
  <2>3. ~(rows[id].expires <= now)
    BY <1>4, <2>1, <2>2
  <2> QED BY <2>1, <2>3 DEF ExpiredIds, Expired
<1>10. id \in over
  <2>1. Row(item, TRUE) # None
    BY <1>4, RowIs
  <2> QED BY <1>1, <1>9, <2>1 DEF PutFacts
<1>11. Len(entries) > Cap /\ Len(index') = Cap
  <2>1. ~(Len(entries) <= Cap)
    BY <1>7, <1>8, <1>10
  <2> QED BY <1>4, <1>5, <1>6, <1>8, <2>1
\* The entry of the put itself is not pushed out: it took the place of its own.
<1>12. id # item.id
  <2> SUFFICES ASSUME id = item.id PROVE FALSE
    OBVIOUS
  <2>1. IsFiniteSet(IdsOf(index)) /\ Cardinality(IdsOf(index)) = Len(index)
    BY <1>3, CountIds
  <2>2. Cardinality(IdsOf(rest)) = Len(rest)
    BY <1>5, CountIds
  <2>3. id \in IdsOf(index)
    BY <1>3, <1>9 DEF IdsOf
  <2>4. IdsOf(rest) \in SUBSET (IdsOf(index) \ {id})
    BY <1>5 DEF IdsOf
  <2>5. /\ IsFiniteSet(IdsOf(index) \ {id})
        /\ Cardinality(IdsOf(index) \ {id}) = Len(index) - 1
    BY <2>1, <2>3, FS_RemoveElement
  <2>6. Cardinality(IdsOf(rest)) <= Cardinality(IdsOf(index) \ {id})
    BY <2>4, <2>5, FS_Subset
  <2> QED BY <1>3, <1>4, <1>5, <1>6, <1>11, <2>2, <2>5, <2>6
<1>13. PICK m \in 1..Len(entries) : entries[m].id = id
  BY <1>7, <1>10 DEF IdsOf
<1>14. m > Cap
  <2> SUFFICES ASSUME ~(m > Cap) PROVE FALSE
    OBVIOUS
  <2>1. m \in 1..Len(index')
    BY <1>4, <1>11, <1>13
  <2>2. index'[m].id = id
    BY <1>8, <1>13, <2>1
  <2> QED BY <1>7, <1>10, <2>1, <2>2 DEF IdsOf
<1>15. entries[m] = rows[id].item
  <2>1. entries[m] # item
    BY <1>12, <1>13
  <2>2. PICK i \in 1..Len(index) : index[i] = entries[m]
    BY <1>5, <1>6, <2>1
  <2> QED BY <1>3, <1>13, <2>2
<1>16. FloorInv'
  BY MemoryPutStep
<1>17. MemoryOk("memory", index', rows') /\ DOMAIN rows' = Ids
  <2>1. backend' = "memory"
    BY <1>2 DEF MemoryPut, MemoryReturn
  <2> QED BY <1>16, <2>1 DEF FloorInv, StoreInv, RowsOk
<1>18. /\ \A i \in 1..Len(index') : rows'[index'[i].id] # None
              /\ rows'[index'[i].id].item = index'[i]
       /\ \A x \in Ids : rows'[x] # None => \E i \in 1..Len(index') : index'[i].id = x
       /\ Distinct(index')
  BY <1>17 DEF MemoryOk, Distinct
<1>19. ASSUME NEW x \in Ids, rows'[x] # None
       PROVE  rows'[x].item.created >= rows[id].item.created
  <2>1. PICK i \in 1..Len(index') : index'[i].id = x
    BY <1>18, <1>19
  <2>2. i \in 1..Len(entries) /\ i < m /\ index'[i] = entries[i]
    BY <1>4, <1>8, <1>11, <1>13, <1>14, <2>1
  <2>3. rows'[x].item = entries[i]
    BY <1>18, <2>1, <2>2
  <2> QED BY <1>6, <1>13, <1>15, <2>2, <2>3 DEF Ordered
<1>20. {x \in Ids : rows'[x] # None} = IdsOf(index')
  <2>1. \A i \in 1..Len(index') : index'[i].id \in Ids
    BY <1>8, ItemIs
  <2> QED BY <1>18, <2>1 DEF IdsOf
<1>21. Cardinality(IdsOf(index')) = Cap
  <2>1. ASSUME NEW s, s \in Seq(Item), Distinct(s) PROVE Cardinality(IdsOf(s)) = Len(s)
    BY <2>1, CountIds
  <2> QED BY <1>8, <1>11, <1>18, <2>1
<1> QED BY <1>19, <1>20, <1>21

LEMMA OtherSteps ==
    ASSUME FloorInv, backend = "memory", NEW id \in Ids, Live(id), rows'[id] = None,
           NEW p \in Task, Begin(p) \/ Step(p) \/ Retry(p) \/ Cancel(p), ~MemoryEvict(p)
    PROVE  MemoryPut(p)
<1>1. rows[id] # None /\ Asked(call[p], backend) /\ id \notin ExpiredIds
  <2>1. rows[id] # None /\ rows[id].expires > now /\ Asked(call[p], backend) /\ StoreInv
    BY DEF Live, FloorInv, TasksInv
  <2>2. rows[id].expires \in Nat /\ now \in Nat
    BY <2>1 DEF StoreInv, RowsOk, RowOk, KeyOk
  <2>3. ~(rows[id].expires <= now)
    BY <2>1, <2>2
  <2> QED BY <2>1, <2>3 DEF ExpiredIds, Expired
<1>2. rows' # rows
  BY <1>1
<1>3. ~(Begin(p) \/ Reply(p) \/ Cancel(p) \/ Retry(p) \/ List(p) \/ Fetch(p)
       \/ ReadRecency(p) \/ CasFails(p))
  BY <1>2 DEF Begin, Reply, Cancel, Retry, List, Fetch, ReadRecency, CasFails
<1>4. ~(RedisPut(p) \/ RedisEvict(p) \/ RedisHeal(p))
  BY <1>2 DEF RedisPut, RedisEvict, RedisHeal, InRedis
<1>5. ~(WriteRow(p) \/ CasSucceeds(p))
  BY <1>1 DEF WriteRow, CasSucceeds, Asked
<1>6. ~(MemoryGet(p) \/ MemoryRecent(p))
  <2>1. ASSUME NEW gone, gone \subseteq ExpiredIds, rows' = Drop(gone) PROVE FALSE
    BY <1>1, <2>1 DEF Drop
  <2> QED BY <2>1 DEF MemoryGet, MemoryRecent
<1> QED BY <1>3, <1>4, <1>5, <1>6 DEF Step

\* The in-process adapter drops a live row, other than for an eviction, only
\* when it is full, and then the least recent (memory_stm.py, put).
THEOREM CapDropsOldest == Spec => CapKeepsNewest
<1>1. ASSUME FloorInv, [Next]_vars, backend = "memory", NEW id \in Ids,
             Live(id), rows'[id] = None, ~(\E p \in Task : MemoryEvict(p))
      PROVE  /\ Cardinality({x \in Ids : rows'[x] # None}) = Cap
             /\ \A x \in Ids : rows'[x] # None => rows'[x].item.created >= rows[id].item.created
  <2>1. rows[id] # None
    BY <1>1 DEF Live
  <2>2. rows' # rows
    BY <1>1, <2>1
  <2>3. ~(UNCHANGED vars) /\ ~Tick
    BY <1>1, <2>2 DEF vars, Tick
  <2>4. PICK p \in Task : Begin(p) \/ Step(p) \/ Retry(p) \/ Cancel(p)
    BY <1>1, <2>3 DEF Next
  <2>5. MemoryPut(p)
    BY <1>1, <2>4, OtherSteps
  <2> QED BY <1>1, <2>5, PushedOut
<1>2. Init => FloorInv
  BY FloorInit
<1>3. FloorInv /\ [Next]_vars => FloorInv'
  BY FloorStep
<1>4. FloorInv /\ [Next]_vars =>
        [backend = "memory" =>
           \A id \in Ids :
              Live(id) /\ rows'[id] = None /\ ~(\E p \in Task : MemoryEvict(p))
                => /\ Cardinality({x \in Ids : rows'[x] # None}) = Cap
                   /\ \A x \in Ids : rows'[x] # None => rows'[x].item.created >= rows[id].item.created]_vars
  BY <1>1
<1> QED BY <1>2, <1>3, <1>4, PTL DEF Spec, CapKeepsNewest

-----------------------------------------------------------------------------
(***************************************************************************)
(* The model layer, a component of its own.                                *)
(***************************************************************************)
CONSTANTS Caller, Catalog, Override, Request, Headroom, DefaultWindow, MaxModelCalls,
          MaxFailures, MaxClears
VARIABLES catalog, instances, heap, handlers, pc, obj, held, modelCall, emitted, modelCalls,
          failures, clears

M == INSTANCE ModelLayer WITH MaxCalls <- MaxModelCalls, call <- modelCall, calls <- modelCalls

-----------------------------------------------------------------------------
(***************************************************************************)
(* One warm object per model id.                                           *)
(***************************************************************************)
Object == {"key", "kind", "model", "tokenizer", "initialized", "loads", "epoch"}

\* The steps of a build at which some config is still to be constructed.
Building == {"new", "found", "lock", "init", "reset", "load", "tokenizer", "mark", "own", "compile"}

\* A build is at a config that its catalog has.
BuildInv ==
    /\ catalog \in [Caller -> Catalog] /\ DOMAIN pc = Caller /\ DOMAIN held = Caller
    /\ \A c \in Caller :
          /\ held[c] \in Seq(Range(held[c]))
          /\ pc[c] \in Building => Len(held[c]) <= Len(catalog[c].warm)

\* The table refers to the object allocated for the key since the last
\* clear_all, and there is no other.
TableInv ==
    /\ clears \in Nat /\ DOMAIN instances = M!Keys
    /\ heap \in Seq(Range(heap))
    /\ \A i \in 1..Len(heap) :
          /\ DOMAIN heap[i] = Object /\ heap[i].epoch \in Nat /\ heap[i].epoch <= clears
          /\ heap[i].epoch = clears => heap[i].key \in M!Keys /\ instances[heap[i].key] = i
    /\ M!OneInstancePerKey

LEMMA SameRange == ASSUME NEW f PROVE M!Range(f) = Range(f)
BY DEF M!Range, Range

LEMMA AppendRange ==
    ASSUME NEW s, s \in Seq(Range(s)), NEW x PROVE Append(s, x) \in Seq(Range(Append(s, x)))
<1> DEFINE n == Len(s)
           t == Append(s, x)
<1>1. n \in Nat /\ DOMAIN s = 1..n /\ t \in Seq(Range(s) \cup {x})
  OBVIOUS
<1>2. DOMAIN t = 1..(n + 1) /\ t[n + 1] = x /\ \A i \in 1..n : t[i] = s[i]
  BY <1>1
<1> HIDE DEF t
<1>3. n + 1 \in DOMAIN t /\ \A i \in 1..n : i \in DOMAIN t
  BY <1>1, <1>2
<1>4. x \in Range(t) /\ \A i \in 1..n : s[i] \in Range(t)
  BY <1>2, <1>3 DEF Range
<1>5. Range(s) \cup {x} \subseteq Range(t)
  BY <1>1, <1>4 DEF Range
<1>6. t \in Seq(Range(t))
  BY <1>1, <1>5
<1> QED BY <1>6 DEF t

\* A layer is built from models whose ids are keys of the table.
LEMMA ConfigIsKeyed ==
    ASSUME M!CatalogAssumption, BuildInv, NEW c \in Caller, pc[c] \in Building
    PROVE  M!Config(c).model_id \in M!Keys
<1> DEFINE k == catalog[c]
           n == Len(held[c])
<1>1. /\ k \in Catalog /\ k.warm \in Seq(Range(k.warm)) /\ n \in Nat /\ n <= Len(k.warm)
      /\ Len(k.warm) \in Nat
  BY SameRange DEF BuildInv, M!CatalogAssumption
<1>2. M!Config(c) = Append(k.warm, k.embedder)[n + 1]
  BY DEF M!Config, M!Wanted
<1>3. M!Config(c) \in Range(k.warm) \cup {k.embedder}
  <2>1. CASE n = Len(k.warm)
    BY <1>1, <1>2, <2>1
  <2>2. CASE n # Len(k.warm)
    <3>1. n + 1 \in 1..Len(k.warm) /\ Append(k.warm, k.embedder)[n + 1] = k.warm[n + 1]
      BY <1>1, <2>2
    <3> QED BY <1>1, <1>2, <3>1 DEF Range
  <2> QED BY <2>1, <2>2
<1> QED BY <1>1, <1>3, SameRange DEF M!Keys

\* What constructors write into an object leaves its key and its epoch.
SameObjects ==
    /\ heap' \in Seq(Range(heap')) /\ Len(heap') = Len(heap)
    /\ \A i \in 1..Len(heap) :
          DOMAIN heap'[i] = Object /\ heap'[i].key = heap[i].key /\ heap'[i].epoch = heap[i].epoch

LEMMA ObjectsStay ==
    ASSUME TableInv, heap' = heap PROVE SameObjects
BY DEF TableInv, SameObjects

LEMMA ObjectRewritten ==
    ASSUME TableInv, NEW o, NEW v, heap' = [heap EXCEPT ![o] = v],
           o \in 1..Len(heap) => DOMAIN v = Object /\ v.key = heap[o].key /\ v.epoch = heap[o].epoch
    PROVE  SameObjects
<1>1. heap \in Seq(Range(heap)) /\ Len(heap) \in Nat /\ DOMAIN heap = 1..Len(heap)
  BY DEF TableInv
<1>2. DOMAIN heap' = 1..Len(heap) /\ heap' = [i \in 1..Len(heap) |-> heap'[i]]
  BY <1>1
<1>3. \A i \in 1..Len(heap) : heap'[i] \in Range(heap')
  BY <1>2 DEF Range
<1>4. heap' \in Seq(Range(heap'))
  <2> DEFINE R == Range(heap')
             h == heap'
  <2>1. \A i \in 1..Len(heap) : h[i] \in R
    BY <1>3
  <2>2. h = [i \in 1..Len(heap) |-> h[i]]
    BY <1>2
  <2> HIDE DEF R, h
  <2>3. [i \in 1..Len(heap) |-> h[i]] \in Seq(R)
    BY <1>1, <2>1, IsASeq
  <2>4. h \in Seq(R)
    BY <2>2, <2>3
  <2> QED BY <2>4 DEF R, h
<1>5. Len(heap') = Len(heap)
  BY <1>1, <1>2, <1>4
<1>6. ASSUME NEW i \in 1..Len(heap)
      PROVE  DOMAIN heap'[i] = Object /\ heap'[i].key = heap[i].key
             /\ heap'[i].epoch = heap[i].epoch
  <2>1. CASE i = o
    BY <1>1, <2>1
  <2>2. CASE i # o
    BY <1>1, <2>2 DEF TableInv
  <2> QED BY <2>1, <2>2
<1> QED BY <1>4, <1>5, <1>6 DEF SameObjects

LEMMA SameObjectsKeep ==
    ASSUME TableInv, SameObjects, instances' = instances, clears' = clears
    PROVE  TableInv'
<1>1. Len(heap) \in Nat /\ DOMAIN heap = 1..Len(heap) /\ DOMAIN heap' = 1..Len(heap)
  BY DEF TableInv, SameObjects
<1>2. M!Keys' = M!Keys
  BY DEF M!Keys
<1>3. M!OneInstancePerKey'
  BY <1>1 DEF TableInv, SameObjects, M!OneInstancePerKey
<1>4. ASSUME NEW i \in 1..Len(heap')
      PROVE  /\ DOMAIN heap'[i] = Object /\ heap'[i].epoch \in Nat /\ heap'[i].epoch <= clears
             /\ heap'[i].epoch = clears => heap'[i].key \in M!Keys /\ instances[heap'[i].key] = i
  BY DEF TableInv, SameObjects
<1> QED BY <1>2, <1>3, <1>4 DEF TableInv, SameObjects

LEMMA AllocateKeeps ==
    ASSUME TableInv, NEW c \in Caller, NEW key \in M!Keys, M!Allocate(c, key), instances[key] = 0,
           clears' = clears
    PROVE  TableInv'
<1> DEFINE n == Len(heap) + 1
           b == M!Blank(key, M!Config(c).kind)
<1>1. Len(heap) \in Nat /\ heap \in Seq(Range(heap)) /\ DOMAIN heap = 1..Len(heap)
  BY DEF TableInv
<1>2. DOMAIN b = Object /\ b.key = key /\ b.epoch = clears
  BY DEF M!Blank, Object
<1> HIDE DEF b
<1>3. /\ heap' = Append(heap, b) /\ instances' = [instances EXCEPT ![key] = Len(heap')]
  BY DEF M!Allocate, b
<1>4. /\ Len(heap') = n /\ DOMAIN heap' = 1..n /\ heap'[n] = b
      /\ \A i \in 1..Len(heap) : heap'[i] = heap[i]
  BY <1>1, <1>3
<1>5. heap' \in Seq(Range(heap'))
  <2>1. Append(heap, b) \in Seq(Range(Append(heap, b)))
    BY <1>1, AppendRange
  <2> QED BY <1>3, <2>1
<1>6. \A i \in 1..Len(heap) : heap[i].key = key => heap[i].epoch # clears
  BY <1>1 DEF TableInv
<1>7. M!Keys' = M!Keys /\ DOMAIN instances' = M!Keys
  BY <1>3 DEF M!Keys, TableInv
<1>8. ASSUME NEW i \in 1..n
      PROVE  /\ DOMAIN heap'[i] = Object /\ heap'[i].epoch \in Nat /\ heap'[i].epoch <= clears
             /\ heap'[i].epoch = clears => heap'[i].key \in M!Keys /\ instances'[heap'[i].key] = i
  <2>1. CASE i = n
    <3>1. heap'[i] = b /\ instances'[key] = n /\ clears \in Nat
      BY <1>3, <1>4, <2>1 DEF TableInv
    <3> QED BY <1>2, <2>1, <3>1
  <2>2. CASE i # n
    <3>1. i \in 1..Len(heap) /\ heap'[i] = heap[i]
      BY <1>1, <1>4, <2>2
    <3>2. /\ DOMAIN heap[i] = Object /\ heap[i].epoch \in Nat /\ heap[i].epoch <= clears
          /\ heap[i].epoch = clears => heap[i].key \in M!Keys /\ instances[heap[i].key] = i
      BY <3>1 DEF TableInv
    <3>3. heap[i].epoch = clears => instances'[heap[i].key] = instances[heap[i].key]
      BY <1>3, <1>6, <3>1, <3>2 DEF TableInv
    <3> QED BY <3>1, <3>2, <3>3
  <2> QED BY <2>1, <2>2
<1>9. ASSUME NEW i \in 1..n, NEW j \in 1..n, heap'[i].key = heap'[j].key, heap'[i].epoch = heap'[j].epoch
      PROVE  i = j
  <2>1. \A m \in 1..n : m # n => m \in 1..Len(heap) /\ heap'[m] = heap[m]
    BY <1>1, <1>4
  <2>2. CASE i # n /\ j # n
    BY <1>1, <1>9, <2>1, <2>2 DEF TableInv, M!OneInstancePerKey
  <2>3. CASE i = n \/ j = n
    BY <1>2, <1>4, <1>6, <1>9, <2>1, <2>3
  <2> QED BY <2>2, <2>3
<1>10. M!OneInstancePerKey'
  BY <1>4, <1>9 DEF M!OneInstancePerKey
<1> QED BY <1>4, <1>5, <1>7, <1>8, <1>10 DEF TableInv

LEMMA BuildsStay ==
    ASSUME BuildInv, UNCHANGED <<catalog, pc, held>> PROVE BuildInv'
BY DEF BuildInv

\* A step of a build that holds no more than before.
LEMMA BuildMoves ==
    ASSUME BuildInv, NEW c \in Caller, pc[c] \in Building, NEW l, M!Goto(c, l),
           UNCHANGED <<catalog, held>>
    PROVE  BuildInv'
BY DEF BuildInv, M!Goto

LEMMA OwnMoves ==
    ASSUME M!CatalogAssumption, BuildInv, NEW c \in Caller, M!Own(c) PROVE BuildInv'
<1>1. pc[c] = "own" /\ catalog' = catalog /\ pc[c] \in Building
  BY DEF M!Own, Building
<1>2. CASE M!Goto(c, "failed") /\ UNCHANGED held
  BY <1>1, <1>2, BuildMoves
<1>3. CASE /\ held' = [held EXCEPT ![c] = Append(@, obj[c])]
           /\ M!Goto(c, IF Len(held[c]) = Len(catalog[c].warm) THEN "register"
                        ELSE M!Stage(c, Len(held'[c])))
  <2>1. /\ held[c] \in Seq(Range(held[c])) /\ Len(held[c]) \in Nat
        /\ Len(held[c]) <= Len(catalog[c].warm)
        /\ catalog[c] \in Catalog /\ DOMAIN held = Caller /\ DOMAIN pc = Caller
    BY <1>1 DEF BuildInv
  <2>2. Len(catalog[c].warm) \in Nat
    BY <2>1, SameRange DEF M!CatalogAssumption
  <2>3. /\ held'[c] = Append(held[c], obj[c]) /\ Len(held'[c]) = Len(held[c]) + 1
        /\ DOMAIN held' = Caller /\ \A e \in Caller \ {c} : held'[e] = held[e]
    BY <1>3, <2>1
  <2>4. held'[c] \in Seq(Range(held'[c]))
    <3>1. Append(held[c], obj[c]) \in Seq(Range(Append(held[c], obj[c])))
      BY <2>1, AppendRange
    <3> QED BY <2>3, <3>1
  <2>5. DOMAIN pc' = Caller /\ \A e \in Caller \ {c} : pc'[e] = pc[e]
    BY <1>3, <2>1 DEF M!Goto
  <2>6. pc'[c] \in Building => Len(held'[c]) <= Len(catalog[c].warm)
    <3>1. CASE Len(held[c]) = Len(catalog[c].warm)
      BY <1>3, <2>1, <3>1 DEF M!Goto, Building
    <3>2. CASE Len(held[c]) # Len(catalog[c].warm)
      BY <2>1, <2>2, <2>3, <3>2
    <3> QED BY <3>1, <3>2
  <2> QED BY <1>1, <2>3, <2>4, <2>5, <2>6 DEF BuildInv
<1> QED BY <1>2, <1>3 DEF M!Own

LEMMA BuildStep ==
    ASSUME M!CatalogAssumption, BuildInv, [M!Next]_M!vars PROVE BuildInv'
<1>1. CASE UNCHANGED M!vars \/ M!ClearAll
  BY <1>1, BuildsStay DEF M!vars, M!ClearAll
<1>2. ASSUME NEW c \in Caller, M!Use(c) PROVE BuildInv'
  <2>1. UNCHANGED <<catalog, pc, held>>
    BY <1>2 DEF M!Use, M!Generate, M!OneShot, M!MapCall, M!ReduceCall, M!StreamOpen, M!StreamOpened,
       M!StreamEnds, M!Rerank, M!Reranked, M!Embed, M!Embedded, M!Cancel, M!Started, M!Ends, M!_one_shot
  <2> QED BY <2>1, BuildsStay
<1>3. ASSUME NEW c \in Caller, M!Own(c) PROVE BuildInv'
  BY <1>3, OwnMoves
<1>4. ASSUME NEW c \in Caller, M!Register(c) PROVE BuildInv'
  <2>1. DOMAIN pc' = Caller /\ pc'[c] = "ready" /\ "ready" \notin Building
        /\ (\A e \in Caller \ {c} : pc'[e] = pc[e]) /\ UNCHANGED <<catalog, held>>
    BY <1>4 DEF BuildInv, M!Register, M!Goto, Building
  <2> QED BY <2>1 DEF BuildInv
<1>5. ASSUME NEW c \in Caller,
             \/ M!Compile(c) \/ M!NewLookup(c) \/ M!NewFound(c) \/ M!NewLocked(c) \/ M!InitCheck(c)
             \/ M!InitReset(c) \/ M!LoadModel(c) \/ M!LoadTokenizer(c) \/ M!LoadFails(c)
                    \/ M!InitMark(c)
      PROVE  BuildInv'
  <2>1. pc[c] \in Building
    BY <1>5 DEF M!Compile, M!NewLookup, M!NewFound, M!NewLocked, M!InitCheck, M!InitReset,
       M!LoadModel,
       M!LoadTokenizer, M!LoadFails, M!InitMark, Building
  <2>2. UNCHANGED <<catalog, held>>
    BY <1>5 DEF M!Compile, M!NewLookup, M!NewFound, M!NewLocked, M!InitCheck, M!InitReset,
       M!LoadModel,
       M!LoadTokenizer, M!LoadFails, M!InitMark
  <2>3. \E l : M!Goto(c, l)
    BY <1>5 DEF M!Compile, M!NewLookup, M!NewFound, M!NewLocked, M!InitCheck, M!InitReset,
       M!LoadModel,
       M!LoadTokenizer, M!LoadFails, M!InitMark
  <2> QED BY <2>1, <2>2, <2>3, BuildMoves
<1> QED BY <1>1, <1>2, <1>3, <1>4, <1>5 DEF M!Next, M!Build

LEMMA TableStep ==
    ASSUME M!CatalogAssumption, BuildInv, TableInv, [M!Next]_M!vars PROVE TableInv'
<1>1. CASE UNCHANGED M!vars
  BY <1>1, ObjectsStay, SameObjectsKeep DEF M!vars
<1>2. CASE M!ClearAll
  <2>1. clears' = clears + 1 /\ heap' = heap /\ DOMAIN instances' = M!Keys /\ M!Keys' = M!Keys
    BY <1>2 DEF M!ClearAll, M!Keys
  <2>2. M!OneInstancePerKey'
    BY <2>1 DEF TableInv, M!OneInstancePerKey
  <2> QED BY <2>1, <2>2 DEF TableInv
<1>3. ASSUME NEW c \in Caller, M!Use(c) PROVE TableInv'
  <2>1. UNCHANGED <<heap, instances, clears>>
    BY <1>3 DEF M!Use, M!Generate, M!OneShot, M!MapCall, M!ReduceCall, M!StreamOpen, M!StreamOpened,
       M!StreamEnds, M!Rerank, M!Reranked, M!Embed, M!Embedded, M!Cancel, M!Started, M!Ends, M!_one_shot
  <2> QED BY <2>1, ObjectsStay, SameObjectsKeep
<1>4. ASSUME NEW c \in Caller,
             \/ M!Compile(c) \/ M!NewLookup(c) \/ M!NewFound(c) \/ M!InitCheck(c)
             \/ M!LoadFails(c) \/ M!Own(c) \/ M!Register(c)
      PROVE  TableInv'
  <2>1. UNCHANGED <<heap, instances, clears>>
    BY <1>4 DEF M!Compile, M!NewLookup, M!NewFound, M!InitCheck, M!LoadFails, M!Own, M!Register
  <2> QED BY <2>1, ObjectsStay, SameObjectsKeep
<1>5. ASSUME NEW c \in Caller, M!NewLocked(c) PROVE TableInv'
  <2>1. pc[c] \in Building /\ clears' = clears /\ M!UnderLock(c, M!Config(c).model_id)
    BY <1>5 DEF M!NewLocked, Building
  <2>2. M!Config(c).model_id \in M!Keys
    BY <2>1, ConfigIsKeyed
  <2>3. CASE instances[M!Config(c).model_id] # 0
    BY <2>1, <2>3, ObjectsStay, SameObjectsKeep DEF M!UnderLock
  <2>4. CASE instances[M!Config(c).model_id] = 0
    BY <2>1, <2>2, <2>4, AllocateKeeps DEF M!UnderLock
  <2> QED BY <2>3, <2>4
<1>6. ASSUME NEW c \in Caller,
             M!InitReset(c) \/ M!LoadModel(c) \/ M!LoadTokenizer(c) \/ M!InitMark(c)
      PROVE  TableInv'
  <2> DEFINE o == obj[c]
  <2>1. UNCHANGED <<instances, clears>>
    BY <1>6 DEF M!InitReset, M!LoadModel, M!LoadTokenizer, M!InitMark
  <2>2. o \in 1..Len(heap) => DOMAIN heap[o] = Object
    BY DEF TableInv
  <2>3. CASE M!InitReset(c)
    <3> DEFINE v == [heap[o] EXCEPT !.kind = M!Config(c).kind, !.model = "none", !.tokenizer = FALSE]
    <3>1. heap' = [heap EXCEPT ![o] = v]
      BY <2>3 DEF M!InitReset
    <3>2. o \in 1..Len(heap) => DOMAIN v = Object /\ v.key = heap[o].key /\ v.epoch = heap[o].epoch
      BY <2>2 DEF Object
    <3> HIDE DEF v, o
    <3> QED BY <2>1, <3>1, <3>2, ObjectRewritten, SameObjectsKeep
  <2>4. CASE M!LoadModel(c)
    <3> DEFINE v == [heap[o] EXCEPT !.model = heap[o].kind, !.loads = @ + 1]
    <3>1. heap' = [heap EXCEPT ![o] = v]
      BY <2>4 DEF M!LoadModel
    <3>2. o \in 1..Len(heap) => DOMAIN v = Object /\ v.key = heap[o].key /\ v.epoch = heap[o].epoch
      BY <2>2 DEF Object
    <3> HIDE DEF v, o
    <3> QED BY <2>1, <3>1, <3>2, ObjectRewritten, SameObjectsKeep
  <2>5. CASE M!LoadTokenizer(c)
    <3> DEFINE v == [heap[o] EXCEPT !.tokenizer = TRUE]
    <3>1. heap' = [heap EXCEPT ![o] = v]
      BY <2>5 DEF M!LoadTokenizer
    <3>2. o \in 1..Len(heap) => DOMAIN v = Object /\ v.key = heap[o].key /\ v.epoch = heap[o].epoch
      BY <2>2 DEF Object
    <3> HIDE DEF v, o
    <3> QED BY <2>1, <3>1, <3>2, ObjectRewritten, SameObjectsKeep
  <2>6. CASE M!InitMark(c)
    <3> DEFINE v == [heap[o] EXCEPT !.initialized = TRUE]
    <3>1. heap' = [heap EXCEPT ![o] = v]
      BY <2>6 DEF M!InitMark
    <3>2. o \in 1..Len(heap) => DOMAIN v = Object /\ v.key = heap[o].key /\ v.epoch = heap[o].epoch
      BY <2>2 DEF Object
    <3> HIDE DEF v, o
    <3> QED BY <2>1, <3>1, <3>2, ObjectRewritten, SameObjectsKeep
  <2> QED BY <1>6, <2>3, <2>4, <2>5, <2>6
<1> QED BY <1>1, <1>2, <1>3, <1>4, <1>5, <1>6 DEF M!Next, M!Build

\* WarmLocalSingleton.__new__: however many layers are built at once, cleared
\* and built again, a model id has one object between two calls of clear_all,
\* for any catalogs whose settings are lists.
THEOREM OneWarmObject ==
    ASSUME M!CatalogAssumption PROVE M!Spec => []M!OneInstancePerKey
<1>1. M!Init => BuildInv /\ TableInv
  <2> SUFFICES ASSUME M!Init PROVE BuildInv /\ TableInv
    OBVIOUS
  <2>1. /\ catalog \in [Caller -> Catalog] /\ DOMAIN pc = Caller /\ held = [c \in Caller |-> <<>>]
        /\ heap = <<>> /\ instances = [key \in M!Keys |-> 0] /\ clears = 0
    BY DEF M!Init
  <2>2. ASSUME NEW c \in Caller PROVE held[c] \in Seq(Range(held[c]))
         /\ Len(held[c]) <= Len(catalog[c].warm)
    <3>1. catalog[c] \in Catalog /\ held[c] = <<>>
      BY <2>1
    <3>2. Len(catalog[c].warm) \in Nat
      BY <3>1, SameRange DEF M!CatalogAssumption
    <3> QED BY <3>1, <3>2
  <2>3. BuildInv
    BY <2>1, <2>2 DEF BuildInv
  <2>4. TableInv
    BY <2>1 DEF TableInv, M!OneInstancePerKey
  <2> QED BY <2>3, <2>4
<1>2. BuildInv /\ TableInv /\ [M!Next]_M!vars => BuildInv' /\ TableInv'
  BY BuildStep, TableStep
<1>3. TableInv => M!OneInstancePerKey
  BY DEF TableInv
<1> QED BY <1>1, <1>2, <1>3, PTL DEF M!Spec

-----------------------------------------------------------------------------
(***************************************************************************)
(* The windows of a long text are the text.                                *)
(***************************************************************************)
\* FlattenSeq, by the lists it passes through.
PassesThrough(ss, P) ==
  /\ Len(ss) \in Nat \ {0}
  /\ P = [i \in 1..Len(ss) |-> P[i]]
  /\ P[1] = ss[1]
  /\ \A i \in 2..Len(ss) : P[i] = P[i - 1] \o ss[i]

LEMMA FlattenIs ==
    ASSUME NEW ss, NEW P, PassesThrough(ss, P)
    PROVE  M!FlattenSeq(ss) = P[Len(ss)]
<1> DEFINE m == Len(ss)
<1>0. /\ m \in Nat \ {0}
      /\ P = [i \in 1..m |-> P[i]]
      /\ P[1] = ss[1]
      /\ \A i \in 2..m : P[i] = P[i - 1] \o ss[i]
  BY DEF PassesThrough
<1> DEFINE Of(f) == f = [i \in 1..m |-> IF i = 1 THEN ss[i] ELSE f[i - 1] \o ss[i]]
           h == CHOOSE f : Of(f)
<1>1. Of(P)
  <2>1. ASSUME NEW i \in 1..m PROVE P[i] = IF i = 1 THEN ss[i] ELSE P[i - 1] \o ss[i]
    <3>1. CASE i = 1
      BY <1>0, <3>1
    <3>2. CASE i # 1
      <4>1. i \in 2..m
        BY <1>0, <3>2
      <4> QED BY <1>0, <3>2, <4>1
    <3> QED BY <3>1, <3>2
  <2> QED BY <1>0, <2>1
<1>2. Of(h)
  <2> HIDE DEF Of
  <2> QED BY <1>1
<1>3. M!FlattenSeq(ss) = h[m]
  BY <1>0 DEF M!FlattenSeq
<1>4. \A i \in 1..m : h[i] = IF i = 1 THEN ss[i] ELSE h[i - 1] \o ss[i]
  <2> HIDE DEF h
  <2> QED BY <1>2, Zenon
<1> HIDE DEF h, Of, m
<1> DEFINE Bad == {i \in 1..m : h[i] # P[i]}
<1>5. Bad = {}
  <2> SUFFICES ASSUME Bad # {} PROVE FALSE
    OBVIOUS
  <2>1. PICK k \in Bad : \A j \in Bad : k <= j
    <3>1. Bad \in SUBSET Nat
      BY <1>0
    <3> HIDE DEF Bad
    <3> QED BY <3>1, LeastElement
  <2>2. k \in 1..m /\ h[k] # P[k]
    BY <2>1
  <2>3. k # 1
    BY <1>0, <1>4, <2>2
  <2>4. k \in 2..m /\ k - 1 \in 1..m /\ k - 1 \notin Bad
    BY <1>0, <2>1, <2>2, <2>3
  <2>5. h[k - 1] = P[k - 1]
    BY <2>4
  <2>6. h[k] = h[k - 1] \o ss[k] /\ P[k] = P[k - 1] \o ss[k]
    BY <1>0, <1>4, <2>2, <2>3, <2>4
  <2> QED BY <2>2, <2>5, <2>6
<1>6. m \in 1..m
  BY <1>0
<1> QED BY <1>3, <1>5, <1>6 DEF m

\* The first b tokens of a text.
Prefix(b) == [j \in 1..b |-> j]

LEMMA PrefixGrows ==
    ASSUME NEW n \in Nat, NEW a \in Nat, NEW b \in Nat, a <= b, b <= n
    PROVE  /\ SubSeq(Prefix(n), a + 1, b) \in Seq(Nat)
           /\ Prefix(a) \o SubSeq(Prefix(n), a + 1, b) = Prefix(b)
<1> DEFINE p == Prefix(n)
           s == SubSeq(p, a + 1, b)
<1>1. p \in Seq(Nat) /\ Len(p) = n /\ \A j \in 1..n : p[j] = j
  BY IsASeq DEF Prefix
<1>2. Prefix(a) \in Seq(Nat) /\ Len(Prefix(a)) = a /\ \A j \in 1..a : Prefix(a)[j] = j
  BY IsASeq DEF Prefix
<1>3. Prefix(b) \in Seq(Nat) /\ Len(Prefix(b)) = b /\ \A j \in 1..b : Prefix(b)[j] = j
  BY IsASeq DEF Prefix
<1> HIDE DEF p
<1>4. s \in Seq(Nat) /\ Len(s) = b - a /\ \A j \in 1..(b - a) : s[j] = p[a + j]
  <2>1. a + 1 \in Int /\ b \in Int /\ \A i \in (a + 1)..b : p[i] \in Nat
    BY <1>1
  <2>2. s \in Seq(Nat) /\ Len(s) = IF a + 1 <= b THEN b - (a + 1) + 1 ELSE 0
    BY <2>1, SubSeqProperties
  <2>3. ASSUME NEW j \in 1..(b - a) PROVE s[j] = p[a + j]
    <3>1. j \in 1..(b - (a + 1) + 1) /\ (a + 1) + j - 1 = a + j
      OBVIOUS
    <3>2. s[j] = p[(a + 1) + j - 1]
      BY <2>1, <3>1, SubSeqProperties
    <3> QED BY <3>1, <3>2
  <2> QED BY <2>2, <2>3
<1> HIDE DEF s
<1>5. \A j \in 1..(b - a) : s[j] = a + j
  BY <1>1, <1>4
<1> DEFINE t == Prefix(a) \o s
<1>6. t \in Seq(Nat) /\ Len(t) = b
       /\ \A j \in 1..b : t[j] = IF j <= a THEN Prefix(a)[j] ELSE s[j - a]
  <2> DEFINE q == Prefix(a)
  <2> HIDE DEF q
  <2>1. q \in Seq(Nat) /\ s \in Seq(Nat) /\ Len(q) = a /\ Len(s) = b - a
    BY <1>2, <1>4 DEF q
  <2>2. /\ q \o s \in Seq(Nat)
        /\ Len(q \o s) = Len(q) + Len(s)
        /\ \A i \in 1..Len(q) + Len(s) :
             (q \o s)[i] = IF i <= Len(q) THEN q[i] ELSE s[i - Len(q)]
    BY ONLY <2>1, ConcatProperties, Zenon
  <2>3. Len(q) + Len(s) = b
    BY <2>1
  <2>4. /\ q \o s \in Seq(Nat) /\ Len(q \o s) = b
        /\ \A j \in 1..b : (q \o s)[j] = IF j <= a THEN q[j] ELSE s[j - a]
    BY ONLY <2>1, <2>2, <2>3, Zenon
  <2> QED BY ONLY <2>4 DEF q
<1> HIDE DEF t
<1>7. ASSUME NEW j \in 1..b PROVE t[j] = Prefix(b)[j]
  <2>1. CASE j <= a
    BY <1>2, <1>3, <1>6, <2>1
  <2>2. CASE ~(j <= a)
    <3>1. j - a \in 1..(b - a) /\ a + (j - a) = j
      BY <2>2
    <3> QED BY <1>3, <1>5, <1>6, <2>2, <3>1
  <2> QED BY <2>1, <2>2
<1>8. t = Prefix(b)
  BY <1>3, <1>6, <1>7, SeqEqual
<1> QED BY <1>4, <1>8 DEF t, s, p

LEMMA EmptyPrefix == Prefix(0) = <<>>
<1>1. Prefix(0) \in Seq(Nat) /\ Len(Prefix(0)) = 0
  BY IsASeq DEF Prefix
<1> QED BY <1>1, EmptySeq

\* The slices of a text, in their order, are the text.
LEMMA SlicesCover ==
    ASSUME NEW n \in Nat, NEW step \in Nat \ {0}
    PROVE  /\ Len(M!Slices(n, step)) \in Nat
           /\ Len(M!Slices(n, step)) = 0 => M!Slices(n, step) = <<>>
           /\ M!FlattenSeq(M!Slices(n, step)) = Prefix(n)
<1> DEFINE m == (n + step - 1) \div step
           ss == M!Slices(n, step)
           B(i) == M!Smaller(i * step, n)
<1>1. m \in Nat /\ m * step <= n + step - 1 /\ n + step - 1 < m * step + step
  OBVIOUS
<1>2. ss = [i \in 1..m |-> SubSeq(Prefix(n), (i - 1) * step + 1, B(i))]
  BY DEF M!Slices, Prefix
<1> HIDE DEF m
<1>3. /\ DOMAIN ss = 1..m
      /\ \A i \in 1..m : ss[i] = SubSeq(Prefix(n), (i - 1) * step + 1, B(i))
  <2> HIDE DEF ss, B
  <2> QED BY <1>2
<1> HIDE DEF ss
<1>4. Len(ss) = m
  BY <1>1, <1>2
<1>5. ASSUME NEW i \in 1..m
      PROVE  /\ (i - 1) * step \in Nat /\ (i - 1) * step <= B(i)
             /\ B(i) \in Nat /\ B(i) <= n
             /\ i < m => B(i) = i * step
             /\ i = m => B(i) = n
  <2>1. i * step \in Nat /\ (i - 1) * step \in Nat /\ i * step = (i - 1) * step + step
    OBVIOUS
  <2>2. (i - 1) * step < n
    <3>1. i * step <= m * step
      BY <1>1
    <3> QED BY <1>1, <2>1, <3>1
  <2>3. i < m => i * step < n
    <3>1. i < m => (i + 1) * step <= m * step
      BY <1>1
    <3>2. (i + 1) * step = i * step + step
      OBVIOUS
    <3> QED BY <1>1, <2>1, <3>1, <3>2
  <2>4. i = m => n <= i * step
    BY <1>1
  <2> QED BY <2>1, <2>2, <2>3, <2>4 DEF M!Smaller
<1> DEFINE P == [i \in 1..m |-> Prefix(B(i))]
<1>6. CASE m # 0
  <2>1. 1 \in 1..m /\ m \in 1..m
    BY <1>1, <1>6
  <2>2. P[1] = ss[1]
    <3>1. 0 <= B(1) /\ B(1) <= n /\ B(1) \in Nat /\ ss[1] = SubSeq(Prefix(n), 0 + 1, B(1))
      BY <1>3, <1>5, <2>1
    <3>2. ss[1] \in Seq(Nat) /\ Prefix(0) \o ss[1] = Prefix(B(1))
      <4> HIDE DEF B
      <4>1. 0 \in Nat
        OBVIOUS
      <4>2. /\ SubSeq(Prefix(n), 0 + 1, B(1)) \in Seq(Nat)
            /\ Prefix(0) \o SubSeq(Prefix(n), 0 + 1, B(1)) = Prefix(B(1))
        BY <3>1, <4>1, PrefixGrows, Zenon
      <4> QED BY <3>1, <4>2, Zenon
    <3>3. Prefix(0) = <<>>
      BY EmptyPrefix
    <3>4. <<>> \o ss[1] = ss[1]
      BY <3>2, ConcatEmptySeq
    <3> QED BY <2>1, <3>2, <3>3, <3>4
  <2>3. ASSUME NEW i \in 2..m PROVE P[i] = P[i - 1] \o ss[i]
    <3>1. i \in 1..m /\ i - 1 \in 1..m /\ i - 1 < m
      BY <1>1
    <3>2. B(i - 1) = (i - 1) * step
      BY <1>5, <3>1
    <3>3. /\ (i - 1) * step \in Nat /\ (i - 1) * step <= B(i) /\ B(i) \in Nat /\ B(i) <= n
      BY <1>5, <3>1
    <3>4. Prefix((i - 1) * step) \o SubSeq(Prefix(n), (i - 1) * step + 1, B(i)) = Prefix(B(i))
      BY <3>3, PrefixGrows
    <3> QED BY <1>3, <3>1, <3>2, <3>4
  <2>4. m \in Nat \ {0} /\ DOMAIN P = 1..m /\ P = [i \in 1..m |-> P[i]]
    BY <1>1, <1>6
  <2>5. P[m] = Prefix(n)
    BY <1>5, <2>1
  <2> HIDE DEF P
  <2>6. M!FlattenSeq(ss) = P[m]
    <3>1. PassesThrough(ss, P)
      BY <1>4, <2>2, <2>3, <2>4 DEF PassesThrough
    <3> QED BY <1>4, <3>1, FlattenIs
  <2>7. Len(ss) # 0 /\ Len(ss) \in Nat
    BY <1>1, <1>4, <1>6
  <2> QED BY <2>5, <2>6, <2>7 DEF ss
<1>7. CASE m = 0
  <2>1. n = 0
    BY <1>1, <1>7
  <2>2. ss = <<>>
    <3> DEFINE e(i) == SubSeq(Prefix(n), (i - 1) * step + 1, B(i))
               T == {e(i) : i \in 1..m}
    <3>1. ss = [i \in 1..m |-> e(i)]
      BY <1>2
    <3>2. \A i \in 1..m : e(i) \in T
      OBVIOUS
    <3> HIDE DEF e, T
    <3>3. ss \in Seq(T)
      BY <1>1, <3>1, <3>2, IsASeq
    <3> QED BY <1>4, <1>7, <3>3, EmptySeq
  <2>3. Prefix(n) = <<>>
    BY <2>1, EmptyPrefix
  <2>4. M!FlattenSeq(ss) = <<>>
    BY <2>2 DEF M!FlattenSeq
  <2> QED BY <1>1, <1>4, <2>2, <2>3, <2>4 DEF ss
<1> QED BY <1>6, <1>7

\* A list of windows that is the text of n tokens.
Covers(w, n) ==
  /\ Len(w) \in Nat
  /\ Len(w) = 0 => w = <<>>
  /\ M!FlattenSeq(w) = Prefix(n)

\* LongTextChunker._window_texts: by token ids or by words, the windows are
\* the text, whatever the budget.
LEMMA WindowsCover ==
    ASSUME NEW n \in Nat, NEW budget \in Nat \ {0}, NEW codec \in BOOLEAN
    PROVE  Covers(M!_window_texts(n, budget, codec), n)
<1>1. CASE codec
  BY <1>1, SlicesCover DEF M!_window_texts, Covers
<1>2. CASE ~codec /\ n = 0
  <2> DEFINE w == <<<<>>>>
             P == [i \in 1..1 |-> <<>>]
  <2>1. M!_window_texts(n, budget, codec) = w
    BY <1>2 DEF M!_window_texts
  <2>2. Len(w) = 1 /\ w[1] = <<>>
    OBVIOUS
  <2>3. P[1] = <<>> /\ P = [i \in 1..1 |-> P[i]]
    OBVIOUS
  <2> HIDE DEF w, P
  <2>4. PassesThrough(w, P)
    BY <2>2, <2>3 DEF PassesThrough
  <2>5. M!FlattenSeq(w) = <<>>
    BY <2>2, <2>3, <2>4, FlattenIs
  <2>6. Prefix(n) = <<>>
    BY <1>2, EmptyPrefix
  <2> QED BY <2>1, <2>2, <2>5, <2>6 DEF Covers
<1>3. CASE ~codec /\ n # 0
  <2> DEFINE step == M!Larger(1, (budget * 3) \div 4)
  <2>1. step \in Nat \ {0}
    BY DEF M!Larger
  <2>2. M!_window_texts(n, budget, codec) = M!Slices(n, step)
    BY <1>3 DEF M!_window_texts
  <2> HIDE DEF step
  <2> QED BY <2>1, <2>2, SlicesCover DEF Covers
<1> QED BY <1>1, <1>2, <1>3

\* The largest of finitely many integers.
LEMMA LargestExists ==
    ASSUME NEW n \in Nat, NEW v, \A i \in 1..n : v[i] \in Int,
           NEW D, D # {}, D \subseteq {v[i] : i \in 1..n}
    PROVE  \E x \in D : \A y \in D : y <= x
<1> DEFINE Lacks(E) == ~ \E x \in E : \A y \in E : y <= x
           Bad == {k \in 0..n : \E E \in SUBSET {v[i] : i \in 1..k} : E # {} /\ Lacks(E)}
<1>1. Bad = {}
  <2> SUFFICES ASSUME Bad # {} PROVE FALSE
    OBVIOUS
  <2>1. PICK k \in Bad : \A j \in Bad : k <= j
    <3>1. Bad \in SUBSET Nat
      OBVIOUS
    <3> HIDE DEF Bad
    <3> QED BY <3>1, LeastElement
  <2>2. k \in 0..n
    BY <2>1
  <2>3. PICK E \in SUBSET {v[i] : i \in 1..k} : E # {} /\ Lacks(E)
    BY <2>1
  <2>4. k # 0
    BY <2>3
  <2>5. k - 1 \in 0..n /\ k \in 1..n /\ v[k] \in Int
    BY <2>2, <2>4
  <2>6. k - 1 \notin Bad
    <3> HIDE DEF Bad
    <3> QED BY <2>1, <2>2, <2>5
  <2> DEFINE F == E \ {v[k]}
  <2>7. F \in SUBSET {v[i] : i \in 1..(k - 1)}
    BY <2>5
  <2>8. F = {} \/ ~Lacks(F)
    BY <2>5, <2>6, <2>7
  <2>9. E \subseteq Int
    BY <2>2, <2>3
  <2>10. CASE F = {}
    <3>1. \A y \in E : y = v[k]
      BY <2>10
    <3> QED BY <2>3, <2>5, <3>1
  <2>11. CASE ~Lacks(F)
    <3>1. PICK x \in F : \A y \in F : y <= x
      BY <2>11
    <3>2. x \in E /\ x \in Int
      BY <2>9, <3>1
    <3>3. CASE v[k] \notin E
      BY <2>3, <3>1, <3>2, <3>3
    <3>4. CASE v[k] \in E /\ v[k] <= x
      BY <2>3, <3>1, <3>2, <3>4
    <3>5. CASE v[k] \in E /\ ~(v[k] <= x)
      <4>1. \A y \in E : y <= v[k]
        BY <2>5, <2>9, <3>1, <3>2, <3>5
      <4> QED BY <2>3, <3>5, <4>1
    <3> QED BY <3>3, <3>4, <3>5
  <2> QED BY <2>8, <2>10, <2>11
<1>2. n \notin Bad /\ n \in 0..n
  <2> HIDE DEF Bad
  <2> QED BY <1>1
<1> QED BY <1>2

\* ModelRouter._max_input_tokens is a number, so the budget of a window is
\* at least one token.
LEMMA BudgetPositive ==
    ASSUME M!BoundsAssumption, M!CatalogAssumption, NEW k \in Catalog, NEW g
    PROVE  M!Budget(M!_max_input_tokens(k, g)) \in Nat \ {0}
<1> DEFINE declared == {d.max_input_tokens : d \in M!Deployments(k, g)} \ {0}
           s == k.deployments
           v == [i \in 1..Len(s) |-> s[i].max_input_tokens]
<1>1. s \in Seq(Range(s)) /\ \A d \in Range(s) : d.max_input_tokens \in Int
  BY SameRange DEF M!CatalogAssumption
<1>2. Len(s) \in Nat /\ DOMAIN s = 1..Len(s)
  BY <1>1
<1>3. \A i \in 1..Len(s) : v[i] \in Int
  BY <1>1, <1>2 DEF Range
<1>4. declared \subseteq {v[i] : i \in 1..Len(s)}
  BY <1>2 DEF M!Deployments, M!Range
<1>5. M!_max_input_tokens(k, g) =
        IF declared = {} THEN DefaultWindow ELSE CHOOSE m \in declared : \A e \in declared : e <= m
  BY DEF M!_max_input_tokens
<1> HIDE DEF declared, v
<1>6. M!_max_input_tokens(k, g) \in Int
  <2>1. CASE declared = {}
    BY <1>5, <2>1 DEF M!BoundsAssumption
  <2>2. CASE declared # {}
    <3>1. \E m \in declared : \A e \in declared : e <= m
      BY <1>2, <1>3, <1>4, <2>2, LargestExists
    <3>2. M!_max_input_tokens(k, g) \in declared
      BY <1>5, <2>2, <3>1
    <3> QED BY <1>3, <1>4, <3>2
  <2> QED BY <2>1, <2>2
<1>7. Headroom \in Nat
  BY DEF M!BoundsAssumption
<1> QED BY <1>6, <1>7 DEF M!Budget, M!Larger

-----------------------------------------------------------------------------
(***************************************************************************)
(* The calls on a layer.                                                   *)
(***************************************************************************)
CallFields == {"op", "phase", "group", "request", "windows", "sent"}

\* The phases of a call that has no windows.
Whole == {"none", "one_shot", "open", "chunks", "rerank", "embed"}

\* A call announced its failure once and nothing else.
Announced(x, e) ==
  /\ x.phase = "unavailable" => Len(e) = 1
  /\ x.phase # "unavailable" => e = <<>>

\* The windows of a call are its text; the map goes through all of them.
Windowed(x) ==
  /\ x.windows # <<>> => M!FlattenSeq(x.windows) = Prefix(x.request.text)
  /\ x.phase \in Whole => x.windows = <<>>
  /\ x.phase = "map" => x.sent \in Nat /\ Len(x.windows) \in Nat /\ x.sent < Len(x.windows)
  /\ x.phase \in {"reduce", "ok"} /\ x.windows # <<>> => x.sent = Len(x.windows)

CallOk(x, e) == DOMAIN x = CallFields /\ Announced(x, e) /\ Windowed(x)

CallInv ==
  /\ DOMAIN modelCall = Caller /\ DOMAIN emitted = Caller
  /\ \A c \in Caller : CallOk(modelCall[c], emitted[c])

LEMMA CallsStay ==
    ASSUME CallInv, UNCHANGED <<modelCall, emitted>> PROVE CallInv'
BY DEF CallInv

LEMMA CallMoves ==
    ASSUME CallInv, NEW c \in Caller, NEW x, NEW e, CallOk(x, e),
           modelCall' = [modelCall EXCEPT ![c] = x], emitted' = [emitted EXCEPT ![c] = e]
    PROVE  CallInv'
<1>1. /\ DOMAIN modelCall' = Caller /\ DOMAIN emitted' = Caller
      /\ modelCall'[c] = x /\ emitted'[c] = e
      /\ \A d \in Caller \ {c} : modelCall'[d] = modelCall[d] /\ emitted'[d] = emitted[d]
  BY DEF CallInv
<1>2. ASSUME NEW d \in Caller PROVE CallOk(modelCall'[d], emitted'[d])
  <2>1. CASE d = c
    BY <1>1, <2>1
  <2>2. CASE d # c
    BY <1>1, <2>2 DEF CallInv
  <2> QED BY <2>1, <2>2
<1> QED BY <1>1, <1>2 DEF CallInv

\* A call starts with nothing announced.
LEMMA CallStarts ==
    ASSUME CallInv, NEW c \in Caller, NEW x, M!Started(c, x), DOMAIN x = CallFields,
           x.phase # "unavailable", Windowed(x)
    PROVE  CallInv'
<1>1. modelCall' = [modelCall EXCEPT ![c] = x] /\ emitted' = [emitted EXCEPT ![c] = <<>>]
  BY DEF M!Started
<1>2. CallOk(x, <<>>)
  BY DEF CallOk, Announced
<1> QED BY <1>1, <1>2, CallMoves

\* A call without windows is a completion of the whole text.
LEMMA WholeStarts ==
    ASSUME CallInv, NEW c \in Caller, NEW x, M!Started(c, x), DOMAIN x = CallFields,
           x.phase \notin {"unavailable", "map"}, x.windows = <<>>
    PROVE  CallInv'
BY CallStarts DEF Windowed

\* What an end may turn a call into.
Closes(x, phase) ==
  \/ phase \in {"unavailable", "raised", "cancelled"}
  \/ phase = "ok" /\ (x.phase = "reduce" \/ x.windows = <<>>)
  \/ phase = "chunks" /\ x.windows = <<>>

LEMMA CallEnds ==
    ASSUME CallInv, NEW c \in Caller, NEW phase, NEW events, M!Ends(c, phase, events),
           modelCall[c].phase # "unavailable", Closes(modelCall[c], phase),
           \/ events = <<>>
           \/ \E event : events = <<event>>,
           phase = "unavailable" => Len(events) = 1,
           phase # "unavailable" => events = <<>>
    PROVE  CallInv'
<1> DEFINE old == modelCall[c]
           x == [old EXCEPT !.phase = phase]
           e == emitted[c] \o events
<1>1. modelCall' = [modelCall EXCEPT ![c] = x] /\ emitted' = [emitted EXCEPT ![c] = e]
  BY DEF M!Ends, CallInv
<1>2. DOMAIN old = CallFields /\ Announced(old, emitted[c]) /\ Windowed(old)
  BY DEF CallInv, CallOk
<1>3. /\ DOMAIN x = CallFields /\ x.phase = phase
      /\ x.windows = old.windows /\ x.sent = old.sent /\ x.request = old.request
  BY <1>2 DEF CallFields
<1>4. e = events
  <2>1. emitted[c] = <<>>
    BY <1>2 DEF Announced
  <2>2. CASE events = <<>>
    BY <2>1, <2>2
  <2>3. ASSUME NEW event, events = <<event>> PROVE e = events
    <3>1. <<event>> \in Seq({event})
      OBVIOUS
    <3>2. <<>> \o <<event>> = <<event>>
      BY <3>1, ConcatEmptySeq
    <3> QED BY <2>1, <2>3, <3>2
  <2> QED BY <2>2, <2>3
<1> HIDE DEF x, e
<1>5. Announced(x, e)
  BY <1>3, <1>4 DEF Announced
<1>6. Windowed(x)
  BY <1>2, <1>3 DEF Windowed, Closes, Whole
<1>7. CallOk(x, e)
  BY <1>3, <1>5, <1>6 DEF CallOk
<1> QED BY <1>1, <1>7, CallMoves

\* _one_shot: the answer's step, or the group is announced unavailable.
LEMMA OneShotEnds ==
    ASSUME CallInv, NEW c \in Caller, modelCall[c].phase # "unavailable",
           M!Ends(c, "unavailable", <<"model_group_unavailable">>)
    PROVE  CallInv'
<1>1. Len(<<"model_group_unavailable">>) = 1
  OBVIOUS
<1>2. Closes(modelCall[c], "unavailable")
  BY DEF Closes
<1> QED BY <1>1, <1>2, CallEnds

\* generate: the windows of a request are its text.
LEMMA GenerateStep ==
    ASSUME M!BoundsAssumption, M!RequestAssumption, M!CatalogAssumption,
           CallInv, NEW c \in Caller, catalog[c] \in Catalog, M!Generate(c)
    PROVE  CallInv'
<1>1. PICK t \in M!Task, override \in Override, r \in Request, codec \in BOOLEAN :
        LET g == M!group_for(catalog[c], t, override)
            maxInput == M!_max_input_tokens(catalog[c], g)
        IN M!Started(c,
             IF M!needs_chunking(r, maxInput)
             THEN LET w == M!_window_texts(r.text, M!Budget(maxInput), codec)
                  IN [op |-> "generate", phase |-> IF w = <<>> THEN "reduce" ELSE "map",
                      group |-> g, request |-> r, windows |-> w, sent |-> 0]
             ELSE [op |-> "generate", phase |-> "one_shot", group |-> g,
                   request |-> r, windows |-> <<>>, sent |-> 0])
  BY DEF M!Generate
<1> DEFINE g == M!group_for(catalog[c], t, override)
           maxInput == M!_max_input_tokens(catalog[c], g)
           b == M!Budget(maxInput)
           w == M!_window_texts(r.text, b, codec)
           long == [op |-> "generate", phase |-> IF w = <<>> THEN "reduce" ELSE "map",
                    group |-> g, request |-> r, windows |-> w, sent |-> 0]
           short == [op |-> "generate", phase |-> "one_shot", group |-> g,
                     request |-> r, windows |-> <<>>, sent |-> 0]
<1>2. M!Started(c, IF M!needs_chunking(r, maxInput) THEN long ELSE short)
  BY <1>1
<1>3. r.text \in Nat
  BY DEF M!RequestAssumption
<1> HIDE DEF g
<1>4. b \in Nat \ {0}
  BY BudgetPositive
<1> HIDE DEF maxInput, b
<1>5. Covers(w, r.text)
  BY <1>3, <1>4, WindowsCover
<1> HIDE DEF w
<1>6. CASE M!needs_chunking(r, maxInput)
  <2>1. M!Started(c, long)
    BY <1>2, <1>6, Zenon
  <2>2. /\ DOMAIN long = CallFields /\ long.windows = w /\ long.request = r /\ long.sent = 0
        /\ long.phase = IF w = <<>> THEN "reduce" ELSE "map"
    BY DEF CallFields
  <2> HIDE DEF long
  <2>3. Windowed(long)
    BY <1>5, <2>2 DEF Windowed, Covers, Whole
  <2>4. long.phase # "unavailable"
    BY <2>2
  <2> QED BY <2>1, <2>2, <2>3, <2>4, CallStarts
<1>7. CASE ~M!needs_chunking(r, maxInput)
  <2>1. M!Started(c, short)
    BY <1>2, <1>7, Zenon
  <2>2. DOMAIN short = CallFields /\ short.windows = <<>> /\ short.phase = "one_shot"
    BY DEF CallFields
  <2> HIDE DEF short
  <2> QED BY <2>1, <2>2, WholeStarts
<1> QED BY <1>6, <1>7

\* map_reduce goes on to the next window, or to the reduce call.
LEMMA MapStep ==
    ASSUME CallInv, NEW c \in Caller, M!MapCall(c) PROVE CallInv'
<1> DEFINE old == modelCall[c]
           n == old.sent + 1
           p == IF n = Len(old.windows) THEN "reduce" ELSE "map"
           x == [old EXCEPT !.sent = n, !.phase = p]
<1>1. /\ old.phase = "map"
      /\ \/ modelCall' = [modelCall EXCEPT ![c].sent = n, ![c].phase = p] /\ UNCHANGED emitted
         \/ M!Ends(c, "unavailable", <<"model_group_unavailable">>)
  BY DEF M!MapCall, M!_one_shot
<1>2. CASE M!Ends(c, "unavailable", <<"model_group_unavailable">>)
  BY <1>1, <1>2, OneShotEnds
<1>3. CASE modelCall' = [modelCall EXCEPT ![c].sent = n, ![c].phase = p] /\ UNCHANGED emitted
  <2>1. DOMAIN old = CallFields /\ Announced(old, emitted[c]) /\ Windowed(old)
         /\ DOMAIN modelCall = Caller /\ DOMAIN emitted = Caller
    BY DEF CallInv, CallOk
  <2>2. modelCall' = [modelCall EXCEPT ![c] = x]
    BY <1>3, <2>1
  <2>3. /\ DOMAIN x = CallFields /\ x.phase = p /\ x.sent = n
        /\ x.windows = old.windows /\ x.request = old.request
    BY <2>1 DEF CallFields
  <2> HIDE DEF x
  <2>4. Announced(x, emitted[c])
    BY <1>1, <2>1, <2>3 DEF Announced
  <2>5. old.sent \in Nat /\ Len(old.windows) \in Nat /\ old.sent < Len(old.windows)
    BY <1>1, <2>1 DEF Windowed
  <2>6. Windowed(x)
    BY <2>1, <2>3, <2>5 DEF Windowed, Whole
  <2>7. CallOk(x, emitted[c])
    BY <2>3, <2>4, <2>6 DEF CallOk
  <2>8. CallOk(modelCall'[c], emitted'[c])
    BY <1>3, <2>1, <2>2, <2>7
  <2>9. ASSUME NEW d \in Caller, d # c PROVE CallOk(modelCall'[d], emitted'[d])
    BY <1>3, <2>1, <2>2, <2>9 DEF CallInv
  <2>10. DOMAIN modelCall' = Caller /\ DOMAIN emitted' = Caller
    BY <1>3, <2>1, <2>2
  <2> QED BY <2>8, <2>9, <2>10 DEF CallInv
<1> QED BY <1>1, <1>2, <1>3

\* The other steps of a call.
LEMMA UseStep ==
    ASSUME M!BoundsAssumption, M!RequestAssumption, M!CatalogAssumption,
           CallInv, NEW c \in Caller, catalog[c] \in Catalog, M!Use(c)
    PROVE  CallInv'
<1> DEFINE x == modelCall[c]
<1>0. /\ x.phase \in Whole => x.windows = <<>>
      /\ \A e : e # "unavailable" => ~(x.phase = e /\ x.phase = "unavailable")
  BY DEF CallInv, CallOk, Windowed
<1>1. CASE M!Generate(c)
  BY <1>1, GenerateStep
<1>2. CASE M!MapCall(c)
  BY <1>2, MapStep
<1>3. CASE M!OneShot(c)
  <2>1. /\ x.phase = "one_shot"
        /\ M!Ends(c, "ok", <<>>) \/ M!Ends(c, "unavailable", <<"model_group_unavailable">>)
    BY <1>3 DEF M!OneShot, M!_one_shot
  <2>2. x.phase # "unavailable" /\ Closes(x, "ok")
    BY <1>0, <2>1 DEF Closes, Whole
  <2> QED BY <2>1, <2>2, CallEnds, OneShotEnds
<1>4. CASE M!ReduceCall(c)
  <2>1. /\ x.phase = "reduce"
        /\ M!Ends(c, "ok", <<>>) \/ M!Ends(c, "unavailable", <<"model_group_unavailable">>)
    BY <1>4, Zenon DEF M!ReduceCall, M!_one_shot
  <2>2. x.phase # "unavailable" /\ Closes(x, "ok")
    BY <2>1 DEF Closes
  <2> QED BY <2>1, <2>2, CallEnds, OneShotEnds
<1>5. CASE M!StreamOpened(c)
  <2>1. /\ x.phase = "open"
        /\ M!Ends(c, "chunks", <<>>) \/ M!Ends(c, "unavailable", <<"model_group_unavailable">>)
    BY <1>5 DEF M!StreamOpened, M!_one_shot
  <2>2. x.phase # "unavailable" /\ Closes(x, "chunks")
    BY <1>0, <2>1 DEF Closes, Whole
  <2> QED BY <2>1, <2>2, CallEnds, OneShotEnds
<1>6. CASE M!StreamEnds(c)
  <2>1. x.phase = "chunks" /\ (M!Ends(c, "ok", <<>>) \/ M!Ends(c, "raised", <<>>))
    BY <1>6 DEF M!StreamEnds
  <2>2. x.phase # "unavailable" /\ Closes(x, "ok") /\ Closes(x, "raised")
    BY <1>0, <2>1 DEF Closes, Whole
  <2> QED BY <2>1, <2>2, CallEnds
<1>7. CASE M!Reranked(c)
  <2>1. /\ x.phase = "rerank"
        /\ M!Ends(c, "ok", <<>>) \/ M!Ends(c, "unavailable", <<"surface_component_down">>)
    BY <1>7 DEF M!Reranked
  <2>2. x.phase # "unavailable" /\ Closes(x, "ok") /\ Closes(x, "unavailable")
    BY <1>0, <2>1 DEF Closes, Whole
  <2>3. Len(<<"surface_component_down">>) = 1
    OBVIOUS
  <2> QED BY <2>1, <2>2, <2>3, CallEnds
<1>8. CASE M!Embedded(c)
  <2>1. x.phase = "embed" /\ (M!Ends(c, "ok", <<>>) \/ M!Ends(c, "raised", <<>>))
    BY <1>8 DEF M!Embedded
  <2>2. x.phase # "unavailable" /\ Closes(x, "ok") /\ Closes(x, "raised")
    BY <1>0, <2>1 DEF Closes, Whole
  <2> QED BY <2>1, <2>2, CallEnds
<1>9. CASE M!Cancel(c)
  <2>1. x.phase # "unavailable" /\ M!Ends(c, "cancelled", <<>>)
    BY <1>9 DEF M!Cancel
  <2>2. Closes(x, "cancelled")
    BY DEF Closes
  <2> QED BY <2>1, <2>2, CallEnds
<1>10. CASE M!StreamOpen(c)
  <2>1. PICK t \in M!Task, override \in Override, r \in Request :
          M!Started(c, [op |-> "stream", phase |-> "open", group |-> M!group_for(catalog[c], t, override),
                        request |-> r, windows |-> <<>>, sent |-> 0])
    BY <1>10 DEF M!StreamOpen
  <2> DEFINE y == [op |-> "stream", phase |-> "open", group |-> M!group_for(catalog[c], t, override),
                   request |-> r, windows |-> <<>>, sent |-> 0]
  <2>2. M!Started(c, y) /\ DOMAIN y = CallFields /\ y.phase = "open" /\ y.windows = <<>>
    BY <2>1 DEF CallFields
  <2> HIDE DEF y
  <2> QED BY <2>2, WholeStarts
<1>11. CASE M!Rerank(c)
  <2> DEFINE y == [op |-> "rerank", phase |-> "rerank", group |-> M!group_for(catalog[c], "rerank", ""),
                   request |-> [before |-> 0, text |-> 1, after |-> 0], windows |-> <<>>, sent |-> 0]
  <2>1. M!Started(c, y)
    BY <1>11, Zenon DEF M!Rerank
  <2>2. DOMAIN y = CallFields /\ y.phase = "rerank" /\ y.windows = <<>>
    BY DEF CallFields
  <2> HIDE DEF y
  <2> QED BY <2>1, <2>2, WholeStarts
<1>12. CASE M!Embed(c)
  <2>1. PICK n \in {0, 1} :
          M!Started(c, [op |-> "embed",
                        phase |-> IF n = 0 THEN "ok" ELSE "embed", group |-> "",
                        request |-> [before |-> 0, text |-> n, after |-> 0], windows |-> <<>>, sent |-> 0])
    BY <1>12, Zenon DEF M!Embed
  <2> DEFINE y == [op |-> "embed",
                   phase |-> IF n = 0 THEN "ok" ELSE "embed", group |-> "",
                   request |-> [before |-> 0, text |-> n, after |-> 0], windows |-> <<>>, sent |-> 0]
  <2>2. DOMAIN y = CallFields /\ y.phase \in {"ok", "embed"} /\ y.windows = <<>>
    BY DEF CallFields
  <2>3. M!Started(c, y)
    BY <2>1, Zenon
  <2> HIDE DEF y
  <2>4. y.phase \notin {"unavailable", "map"}
    BY <2>2
  <2> QED BY <2>2, <2>3, <2>4, WholeStarts
<1> QED BY <1>1, <1>2, <1>3, <1>4, <1>5, <1>6, <1>7, <1>8, <1>9, <1>10, <1>11, <1>12 DEF M!Use

\* Every layer is built from settings of the catalog, which no step changes.
CatalogInv == catalog \in [Caller -> Catalog]

LEMMA CatalogStays == [M!Next]_M!vars => UNCHANGED catalog
<1> SUFFICES ASSUME [M!Next]_M!vars PROVE UNCHANGED catalog
  OBVIOUS
<1>1. CASE UNCHANGED M!vars \/ M!ClearAll
  BY <1>1 DEF M!vars, M!ClearAll
<1>2. ASSUME NEW c \in Caller, M!Build(c) PROVE UNCHANGED catalog
  BY <1>2 DEF M!Build, M!Compile, M!NewLookup, M!NewFound, M!NewLocked, M!InitCheck, M!InitReset,
     M!LoadModel, M!LoadTokenizer, M!LoadFails, M!InitMark, M!Own, M!Register
<1>3. ASSUME NEW c \in Caller, M!Use(c) PROVE UNCHANGED catalog
  BY <1>3, ZenonT(60) DEF M!Use, M!Generate, M!OneShot, M!MapCall, M!ReduceCall, M!StreamOpen,
     M!StreamOpened,
     M!StreamEnds, M!Rerank, M!Reranked, M!Embed, M!Embedded, M!Cancel, M!Started, M!Ends, M!_one_shot
<1> QED BY <1>1, <1>2, <1>3 DEF M!Next

LEMMA CallInit == M!Init => CatalogInv /\ CallInv
<1> SUFFICES ASSUME M!Init PROVE CatalogInv /\ CallInv
  OBVIOUS
<1>1. /\ CatalogInv
      /\ modelCall = [c \in Caller |-> M!NoCall] /\ emitted = [c \in Caller |-> <<>>]
  BY DEF M!Init, CatalogInv
<1>2. DOMAIN M!NoCall = CallFields /\ M!NoCall.phase = "none" /\ M!NoCall.windows = <<>>
  BY DEF M!NoCall, CallFields
<1>3. CallOk(M!NoCall, <<>>)
  BY <1>2 DEF CallOk, Announced, Windowed
<1> QED BY <1>1, <1>3 DEF CallInv

LEMMA CallStep ==
    ASSUME M!BoundsAssumption, M!RequestAssumption, M!CatalogAssumption,
           CatalogInv, CallInv, [M!Next]_M!vars
    PROVE  CatalogInv' /\ CallInv'
<1>1. CatalogInv'
  BY CatalogStays DEF CatalogInv
<1>2. CASE UNCHANGED M!vars \/ M!ClearAll
  BY <1>1, <1>2, CallsStay DEF M!vars, M!ClearAll
<1>3. ASSUME NEW c \in Caller, M!Build(c) PROVE CallInv'
  <2>1. UNCHANGED <<modelCall, emitted>>
    BY <1>3 DEF M!Build, M!Compile, M!NewLookup, M!NewFound, M!NewLocked, M!InitCheck, M!InitReset,
       M!LoadModel, M!LoadTokenizer, M!LoadFails, M!InitMark, M!Own, M!Register
  <2> QED BY <2>1, CallsStay
<1>4. ASSUME NEW c \in Caller, M!Use(c) PROVE CallInv'
  <2>1. catalog[c] \in Catalog
    BY DEF CatalogInv
  <2> QED BY <1>4, <2>1, UseStep
<1> QED BY <1>1, <1>2, <1>3, <1>4 DEF M!Next

\* ModelRouter._one_shot, stream and rerank: a call that ends unavailable
\* announced it exactly once, however many windows it sent before, and a call
\* that returns announced nothing.
THEOREM AnnouncedOnce ==
    ASSUME M!BoundsAssumption, M!RequestAssumption, M!CatalogAssumption
    PROVE  M!Spec => []M!FailureIsAnnounced
<1>1. CatalogInv /\ CallInv /\ [M!Next]_M!vars => CatalogInv' /\ CallInv'
  BY CallStep
<1>2. CallInv => M!FailureIsAnnounced
  BY DEF CallInv, CallOk, Announced, M!FailureIsAnnounced
<1> QED BY <1>1, <1>2, CallInit, PTL DEF M!Spec

\* LongTextChunker: for texts of any length, contexts of any size and either
\* codec, a completion drawn from windows was drawn from all of the text.
THEOREM LongTextIsCovered ==
    ASSUME M!BoundsAssumption, M!RequestAssumption, M!CatalogAssumption
    PROVE  M!Spec => []M!CompletionCoversInput
<1>1. CatalogInv /\ CallInv /\ [M!Next]_M!vars => CatalogInv' /\ CallInv'
  BY CallStep
<1>2. CallInv => M!CompletionCoversInput
  <2> SUFFICES ASSUME CallInv, NEW c \in Caller,
                      modelCall[c].windows # <<>>, modelCall[c].phase \in {"reduce", "ok"}
               PROVE  /\ modelCall[c].sent = Len(modelCall[c].windows)
                      /\ M!FlattenSeq(modelCall[c].windows) = Prefix(modelCall[c].request.text)
    BY DEF M!CompletionCoversInput, Prefix
  <2> QED BY DEF CallInv, CallOk, Windowed
<1> QED BY <1>1, <1>2, CallInit, PTL DEF M!Spec

=============================================================================
