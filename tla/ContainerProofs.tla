--------------------------- MODULE ContainerProofs ---------------------------
(***************************************************************************)
(* The event plane of the container, for any set of tasks, events and      *)
(* subscribers and any number of faults and of calls to the bus: what was  *)
(* rolled back is silent, events are heard in the order they were added,   *)
(* what was committed is published, and the operator hears of a degrade    *)
(* before anybody else.  Every event of a scope has a position in what the *)
(* scope has added; the invariant says which positions are behind, which   *)
(* one is being told, and which are still held.  Then the lifecycle        *)
(* manager that starts and closes the container's adapters: nothing is     *)
(* closed under what depends on it.                                        *)
(***************************************************************************)
EXTENDS Container, SequenceTheorems, FiniteSetTheorems, WellFoundedInduction, TLAPS

\* Where a task is, who may be called, and what a scope and a key of the bus are.
PcSet == {"body", "publish", "dispatch", "unwind", "failed", "done"}
Callee == Handler \cup {OnDegraded}
Scope == [pc : PcSet, buffer : Seq(Event), queue : Seq(Event),
          targets : Seq(Callee), exit : BOOLEAN]
Key == [type : {Base, Degraded}, list : Seq(Callee)]

\* The part of the type invariant that the proof uses.
Types ==
    /\ Kind \in [Task -> {"outbox", "memory", "read"}]
    /\ handlers \in Seq(Key)
    /\ stopped \in BOOLEAN
    /\ metrics \in Seq(Event) /\ shown \in Seq(Event)
    /\ scope \in [Task -> Scope]
    /\ added \in [Task -> Seq(Event)] /\ heard \in [Handler -> Seq(Event)]
    /\ discarded \subseteq Event /\ published \subseteq Event /\ broken \subseteq Task

\* What of a scope is still to be published: its buffer, or the queue of the
\* commit under way.
Committing(t) == scope[t].pc \in {"publish", "dispatch"}
Pending(t) == IF Committing(t) THEN scope[t].queue ELSE scope[t].buffer

\* How many of its events are behind it, and how many of them may be known.
Past(t) == Len(added[t]) - Len(Pending(t))
Reached(t) == IF scope[t].pc = "dispatch" THEN Past(t) + 1 ELSE Past(t)

\* The event that a dispatching scope is telling the subscribers of.
Current(t) == added[t][Reached(t)]

\* A scope holds its events in the buffer or in the queue, never in both; the
\* ones it holds are the last ones that were added.
ShapeOf(t) ==
    /\ Committing(t) => scope[t].buffer = <<>> /\ Kind[t] # "read"
    /\ ~Committing(t) => scope[t].queue = <<>>
    /\ scope[t].pc = "dispatch" => scope[t].queue # <<>>
    /\ Kind[t] = "read" => added[t] = <<>>
    /\ scope[t].pc = "done" => scope[t].buffer = <<>>
    /\ Len(Pending(t)) <= Len(added[t])
    /\ \A i \in 1..Len(Pending(t)) : Pending(t)[i] = added[t][Past(t) + i]
Shaped == \A t \in Task : ShapeOf(t)

\* Every event is added once.
Distinct ==
    \A t, u \in Task : \A i \in 1..Len(added[t]), j \in 1..Len(added[u]) :
        added[t][i] = added[u][j] => t = u /\ i = j

\* The events somebody was told of.
Known == Range(metrics) \cup UNION {Range(heard[h]) : h \in Handler}

\* What is known of was reached, what was discarded is behind, and nothing is
\* both; what is behind and did not break was published or discarded.
Told ==
    /\ \A e \in Known : \E t \in Task : \E k \in 1..Reached(t) : added[t][k] = e
    /\ \A e \in discarded : \E t \in Task : \E k \in 1..Past(t) : added[t][k] = e
    /\ discarded \cap Known = {}
    /\ \A t \in Task \ broken : \A k \in 1..Past(t) : added[t][k] \in published \cup discarded

\* A type is one key of the bus, and a subscriber is subscribed once.
KeyedOnce ==
    \A i, j \in 1..Len(handlers) : handlers[i].type = handlers[j].type => i = j
ListedOnce(keys, h) ==
    \A i, j \in 1..Len(keys) :
        \A k \in 1..Len(keys[i].list) : \A l \in 1..Len(keys[j].list) :
            keys[i].list[k] = h /\ keys[j].list[l] = h => i = j /\ k = l
SubscribedOnce == \A h \in Handler : ListedOnce(handlers, h)

\* It is still to be called only once, with an event that it has not heard.
ToCallOf(t) ==
    scope[t].pc = "dispatch" =>
        \A i \in 1..Len(scope[t].targets) : scope[t].targets[i] \in Handler =>
            /\ \A j \in 1..Len(scope[t].targets) :
                   scope[t].targets[j] = scope[t].targets[i] => j = i
            /\ \A k \in 1..Len(heard[scope[t].targets[i]]) :
                   heard[scope[t].targets[i]][k] # Current(t)
ToCall == \A t \in Task : ToCallOf(t)

\* What it has heard of one scope it heard in the order of the scope.
OrderOf(q, s) ==
    \A i, j \in 1..Len(q) : \A k, l \in 1..Len(s) :
        i < j /\ q[i] = s[k] /\ q[j] = s[l] => k < l
InOrder == \A h \in Handler : \A t \in Task : OrderOf(heard[h], added[t])

\* Until the shutdown the container stays the first subscriber to a degrade,
OperatorFirst ==
    ~stopped =>
        /\ Len(handlers) > 0 /\ handlers[1].type = Degraded
        /\ Len(handlers[1].list) > 0 /\ handlers[1].list[1] = OnDegraded

\* is called before the others,
CountOf(t) ==
    scope[t].pc = "dispatch" /\ EventType[Current(t)] = Degraded =>
        \/ Current(t) \in Range(metrics)
        \/ scope[t].targets # <<>> /\ scope[t].targets[1] = OnDegraded
Counting == ~stopped => \A t \in Task : CountOf(t)

\* and has counted what they heard of;
Counted ==
    ~stopped => \A h \in Handler : \A e \in Range(heard[h]) :
                    EventType[e] = Degraded => e \in Range(metrics)

\* what it counted and the user is to see is shown, or its commit raised.
Shown ==
    \A e \in Range(metrics) : user_visible(e) =>
        \/ e \in Range(shown)
        \/ \E t \in broken : e \in Range(added[t])

Inv ==
    /\ Types /\ Shaped /\ Distinct /\ Told
    /\ KeyedOnce /\ SubscribedOnce /\ ToCall /\ InOrder
    /\ OperatorFirst /\ Counting /\ Counted /\ Shown
-----------------------------------------------------------------------------
(***************************************************************************)
(* The targets of an event: what FlattenSeq makes of the lists.            *)
(***************************************************************************)
\* Every set of naturals that is not empty has a least element.
LEMMA LeastElement ==
    ASSUME NEW T \in SUBSET Nat, T # {}
    PROVE  \E n \in T : \A m \in T : n <= m
<1> DEFINE R == OpToRel(<, Nat)
<1>1. IsWellFoundedOn(R, Nat)
  BY NatLessThanWellFounded, Zenon
<1> HIDE DEF R
<1>2. PICK n \in T : \A m \in T : ~(<<m, n>> \in R)
  BY <1>1, WFMin
<1>3. ASSUME NEW m \in T PROVE n <= m
  <2>1. ~(<<m, n>> \in R)
    BY <1>2
  <2>2. ~(m < n)
    BY <2>1 DEF R, OpToRel
  <2>3. QED
    BY <2>2
<1>4. QED
  BY <1>3

\* h are the first n prefixes of what the sequences ss of S flatten to.
FlatUpTo(S, ss, h, n) ==
    /\ n \in Nat /\ n > 0
    /\ \A i \in 1..n : ss[i] \in Seq(S) /\ h[i] \in Seq(S)
    /\ h[1] = ss[1] /\ \A i \in 2..n : h[i] = h[i - 1] \o ss[i]

\* x occurs at most once in the first n sequences of ss.
OnceIn(ss, n, x) ==
    \A i, j \in 1..n : \A k \in 1..Len(ss[i]), l \in 1..Len(ss[j]) :
        ss[i][k] = x /\ ss[j][l] = x => i = j /\ k = l

\* The elements of a concatenation.
LEMMA Concat ==
    ASSUME NEW S, NEW p \in Seq(S), NEW q \in Seq(S)
    PROVE  /\ p \o q \in Seq(S) /\ Len(p) \in Nat /\ Len(q) \in Nat
           /\ Len(p \o q) = Len(p) + Len(q)
           /\ \A a \in 1..Len(p) : (p \o q)[a] = p[a]
           /\ \A a \in 1..(Len(p) + Len(q)) : a > Len(p) =>
                  a - Len(p) \in 1..Len(q) /\ (p \o q)[a] = q[a - Len(p)]
OBVIOUS

\* FlattenSeq is the last of the prefixes it is made of.
LEMMA FlattenUnfolds ==
    ASSUME NEW S, NEW ss \in Seq(Seq(S)), Len(ss) > 0
    PROVE  \E h : FlatUpTo(S, ss, h, Len(ss)) /\ FlattenSeq(ss) = h[Len(ss)]
<1> DEFINE Of(k, f) == f = [i \in 1..k |-> IF i = 1 THEN ss[i] ELSE f[i - 1] \o ss[i]]
           Bad == {k \in Nat : k <= Len(ss) /\ ~ \E f \in [1..k -> Seq(S)] : Of(k, f)}
<1>1. Len(ss) \in Nat /\ \A i \in 1..Len(ss) : ss[i] \in Seq(S)
  OBVIOUS
<1>b. Bad \subseteq Nat /\ \A k \in Bad : k <= Len(ss)
  OBVIOUS
<1> HIDE DEF Of
<1>c. /\ \A k \in Bad : ~ \E f \in [1..k -> Seq(S)] : Of(k, f)
      /\ \A k \in Nat : k <= Len(ss) /\ k \notin Bad => \E f \in [1..k -> Seq(S)] : Of(k, f)
  OBVIOUS
<1> HIDE DEF Bad
<1>2. Bad = {}
  <2> SUFFICES ASSUME Bad # {} PROVE FALSE
    OBVIOUS
  <2>1. PICK k \in Bad : \A m \in Bad : k <= m
    BY <1>b, LeastElement
  <2>2. k # 0
    <3>1. [i \in 1..0 |-> ss[i]] \in [1..0 -> Seq(S)] /\ Of(0, [i \in 1..0 |-> ss[i]])
      BY DEF Of
    <3>2. QED
      BY <1>c, <3>1, <2>1, Zenon
  <2>3. k - 1 \in Nat /\ k - 1 <= Len(ss) /\ k - 1 \notin Bad
    BY <1>b, <2>1, <2>2, <1>1
  <2>4. PICK f \in [1..(k - 1) -> Seq(S)] : Of(k - 1, f)
    BY <1>c, <2>3, Zenon
  <2> DEFINE g == [i \in 1..k |-> IF i = 1 THEN ss[i]
                                  ELSE IF i = k THEN f[k - 1] \o ss[i] ELSE f[i]]
  <2>5. k \in Nat /\ k >= 1 /\ k <= Len(ss)
    BY <1>b, <2>1, <2>2
  <2>6. g \in [1..k -> Seq(S)]
    <3>1. ASSUME NEW i \in 1..k
          PROVE  (IF i = 1 THEN ss[i]
                  ELSE IF i = k THEN f[k - 1] \o ss[i] ELSE f[i]) \in Seq(S)
      <4>1. ss[i] \in Seq(S)
        BY <1>1, <2>5
      <4>2. i # 1 => k - 1 \in 1..(k - 1) /\ f[k - 1] \in Seq(S)
        BY <2>4, <2>5
      <4>3. i # 1 => f[k - 1] \o ss[i] \in Seq(S)
        BY <4>1, <4>2, ConcatProperties
      <4>4. i # k => f[i] \in Seq(S)
        BY <2>4, <2>5
      <4>5. QED
        BY <4>1, <4>3, <4>4
    <3>2. QED
      BY <3>1
  <2>7. ASSUME NEW i \in 1..k
        PROVE  g[i] = IF i = 1 THEN ss[i] ELSE g[i - 1] \o ss[i]
    <3>1. CASE i = 1
      BY <3>1, <2>5
    <3>2. CASE i # 1 /\ i = k
      <4>1. i - 1 \in 1..k /\ i - 1 # k /\ i - 1 = k - 1 /\ k - 1 \in 1..(k - 1)
        BY <3>2, <2>5
      <4>2. g[i - 1] = f[k - 1]
        <5>1. f = [j \in 1..(k - 1) |-> IF j = 1 THEN ss[j] ELSE f[j - 1] \o ss[j]]
          BY <2>4 DEF Of
        <5>2. k - 1 = 1 => f[k - 1] = ss[1]
          BY <4>1, <5>1
        <5>3. QED
          BY <4>1, <5>2
      <4>3. QED
        BY <3>2, <4>1, <4>2
    <3>3. CASE i # 1 /\ i # k
      <4>1. i - 1 \in 1..(k - 1) /\ i \in 1..(k - 1) /\ i - 1 # k /\ i - 1 \in 1..k
        BY <3>3, <2>5
      <4>2. f = [j \in 1..(k - 1) |-> IF j = 1 THEN ss[j] ELSE f[j - 1] \o ss[j]]
        BY <2>4 DEF Of
      <4>3. g[i] = f[i] /\ f[i] = f[i - 1] \o ss[i]
        BY <3>3, <4>1, <4>2
      <4>4. g[i - 1] = f[i - 1]
        <5>1. i - 1 = 1 => f[i - 1] = ss[1]
          BY <4>1, <4>2
        <5>2. QED
          BY <4>1, <5>1
      <4>5. QED
        BY <3>3, <4>3, <4>4
    <3>4. QED
      BY <3>1, <3>2, <3>3
  <2> HIDE DEF g
  <2>8. Of(k, g)
    BY <2>6, <2>7 DEF Of
  <2>9. QED
    BY <1>c, <2>1, <2>6, <2>8, Zenon
<1>3. PICK f \in [1..Len(ss) -> Seq(S)] : Of(Len(ss), f)
  <2>1. Len(ss) <= Len(ss) /\ Len(ss) \notin Bad
    BY <1>1, <1>2
  <2>2. QED
    BY <1>c, <1>1, <2>1, Zenon
<1> DEFINE n == Len(ss)
           h == CHOOSE h : Of(n, h)
           Untyped == {i \in 1..n : h[i] \notin Seq(S)}
<1>4. h = [i \in 1..n |-> IF i = 1 THEN ss[i] ELSE h[i - 1] \o ss[i]]
  <2>1. Of(n, h)
    BY <1>3
  <2>2. QED
    BY <2>1 DEF Of
<1>5. FlattenSeq(ss) = h[n]
  BY <1>1 DEF FlattenSeq, Of
<1>a. n \in Nat /\ n > 0 /\ \A i \in 1..n : ss[i] \in Seq(S)
  BY <1>1
<1> HIDE DEF h, n
<1>6. h[1] = ss[1] /\ \A i \in 2..n : h[i] = h[i - 1] \o ss[i]
  <2>1. \A i \in 1..n : h[i] = IF i = 1 THEN ss[i] ELSE h[i - 1] \o ss[i]
    BY <1>4, Zenon
  <2>2. h[1] = ss[1]
    BY <1>a, <2>1
  <2>3. ASSUME NEW i \in 2..n PROVE h[i] = h[i - 1] \o ss[i]
    <3>1. i \in 1..n /\ i # 1
      BY <1>a
    <3>2. QED
      BY <2>1, <3>1
  <2>4. QED
    BY <2>2, <2>3
<1>7. Untyped = {}
  <2> SUFFICES ASSUME Untyped # {} PROVE FALSE
    OBVIOUS
  <2>1. PICK k \in Untyped : \A m \in Untyped : k <= m
    <3>1. Untyped \in SUBSET Nat
      BY <1>a
    <3> HIDE DEF Untyped
    <3>2. QED
      BY <3>1, LeastElement
  <2>2. k \in 1..n /\ h[k] \notin Seq(S)
    BY <2>1
  <2>3. k # 1
    BY <1>a, <1>6, <2>2
  <2>4. k - 1 \in 1..n /\ k - 1 \notin Untyped /\ k \in 2..n
    BY <1>a, <2>1, <2>2, <2>3
  <2>5. h[k - 1] \in Seq(S) /\ ss[k] \in Seq(S)
    BY <1>a, <2>2, <2>4
  <2>6. h[k] \in Seq(S)
    <3>1. h[k - 1] \o ss[k] \in Seq(S)
      BY <2>5, Concat
    <3>2. QED
      BY <1>6, <2>4, <3>1
  <2>7. QED
    BY <2>2, <2>6
<1>8. \A i \in 1..n : ss[i] \in Seq(S) /\ h[i] \in Seq(S)
  BY <1>a, <1>7
<1>9. QED
  <2>1. FlatUpTo(S, ss, h, n)
    BY <1>a, <1>6, <1>8 DEF FlatUpTo
  <2>2. QED
    BY <1>5, <2>1 DEF n

\* FlattenSeq makes one sequence of the lists.
LEMMA FlattenType ==
    ASSUME NEW S, NEW ss \in Seq(Seq(S))
    PROVE  FlattenSeq(ss) \in Seq(S)
<1>1. CASE Len(ss) = 0
  <2>1. FlattenSeq(ss) = <<>>
    BY <1>1 DEF FlattenSeq
  <2>2. QED
    BY <2>1
<1>2. CASE Len(ss) # 0
  <2>1. Len(ss) \in Nat /\ Len(ss) > 0
    BY <1>2
  <2>2. PICK h : (\A i \in 1..Len(ss) : h[i] \in Seq(S)) /\ FlattenSeq(ss) = h[Len(ss)]
    BY <2>1, FlattenUnfolds DEF FlatUpTo
  <2>3. Len(ss) \in 1..Len(ss)
    BY <2>1
  <2>4. QED
    BY <2>2, <2>3
<1>3. QED
  BY <1>1, <1>2

\* It begins as the first list does, when that is not empty.
LEMMA PrefixHead ==
    ASSUME NEW S, NEW n, NEW ss, NEW h, FlatUpTo(S, ss, h, n), Len(ss[1]) > 0
    PROVE  Len(h[n]) > 0 /\ h[n][1] = ss[1][1]
<1> USE DEF FlatUpTo
<1> DEFINE Ok(i) == Len(h[i]) > 0 /\ h[i][1] = ss[1][1]
           Bad == {i \in 1..n : ~Ok(i)}
<1>1. Bad = {}
  <2> SUFFICES ASSUME Bad # {} PROVE FALSE
    OBVIOUS
  <2>1. PICK k \in Bad : \A m \in Bad : k <= m
    <3>1. Bad \in SUBSET Nat
      OBVIOUS
    <3> HIDE DEF Bad
    <3>2. QED
      BY <3>1, LeastElement
  <2>2. Ok(1)
    OBVIOUS
  <2>3. k \in 1..n /\ ~Ok(k)
    BY <2>1
  <2> HIDE DEF Ok
  <2>4. k # 1 /\ k \in 2..n /\ k - 1 \in 1..n
    BY <2>2, <2>3
  <2>5. Ok(k - 1)
    <3>1. k - 1 \notin Bad
      BY <2>1, <2>4
    <3>2. QED
      BY <2>4, <3>1
  <2>6. h[k - 1] \in Seq(S) /\ ss[k] \in Seq(S) /\ h[k] = h[k - 1] \o ss[k]
    BY <2>3, <2>4
  <2> DEFINE p == h[k - 1]
             q == ss[k]
  <2>7. p \in Seq(S) /\ q \in Seq(S) /\ h[k] = p \o q /\ Len(p) > 0 /\ p[1] = ss[1][1]
    BY <2>5, <2>6 DEF Ok
  <2> HIDE DEF p, q
  <2>8. Ok(k)
    <3>1. Len(h[k]) > 0 /\ h[k][1] = p[1]
      BY <2>7
    <3>2. QED
      BY <2>7, <3>1 DEF Ok
  <2>9. QED
    BY <2>3, <2>8
<1>2. n \in 1..n
  OBVIOUS
<1>3. Ok(n)
  BY <1>1, <1>2
<1>4. QED
  BY <1>3

\* So does FlattenSeq.
LEMMA FlattenHead ==
    ASSUME NEW S, NEW ss \in Seq(Seq(S)), Len(ss) > 0, Len(ss[1]) > 0
    PROVE  FlattenSeq(ss) # <<>> /\ FlattenSeq(ss)[1] = ss[1][1]
<1>1. PICK h : FlatUpTo(S, ss, h, Len(ss)) /\ FlattenSeq(ss) = h[Len(ss)]
  BY FlattenUnfolds
<1>3. Len(h[Len(ss)]) > 0 /\ h[Len(ss)][1] = ss[1][1]
  BY <1>1, PrefixHead
<1>4. FlattenSeq(ss) \in Seq(S)
  BY FlattenType
<1>5. QED
  BY <1>1, <1>3, <1>4

\* What occurs once in the lists occurs at most once in it.
LEMMA PrefixOnce ==
    ASSUME NEW S, NEW n, NEW ss, NEW h, NEW x, FlatUpTo(S, ss, h, n), OnceIn(ss, n, x)
    PROVE  \A a, b \in 1..Len(h[n]) : h[n][a] = x /\ h[n][b] = x => a = b
<1> USE DEF FlatUpTo, OnceIn
<1> DEFINE From(i) == \A a \in 1..Len(h[i]) : h[i][a] = x =>
                          \E j \in 1..i : \E k \in 1..Len(ss[j]) : ss[j][k] = x
           Single(i) == \A a, b \in 1..Len(h[i]) : h[i][a] = x /\ h[i][b] = x => a = b
           Bad == {i \in 1..n : ~(From(i) /\ Single(i))}
<1>1. Bad = {}
  <2> SUFFICES ASSUME Bad # {} PROVE FALSE
    OBVIOUS
  <2>1. PICK k \in Bad : \A m \in Bad : k <= m
    <3>1. Bad \in SUBSET Nat
      OBVIOUS
    <3> HIDE DEF Bad
    <3>2. QED
      BY <3>1, LeastElement
  <2>2. From(1) /\ Single(1)
    <3>1. 1 \in 1..1 /\ 1 \in 1..n
      OBVIOUS
    <3>2. From(1)
      BY <3>1
    <3>3. Single(1)
      BY <3>1
    <3>4. QED
      BY <3>2, <3>3
  <2>3. k \in 1..n /\ ~(From(k) /\ Single(k))
    BY <2>1
  <2>a. ASSUME NEW m \in 1..n, m \notin Bad PROVE From(m) /\ Single(m)
    BY <2>a
  <2> HIDE DEF From, Single
  <2>4. k # 1 /\ k \in 2..n /\ k - 1 \in 1..n
    BY <2>2, <2>3
  <2>5. From(k - 1) /\ Single(k - 1)
    <3>1. k - 1 \notin Bad
      BY <2>1, <2>4
    <3>2. QED
      BY <2>4, <2>a, <3>1
  <2> DEFINE p == h[k - 1]
             q == ss[k]
  <2>6. p \in Seq(S) /\ q \in Seq(S) /\ h[k] = p \o q
    BY <2>3, <2>4
  <2>7. /\ Len(h[k]) = Len(p) + Len(q) /\ Len(p) \in Nat /\ Len(q) \in Nat
        /\ \A a \in 1..Len(p) : h[k][a] = p[a]
        /\ \A a \in 1..Len(h[k]) : a > Len(p) => a - Len(p) \in 1..Len(q) /\ h[k][a] = q[a - Len(p)]
    <3> HIDE DEF p, q
    <3>1. QED
      BY <2>6, Concat
  <2>8. \A a \in 1..Len(p) : p[a] = x => \E j \in 1..(k - 1) : \E l \in 1..Len(ss[j]) : ss[j][l] = x
    BY <2>5 DEF From
  <2>9. \A a, b \in 1..Len(p) : p[a] = x /\ p[b] = x => a = b
    BY <2>5 DEF Single
  <2>10. \A a, b \in 1..Len(q) : q[a] = x /\ q[b] = x => a = b
    BY <2>3
  <2>11. ASSUME NEW a \in 1..Len(p), p[a] = x, NEW b \in 1..Len(q), q[b] = x PROVE FALSE
    <3>1. PICK j \in 1..(k - 1) : \E l \in 1..Len(ss[j]) : ss[j][l] = x
      BY <2>8, <2>11
    <3>2. j \in 1..n /\ j # k
      BY <2>3, <3>1
    <3>3. QED
      BY <2>3, <2>11, <3>1, <3>2
  <2>b. q = ss[k]
    OBVIOUS
  <2> HIDE DEF p, q
  <2>12. From(k)
    <3> SUFFICES ASSUME NEW a \in 1..Len(h[k]), h[k][a] = x
                 PROVE  \E j \in 1..k : \E l \in 1..Len(ss[j]) : ss[j][l] = x
      BY DEF From
    <3>1. CASE a <= Len(p)
      <4>1. a \in 1..Len(p) /\ p[a] = x
        BY <2>7, <3>1
      <4>2. PICK j \in 1..(k - 1) : \E l \in 1..Len(ss[j]) : ss[j][l] = x
        BY <2>8, <4>1
      <4>3. j \in 1..k
        BY <2>3, <4>2
      <4>4. QED
        BY <4>2, <4>3
    <3>2. CASE a > Len(p)
      <4>1. a - Len(p) \in 1..Len(q) /\ q[a - Len(p)] = x
        BY <2>7, <3>2
      <4>2. k \in 1..k
        BY <2>3
      <4>3. QED
        BY <2>b, <4>1, <4>2
    <3>3. QED
      BY <2>7, <3>1, <3>2
  <2>13. Single(k)
    <3> SUFFICES ASSUME NEW a \in 1..Len(h[k]), NEW b \in 1..Len(h[k]), h[k][a] = x, h[k][b] = x
                 PROVE  a = b
      BY DEF Single
    <3>1. CASE a <= Len(p) /\ b <= Len(p)
      <4>1. a \in 1..Len(p) /\ b \in 1..Len(p)
        BY <2>7, <3>1
      <4>2. QED
        BY <2>7, <2>9, <4>1
    <3>2. CASE a > Len(p) /\ b > Len(p)
      <4>1. /\ a - Len(p) \in 1..Len(q) /\ q[a - Len(p)] = x
            /\ b - Len(p) \in 1..Len(q) /\ q[b - Len(p)] = x
        BY <2>7, <3>2
      <4>2. a - Len(p) = b - Len(p)
        BY <2>10, <4>1
      <4>3. QED
        BY <2>7, <4>2
    <3>3. CASE a <= Len(p) /\ b > Len(p)
      <4>1. a \in 1..Len(p)
        BY <2>7, <3>3
      <4>2. p[a] = x
        BY <2>7, <4>1, Zenon
      <4>3. b - Len(p) \in 1..Len(q) /\ q[b - Len(p)] = x
        BY <2>7, <3>3, Zenon
      <4>4. QED
        BY <2>11, <4>1, <4>2, <4>3, Zenon
    <3>4. CASE a > Len(p) /\ b <= Len(p)
      <4>1. b \in 1..Len(p)
        BY <2>7, <3>4
      <4>2. p[b] = x
        BY <2>7, <4>1, Zenon
      <4>3. a - Len(p) \in 1..Len(q) /\ q[a - Len(p)] = x
        BY <2>7, <3>4, Zenon
      <4>4. QED
        BY <2>11, <4>1, <4>2, <4>3, Zenon
    <3>5. QED
      BY <2>7, <3>1, <3>2, <3>3, <3>4
  <2>14. QED
    BY <2>3, <2>12, <2>13
<1>2. n \in 1..n
  OBVIOUS
<1>3. Single(n)
  BY <1>1, <1>2
<1>4. QED
  BY <1>3

\* And at most once in what FlattenSeq makes of them.
LEMMA FlattenOnce ==
    ASSUME NEW S, NEW ss \in Seq(Seq(S)), NEW x, OnceIn(ss, Len(ss), x)
    PROVE  \A a, b \in 1..Len(FlattenSeq(ss)) :
               FlattenSeq(ss)[a] = x /\ FlattenSeq(ss)[b] = x => a = b
<1>1. CASE Len(ss) = 0
  <2>1. FlattenSeq(ss) = <<>>
    BY <1>1 DEF FlattenSeq
  <2>2. QED
    BY <2>1
<1>2. CASE Len(ss) # 0
  <2>1. Len(ss) \in Nat /\ Len(ss) > 0
    BY <1>2
  <2>2. PICK h : FlatUpTo(S, ss, h, Len(ss)) /\ FlattenSeq(ss) = h[Len(ss)]
    BY <2>1, FlattenUnfolds
  <2>4. \A a, b \in 1..Len(h[Len(ss)]) : h[Len(ss)][a] = x /\ h[Len(ss)][b] = x => a = b
    BY <2>2, PrefixOnce
  <2>5. QED
    BY <2>2, <2>4
<1>3. QED
  BY <1>1, <1>2

\* What publish() takes: handlers and the container, a handler at most once,
\* and the container first where it was the first to subscribe.
LEMMA TargetsTaken ==
    ASSUME Types, NEW e
    PROVE  /\ Targets(e) \in Seq(Callee)
           /\ SubscribedOnce => \A h \in Handler : \A a, b \in 1..Len(Targets(e)) :
                          Targets(e)[a] = h /\ Targets(e)[b] = h => a = b
           /\ OperatorFirst /\ ~stopped /\ EventType[e] = Degraded =>
                  Targets(e) # <<>> /\ Targets(e)[1] = OnDegraded
<1> DEFINE Matches(i) == handlers[i].type \in {Base, EventType[e]}
           ss == [i \in 1..Len(handlers) |-> IF Matches(i) THEN handlers[i].list ELSE <<>>]
<1>1. Targets(e) = FlattenSeq(ss)
  BY DEF Targets
<1>2. Len(handlers) \in Nat /\ \A i \in 1..Len(handlers) : handlers[i].list \in Seq(Callee)
  <2>1. handlers \in Seq(Key)
    BY DEF Types
  <2>2. ASSUME NEW i \in 1..Len(handlers) PROVE handlers[i].list \in Seq(Callee)
    <3>1. handlers[i] \in Key
      BY <2>1
    <3>2. QED
      BY <3>1 DEF Key
  <2>3. QED
    BY <2>1, <2>2
<1>3. ASSUME NEW i \in 1..Len(handlers)
      PROVE  (IF Matches(i) THEN handlers[i].list ELSE <<>>) \in Seq(Callee)
  BY <1>2
<1>4. ss \in Seq(Seq(Callee)) /\ Len(ss) = Len(handlers)
  <2> HIDE DEF Matches
  <2>1. QED
    BY <1>2, <1>3
<1>5. \A i \in 1..Len(handlers) : ss[i] = handlers[i].list \/ ss[i] = <<>>
  OBVIOUS
<1>6. ASSUME OperatorFirst, ~stopped, EventType[e] = Degraded
      PROVE  Len(ss) > 0 /\ Len(ss[1]) > 0 /\ ss[1][1] = OnDegraded
  <2>1. /\ Len(handlers) > 0 /\ handlers[1].type = Degraded
        /\ Len(handlers[1].list) > 0 /\ handlers[1].list[1] = OnDegraded
    BY <1>6 DEF OperatorFirst
  <2>2. 1 \in 1..Len(handlers) /\ Matches(1)
    BY <1>2, <1>6, <2>1
  <2>3. ss[1] = handlers[1].list
    BY <2>2
  <2>4. QED
    BY <1>4, <2>1, <2>3
<1> HIDE DEF ss
<1>7. ASSUME SubscribedOnce, NEW h \in Handler PROVE OnceIn(ss, Len(ss), h)
  <2>1. \A i, j \in 1..Len(handlers) :
         \A k \in 1..Len(handlers[i].list), l \in 1..Len(handlers[j].list) :
             handlers[i].list[k] = h /\ handlers[j].list[l] = h => i = j /\ k = l
    BY <1>7 DEF SubscribedOnce, ListedOnce
  <2> SUFFICES ASSUME NEW i \in 1..Len(ss), NEW j \in 1..Len(ss),
                      NEW k \in 1..Len(ss[i]), NEW l \in 1..Len(ss[j]),
                      ss[i][k] = h, ss[j][l] = h
               PROVE  i = j /\ k = l
    BY DEF OnceIn
  <2>2. i \in 1..Len(handlers) /\ j \in 1..Len(handlers)
    BY <1>4
  <2>3. ss[i] # <<>> /\ ss[j] # <<>>
    OBVIOUS
  <2>4. ss[i] = handlers[i].list /\ ss[j] = handlers[j].list
    BY <1>5, <2>2, <2>3
  <2>5. QED
    BY <2>1, <2>2, <2>4
<1>8. FlattenSeq(ss) \in Seq(Callee)
  BY <1>4, FlattenType
<1>9. ASSUME SubscribedOnce PROVE \A h \in Handler : \A a, b \in 1..Len(FlattenSeq(ss)) :
                          FlattenSeq(ss)[a] = h /\ FlattenSeq(ss)[b] = h => a = b
  BY <1>4, <1>7, <1>9, FlattenOnce
<1>10. ASSUME OperatorFirst, ~stopped, EventType[e] = Degraded
       PROVE  FlattenSeq(ss) # <<>> /\ FlattenSeq(ss)[1] = OnDegraded
  BY <1>4, <1>6, <1>10, FlattenHead
<1>11. QED
  BY <1>1, <1>8, <1>9, <1>10

-----------------------------------------------------------------------------
(***************************************************************************)
(* The invariant, one kind of step after the other.                        *)
(***************************************************************************)
\* Past and Reached are positions in what the scope has added.
LEMMA Numbers ==
    ASSUME Types, Shaped, NEW t \in Task
    PROVE  /\ scope[t] \in Scope /\ added[t] \in Seq(Event) /\ Pending(t) \in Seq(Event)
           /\ Len(added[t]) \in Nat /\ Len(Pending(t)) \in Nat
           /\ Past(t) \in Nat /\ Past(t) <= Len(added[t])
           /\ Past(t) + Len(Pending(t)) = Len(added[t])
           /\ Reached(t) \in Nat /\ Past(t) <= Reached(t) /\ Reached(t) <= Len(added[t])
           /\ scope[t].pc = "dispatch" => Reached(t) = Past(t) + 1
           /\ scope[t].pc # "dispatch" => Reached(t) = Past(t)
<1>1. scope[t] \in Scope /\ added[t] \in Seq(Event)
  BY DEF Types
<1>2. Pending(t) \in Seq(Event)
  BY <1>1 DEF Pending, Scope
<1>3. Len(Pending(t)) <= Len(added[t])
  BY DEF Shaped, ShapeOf
<1>4. scope[t].pc = "dispatch" => Len(Pending(t)) > 0
  <2>1. scope[t].pc = "dispatch" => scope[t].queue # <<>> /\ Pending(t) = scope[t].queue
    BY DEF Shaped, ShapeOf, Pending, Committing
  <2>2. QED
    BY <1>2, <2>1
<1>5. Past(t) \in Nat /\ Past(t) <= Len(added[t]) /\ Past(t) + Len(Pending(t)) = Len(added[t])
  BY <1>1, <1>2, <1>3 DEF Past
<1>6. QED
  BY <1>1, <1>2, <1>4, <1>5 DEF Reached

\* A step of t replaces its scope and no other.
LEMMA Moves ==
    ASSUME Types, NEW t \in Task, NEW s \in Scope, scope' = [scope EXCEPT ![t] = s]
    PROVE  /\ scope' \in [Task -> Scope] /\ scope'[t] = s
           /\ \A u \in Task \ {t} : scope'[u] = scope[u]
BY DEF Types

\* The other scopes see nothing of a step of t.
LEMMA OthersStay ==
    ASSUME NEW t \in Task, \A u \in Task \ {t} : scope'[u] = scope[u] /\ added'[u] = added[u]
    PROVE  \A u \in Task \ {t} : /\ Pending(u)' = Pending(u) /\ Past(u)' = Past(u)
                                 /\ Reached(u)' = Reached(u) /\ Committing(u)' = Committing(u)
BY DEF Pending, Past, Reached, Committing

\* Whose an event is, and how far it got.
LEMMA Whose ==
    ASSUME Inv, NEW t \in Task, NEW k \in 1..Len(added[t])
    PROVE  /\ added[t][k] \in Known => k <= Reached(t)
           /\ added[t][k] \in discarded => k <= Past(t)
<1> USE DEF Inv
<1>1. ASSUME added[t][k] \in Known PROVE k <= Reached(t)
  <2>1. PICK u \in Task : \E l \in 1..Reached(u) : added[u][l] = added[t][k]
    BY <1>1 DEF Told
  <2>2. PICK l \in 1..Reached(u) : added[u][l] = added[t][k]
    BY <2>1
  <2>3. Reached(u) \in Nat /\ Reached(u) <= Len(added[u]) /\ Len(added[u]) \in Nat
    BY Numbers
  <2>4. l \in 1..Len(added[u])
    BY <2>2, <2>3
  <2>5. u = t /\ l = k
    BY <2>2, <2>4 DEF Distinct
  <2>6. QED
    BY <2>2, <2>3, <2>5
<1>2. ASSUME added[t][k] \in discarded PROVE k <= Past(t)
  <2>1. PICK u \in Task : \E l \in 1..Past(u) : added[u][l] = added[t][k]
    BY <1>2 DEF Told
  <2>2. PICK l \in 1..Past(u) : added[u][l] = added[t][k]
    BY <2>1
  <2>3. Past(u) \in Nat /\ Past(u) <= Len(added[u]) /\ Len(added[u]) \in Nat
    BY Numbers
  <2>4. l \in 1..Len(added[u])
    BY <2>2, <2>3
  <2>5. u = t /\ l = k
    BY <2>2, <2>4 DEF Distinct
  <2>6. QED
    BY <2>2, <2>3, <2>5
<1>3. QED
  BY <1>1, <1>2

\* What a subscriber has heard is known.
LEMMA HeardIsKnown ==
    ASSUME Types, NEW h \in Handler, NEW i \in 1..Len(heard[h])
    PROVE  heard[h][i] \in Known /\ heard[h][i] \in Range(heard[h])
<1>1. heard[h] \in Seq(Event)
  BY DEF Types
<1>2. heard[h][i] \in Range(heard[h])
  BY <1>1 DEF Range
<1>3. QED
  BY <1>2 DEF Known

\* The event being dispatched.
LEMMA CurrentIs ==
    ASSUME Inv, NEW t \in Task, scope[t].pc = "dispatch"
    PROVE  /\ Reached(t) \in 1..Len(added[t]) /\ Current(t) \in Event
           /\ Current(t) = Head(scope[t].queue) /\ Current(t) \in Range(added[t])
<1> USE DEF Inv
<1>1. Pending(t) = scope[t].queue /\ scope[t].queue # <<>>
  BY DEF Shaped, ShapeOf, Pending, Committing
<1>2. /\ added[t] \in Seq(Event) /\ Pending(t) \in Seq(Event) /\ Len(added[t]) \in Nat
      /\ Past(t) \in Nat /\ Past(t) + Len(Pending(t)) = Len(added[t]) /\ Reached(t) = Past(t) + 1
  BY Numbers
<1>3. 1 \in 1..Len(Pending(t)) /\ Head(scope[t].queue) = Pending(t)[1]
  BY <1>1, <1>2
<1>4. Pending(t)[1] = added[t][Past(t) + 1]
  BY <1>3 DEF Shaped, ShapeOf
<1>5. Reached(t) \in 1..Len(added[t])
  BY <1>2, <1>3
<1>6. QED
  BY <1>2, <1>3, <1>4, <1>5 DEF Current, Range

\* A scope that a step leaves alone.
LEMMA SameScope ==
    ASSUME NEW u \in Task, scope'[u] = scope[u], added'[u] = added[u], Kind' = Kind
    PROVE  /\ Pending(u)' = Pending(u) /\ Past(u)' = Past(u) /\ Reached(u)' = Reached(u)
           /\ Current(u)' = Current(u) /\ (ShapeOf(u) => ShapeOf(u)')
           /\ (ToCallOf(u) /\ heard' = heard => ToCallOf(u)')
           /\ (CountOf(u) /\ Range(metrics) \subseteq Range(metrics)' => CountOf(u)')
<1>1. /\ Pending(u)' = Pending(u) /\ Committing(u)' = Committing(u)
      /\ Past(u)' = Past(u) /\ Reached(u)' = Reached(u)
  BY DEF Pending, Past, Reached, Committing
<1>2. Current(u)' = Current(u)
  BY <1>1 DEF Current
<1>3. ShapeOf(u) => ShapeOf(u)'
  BY <1>1 DEF ShapeOf
<1>4. ToCallOf(u) /\ heard' = heard => ToCallOf(u)'
  BY <1>2 DEF ToCallOf
<1>5. CountOf(u) /\ Range(metrics) \subseteq Range(metrics)' => CountOf(u)'
  BY <1>2 DEF CountOf
<1>6. QED
  BY <1>1, <1>2, <1>3, <1>4, <1>5

\* A step of t that leaves what it holds pending, and calls nobody.
LEMMA QuietInv ==
    ASSUME Inv, NEW t \in Task, NEW s \in Scope, scope' = [scope EXCEPT ![t] = s],
           UNCHANGED <<Kind, handlers, stopped, metrics, shown, history>>,
           scope[t].pc # "dispatch", s.pc # "dispatch",
           s.pc = "publish" => s.queue = Pending(t) /\ s.buffer = <<>> /\ Kind[t] # "read",
           s.pc # "publish" => s.buffer = Pending(t) /\ s.queue = <<>>,
           s.pc = "done" => Pending(t) = <<>>
    PROVE  Inv'
<1> USE DEF Inv, history
<1>1. /\ scope' \in [Task -> Scope] /\ scope'[t] = s
      /\ \A u \in Task \ {t} : scope'[u] = scope[u]
  BY Moves
<1>2. Pending(t)' = Pending(t) /\ Committing(t)' = (s.pc = "publish")
  BY <1>1 DEF Pending, Committing, Scope
<1>3. Past(t)' = Past(t) /\ Reached(t)' = Reached(t)
  BY <1>1, <1>2 DEF Past, Reached
<1>4. ASSUME NEW u \in Task
      PROVE  /\ Past(u)' = Past(u) /\ Reached(u)' = Reached(u)
             /\ ShapeOf(u)' /\ ToCallOf(u)' /\ (CountOf(u) => CountOf(u)')
  <2>1. CASE u = t
    <3>1. ShapeOf(t)
      BY DEF Shaped
    <3>2. ShapeOf(t)'
      BY <1>1, <1>2, <1>3, <3>1 DEF ShapeOf
    <3>3. ToCallOf(t)' /\ CountOf(t)'
      BY <1>1 DEF ToCallOf, CountOf
    <3>4. QED
      BY <1>3, <2>1, <3>2, <3>3
  <2>2. CASE u # t
    <3>1. scope'[u] = scope[u] /\ ShapeOf(u) /\ ToCallOf(u)
      BY <1>1, <2>2 DEF Shaped, ToCall
    <3>2. QED
      BY <3>1, SameScope
  <2>3. QED
    BY <2>1, <2>2
<1>5. Types'
  BY <1>1 DEF Types
<1>6. /\ Distinct' /\ Known' = Known /\ KeyedOnce' /\ SubscribedOnce' /\ InOrder'
      /\ OperatorFirst' /\ Counted' /\ Shown'
  BY DEF Distinct, Known, KeyedOnce, SubscribedOnce, InOrder, OperatorFirst, Counted, Shown,
     user_visible
<1>7. Told'
  BY <1>4, <1>6 DEF Told
<1>8. Shaped' /\ ToCall' /\ Counting'
  BY <1>4 DEF Shaped, ToCall, Counting
<1>9. QED
  BY <1>5, <1>6, <1>7, <1>8

\* publish() takes the targets of the next event.
LEMMA PublishInv ==
    ASSUME Inv, NEW t \in Task, publish(t)
    PROVE  Inv'
<1> USE DEF Inv
<1> DEFINE e == Head(scope[t].queue)
           s == [scope[t] EXCEPT !.pc = "dispatch", !.targets = Targets(e)]
<1>1. /\ scope[t] \in Scope /\ scope[t].pc = "publish" /\ scope[t].queue # <<>>
      /\ scope' = [scope EXCEPT ![t] = s]
  BY DEF publish, At, Types
<1>2. /\ Targets(e) \in Seq(Callee)
      /\ \A h \in Handler : \A a, b \in 1..Len(Targets(e)) :
             Targets(e)[a] = h /\ Targets(e)[b] = h => a = b
      /\ ~stopped /\ EventType[e] = Degraded => Targets(e) # <<>> /\ Targets(e)[1] = OnDegraded
  BY TargetsTaken
<1>3. /\ s \in Scope /\ s.pc = "dispatch" /\ s.queue = scope[t].queue
      /\ s.buffer = scope[t].buffer /\ s.targets = Targets(e)
  BY <1>1, <1>2 DEF Scope, PcSet
<1>a. UNCHANGED <<Kind, handlers, stopped, metrics, shown, added, discarded, published, heard,
                  broken>>
  BY DEF publish, bus, sinks, history
<1> HIDE DEF s, e
<1>4. /\ scope' \in [Task -> Scope] /\ scope'[t] = s
      /\ \A u \in Task \ {t} : scope'[u] = scope[u]
  BY <1>1, <1>3, Moves
<1>5. Pending(t)' = Pending(t) /\ Committing(t)' /\ Committing(t)
  BY <1>1, <1>3, <1>4 DEF Pending, Committing
<1>6. Past(t)' = Past(t) /\ Reached(t)' = Past(t) + 1 /\ Reached(t) = Past(t)
  BY <1>1, <1>3, <1>4, <1>5, <1>a DEF Past, Reached
<1>7. /\ Past(t) \in Nat /\ Past(t) + 1 \in 1..Len(added[t]) /\ added[t][Past(t) + 1] = e
  <2>1. /\ added[t] \in Seq(Event) /\ Pending(t) \in Seq(Event) /\ Len(added[t]) \in Nat
        /\ Past(t) \in Nat /\ Past(t) + Len(Pending(t)) = Len(added[t])
    BY Numbers
  <2>2. Pending(t) = scope[t].queue
    BY <1>5 DEF Pending
  <2>3. 1 \in 1..Len(Pending(t)) /\ e = Pending(t)[1]
    BY <1>1, <2>1, <2>2 DEF e
  <2>4. Pending(t)[1] = added[t][Past(t) + 1]
    BY <2>3 DEF Shaped, ShapeOf
  <2>5. QED
    BY <2>1, <2>3, <2>4
<1>8. Current(t)' = e
  BY <1>6, <1>7, <1>a DEF Current
<1>9. ASSUME NEW h \in Handler, NEW k \in 1..Len(heard[h]) PROVE heard[h][k] # e
  <2>1. heard[h][k] \in Known
    BY HeardIsKnown
  <2>2. e \notin Known
    BY <1>6, <1>7, Whose
  <2>3. QED
    BY <2>1, <2>2
<1>10. ASSUME NEW u \in Task
       PROVE  /\ Past(u)' = Past(u) /\ Reached(u)' \in Nat /\ Reached(u) \in Nat
              /\ Reached(u) <= Reached(u)'
              /\ ShapeOf(u)' /\ ToCallOf(u)' /\ (~stopped => CountOf(u)')
  <2>1. CASE u = t
    <3>1. ShapeOf(t)
      BY DEF Shaped
    <3>2. ShapeOf(t)'
      BY <1>1, <1>3, <1>4, <1>5, <1>6, <1>a, <3>1 DEF ShapeOf
    <3>3. ToCallOf(t)'
      BY <1>2, <1>3, <1>4, <1>8, <1>9, <1>a DEF ToCallOf
    <3>4. ~stopped => CountOf(t)'
      BY <1>2, <1>3, <1>4, <1>8 DEF CountOf
    <3>5. QED
      BY <1>6, <1>7, <2>1, <3>2, <3>3, <3>4
  <2>2. CASE u # t
    <3>1. scope'[u] = scope[u] /\ ShapeOf(u) /\ ToCallOf(u) /\ (~stopped => CountOf(u))
      BY <1>4, <2>2 DEF Shaped, ToCall, Counting
    <3>2. Reached(u) \in Nat
      BY Numbers
    <3>3. QED
      BY <1>a, <3>1, <3>2, SameScope
  <2>3. QED
    BY <2>1, <2>2
<1>11. Types'
  BY <1>4, <1>a DEF Types
<1>12. /\ Distinct' /\ Known' = Known /\ KeyedOnce' /\ SubscribedOnce' /\ InOrder'
       /\ OperatorFirst' /\ Counted' /\ Shown'
  BY <1>a DEF Distinct, Known, KeyedOnce, SubscribedOnce, InOrder, OperatorFirst, Counted, Shown,
     user_visible
<1>13. Told'
  <2>1. ASSUME NEW x \in Known PROVE \E u \in Task : \E k \in 1..Reached(u)' : added[u][k] = x
    <3>1. PICK u \in Task : \E k \in 1..Reached(u) : added[u][k] = x
      BY DEF Told
    <3>2. PICK k \in 1..Reached(u) : added[u][k] = x
      BY <3>1
    <3>3. k \in 1..Reached(u)'
      BY <1>10, <3>2
    <3>4. QED
      BY <3>2, <3>3
  <2>2. QED
    BY <1>10, <1>12, <1>a, <2>1 DEF Told
<1>14. Shaped' /\ ToCall' /\ Counting'
  BY <1>10, <1>a DEF Shaped, ToCall, Counting
<1>15. QED
  BY <1>11, <1>12, <1>13, <1>14

\* add(), and a degrade that becomes an event: an event of nobody yet is the
\* last one of the scope.
LEMMA AppendInv ==
    ASSUME Inv, NEW t \in Task, NEW e \in Unused, scope[t].pc = "body", Kind[t] # "read",
           scope' = [scope EXCEPT ![t].buffer = Append(@, e)],
           added' = [added EXCEPT ![t] = Append(@, e)],
           UNCHANGED <<Kind, handlers, stopped, metrics, shown, discarded, published, heard,
                       broken>>
    PROVE  Inv'
<1> USE DEF Inv
<1> DEFINE s == [scope[t] EXCEPT !.buffer = Append(@, e)]
           n == Len(added[t])
<1>1. scope[t] \in Scope /\ added \in [Task -> Seq(Event)] /\ e \in Event
  BY DEF Types, Unused
<1>2. /\ s \in Scope /\ s.pc = "body" /\ s.queue = scope[t].queue
      /\ s.buffer = Append(scope[t].buffer, e) /\ scope' = [scope EXCEPT ![t] = s]
  <2>1. Append(scope[t].buffer, e) \in Seq(Event)
    BY <1>1 DEF Scope
  <2>2. s \in Scope /\ s.pc = "body" /\ s.queue = scope[t].queue
    BY <1>1, <2>1 DEF Scope
  <2>3. s.buffer = Append(scope[t].buffer, e)
    BY <1>1 DEF Scope
  <2>4. QED
    BY <2>2, <2>3
<1> HIDE DEF s
<1>3. /\ scope' \in [Task -> Scope] /\ scope'[t] = s
      /\ \A u \in Task \ {t} : scope'[u] = scope[u]
  BY <1>2, Moves
<1>4. /\ added' \in [Task -> Seq(Event)] /\ added'[t] = Append(added[t], e)
      /\ \A u \in Task \ {t} : added'[u] = added[u]
  BY <1>1
<1>5. Pending(t) = scope[t].buffer /\ Pending(t)' = Append(Pending(t), e)
  BY <1>2, <1>3 DEF Pending, Committing
<1>6. /\ added[t] \in Seq(Event) /\ Pending(t) \in Seq(Event) /\ n \in Nat
      /\ Len(Pending(t)) \in Nat
      /\ Past(t) \in Nat /\ Past(t) + Len(Pending(t)) = n /\ Reached(t) = Past(t)
  BY Numbers
<1>7. /\ Len(added'[t]) = n + 1 /\ added'[t][n + 1] = e
      /\ \A k \in 1..n : added'[t][k] = added[t][k]
      /\ Len(Pending(t)') = Len(Pending(t)) + 1 /\ Pending(t)'[Len(Pending(t)) + 1] = e
      /\ \A k \in 1..Len(Pending(t)) : Pending(t)'[k] = Pending(t)[k]
  BY <1>4, <1>5, <1>6
<1>8. Past(t)' = Past(t) /\ Reached(t)' = Reached(t)
  BY <1>2, <1>3, <1>6, <1>7 DEF Past, Reached
<1>9. \A u \in Task : \A k \in 1..Len(added[u]) : added[u][k] # e
  <2>1. ASSUME NEW u \in Task, NEW k \in 1..Len(added[u]) PROVE added[u][k] # e
    <3>1. added[u] \in Seq(Event)
      BY <1>1
    <3>2. added[u][k] \in Range(added[u])
      BY <3>1 DEF Range
    <3>3. e \notin Range(added[u])
      BY DEF Unused
    <3>4. QED
      BY <3>2, <3>3
  <2>2. QED
    BY <2>1
<1>10. ASSUME NEW u \in Task
       PROVE  /\ Past(u)' = Past(u) /\ Reached(u)' = Reached(u)
              /\ ShapeOf(u)' /\ ToCallOf(u)' /\ (CountOf(u) => CountOf(u)')
              /\ \A k \in 1..Len(added[u]) : k \in 1..Len(added'[u]) /\ added'[u][k] = added[u][k]
  <2>1. CASE u = t
    <3>1. ShapeOf(t)
      BY DEF Shaped
    <3>2. ASSUME NEW i \in 1..Len(Pending(t)') PROVE Pending(t)'[i] = added'[t][Past(t) + i]
      <4>1. CASE i = Len(Pending(t)) + 1
        BY <1>6, <1>7, <4>1
      <4>2. CASE i # Len(Pending(t)) + 1
        <5>1. i \in 1..Len(Pending(t)) /\ Past(t) + i \in 1..n
          BY <1>6, <1>7, <4>2
        <5>2. Pending(t)[i] = added[t][Past(t) + i]
          BY <3>1, <5>1 DEF ShapeOf
        <5>3. QED
          BY <1>7, <5>1, <5>2
      <4>3. QED
        BY <4>1, <4>2
    <3>3. Len(Pending(t)') <= Len(added'[t])
      BY <1>6, <1>7
    <3>4. ~Committing(t) /\ ~Committing(t)' /\ scope'[t].queue = <<>>
      BY <1>2, <1>3, <3>1 DEF Committing, ShapeOf
    <3>5. ShapeOf(t)'
      BY <1>2, <1>3, <1>8, <3>2, <3>3, <3>4 DEF ShapeOf
    <3>6. ToCallOf(t)' /\ CountOf(t)'
      BY <1>2, <1>3 DEF ToCallOf, CountOf
    <3>7. \A k \in 1..Len(added[t]) : k \in 1..Len(added'[t]) /\ added'[t][k] = added[t][k]
      BY <1>6, <1>7
    <3>8. QED
      BY <1>8, <2>1, <3>5, <3>6, <3>7
  <2>2. CASE u # t
    <3>1. scope'[u] = scope[u] /\ added'[u] = added[u] /\ ShapeOf(u) /\ ToCallOf(u)
      BY <1>3, <1>4, <2>2 DEF Shaped, ToCall
    <3>2. QED
      BY <3>1, SameScope
  <2>3. QED
    BY <2>1, <2>2
<1>11. Types'
  BY <1>3, <1>4 DEF Types
<1>a. ASSUME NEW u \in Task, NEW k \in 1..Len(added'[u])
      PROVE  \/ k \in 1..Len(added[u]) /\ added'[u][k] = added[u][k]
             \/ u = t /\ k = n + 1 /\ added'[u][k] = e
  BY <1>4, <1>6, <1>7
<1>12. Distinct'
  <2> SUFFICES ASSUME NEW u \in Task, NEW v \in Task,
                      NEW i \in 1..Len(added'[u]), NEW j \in 1..Len(added'[v]),
                      added'[u][i] = added'[v][j]
               PROVE  u = v /\ i = j
    BY DEF Distinct
  <2>1. \/ i \in 1..Len(added[u]) /\ added'[u][i] = added[u][i]
        \/ u = t /\ i = n + 1 /\ added'[u][i] = e
    BY <1>a
  <2>2. \/ j \in 1..Len(added[v]) /\ added'[v][j] = added[v][j]
        \/ v = t /\ j = n + 1 /\ added'[v][j] = e
    BY <1>a
  <2>3. QED
    BY <1>9, <2>1, <2>2 DEF Distinct
<1>13. Known' = Known /\ KeyedOnce' /\ SubscribedOnce' /\ OperatorFirst' /\ Counted'
  BY DEF Known, KeyedOnce, SubscribedOnce, OperatorFirst, Counted
<1>14. Shown'
  <2>1. ASSUME NEW u \in Task PROVE Range(added[u]) \subseteq Range(added'[u])
    <3>1. added[u] \in Seq(Event) /\ added'[u] \in Seq(Event)
      BY <1>1, <1>4
    <3>2. QED
      BY <1>10, <3>1 DEF Range
  <2>2. broken \subseteq Task
    BY DEF Types
  <2>3. QED
    BY <2>1, <2>2 DEF Shown, user_visible
<1>15. InOrder'
  <2>b. ASSUME NEW h \in Handler, NEW u \in Task, NEW i \in 1..Len(heard[h]),
                      NEW j \in 1..Len(heard[h]), NEW k \in 1..Len(added'[u]),
                      NEW l \in 1..Len(added'[u]), i < j,
                      heard[h][i] = added'[u][k], heard[h][j] = added'[u][l]
               PROVE  k < l
    <3>1. ASSUME NEW x \in Known PROVE x # e
      <4>1. PICK v \in Task : \E m \in 1..Reached(v) : added[v][m] = x
        BY DEF Told
      <4>2. PICK m \in 1..Reached(v) : added[v][m] = x
        BY <4>1
      <4>3. m \in 1..Len(added[v])
        <5>1. Reached(v) \in Nat /\ Reached(v) <= Len(added[v]) /\ Len(added[v]) \in Nat
          BY Numbers
        <5>2. QED
          BY <4>2, <5>1
      <4>4. QED
        BY <1>9, <4>2, <4>3
    <3>2. heard[h][i] # e /\ heard[h][j] # e
      <4>1. heard[h][i] \in Known /\ heard[h][j] \in Known
        BY HeardIsKnown
      <4>2. QED
        BY <3>1, <4>1
    <3>3. k \in 1..Len(added[u]) /\ added'[u][k] = added[u][k]
      BY <1>a, <2>b, <3>2
    <3>4. l \in 1..Len(added[u]) /\ added'[u][l] = added[u][l]
      BY <1>a, <2>b, <3>2
    <3>5. OrderOf(heard[h], added[u])
      BY DEF InOrder
    <3>6. QED
      BY <2>b, <3>3, <3>4, <3>5 DEF OrderOf
  <2>c. heard' = heard
    OBVIOUS
  <2>d. ASSUME NEW h \in Handler, NEW u \in Task PROVE OrderOf(heard[h], added'[u])
    <3> SUFFICES ASSUME NEW i \in 1..Len(heard[h]), NEW j \in 1..Len(heard[h]),
                        NEW k \in 1..Len(added'[u]), NEW l \in 1..Len(added'[u]), i < j,
                        heard[h][i] = added'[u][k], heard[h][j] = added'[u][l]
                 PROVE  k < l
      BY DEF OrderOf
    <3> QED BY <2>b, Zenon
  <2>e. QED
    BY <2>c, <2>d DEF InOrder
<1>16. Told'
  <2>1. ASSUME NEW u \in Task
        PROVE  /\ \A k \in 1..Reached(u) : added'[u][k] = added[u][k]
               /\ \A k \in 1..Past(u) : added'[u][k] = added[u][k]
    <3>1. /\ Len(added[u]) \in Nat /\ Past(u) \in Nat /\ Past(u) <= Len(added[u])
          /\ Reached(u) \in Nat /\ Reached(u) <= Len(added[u])
      BY Numbers
    <3>2. QED
      BY <1>10, <3>1
  <2>2. ASSUME NEW x \in Known
        PROVE  \E u \in Task : \E k \in 1..Reached(u)' : added'[u][k] = x
    <3>1. PICK u \in Task : \E k \in 1..Reached(u) : added[u][k] = x
      BY Zenon DEF Told
    <3>2. Reached(u)' = Reached(u)
      BY <1>10
    <3>3. QED
      BY <2>1, <3>1, <3>2, Zenon
  <2>3. ASSUME NEW x \in discarded
        PROVE  \E u \in Task : \E k \in 1..Past(u)' : added'[u][k] = x
    <3>1. PICK u \in Task : \E k \in 1..Past(u) : added[u][k] = x
      BY Zenon DEF Told
    <3>2. Past(u)' = Past(u)
      BY <1>10
    <3>3. QED
      BY <2>1, <3>1, <3>2, Zenon
  <2>4. ASSUME NEW u \in Task \ broken, NEW k \in 1..Past(u)'
        PROVE  added'[u][k] \in published \cup discarded
    <3>1. Past(u)' = Past(u)
      BY <1>10
    <3>2. added[u][k] \in published \cup discarded
      BY <3>1 DEF Told
    <3>3. QED
      BY <2>1, <3>1, <3>2
  <2>5. discarded \cap Known' = {}
    BY <1>13 DEF Told
  <2>6. discarded' = discarded /\ published' = published /\ broken' = broken
    OBVIOUS
  <2>7. QED
    BY <1>13, <2>2, <2>3, <2>4, <2>5, <2>6, Zenon DEF Told
<1>17. Shaped' /\ ToCall' /\ Counting'
  BY <1>10 DEF Shaped, ToCall, Counting
<1>18. QED
  BY <1>11, <1>12, <1>13, <1>14, <1>15, <1>16, <1>17

\* What has to be shown of Told when some scope gets ahead.
LEMMA Ahead ==
    ASSUME Inv, added' = added,
           \A u \in Task : /\ Past(u)' \in Nat /\ Reached(u)' \in Nat
                           /\ Past(u) <= Past(u)' /\ Reached(u) <= Reached(u)',
           \A x \in Known' : x \in Known \/ \E u \in Task : \E k \in 1..Reached(u)' : added[u][k] = x,
           \A x \in discarded' : x \in discarded \/ \E u \in Task : \E k \in 1..Past(u)' : added[u][k] = x,
           discarded' \cap Known' = {},
           published \subseteq published', discarded \subseteq discarded', broken \subseteq broken',
           \A u \in Task \ broken' : \A k \in 1..Past(u)' :
               k > Past(u) => added[u][k] \in published' \cup discarded'
    PROVE  Told'
<1>1. ASSUME NEW u \in Task PROVE Past(u) \in Nat /\ Reached(u) \in Nat
  BY Numbers DEF Inv
<1>2. ASSUME NEW x \in Known'
      PROVE  \E u \in Task : \E k \in 1..Reached(u)' : added'[u][k] = x
  <2>1. CASE x \in Known
    <3>1. PICK u \in Task : \E k \in 1..Reached(u) : added[u][k] = x
      BY <2>1, Zenon DEF Told, Inv
    <3>2. PICK k \in 1..Reached(u) : added[u][k] = x
      BY <3>1
    <3>3. k \in 1..Reached(u)'
      BY <1>1, <3>2
    <3>4. QED
      BY <3>2, <3>3
  <2>2. CASE x \notin Known
    BY <1>2, <2>2
  <2>3. QED
    BY <2>1, <2>2
<1>3. ASSUME NEW x \in discarded'
      PROVE  \E u \in Task : \E k \in 1..Past(u)' : added'[u][k] = x
  <2>1. CASE x \in discarded
    <3>1. PICK u \in Task : \E k \in 1..Past(u) : added[u][k] = x
      BY <2>1, Zenon DEF Told, Inv
    <3>2. PICK k \in 1..Past(u) : added[u][k] = x
      BY <3>1
    <3>3. k \in 1..Past(u)'
      BY <1>1, <3>2
    <3>4. QED
      BY <3>2, <3>3
  <2>2. CASE x \notin discarded
    BY <1>3, <2>2
  <2>3. QED
    BY <2>1, <2>2
<1>4. ASSUME NEW u \in Task \ broken', NEW k \in 1..Past(u)'
      PROVE  added'[u][k] \in published' \cup discarded'
  <2>1. CASE k > Past(u)
    BY <2>1
  <2>2. CASE ~(k > Past(u))
    <3>1. k \in 1..Past(u) /\ u \in Task \ broken
      BY <1>1, <2>2
    <3>2. added[u][k] \in published \cup discarded
      BY <3>1 DEF Told, Inv
    <3>3. QED
      BY <3>2
  <2>3. QED
    BY <2>1, <2>2
<1>5. QED
  BY <1>2, <1>3, <1>4, Zenon DEF Told

\* A scope whose events are all behind it, or that holds them all but the first.
LEMMA ShapeMoves ==
    ASSUME Inv, NEW t \in Task, added' = added, Kind' = Kind, scope'[t] \in Scope,
           \/ /\ scope'[t].buffer = <<>> /\ scope'[t].queue = <<>>
              /\ scope'[t].pc \in {"body", "unwind", "failed"}
           \/ /\ scope[t].pc = "dispatch" /\ scope'[t].pc = "publish"
              /\ scope'[t].buffer = scope[t].buffer /\ scope'[t].queue = Tail(scope[t].queue)
    PROVE  /\ ShapeOf(t)' /\ Past(t)' \in Nat /\ Reached(t)' = Past(t)' /\ Past(t) <= Past(t)'
           /\ scope'[t].pc = "publish" => Past(t)' = Past(t) + 1
           /\ scope'[t].pc # "publish" => Past(t)' = Len(added[t])
<1> USE DEF Inv
<1>1. /\ added[t] \in Seq(Event) /\ Pending(t) \in Seq(Event) /\ Len(added[t]) \in Nat
      /\ Past(t) \in Nat /\ Len(Pending(t)) \in Nat /\ Past(t) + Len(Pending(t)) = Len(added[t])
      /\ Past(t) <= Len(added[t])
  BY Numbers
<1>2. ShapeOf(t)
  BY DEF Shaped
<1>3. CASE /\ scope'[t].buffer = <<>> /\ scope'[t].queue = <<>>
           /\ scope'[t].pc \in {"body", "unwind", "failed"}
  <2>1. Pending(t)' = <<>> /\ ~Committing(t)'
    BY <1>3 DEF Pending, Committing
  <2>2. Past(t)' = Len(added[t]) /\ Reached(t)' = Past(t)'
    BY <1>1, <1>3, <2>1 DEF Past, Reached
  <2>3. ShapeOf(t)'
    BY <1>1, <1>2, <1>3, <2>1 DEF ShapeOf
  <2>4. QED
    BY <1>1, <1>3, <2>2, <2>3
<1>4. CASE /\ scope[t].pc = "dispatch" /\ scope'[t].pc = "publish"
           /\ scope'[t].buffer = scope[t].buffer /\ scope'[t].queue = Tail(scope[t].queue)
  <2>1. Pending(t) = scope[t].queue /\ scope[t].queue # <<>> /\ Committing(t) /\ Committing(t)'
    BY <1>2, <1>4 DEF Pending, Committing, ShapeOf
  <2>2. Pending(t)' = Tail(Pending(t))
    BY <1>4, <2>1 DEF Pending
  <2>3. Len(Pending(t)') = Len(Pending(t)) - 1 /\ Len(Pending(t)) > 0
    BY <1>1, <2>1, <2>2
  <2>4. Past(t)' = Past(t) + 1 /\ Reached(t)' = Past(t)'
    BY <1>1, <1>4, <2>3 DEF Past, Reached
  <2>5. ASSUME NEW i \in 1..Len(Pending(t)') PROVE Pending(t)'[i] = added[t][Past(t)' + i]
    <3>1. i + 1 \in 1..Len(Pending(t)) /\ Pending(t)'[i] = Pending(t)[i + 1]
      BY <1>1, <2>1, <2>2, <2>3
    <3>2. Pending(t)[i + 1] = added[t][Past(t) + (i + 1)]
      BY <1>2, <3>1 DEF ShapeOf
    <3>3. Past(t) + (i + 1) = Past(t)' + i
      BY <1>1, <2>4
    <3>4. QED
      BY <3>1, <3>2, <3>3
  <2>6. Len(Pending(t)') <= Len(added[t])
    BY <1>1, <2>3
  <2>7. ShapeOf(t)'
    BY <1>2, <1>4, <2>1, <2>5, <2>6 DEF ShapeOf
  <2>8. QED
    BY <1>1, <1>4, <2>4, <2>7
<1>5. QED
  BY <1>3, <1>4

\* rollback() puts what is pending behind the scope, unheard of.
LEMMA RollbackInv ==
    ASSUME Inv, NEW t \in Task, rollback(t)
    PROVE  Inv'
<1> USE DEF Inv
<1>1. scope \in [Task -> Scope] /\ scope[t] \in Scope /\ scope[t].pc \in {"body", "unwind"}
  BY DEF Types, rollback, At
<1>2. /\ scope' \in [Task -> Scope] /\ scope'[t].buffer = <<>>
      /\ scope'[t].queue = scope[t].queue /\ scope'[t].pc \in {"body", "failed"}
      /\ \A u \in Task \ {t} : scope'[u] = scope[u]
  <2> DEFINE s == [scope[t] EXCEPT !.buffer = RolledBack(t),
                                   !.pc = IF @ = "body" THEN "body" ELSE "failed"]
  <2>1. s \in Scope
    <3>1. PICK p : p = (IF scope[t].pc = "body" THEN "body" ELSE "failed")
      OBVIOUS
    <3>2. p \in PcSet /\ RolledBack(t) \in Seq(Event)
      BY <3>1 DEF PcSet, RolledBack
    <3>3. s = [scope[t] EXCEPT !.buffer = RolledBack(t), !.pc = p]
      BY <3>1
    <3>4. QED
      BY <1>1, <3>2, <3>3 DEF Scope
  <2>2. s.buffer = <<>> /\ s.queue = scope[t].queue /\ s.pc \in {"body", "failed"}
    BY <1>1 DEF Scope, RolledBack
  <2>3. scope' = [scope EXCEPT ![t] = s]
    BY <1>1 DEF rollback
  <2> HIDE DEF s
  <2>4. QED
    BY <2>1, <2>2, <2>3, Moves
<1>3. /\ UNCHANGED <<Kind, handlers, stopped, metrics, shown, added, published, heard, broken>>
      /\ discarded' = discarded \cup Range(scope[t].buffer)
  BY DEF rollback, bus, sinks
<1>4. Pending(t) = scope[t].buffer /\ scope[t].queue = <<>> /\ Reached(t) = Past(t)
  BY <1>1 DEF Pending, Reached, Committing, Shaped, ShapeOf
<1>5. /\ ShapeOf(t)' /\ Past(t)' \in Nat /\ Reached(t)' = Past(t)' /\ Past(t) <= Past(t)'
      /\ Past(t)' = Len(added[t])
  <2>1. scope'[t] \in Scope
    BY <1>2
  <2>2. QED
    BY <1>2, <1>3, <1>4, <2>1, ShapeMoves
<1>6. /\ Len(added[t]) \in Nat /\ Past(t) \in Nat /\ scope[t].buffer \in Seq(Event)
      /\ Len(scope[t].buffer) \in Nat /\ Past(t) + Len(scope[t].buffer) = Len(added[t])
  BY <1>4, Numbers
<1>7. \A i \in 1..Len(scope[t].buffer) :
          Past(t) + i \in 1..Len(added[t]) /\ scope[t].buffer[i] = added[t][Past(t) + i]
  BY <1>4, <1>6 DEF Shaped, ShapeOf
<1>8. Range(scope[t].buffer) = {scope[t].buffer[i] : i \in 1..Len(scope[t].buffer)}
  BY <1>6 DEF Range
<1>9. ASSUME NEW u \in Task
      PROVE  /\ Past(u)' \in Nat /\ Reached(u)' \in Nat
             /\ Past(u) <= Past(u)' /\ Reached(u) <= Reached(u)'
             /\ ShapeOf(u)' /\ ToCallOf(u)' /\ (CountOf(u) => CountOf(u)')
  <2>1. CASE u = t
    <3>1. ToCallOf(t)' /\ CountOf(t)'
      BY <1>2 DEF ToCallOf, CountOf
    <3>2. QED
      BY <1>4, <1>5, <2>1, <3>1
  <2>2. CASE u # t
    <3>1. scope'[u] = scope[u] /\ ShapeOf(u) /\ ToCallOf(u) /\ Past(u) \in Nat /\ Reached(u) \in Nat
      BY <1>2, <2>2, Numbers DEF Shaped, ToCall
    <3>2. QED
      BY <1>3, <3>1, SameScope
  <2>3. QED
    BY <2>1, <2>2
<1>10. Types'
  <2>1. Range(scope[t].buffer) \subseteq Event
    BY <1>6, <1>8
  <2>2. QED
    BY <1>2, <1>3, <2>1 DEF Types
<1>11. /\ Distinct' /\ Known' = Known /\ KeyedOnce' /\ SubscribedOnce' /\ InOrder'
       /\ OperatorFirst' /\ Counted' /\ Shown'
  BY <1>3 DEF Distinct, Known, KeyedOnce, SubscribedOnce, InOrder, OperatorFirst, Counted, Shown,
     user_visible
<1>12. Told'
  <2>1. ASSUME NEW x \in Range(scope[t].buffer)
        PROVE  x \notin Known /\ \E k \in 1..Past(t)' : added[t][k] = x
    <3>1. PICK i \in 1..Len(scope[t].buffer) : x = scope[t].buffer[i]
      BY <1>8
    <3>2. /\ Past(t) + i \in 1..Len(added[t]) /\ x = added[t][Past(t) + i]
          /\ ~(Past(t) + i <= Reached(t))
      BY <1>4, <1>6, <1>7, <3>1
    <3>3. x \notin Known
      <4> DEFINE k == Past(t) + i
      <4>1. k \in 1..Len(added[t]) /\ x = added[t][k] /\ ~(k <= Reached(t))
        BY <3>2
      <4> HIDE DEF k
      <4>2. QED
        BY <4>1, Whose
    <3>4. QED
      BY <1>5, <3>2, <3>3
  <2>2. ASSUME NEW u \in Task \ broken', NEW k \in 1..Past(u)', k > Past(u)
        PROVE  added[u][k] \in published' \cup discarded'
    <3>1. u = t
      <4>1. u # t => Past(u)' = Past(u) /\ Past(u) \in Nat
        BY <1>2, <1>3, Numbers, SameScope
      <4>2. QED
        BY <2>2, <4>1
    <3>2. k - Past(t) \in 1..Len(scope[t].buffer) /\ Past(t) + (k - Past(t)) = k
      BY <1>5, <1>6, <2>2, <3>1
    <3>3. added[t][k] = scope[t].buffer[k - Past(t)]
      BY <1>7, <3>2
    <3>4. added[t][k] \in Range(scope[t].buffer)
      BY <1>8, <3>2, <3>3
    <3>5. QED
      BY <1>3, <3>1, <3>4
  <2>3. discarded' \cap Known' = {}
    BY <1>3, <1>11, <2>1 DEF Told
  <2>4. QED
    BY <1>3, <1>9, <1>11, <2>1, <2>2, <2>3, Ahead
<1>13. Shaped' /\ ToCall' /\ Counting'
  BY <1>3, <1>9 DEF Shaped, ToCall, Counting
<1>14. QED
  BY <1>10, <1>11, <1>12, <1>13

\* publish() returns, and the event is behind the scope.
LEMMA DeliveredInv ==
    ASSUME Inv, NEW t \in Task, delivered(t)
    PROVE  Inv'
<1> USE DEF Inv
<1>1. scope \in [Task -> Scope] /\ scope[t] \in Scope /\ scope[t].pc = "dispatch"
  BY DEF Types, delivered, At
<1>2. /\ Reached(t) \in 1..Len(added[t]) /\ Current(t) \in Event
      /\ Current(t) = Head(scope[t].queue) /\ Reached(t) = Past(t) + 1
      /\ Past(t) \in Nat /\ Len(added[t]) \in Nat /\ scope[t].queue # <<>>
  BY <1>1, CurrentIs, Numbers DEF Shaped, ShapeOf
<1>3. /\ UNCHANGED <<Kind, handlers, stopped, metrics, shown, added, discarded, heard, broken>>
      /\ published' = published \cup {Current(t)}
  BY <1>2 DEF delivered, bus, sinks
<1>4. /\ scope' \in [Task -> Scope] /\ scope'[t].buffer = scope[t].buffer
      /\ scope'[t].queue = Tail(scope[t].queue) /\ scope'[t].pc = "publish"
      /\ \A u \in Task \ {t} : scope'[u] = scope[u]
  <2> DEFINE s == [scope[t] EXCEPT !.pc = "publish", !.queue = Tail(@)]
  <2>1. Tail(scope[t].queue) \in Seq(Event)
    BY <1>1, <1>2 DEF Scope
  <2>2. /\ s \in Scope /\ s.buffer = scope[t].buffer /\ s.queue = Tail(scope[t].queue)
        /\ s.pc = "publish"
    BY <1>1, <2>1 DEF Scope, PcSet
  <2>3. scope' = [scope EXCEPT ![t] = s]
    BY <1>1 DEF delivered
  <2> HIDE DEF s
  <2>4. QED
    BY <2>2, <2>3, Moves
<1>5. /\ ShapeOf(t)' /\ Past(t)' \in Nat /\ Reached(t)' = Past(t)' /\ Past(t) <= Past(t)'
      /\ Past(t)' = Past(t) + 1
  <2>1. scope'[t] \in Scope
    BY <1>4
  <2>2. QED
    BY <1>1, <1>3, <1>4, <2>1, ShapeMoves
<1>6. ASSUME NEW u \in Task
      PROVE  /\ Past(u)' \in Nat /\ Reached(u)' \in Nat
             /\ Past(u) <= Past(u)' /\ Reached(u) <= Reached(u)'
             /\ ShapeOf(u)' /\ ToCallOf(u)' /\ (CountOf(u) => CountOf(u)')
  <2>1. CASE u = t
    <3>1. ToCallOf(t)' /\ CountOf(t)'
      BY <1>4 DEF ToCallOf, CountOf
    <3>2. QED
      BY <1>2, <1>5, <2>1, <3>1
  <2>2. CASE u # t
    <3>1. scope'[u] = scope[u] /\ ShapeOf(u) /\ ToCallOf(u) /\ Past(u) \in Nat /\ Reached(u) \in Nat
      BY <1>4, <2>2, Numbers DEF Shaped, ToCall
    <3>2. QED
      BY <1>3, <3>1, SameScope
  <2>3. QED
    BY <2>1, <2>2
<1>7. Types'
  BY <1>2, <1>3, <1>4 DEF Types
<1>8. /\ Distinct' /\ Known' = Known /\ KeyedOnce' /\ SubscribedOnce' /\ InOrder'
      /\ OperatorFirst' /\ Counted' /\ Shown'
  BY <1>3 DEF Distinct, Known, KeyedOnce, SubscribedOnce, InOrder, OperatorFirst, Counted, Shown,
     user_visible
<1>9. Told'
  <2>1. ASSUME NEW u \in Task \ broken', NEW k \in 1..Past(u)', k > Past(u)
        PROVE  added[u][k] \in published' \cup discarded'
    <3>1. u = t
      <4>1. u # t => Past(u)' = Past(u) /\ Past(u) \in Nat
        BY <1>4, <1>3, Numbers, SameScope
      <4>2. QED
        BY <2>1, <4>1
    <3>2. k = Reached(t)
      BY <1>2, <1>5, <2>1, <3>1
    <3>3. QED
      BY <1>3, <3>1, <3>2 DEF Current
  <2>2. discarded' \cap Known' = {}
    BY <1>3, <1>8 DEF Told
  <2>3. QED
    BY <1>3, <1>6, <1>8, <2>1, <2>2, Ahead
<1>10. Shaped' /\ ToCall' /\ Counting'
  BY <1>3, <1>6 DEF Shaped, ToCall, Counting
<1>11. QED
  BY <1>7, <1>8, <1>9, <1>10

\* What a call of a handler does to the scope of t: the rest of the targets is
\* left, or the exception has ended the commit.
Goes(t) ==
    /\ scope'[t].pc = "dispatch" /\ scope'[t].queue = scope[t].queue
    /\ scope'[t].targets = Tail(scope[t].targets) /\ broken' = broken
Ends(t) ==
    /\ scope'[t].pc \in {"failed", "unwind"} /\ scope'[t].queue = <<>>
    /\ broken' = broken \cup {t}
Went(t) ==
    /\ scope[t].pc = "dispatch" /\ scope[t].targets # <<>>
    /\ scope' \in [Task -> Scope] /\ scope'[t].buffer = scope[t].buffer
    /\ \A u \in Task \ {t} : scope'[u] = scope[u]
    /\ Goes(t) \/ Ends(t)
    /\ UNCHANGED <<Kind, handlers, stopped, added, discarded, published>>

\* Such a call keeps every scope in shape, and none falls back.
LEMMA Went1 ==
    ASSUME Inv, NEW t \in Task, Went(t)
    PROVE  /\ Shaped'
           /\ \A u \in Task : /\ Past(u)' \in Nat /\ Reached(u)' \in Nat
                              /\ Past(u) <= Past(u)' /\ Reached(u) <= Reached(u)'
                              /\ scope'[u].pc = "dispatch" => Current(u)' = Current(u)
                              /\ u # t => Past(u)' = Past(u)
<1> USE DEF Inv
<1>1. /\ Past(t) \in Nat /\ Reached(t) = Past(t) + 1 /\ Reached(t) \in 1..Len(added[t])
      /\ Len(added[t]) \in Nat /\ scope[t].buffer = <<>> /\ ShapeOf(t) /\ scope'[t] \in Scope
  BY CurrentIs, Numbers DEF Went, Shaped, ShapeOf, Committing
<1>2. /\ ShapeOf(t)' /\ Past(t)' \in Nat /\ Reached(t)' \in Nat
      /\ Past(t) <= Past(t)' /\ Reached(t) <= Reached(t)'
      /\ scope'[t].pc = "dispatch" => Current(t)' = Current(t)
  <2>1. CASE Goes(t)
    <3>1. Pending(t)' = Pending(t) /\ Committing(t) /\ Committing(t)'
      BY <2>1 DEF Went, Goes, Pending, Committing
    <3>2. Past(t)' = Past(t) /\ Reached(t)' = Reached(t)
      BY <2>1, <3>1 DEF Went, Goes, Past, Reached
    <3>3. Current(t)' = Current(t)
      BY <3>2 DEF Current, Went
    <3>4. ShapeOf(t)'
      BY <1>1, <2>1, <3>1, <3>2 DEF ShapeOf, Went, Goes
    <3>5. QED
      BY <1>1, <3>2, <3>3, <3>4
  <2>2. CASE Ends(t)
    <3>1. /\ scope'[t].buffer = <<>> /\ scope'[t].queue = <<>> /\ added' = added /\ Kind' = Kind
          /\ scope'[t].pc \in {"body", "unwind", "failed"} /\ scope'[t].pc # "publish"
          /\ scope'[t].pc # "dispatch"
      BY <1>1, <2>2 DEF Went, Ends
    <3>2. /\ ShapeOf(t)' /\ Past(t)' \in Nat /\ Reached(t)' = Past(t)' /\ Past(t) <= Past(t)'
          /\ Past(t)' = Len(added[t])
      BY <1>1, <3>1, ShapeMoves
    <3>3. QED
      BY <1>1, <3>1, <3>2
  <2>3. QED
    BY <2>1, <2>2 DEF Went
<1>3. ASSUME NEW u \in Task, u # t
      PROVE  /\ ShapeOf(u)' /\ Past(u)' = Past(u) /\ Reached(u)' = Reached(u)
             /\ Past(u) \in Nat /\ Reached(u) \in Nat /\ Current(u)' = Current(u)
  <2>1. scope'[u] = scope[u] /\ added'[u] = added[u] /\ Kind' = Kind /\ ShapeOf(u)
    BY <1>3 DEF Went, Shaped
  <2>2. QED
    BY <2>1, SameScope, Numbers
<1>4. Shaped'
  BY <1>2, <1>3 DEF Shaped
<1>5. QED
  BY <1>2, <1>3, <1>4

\* Only the event being dispatched becomes known, and it was not discarded.
LEMMA WentTold ==
    ASSUME Inv, NEW t \in Task, Went(t), \A x \in Known' : x \in Known \/ x = Current(t)
    PROVE  Told' /\ Shaped' /\ Distinct'
<1> USE DEF Inv
<1>1. /\ Shaped'
      /\ \A u \in Task : /\ Past(u)' \in Nat /\ Reached(u)' \in Nat
                         /\ Past(u) <= Past(u)' /\ Reached(u) <= Reached(u)'
                         /\ u # t => Past(u)' = Past(u)
  BY Went1
<1>2. /\ Past(t) \in Nat /\ Reached(t) = Past(t) + 1 /\ Reached(t) \in 1..Len(added[t])
      /\ Current(t) = added[t][Reached(t)]
  BY CurrentIs, Numbers DEF Went, Current
<1>3. /\ added' = added /\ discarded' = discarded /\ published' = published
      /\ broken \subseteq broken' /\ (t \notin broken' => Past(t)' = Past(t))
  <2>1. Goes(t) => Past(t)' = Past(t)
    BY DEF Went, Goes, Past, Pending, Committing
  <2>2. CASE Goes(t)
    BY <2>1, <2>2 DEF Went, Goes
  <2>3. CASE Ends(t)
    BY <2>3 DEF Went, Ends
  <2>4. QED
    BY <2>2, <2>3 DEF Went
<1>4. Current(t) \notin discarded
  <2>1. ~(Reached(t) <= Past(t))
    BY <1>2
  <2>2. QED
    BY <1>2, <2>1, Whose
<1>5. discarded' \cap Known' = {}
  BY <1>3, <1>4 DEF Told
<1>6. ASSUME NEW x \in Known'
      PROVE  x \in Known \/ \E u \in Task : \E k \in 1..Reached(u)' : added[u][k] = x
  <2>1. Reached(t) \in 1..Reached(t)'
    BY <1>1, <1>2
  <2>2. QED
    BY <1>2, <2>1
<1>7. ASSUME NEW u \in Task \ broken', NEW k \in 1..Past(u)', k > Past(u)
      PROVE  added[u][k] \in published' \cup discarded'
  <2>1. Past(u)' = Past(u)
    BY <1>1, <1>3, <1>7
  <2>2. Past(u) \in Nat
    BY <1>1, <2>1
  <2>3. QED
    BY <1>7, <2>1, <2>2
<1>8. Told'
  BY <1>1, <1>3, <1>5, <1>6, <1>7, Ahead
<1>9. QED
  BY <1>1, <1>3, <1>8 DEF Distinct

\* The event that t is dispatching is nobody else's.
LEMMA OneDispatches ==
    ASSUME Inv, NEW t \in Task, NEW u \in Task, u # t,
           scope[t].pc = "dispatch", scope[u].pc = "dispatch"
    PROVE  Current(u) # Current(t)
<1>1. Reached(t) \in 1..Len(added[t]) /\ Reached(u) \in 1..Len(added[u])
  BY CurrentIs
<1>2. QED
  BY <1>1 DEF Current, Distinct, Inv

\* Append adds one element at the end.
LEMMA RangeAppend ==
    ASSUME NEW S, NEW q \in Seq(S), NEW x \in S
    PROVE  /\ Append(q, x) \in Seq(S) /\ Len(q) \in Nat /\ Len(Append(q, x)) = Len(q) + 1
           /\ Append(q, x)[Len(q) + 1] = x /\ \A i \in 1..Len(q) : Append(q, x)[i] = q[i]
           /\ Range(Append(q, x)) = Range(q) \cup {x}
<1>1. /\ Append(q, x) \in Seq(S) /\ Len(q) \in Nat /\ Len(Append(q, x)) = Len(q) + 1
      /\ Append(q, x)[Len(q) + 1] = x /\ \A i \in 1..Len(q) : Append(q, x)[i] = q[i]
  OBVIOUS
<1>2. /\ Range(q) = {q[i] : i \in 1..Len(q)}
      /\ Range(Append(q, x)) = {Append(q, x)[i] : i \in 1..(Len(q) + 1)}
  BY <1>1 DEF Range
<1>3. ASSUME NEW y \in Range(q) PROVE y \in Range(Append(q, x))
  <2>1. PICK i \in 1..Len(q) : y = q[i]
    BY <1>2
  <2>2. i \in 1..(Len(q) + 1) /\ y = Append(q, x)[i]
    BY <1>1, <2>1
  <2>3. QED
    BY <1>2, <2>2
<1>4. x \in Range(Append(q, x))
  <2>1. Len(q) + 1 \in 1..(Len(q) + 1)
    BY <1>1
  <2>2. QED
    BY <1>1, <1>2, <2>1
<1>5. ASSUME NEW y \in Range(Append(q, x)) PROVE y \in Range(q) \/ y = x
  <2>1. PICK i \in 1..(Len(q) + 1) : y = Append(q, x)[i]
    BY <1>2
  <2>2. i \in 1..Len(q) \/ i = Len(q) + 1
    BY <1>1
  <2>3. QED
    BY <1>1, <1>2, <2>1, <2>2
<1>6. QED
  BY <1>1, <1>3, <1>4, <1>5

\* The targets that are left when the first one has been called.
LEMMA Rest ==
    ASSUME NEW S, NEW q \in Seq(S), q # <<>>
    PROVE  /\ Tail(q) \in Seq(S) /\ Head(q) = q[1] /\ Len(q) \in Nat /\ 1 \in 1..Len(q)
           /\ \A i \in 1..Len(Tail(q)) : i + 1 \in 1..Len(q) /\ i + 1 # 1 /\ Tail(q)[i] = q[i + 1]
OBVIOUS

\* on_degraded() counts the event, and shows it or breaks the commit.
LEMMA ContainerCalledInv ==
    ASSUME Inv, NEW t \in Task, Went(t), heard' = heard,
           metrics' = Append(metrics, Current(t)),
           user_visible(Current(t)) =>
               shown' = Append(shown, Current(t)) \/ t \in broken',
           shown' = shown \/ shown' = Append(shown, Current(t))
    PROVE  Inv'
<1> USE DEF Inv
<1>1. /\ Current(t) \in Event /\ Current(t) \in Range(added[t])
      /\ metrics \in Seq(Event) /\ shown \in Seq(Event)
  BY CurrentIs DEF Went, Types
<1>2. /\ metrics' \in Seq(Event) /\ Range(metrics') = Range(metrics) \cup {Current(t)}
      /\ shown' \in Seq(Event) /\ Range(shown) \subseteq Range(shown')
      /\ (shown' = Append(shown, Current(t)) => Current(t) \in Range(shown'))
  <2>1. metrics' \in Seq(Event) /\ Range(metrics') = Range(metrics) \cup {Current(t)}
    BY <1>1, RangeAppend
  <2>2. /\ Append(shown, Current(t)) \in Seq(Event)
        /\ Range(Append(shown, Current(t))) = Range(shown) \cup {Current(t)}
    BY <1>1, RangeAppend
  <2>3. QED
    BY <1>1, <2>1, <2>2
<1>3. Told' /\ Shaped' /\ Distinct'
  <2>1. \A x \in Known' : x \in Known \/ x = Current(t)
    BY <1>2 DEF Known
  <2>2. QED
    BY <2>1, WentTold
<1>4. broken \subseteq broken' /\ broken' \subseteq Task /\ broken \subseteq Task
  BY DEF Went, Goes, Ends, Types
<1>5. Types'
  BY <1>2, <1>4 DEF Types, Went
<1>6. KeyedOnce' /\ SubscribedOnce' /\ InOrder' /\ OperatorFirst'
  <2>1. handlers' = handlers /\ stopped' = stopped /\ added' = added
    BY DEF Went
  <2>2. InOrder'
    BY <2>1 DEF InOrder
  <2>3. QED
    BY <2>1, <2>2 DEF KeyedOnce, SubscribedOnce, OperatorFirst
<1>7. Counted'
  BY <1>2 DEF Went, Counted
<1>8. Shown'
  BY <1>1, <1>2, <1>4 DEF Shown, Went, user_visible
<1>9. ASSUME NEW u \in Task PROVE ToCallOf(u)' /\ (CountOf(u) => CountOf(u)')
  <2>1. CASE u # t
    <3>1. scope'[u] = scope[u] /\ added'[u] = added[u] /\ Kind' = Kind /\ ToCallOf(u)
      BY <2>1 DEF Went, ToCall
    <3>2. QED
      BY <1>2, <3>1, SameScope
  <2>2. CASE u = t /\ Goes(t)
    <3>1. Current(t)' = Current(t)
      BY <2>2, Went1 DEF Goes
    <3>2. CountOf(t)'
      BY <1>2, <3>1 DEF CountOf
    <3>3. scope[t].targets \in Seq(Callee) /\ scope[t].targets # <<>> /\ ToCallOf(t)
      BY DEF Types, Went, Scope, ToCall
    <3>4. ToCallOf(t)'
      <4> DEFINE q == scope[t].targets
      <4>1. scope'[t].targets = Tail(q) /\ scope[t].pc = "dispatch" /\ q \in Seq(Callee) /\ q # <<>>
        BY <2>2, <3>3 DEF Goes, Went
      <4> HIDE DEF q
      <4>2. \A i \in 1..Len(Tail(q)) : i + 1 \in 1..Len(q) /\ Tail(q)[i] = q[i + 1]
        BY <4>1, Rest
      <4>3. ASSUME NEW i \in 1..Len(Tail(q)), Tail(q)[i] \in Handler,
                   NEW k \in 1..Len(heard[Tail(q)[i]])
            PROVE  heard[Tail(q)[i]][k] # Current(t)
        <5>1. i + 1 \in 1..Len(q) /\ Tail(q)[i] = q[i + 1] /\ q[i + 1] \in Handler
          BY <4>2, <4>3
        <5>2. \A m \in 1..Len(heard[q[i + 1]]) : heard[q[i + 1]][m] # Current(t)
          BY <3>3, <4>1, <5>1 DEF ToCallOf, q
        <5>3. QED
          BY <5>1, <5>2
      <4>4. ASSUME NEW i \in 1..Len(Tail(q)), Tail(q)[i] \in Handler,
                   NEW j \in 1..Len(Tail(q)), Tail(q)[j] = Tail(q)[i]
            PROVE  j = i
        <5>1. /\ i + 1 \in 1..Len(q) /\ Tail(q)[i] = q[i + 1]
              /\ j + 1 \in 1..Len(q) /\ Tail(q)[j] = q[j + 1]
          BY <4>2
        <5>2. j + 1 = i + 1
          BY <3>3, <4>1, <4>4, <5>1 DEF ToCallOf, q
        <5>3. QED
          BY <5>2
      <4>5. QED
        BY <3>1, <4>1, <4>3, <4>4 DEF ToCallOf
    <3>5. QED
      BY <2>2, <3>2, <3>4
  <2>3. CASE u = t /\ Ends(t)
    BY <2>3 DEF Ends, ToCallOf, CountOf
  <2>4. QED
    BY <2>1, <2>2, <2>3 DEF Went
<1>10. ToCall' /\ Counting'
  BY <1>9 DEF ToCall, Counting, Went
<1>11. QED
  BY <1>3, <1>5, <1>6, <1>7, <1>8, <1>10

\* A handler hears the event, after those of the scope that it heard before.
LEMMA HandlerCalledInv ==
    ASSUME Inv, NEW t \in Task, Went(t), UNCHANGED <<metrics, shown>>,
           NEW h \in Handler, scope[t].targets[1] = h, h # OnDegraded,
           heard' = [heard EXCEPT ![h] = Append(@, Current(t))]
    PROVE  Inv'
<1> USE DEF Inv
<1>1. /\ Current(t) \in Event /\ Current(t) \in Range(added[t])
      /\ Reached(t) \in 1..Len(added[t]) /\ scope[t].pc = "dispatch"
      /\ heard \in [Handler -> Seq(Event)] /\ heard[h] \in Seq(Event)
      /\ Len(added[t]) \in Nat /\ Current(t) = added[t][Reached(t)]
  BY CurrentIs, Numbers DEF Went, Types, Current
<1>2. /\ heard' \in [Handler -> Seq(Event)] /\ heard'[h] = Append(heard[h], Current(t))
      /\ \A g \in Handler \ {h} : heard'[g] = heard[g]
  BY <1>1, RangeAppend
<1> DEFINE n == Len(heard[h])
<1>3. /\ n \in Nat /\ Len(heard'[h]) = n + 1 /\ heard'[h][n + 1] = Current(t)
      /\ \A i \in 1..n : heard'[h][i] = heard[h][i]
      /\ Range(heard'[h]) = Range(heard[h]) \cup {Current(t)}
  BY <1>1, <1>2, RangeAppend
<1>4. Told' /\ Shaped' /\ Distinct'
  <2>1. ASSUME NEW x \in Known' PROVE x \in Known \/ x = Current(t)
    <3>1. x \in Range(metrics) \/ \E g \in Handler : x \in Range(heard'[g])
      BY DEF Known
    <3>2. ASSUME NEW g \in Handler, x \in Range(heard'[g])
          PROVE  x \in Range(heard[g]) \/ x = Current(t)
      BY <1>2, <1>3, <3>2
    <3>3. QED
      BY <3>1, <3>2 DEF Known
  <2>2. QED
    BY <2>1, WentTold
<1>5. broken \subseteq broken' /\ broken' \subseteq Task /\ broken \subseteq Task
  BY DEF Went, Goes, Ends, Types
<1>6. Types'
  BY <1>2, <1>5 DEF Types, Went
<1>7. KeyedOnce' /\ SubscribedOnce' /\ OperatorFirst'
  BY DEF Went, KeyedOnce, SubscribedOnce, OperatorFirst
<1>8. Shown'
  BY <1>5 DEF Shown, Went, user_visible
<1>9. Counted'
  <2>1. ~stopped /\ EventType[Current(t)] = Degraded => Current(t) \in Range(metrics)
    BY <1>1 DEF Counting, CountOf, Went
  <2>2. ASSUME NEW g \in Handler, NEW x \in Range(heard'[g])
        PROVE  x \in Range(heard[g]) \/ x = Current(t)
    BY <1>2, <1>3
  <2>3. stopped' = stopped
    BY DEF Went
  <2>4. QED
    BY <2>1, <2>2, <2>3 DEF Counted
<1>10. \A i \in 1..Len(scope[t].targets) : scope[t].targets[i] = h => i = 1
  <2>1. scope[t].targets \in Seq(Callee) /\ scope[t].targets # <<>> /\ ToCallOf(t)
    BY DEF Types, Went, Scope, ToCall
  <2>2. 1 \in 1..Len(scope[t].targets)
    BY <2>1
  <2>3. QED
    BY <1>1, <2>1, <2>2 DEF ToCallOf
<1>11. \A k \in 1..n : heard[h][k] # Current(t)
  <2>1. scope[t].targets \in Seq(Callee) /\ scope[t].targets # <<>> /\ ToCallOf(t)
    BY DEF Types, Went, Scope, ToCall
  <2>2. 1 \in 1..Len(scope[t].targets)
    BY <2>1
  <2>3. QED
    BY <1>1, <2>1, <2>2 DEF ToCallOf
<1>12. ASSUME NEW g \in Handler, NEW k \in 1..Len(heard'[g])
       PROVE  \/ k \in 1..Len(heard[g]) /\ heard'[g][k] = heard[g][k]
              \/ g = h /\ k = n + 1 /\ heard'[g][k] = Current(t)
  BY <1>2, <1>3
<1> HIDE DEF n
<1>13. InOrder'
  <2>1. ASSUME NEW g \in Handler, NEW u \in Task PROVE OrderOf(heard'[g], added[u])
    <3> SUFFICES ASSUME NEW i \in 1..Len(heard'[g]), NEW j \in 1..Len(heard'[g]),
                        NEW k \in 1..Len(added[u]), NEW l \in 1..Len(added[u]),
                        i < j, heard'[g][i] = added[u][k], heard'[g][j] = added[u][l]
                 PROVE  k < l
      BY DEF OrderOf
    <3>1. CASE j \in 1..Len(heard[g]) /\ heard'[g][j] = heard[g][j]
      <4>1. i \in 1..Len(heard[g]) /\ heard'[g][i] = heard[g][i]
        BY <1>1, <1>3, <1>12, <2>1, <3>1 DEF n
      <4>2. QED
        <5>1. OrderOf(heard[g], added[u])
          BY DEF InOrder
        <5>2. QED
          BY <2>1, <3>1, <4>1, <5>1 DEF OrderOf
    <3>2. CASE g = h /\ j = n + 1 /\ heard'[g][j] = Current(t)
      <4>1. i \in 1..Len(heard[h]) /\ heard'[h][i] = heard[h][i]
        BY <1>3, <1>12, <2>1, <3>2
      <4>2. u = t /\ l = Reached(t)
        <5>1. added[u][l] = added[t][Reached(t)]
          BY <1>1, <3>2
        <5>2. QED
          BY <1>1, <5>1 DEF Distinct
      <4>3. added[t][k] = heard[h][i]
        BY <2>1, <3>2, <4>1, <4>2
      <4>4. k <= Reached(t)
        <5>1. heard[h][i] \in Known
          BY <4>1, HeardIsKnown
        <5>2. k \in 1..Len(added[t])
          BY <4>2
        <5>3. QED
          BY <4>3, <5>1, <5>2, Whose
      <4>5. k # Reached(t)
        BY <1>1, <1>11, <4>1, <4>3 DEF n
      <4>6. QED
        BY <1>1, <4>2, <4>4, <4>5
    <3>3. QED
      BY <1>12, <3>1, <3>2
  <2>2. added' = added
    BY DEF Went
  <2>3. QED
    BY <2>1, <2>2 DEF InOrder
<1>14. ASSUME NEW u \in Task, scope'[u].pc = "dispatch"
       PROVE  scope[u].pc = "dispatch" /\ Current(u)' = Current(u) /\ (u # t => scope'[u] = scope[u])
  <2>1. Current(u)' = Current(u)
    BY <1>14, Went1
  <2>2. QED
    BY <1>1, <1>14, <2>1 DEF Went
<1>15. ASSUME NEW u \in Task PROVE ToCallOf(u)'
  <2> SUFFICES ASSUME scope'[u].pc = "dispatch" PROVE ToCallOf(u)'
    BY DEF ToCallOf
  <2>1. scope[u].pc = "dispatch" /\ Current(u)' = Current(u) /\ ToCallOf(u)
    BY <1>14 DEF ToCall
  <2>2. CASE u # t
    <3>1. scope'[u] = scope[u] /\ Current(u) # Current(t)
      BY <1>1, <1>14, <2>1, <2>2, OneDispatches
    <3>2. ASSUME NEW i \in 1..Len(scope[u].targets), scope[u].targets[i] \in Handler,
                 NEW k \in 1..Len(heard'[scope[u].targets[i]])
          PROVE  heard'[scope[u].targets[i]][k] # Current(u)
      BY <1>12, <2>1, <3>1, <3>2 DEF ToCallOf
    <3>3. ASSUME NEW i \in 1..Len(scope[u].targets), scope[u].targets[i] \in Handler,
                 NEW j \in 1..Len(scope[u].targets), scope[u].targets[j] = scope[u].targets[i]
          PROVE  j = i
      BY <2>1, <3>3 DEF ToCallOf
    <3>4. QED
      BY <2>1, <3>1, <3>2, <3>3 DEF ToCallOf
  <2>3. CASE u = t
    <3> DEFINE q == scope[t].targets
    <3>1. q \in Seq(Callee) /\ q # <<>>
      BY DEF Types, Went, Scope
    <3>2. scope'[t].targets = Tail(q)
      BY <2>3 DEF Went, Goes, Ends
    <3> HIDE DEF q
    <3>3. \A i \in 1..Len(Tail(q)) : i + 1 \in 1..Len(q) /\ i + 1 # 1 /\ Tail(q)[i] = q[i + 1]
      BY <3>1, Rest
    <3>4. ASSUME NEW i \in 1..Len(Tail(q)), Tail(q)[i] \in Handler,
                 NEW k \in 1..Len(heard'[Tail(q)[i]])
          PROVE  heard'[Tail(q)[i]][k] # Current(t)
      <4>1. i + 1 \in 1..Len(q) /\ i + 1 # 1 /\ Tail(q)[i] = q[i + 1]
        BY <3>3
      <4>2. Tail(q)[i] # h
        BY <1>10, <4>1 DEF q
      <4>3. heard'[Tail(q)[i]] = heard[Tail(q)[i]]
        BY <1>2, <3>4, <4>2
      <4>4. QED
        BY <2>1, <2>3, <3>4, <4>1, <4>3 DEF ToCallOf, q
    <3>5. ASSUME NEW i \in 1..Len(Tail(q)), Tail(q)[i] \in Handler,
                 NEW j \in 1..Len(Tail(q)), Tail(q)[j] = Tail(q)[i]
          PROVE  j = i
      <4>1. /\ i + 1 \in 1..Len(q) /\ Tail(q)[i] = q[i + 1]
            /\ j + 1 \in 1..Len(q) /\ Tail(q)[j] = q[j + 1]
        BY <3>3
      <4>2. j + 1 = i + 1
        BY <2>1, <2>3, <3>5, <4>1 DEF ToCallOf, q
      <4>3. QED
        BY <4>2
    <3>6. QED
      BY <2>1, <2>3, <3>2, <3>4, <3>5 DEF ToCallOf
  <2>4. QED
    BY <2>2, <2>3
<1>16. Counting'
  <2> SUFFICES ASSUME ~stopped, NEW u \in Task, scope'[u].pc = "dispatch" PROVE CountOf(u)'
    BY DEF Counting, CountOf, Went
  <2>1. scope[u].pc = "dispatch" /\ Current(u)' = Current(u) /\ CountOf(u)
    BY <1>14 DEF Counting
  <2>2. CASE u # t
    BY <1>14, <2>1, <2>2 DEF CountOf
  <2>3. CASE u = t
    <3>1. scope[t].targets[1] # OnDegraded
      OBVIOUS
    <3>2. QED
      BY <2>1, <2>3, <3>1 DEF CountOf
  <2>4. QED
    BY <2>2, <2>3
<1>17. ToCall'
  BY <1>15 DEF ToCall
<1>18. QED
  BY <1>4, <1>6, <1>7, <1>8, <1>9, <1>13, <1>16, <1>17

\* A step of the bus or of the container: no scope takes part in it.
LEMMA BusInv ==
    ASSUME Inv, handlers' \in Seq(Key), KeyedOnce', SubscribedOnce', OperatorFirst',
           stopped' \in BOOLEAN, stopped => stopped',
           UNCHANGED <<Kind, sinks, scope, history>>
    PROVE  Inv'
<1> USE DEF Inv, sinks, history
<1>1. ASSUME NEW u \in Task
      PROVE  /\ Past(u)' = Past(u) /\ Reached(u)' = Reached(u)
             /\ ShapeOf(u)' /\ ToCallOf(u)' /\ (CountOf(u) => CountOf(u)')
  <2>1. ShapeOf(u) /\ ToCallOf(u)
    BY DEF Shaped, ToCall
  <2>2. QED
    BY <2>1, SameScope
<1>2. Types' /\ Known' = Known
  BY DEF Types, Known
<1>3. Distinct' /\ InOrder' /\ Counted' /\ Shown'
  BY DEF Distinct, InOrder, Counted, Shown, user_visible
<1>4. Told'
  BY <1>1, <1>2 DEF Told
<1>5. Shaped' /\ ToCall' /\ Counting'
  BY <1>1 DEF Shaped, ToCall, Counting
<1>6. QED
  BY <1>2, <1>3, <1>4, <1>5

\* The keys of the bus are typed one by one.
LEMMA Keys ==
    ASSUME Types
    PROVE  /\ Len(handlers) \in Nat
           /\ \A i \in 1..Len(handlers) : /\ handlers[i] \in Key
                                          /\ handlers[i].type \in {Base, Degraded}
                                          /\ handlers[i].list \in Seq(Callee)
                                          /\ Len(handlers[i].list) \in Nat
<1>1. handlers \in Seq(Key)
  BY DEF Types
<1>2. ASSUME NEW i \in 1..Len(handlers)
      PROVE  /\ handlers[i] \in Key /\ handlers[i].type \in {Base, Degraded}
             /\ handlers[i].list \in Seq(Callee) /\ Len(handlers[i].list) \in Nat
  <2>1. handlers[i] \in Key
    BY <1>1
  <2>2. handlers[i].type \in {Base, Degraded} /\ handlers[i].list \in Seq(Callee)
    BY <2>1 DEF Key
  <2>3. QED
    BY <2>1, <2>2
<1>3. QED
  BY <1>1, <1>2

\* subscribe() adds a handler that is not subscribed, at the end of one list.
LEMMA SubscribeInv ==
    ASSUME Inv, NEW type \in {Base, Degraded}, NEW h \in Handler, subscribe(type, h)
    PROVE  Inv'
<1> USE DEF Inv
<1> DEFINE n == Len(handlers)
<1>1. /\ n \in Nat /\ handlers \in Seq(Key)
      /\ \A i \in 1..n : /\ handlers[i] \in Key
                         /\ handlers[i].type \in {Base, Degraded}
                         /\ handlers[i].list \in Seq(Callee)
                         /\ Len(handlers[i].list) \in Nat
  BY Keys DEF Types
<1>2. \A i \in 1..n : \A k \in 1..Len(handlers[i].list) : handlers[i].list[k] # h
  <2>1. ASSUME NEW i \in 1..n, NEW k \in 1..Len(handlers[i].list), handlers[i].list[k] = h PROVE FALSE
    <3>1. handlers[i].list \in Seq(Callee)
      BY <1>1
    <3>2. h \in Range(handlers[i].list)
      BY <2>1, <3>1 DEF Range
    <3>3. QED
      BY <3>2 DEF subscribe, Subscribed
  <2>2. QED
    BY <2>1
<1>3. h \in Callee
  BY DEF Callee
<1>4. UNCHANGED <<Kind, sinks, scope, history>> /\ stopped' = stopped /\ stopped \in BOOLEAN
  BY DEF subscribe, Types
<1>5. CASE KeyOf(type) = {}
  <2> DEFINE new == [type |-> type, list |-> <<h>>]
  <2>1. handlers' = Append(handlers, new)
    BY <1>5 DEF subscribe
  <2>2. new \in Key /\ new.type = type /\ new.list = <<h>>
    BY <1>3 DEF Key
  <2> HIDE DEF new
  <2>3. /\ handlers' \in Seq(Key) /\ Len(handlers') = n + 1 /\ handlers'[n + 1] = new
        /\ \A i \in 1..n : handlers'[i] = handlers[i]
    BY <1>1, <2>1, <2>2
  <2>4. \A i \in 1..n : handlers[i].type # type
    BY <1>5 DEF KeyOf
  <2>5. \A i \in 1..(n + 1) : i \in 1..n \/ i = n + 1
    BY <1>1
  <2>6. KeyedOnce'
    BY <2>2, <2>3, <2>4, <2>5 DEF KeyedOnce
  <2>7. Len(new.list) = 1 /\ new.list[1] = h
    BY <2>2
  <2>8. SubscribedOnce'
    <3> SUFFICES ASSUME NEW g \in Handler PROVE ListedOnce(handlers', g)
      BY DEF SubscribedOnce
    <3> SUFFICES ASSUME NEW i \in 1..(n + 1), NEW j \in 1..(n + 1),
                        NEW k \in 1..Len(handlers'[i].list), NEW l \in 1..Len(handlers'[j].list),
                        handlers'[i].list[k] = g, handlers'[j].list[l] = g
                 PROVE  i = j /\ k = l
      BY <2>3 DEF ListedOnce
    <3>1. CASE i \in 1..n /\ j \in 1..n
      BY <2>3, <3>1 DEF SubscribedOnce, ListedOnce
    <3>2. CASE i = n + 1 /\ j = n + 1
      BY <2>3, <2>7, <3>2
    <3>3. CASE i \in 1..n /\ j = n + 1
      BY <1>2, <2>3, <2>7, <3>3
    <3>4. CASE i = n + 1 /\ j \in 1..n
      BY <1>2, <2>3, <2>7, <3>4
    <3>5. QED
      BY <2>5, <3>1, <3>2, <3>3, <3>4
  <2>9. OperatorFirst'
    <3>1. ~stopped => n > 0 /\ 1 \in 1..n
      BY <1>1 DEF OperatorFirst
    <3>2. QED
      BY <1>1, <1>4, <2>3, <3>1 DEF OperatorFirst
  <2>10. QED
    BY <1>4, <2>3, <2>6, <2>8, <2>9, BusInv
<1>6. CASE KeyOf(type) # {}
  <2>1. handlers' = [i \in 1..n |-> IF i \in KeyOf(type)
                                    THEN [handlers[i] EXCEPT !.list = Append(@, h)]
                                    ELSE handlers[i]]
    BY <1>6 DEF subscribe
  <2>2. ASSUME NEW i \in 1..n
        PROVE  /\ handlers'[i] \in Key /\ handlers'[i].type = handlers[i].type
               /\ (handlers[i].type # type => handlers'[i] = handlers[i])
               /\ (handlers[i].type = type => handlers'[i].list = Append(handlers[i].list, h))
    <3>1. handlers[i] \in Key /\ Append(handlers[i].list, h) \in Seq(Callee)
      BY <1>1, <1>3
    <3>2. CASE handlers[i].type = type
      <4>1. handlers'[i] = [handlers[i] EXCEPT !.list = Append(handlers[i].list, h)]
        BY <2>1, <3>2 DEF KeyOf
      <4>2. QED
        BY <3>1, <3>2, <4>1 DEF Key
    <3>3. CASE handlers[i].type # type
      <4>1. handlers'[i] = handlers[i]
        BY <2>1, <3>3 DEF KeyOf
      <4>2. QED
        BY <3>1, <3>3, <4>1
    <3>4. QED
      BY <3>2, <3>3
  <2>3. handlers' \in Seq(Key) /\ Len(handlers') = n
    <3>1. handlers' \in [1..n -> Key]
      <4>1. DOMAIN handlers' = 1..n /\ handlers' = [i \in 1..n |-> handlers'[i]]
        BY <2>1
      <4>2. QED
        BY <2>2, <4>1
    <3>2. QED
      BY <1>1, <3>1
  <2>4. ASSUME NEW i \in 1..n, NEW k \in 1..Len(handlers'[i].list)
        PROVE  \/ k \in 1..Len(handlers[i].list) /\ handlers'[i].list[k] = handlers[i].list[k]
               \/ /\ handlers[i].type = type /\ k = Len(handlers[i].list) + 1
                  /\ handlers'[i].list[k] = h
    <3>1. CASE handlers[i].type # type
      BY <2>2, <3>1
    <3>2. CASE handlers[i].type = type
      <4> DEFINE q == handlers[i].list
      <4>1. q \in Seq(Callee) /\ handlers'[i].list = Append(q, h)
        BY <1>1, <2>2, <3>2
      <4>2. k \in 1..Len(Append(q, h))
        BY <4>1
      <4> HIDE DEF q
      <4>3. \/ k \in 1..Len(q) /\ Append(q, h)[k] = q[k]
            \/ k = Len(q) + 1 /\ Append(q, h)[k] = h
        BY <1>3, <4>1, <4>2, RangeAppend
      <4>4. QED
        BY <3>2, <4>1, <4>3 DEF q
    <3>3. QED
      BY <3>1, <3>2
  <2>5. KeyedOnce'
    BY <2>2, <2>3 DEF KeyedOnce
  <2>6. SubscribedOnce'
    <3> SUFFICES ASSUME NEW g \in Handler PROVE ListedOnce(handlers', g)
      BY DEF SubscribedOnce
    <3> SUFFICES ASSUME NEW i \in 1..n, NEW j \in 1..n,
                        NEW k \in 1..Len(handlers'[i].list), NEW l \in 1..Len(handlers'[j].list),
                        handlers'[i].list[k] = g, handlers'[j].list[l] = g
                 PROVE  i = j /\ k = l
      BY <2>3 DEF ListedOnce
    <3>1. \/ k \in 1..Len(handlers[i].list) /\ handlers'[i].list[k] = handlers[i].list[k]
          \/ /\ handlers[i].type = type /\ k = Len(handlers[i].list) + 1
             /\ handlers'[i].list[k] = h
      BY <2>4
    <3>2. \/ l \in 1..Len(handlers[j].list) /\ handlers'[j].list[l] = handlers[j].list[l]
          \/ /\ handlers[j].type = type /\ l = Len(handlers[j].list) + 1
             /\ handlers'[j].list[l] = h
      BY <2>4
    <3>3. CASE g = h
      <4>1. /\ handlers[i].type = type /\ k = Len(handlers[i].list) + 1
            /\ handlers[j].type = type /\ l = Len(handlers[j].list) + 1
        BY <1>2, <3>1, <3>2, <3>3
      <4>2. i = j
        BY <4>1 DEF KeyedOnce
      <4>3. QED
        BY <4>1, <4>2
    <3>4. CASE g # h
      <4>1. /\ k \in 1..Len(handlers[i].list) /\ handlers[i].list[k] = g
            /\ l \in 1..Len(handlers[j].list) /\ handlers[j].list[l] = g
        BY <3>1, <3>2, <3>4
      <4>2. QED
        BY <4>1 DEF SubscribedOnce, ListedOnce
    <3>5. QED
      BY <3>3, <3>4
  <2>7. OperatorFirst'
    <3> SUFFICES ASSUME ~stopped
                 PROVE  /\ Len(handlers') > 0 /\ handlers'[1].type = Degraded
                        /\ Len(handlers'[1].list) > 0 /\ handlers'[1].list[1] = OnDegraded
      BY <1>4 DEF OperatorFirst
    <3>1. /\ 1 \in 1..n /\ handlers[1].type = Degraded
          /\ Len(handlers[1].list) > 0 /\ handlers[1].list[1] = OnDegraded
          /\ handlers[1].list \in Seq(Callee)
      BY <1>1 DEF OperatorFirst
    <3>2. handlers'[1].list = handlers[1].list \/ handlers'[1].list = Append(handlers[1].list, h)
      BY <2>2, <3>1
    <3>3. Len(handlers'[1].list) > 0 /\ handlers'[1].list[1] = OnDegraded
      <4> DEFINE q == handlers[1].list
      <4>1. q \in Seq(Callee) /\ Len(q) > 0 /\ q[1] = OnDegraded
        BY <3>1
      <4>2. handlers'[1].list = q \/ handlers'[1].list = Append(q, h)
        BY <3>2
      <4> HIDE DEF q
      <4>3. Len(Append(q, h)) > 0 /\ Append(q, h)[1] = OnDegraded
        BY <1>3, <4>1
      <4>4. QED
        BY <4>1, <4>2, <4>3
    <3>4. QED
      BY <1>1, <2>2, <2>3, <3>1, <3>3
  <2>8. QED
    BY <1>4, <2>3, <2>5, <2>6, <2>7, BusInv
<1>7. QED
  BY <1>5, <1>6

\* RemoveAt moves up what comes after the position.
LEMMA RemoveAtIs ==
    ASSUME NEW S, NEW q \in Seq(S), NEW k \in 1..Len(q)
    PROVE  /\ RemoveAt(q, k) \in Seq(S) /\ Len(RemoveAt(q, k)) = Len(q) - 1
           /\ \A j \in 1..(Len(q) - 1) :
                  RemoveAt(q, k)[j] = IF j < k THEN q[j] ELSE q[j + 1]
<1> DEFINE p == SubSeq(q, 1, k - 1)
           r == SubSeq(q, k + 1, Len(q))
<1>1. /\ p \in Seq(S) /\ Len(p) = k - 1 /\ \A j \in 1..(k - 1) : p[j] = q[j]
  OBVIOUS
<1>2. /\ r \in Seq(S) /\ Len(r) = Len(q) - k /\ \A j \in 1..(Len(q) - k) : r[j] = q[k + j]
  OBVIOUS
<1>3. RemoveAt(q, k) = p \o r
  BY DEF RemoveAt
<1>4. Len(q) \in Nat /\ k \in Nat /\ k >= 1 /\ k <= Len(q)
  OBVIOUS
<1> HIDE DEF p, r
<1>5. /\ p \o r \in Seq(S) /\ Len(p \o r) = Len(p) + Len(r)
      /\ \A a \in 1..Len(p) : (p \o r)[a] = p[a]
      /\ \A a \in 1..(Len(p) + Len(r)) : a > Len(p) =>
             a - Len(p) \in 1..Len(r) /\ (p \o r)[a] = r[a - Len(p)]
  BY <1>1, <1>2, Concat
<1>6. ASSUME NEW j \in 1..(Len(q) - 1)
      PROVE  (p \o r)[j] = IF j < k THEN q[j] ELSE q[j + 1]
  <2>1. CASE j < k
    <3>1. j \in 1..Len(p) /\ j \in 1..(k - 1)
      BY <1>1, <1>4, <2>1
    <3>2. QED
      BY <1>1, <1>5, <2>1, <3>1
  <2>2. CASE ~(j < k)
    <3>1. /\ j \in 1..(Len(p) + Len(r)) /\ j > Len(p) /\ j - Len(p) \in 1..(Len(q) - k)
          /\ k + (j - Len(p)) = j + 1
      BY <1>1, <1>2, <1>4, <2>2
    <3>2. (p \o r)[j] = r[j - Len(p)] /\ r[j - Len(p)] = q[k + (j - Len(p))]
      BY <1>2, <1>5, <3>1
    <3>3. QED
      BY <2>2, <3>1, <3>2
  <2>3. QED
    BY <2>1, <2>2
<1>7. Len(p) + Len(r) = Len(q) - 1
  BY <1>1, <1>2, <1>4
<1>8. QED
  BY <1>3, <1>5, <1>6, <1>7

\* unsubscribe() removes it again, and never the container.
LEMMA UnsubscribeInv ==
    ASSUME Inv, NEW h \in Handler, unsubscribe(h)
    PROVE  Inv'
<1> USE DEF Inv
<1> DEFINE n == Len(handlers)
<1>1. /\ n \in Nat /\ handlers \in Seq(Key)
      /\ \A i \in 1..n : /\ handlers[i] \in Key
                         /\ handlers[i].type \in {Base, Degraded}
                         /\ handlers[i].list \in Seq(Callee)
                         /\ Len(handlers[i].list) \in Nat
  BY Keys DEF Types
<1>2. UNCHANGED <<Kind, sinks, scope, history>> /\ stopped' = stopped /\ stopped \in BOOLEAN
  BY DEF unsubscribe, Types
<1>3. PICK a \in 1..n : \E k \in 1..Len(handlers[a].list) :
          /\ handlers[a].list[k] = h
          /\ handlers' = [handlers EXCEPT ![a].list = RemoveAt(@, k)]
  BY DEF unsubscribe
<1>4. PICK b \in 1..Len(handlers[a].list) :
          /\ handlers[a].list[b] = h
          /\ handlers' = [handlers EXCEPT ![a].list = RemoveAt(@, b)]
  BY <1>3
<1> DEFINE q == handlers[a].list
           new == [handlers[a] EXCEPT !.list = RemoveAt(q, b)]
<1>5. q \in Seq(Callee) /\ b \in 1..Len(q) /\ q[b] = h /\ handlers[a] \in Key
  BY <1>1, <1>4
<1>6. handlers' = [handlers EXCEPT ![a] = new]
  BY <1>4
<1>7. /\ RemoveAt(q, b) \in Seq(Callee) /\ Len(RemoveAt(q, b)) = Len(q) - 1
      /\ \A j \in 1..(Len(q) - 1) : RemoveAt(q, b)[j] = IF j < b THEN q[j] ELSE q[j + 1]
  <2> HIDE DEF q
  <2>1. QED
    BY <1>5, RemoveAtIs
<1>8. new \in Key /\ new.type = handlers[a].type /\ new.list = RemoveAt(q, b)
  BY <1>5, <1>7 DEF Key
<1> HIDE DEF new
<1>9. /\ handlers' \in Seq(Key) /\ Len(handlers') = n /\ handlers'[a] = new
      /\ \A i \in 1..n : i # a => handlers'[i] = handlers[i]
  BY <1>1, <1>3, <1>6, <1>8
<1>10. \A i \in 1..n : handlers'[i].type = handlers[i].type
  BY <1>8, <1>9
<1>11. KeyedOnce'
  BY <1>9, <1>10 DEF KeyedOnce
<1> HIDE DEF q
<1> DEFINE Old(i, k) == IF i = a /\ ~(k < b) THEN k + 1 ELSE k
<1>12. ASSUME NEW i \in 1..n, NEW k \in 1..Len(handlers'[i].list)
       PROVE  /\ k \in Nat /\ Old(i, k) \in 1..Len(handlers[i].list)
              /\ handlers'[i].list[k] = handlers[i].list[Old(i, k)]
  <2>1. CASE i # a
    BY <1>1, <1>9, <2>1
  <2>2. CASE i = a
    <3>1. handlers'[i].list = RemoveAt(q, b) /\ handlers[i].list = q /\ Len(q) \in Nat
      BY <1>5, <1>8, <1>9, <2>2 DEF q
    <3>2. k \in 1..(Len(q) - 1) /\ RemoveAt(q, b)[k] = IF k < b THEN q[k] ELSE q[k + 1]
      BY <1>7, <3>1
    <3>3. QED
      BY <1>5, <2>2, <3>1, <3>2
  <2>3. QED
    BY <2>1, <2>2
<1>13. SubscribedOnce'
  <2> SUFFICES ASSUME NEW g \in Handler PROVE ListedOnce(handlers', g)
    BY DEF SubscribedOnce
  <2> SUFFICES ASSUME NEW i \in 1..n, NEW j \in 1..n,
                      NEW k \in 1..Len(handlers'[i].list), NEW l \in 1..Len(handlers'[j].list),
                      handlers'[i].list[k] = g, handlers'[j].list[l] = g
               PROVE  i = j /\ k = l
    BY <1>9 DEF ListedOnce
  <2>1. /\ k \in Nat /\ Old(i, k) \in 1..Len(handlers[i].list) /\ handlers[i].list[Old(i, k)] = g
        /\ l \in Nat /\ Old(j, l) \in 1..Len(handlers[j].list) /\ handlers[j].list[Old(j, l)] = g
    BY <1>12
  <2> HIDE DEF Old
  <2>2. i = j /\ Old(i, k) = Old(j, l)
    <3>1. \A x, y \in 1..n : \A p \in 1..Len(handlers[x].list) : \A r \in 1..Len(handlers[y].list) :
            handlers[x].list[p] = g /\ handlers[y].list[r] = g => x = y /\ p = r
      BY DEF SubscribedOnce, ListedOnce
    <3>2. \A p \in 1..Len(handlers[i].list) : \A r \in 1..Len(handlers[j].list) :
            handlers[i].list[p] = g /\ handlers[j].list[r] = g => i = j /\ p = r
      BY <3>1
    <3> DEFINE one   == Old(i, k)
               other == Old(j, l)
    <3>3. /\ one \in 1..Len(handlers[i].list) /\ handlers[i].list[one] = g
          /\ other \in 1..Len(handlers[j].list) /\ handlers[j].list[other] = g
      BY <2>1
    <3> HIDE DEF one, other
    <3>4. i = j /\ one = other
      BY <3>2, <3>3, Zenon
    <3>5. QED
      BY <3>4 DEF one, other
  <2>3. b \in Nat
    BY <1>5
  <2>4. QED
    BY <2>1, <2>2, <2>3 DEF Old
<1>14. OperatorFirst'
  <2> SUFFICES ASSUME ~stopped
               PROVE  /\ Len(handlers') > 0 /\ handlers'[1].type = Degraded
                      /\ Len(handlers'[1].list) > 0 /\ handlers'[1].list[1] = OnDegraded
    BY <1>2 DEF OperatorFirst
  <2>1. /\ 1 \in 1..n /\ handlers[1].type = Degraded
        /\ Len(handlers[1].list) > 0 /\ handlers[1].list[1] = OnDegraded
    BY <1>1 DEF OperatorFirst
  <2>2. a # 1 => handlers'[1].list = handlers[1].list
    BY <1>9, <2>1
  <2>3. ASSUME a = 1 PROVE Len(RemoveAt(q, b)) > 0 /\ RemoveAt(q, b)[1] = OnDegraded
    <3>1. q[1] = OnDegraded /\ h # OnDegraded
      BY <2>1, <2>3, HandlerAssumption DEF q, OnDegraded
    <3>2. b # 1 /\ b \in 1..Len(q) /\ Len(q) \in Nat
      BY <1>5, <3>1
    <3>3. 1 \in 1..(Len(q) - 1) /\ 1 < b
      BY <3>2
    <3>4. QED
      BY <1>7, <3>1, <3>2, <3>3
  <2>4. QED
    BY <1>1, <1>8, <1>9, <1>10, <2>1, <2>2, <2>3
<1>15. QED
  BY <1>2, <1>9, <1>11, <1>13, <1>14, BusInv

\* The step of dispatch() that calls the container, and the one that calls a
\* subscriber.
LEMMA DispatchInv ==
    ASSUME Inv, NEW t \in Task, dispatch(t)
    PROVE  Inv'
<1> USE DEF Inv
<1> DEFINE e == Head(scope[t].queue)
           h == Head(scope[t].targets)
           On == Called(t)
<1>1. /\ scope \in [Task -> Scope] /\ scope[t] \in Scope /\ scope[t].pc = "dispatch"
      /\ scope[t].targets # <<>> /\ scope[t].targets \in Seq(Callee)
  BY DEF Types, dispatch, At, Scope
<1>2. e = Current(t)
  BY <1>1, CurrentIs
<1>3. /\ Tail(scope[t].targets) \in Seq(Callee) /\ h = scope[t].targets[1] /\ h \in Callee
  BY <1>1
<1>4. /\ On \in Scope /\ On.pc = "dispatch" /\ On.queue = scope[t].queue
      /\ On.buffer = scope[t].buffer /\ On.targets = Tail(scope[t].targets)
  BY <1>1, <1>3 DEF Scope, Called
<1>5. /\ Abort(t) \in Scope /\ Abort(t).pc \in {"failed", "unwind"} /\ Abort(t).queue = <<>>
      /\ Abort(t).buffer = scope[t].buffer
  <2>1. Raised(t) \in {"failed", "unwind"}
    <3>1. Kind[t] = "memory" \/ Kind[t] # "memory"
      OBVIOUS
    <3>2. scope[t].exit \in BOOLEAN
      BY <1>1 DEF Scope
    <3>3. QED
      BY <3>1, <3>2 DEF Raised
  <2>2. PICK r : r = Raised(t)
    OBVIOUS
  <2>3. r \in PcSet
    BY <2>1, <2>2 DEF PcSet
  <2>4. Abort(t) = [scope[t] EXCEPT !.pc = r, !.queue = <<>>, !.targets = <<>>]
    BY <2>2 DEF Abort
  <2>5. <<>> \in Seq(Event) /\ <<>> \in Seq(Callee)
    OBVIOUS
  <2>6. Abort(t) \in Scope
    BY <1>1, <2>3, <2>4, <2>5 DEF Scope
  <2>7. Abort(t).pc = r /\ Abort(t).queue = <<>> /\ Abort(t).buffer = scope[t].buffer
    BY <1>1, <2>4 DEF Scope
  <2>8. QED
    BY <2>1, <2>2, <2>6, <2>7
<1>6. UNCHANGED <<Kind, handlers, stopped, added, discarded, published>>
  BY DEF dispatch, bus
<1> HIDE DEF On
<1>7. ASSUME \/ scope' = [scope EXCEPT ![t] = On] /\ broken' = broken
             \/ scope' = [scope EXCEPT ![t] = Abort(t)] /\ broken' = broken \cup {t}
      PROVE  Went(t)
  <2>1. CASE scope' = [scope EXCEPT ![t] = On] /\ broken' = broken
    <3>1. /\ scope' \in [Task -> Scope] /\ scope'[t] = On
          /\ \A u \in Task \ {t} : scope'[u] = scope[u]
      BY <1>4, <2>1, Moves
    <3>2. QED
      BY <1>1, <1>4, <1>6, <2>1, <3>1 DEF Went, Goes
  <2>2. CASE scope' = [scope EXCEPT ![t] = Abort(t)] /\ broken' = broken \cup {t}
    <3>1. /\ scope' \in [Task -> Scope] /\ scope'[t] = Abort(t)
          /\ \A u \in Task \ {t} : scope'[u] = scope[u]
      BY <1>5, <2>2, Moves
    <3>2. QED
      BY <1>1, <1>5, <1>6, <2>2, <3>1 DEF Went, Ends
  <2>3. QED
    BY <1>7, <2>1, <2>2
<1>8. CASE h = OnDegraded
  <2>1. OnDegradedCalled(t, e)
    BY <1>8 DEF dispatch
  <2>2. /\ metrics' = Append(metrics, Current(t)) /\ heard' = heard
        /\ shown' = IF user_visible(e) /\ wired THEN Append(shown, Current(t)) ELSE shown
    BY <1>2, <2>1 DEF OnDegradedCalled, fan_out
  <2>3. \/ /\ scope' = [scope EXCEPT ![t] = On] /\ broken' = broken
           /\ (user_visible(e) => wired)
        \/ scope' = [scope EXCEPT ![t] = Abort(t)] /\ broken' = broken \cup {t}
    <3>1. CASE ~user_visible(e) \/ wired
      <4>1. fan_out(e).ok
        BY <3>1 DEF fan_out
      <4>2. /\ scope' = [scope EXCEPT ![t] = IF fan_out(e).ok THEN On ELSE Abort(t)]
            /\ broken' = IF fan_out(e).ok THEN broken ELSE broken \cup {t}
        BY <2>1 DEF OnDegradedCalled, On
      <4>3. scope' = [scope EXCEPT ![t] = On] /\ broken' = broken
        BY <4>1, <4>2
      <4>4. QED
        BY <3>1, <4>3
    <3>2. CASE ~(~user_visible(e) \/ wired)
      <4>1. ~fan_out(e).ok
        BY <3>2 DEF fan_out
      <4>2. QED
        BY <2>1, <4>1 DEF OnDegradedCalled
    <3>3. QED
      BY <3>1, <3>2
  <2>4. Went(t)
    BY <1>7, <2>3
  <2>5. user_visible(Current(t)) => shown' = Append(shown, Current(t)) \/ t \in broken'
    BY <1>2, <2>2, <2>3
  <2>6. shown' = shown \/ shown' = Append(shown, Current(t))
    BY <2>2
  <2>7. QED
    BY <2>2, <2>4, <2>5, <2>6, ContainerCalledInv
<1>9. CASE h # OnDegraded
  <2>1. HandlerCalled(t, h, e) /\ h \in Handler
    BY <1>3, <1>9 DEF dispatch, Callee
  <2>2. heard' = [heard EXCEPT ![h] = Append(@, Current(t))] /\ UNCHANGED <<metrics, shown>>
    BY <1>2, <2>1 DEF HandlerCalled, sinks
  <2>3. \/ scope' = [scope EXCEPT ![t] = On] /\ broken' = broken
        \/ scope' = [scope EXCEPT ![t] = Abort(t)] /\ broken' = broken \cup {t}
    BY <2>1 DEF HandlerCalled, On
  <2>4. Went(t)
    BY <1>7, <2>3
  <2>5. scope[t].targets[1] = h
    BY <1>3
  <2> HIDE DEF h
  <2>6. QED
    BY <1>9, <2>1, <2>2, <2>4, <2>5, HandlerCalledInv
<1>10. QED
  BY <1>8, <1>9

\* The steps in which a task only changes its place, and swaps its buffer.
LEMMA PlaceInv ==
    ASSUME Inv, NEW t \in Task,
           \/ (\E e \in Event : add(t, e)) /\ Kind[t] = "read"
           \/ \E f \in Failure : degrade(t, f[1], f[2], f[3]) /\ decide(f[1], f[2], f[3]) = {}
           \/ \E exit \in BOOLEAN : commit(t, exit)
           \/ raise(t) \/ again(t) \/ committed(t)
    PROVE  Inv'
<1> USE DEF Inv
<1>1. /\ scope[t] \in Scope /\ ShapeOf(t) /\ Kind[t] \in {"outbox", "memory", "read"}
      /\ scope[t].buffer \in Seq(Event) /\ scope[t].exit \in BOOLEAN
  BY DEF Types, Shaped, Scope
<1>2. ASSUME NEW s, scope' = [scope EXCEPT ![t] = s], s \in Scope,
             UNCHANGED <<Kind, handlers, stopped, metrics, shown, history>>,
             scope[t].pc \in {"body", "failed", "publish"},
             s.pc \in {"body", "unwind", "failed", "done", "publish"},
             s.pc = "publish" => s.queue = Pending(t) /\ s.buffer = <<>> /\ Kind[t] # "read",
             s.pc # "publish" => s.buffer = Pending(t) /\ s.queue = <<>>,
             s.pc = "done" => Pending(t) = <<>>
      PROVE  Inv'
  BY <1>2, QuietInv
<1>3. scope[t].pc \in {"body", "failed"} => Pending(t) = scope[t].buffer /\ scope[t].queue = <<>>
  BY <1>1 DEF Pending, Committing, ShapeOf
<1>4. ASSUME scope[t].pc \in {"body", "failed"}, NEW p \in {"body", "unwind", "failed"},
             NEW x \in BOOLEAN,
             scope' = [scope EXCEPT ![t] = [scope[t] EXCEPT !.pc = p, !.exit = x]],
             UNCHANGED <<Kind, handlers, stopped, metrics, shown, history>>
      PROVE  Inv'
  <2> DEFINE s == [scope[t] EXCEPT !.pc = p, !.exit = x]
  <2>1. /\ s \in Scope /\ s.pc = p /\ s.buffer = scope[t].buffer /\ s.queue = scope[t].queue
    BY <1>1 DEF Scope, PcSet
  <2>2. scope' = [scope EXCEPT ![t] = s]
    BY <1>4
  <2> HIDE DEF s
  <2>3. QED
    BY <1>2, <1>3, <1>4, <2>1, <2>2
<1>5. ASSUME NEW p, scope' = [scope EXCEPT ![t].pc = p]
      PROVE  scope' = [scope EXCEPT ![t] = [scope[t] EXCEPT !.pc = p, !.exit = scope[t].exit]]
  <2>1. [scope[t] EXCEPT !.pc = p] = [scope[t] EXCEPT !.pc = p, !.exit = scope[t].exit]
    BY <1>1 DEF Scope
  <2>2. QED
    BY <1>5, <2>1
<1>6. CASE (\E e \in Event : add(t, e)) /\ Kind[t] = "read"
  <2>1. /\ scope[t].pc = "body" /\ scope' = [scope EXCEPT ![t].pc = "unwind"]
        /\ UNCHANGED <<Kind, handlers, stopped, metrics, shown, history>>
    BY <1>6 DEF add, At, bus, sinks, history
  <2>2. QED
    BY <1>1, <1>4, <1>5, <2>1
<1>7. CASE \E f \in Failure : degrade(t, f[1], f[2], f[3]) /\ decide(f[1], f[2], f[3]) = {}
  <2>1. /\ scope[t].pc = "body" /\ scope' = [scope EXCEPT ![t].pc = "unwind"]
        /\ UNCHANGED <<Kind, handlers, stopped, metrics, shown, history>>
    BY <1>7 DEF degrade, At, bus, sinks, history
  <2>2. QED
    BY <1>1, <1>4, <1>5, <2>1
<1>8. CASE raise(t)
  <2>1. /\ scope[t].pc = "body" /\ scope' = [scope EXCEPT ![t].pc = "unwind"]
        /\ UNCHANGED <<Kind, handlers, stopped, metrics, shown, history>>
    BY <1>8 DEF raise, At, bus, sinks
  <2>2. QED
    BY <1>1, <1>4, <1>5, <2>1
<1>9. CASE again(t)
  <2>1. /\ scope[t].pc = "failed"
        /\ scope' = [scope EXCEPT ![t] = [scope[t] EXCEPT !.pc = "body", !.exit = FALSE]]
        /\ UNCHANGED <<Kind, handlers, stopped, metrics, shown, history>>
    BY <1>9 DEF again, At, bus, sinks
  <2>2. QED
    BY <1>4, <2>1
<1>10. ASSUME NEW exit \in BOOLEAN, commit(t, exit) PROVE Inv'
  <2>1. scope[t].pc = "body" /\ UNCHANGED <<Kind, handlers, stopped, metrics, shown>>
    BY <1>10 DEF commit, At, bus, sinks
  <2>2. UNCHANGED history
    BY <1>10 DEF commit, history
  <2>3. CASE /\ Kind[t] \in {"outbox", "memory"}
             /\ scope' = [scope EXCEPT ![t] = Swap(t, exit)]
    <3>1. /\ Swap(t, exit) \in Scope /\ Swap(t, exit).pc = "publish"
          /\ Swap(t, exit).queue = scope[t].buffer /\ Swap(t, exit).buffer = <<>>
      <4>1. <<>> \in Seq(Event)
        OBVIOUS
      <4>2. Swap(t, exit) \in Scope
        BY <1>1, <4>1 DEF Swap, Scope, PcSet
      <4>3. QED
        BY <1>1, <4>2 DEF Swap, Scope
    <3>2. QED
      BY <1>2, <1>3, <2>1, <2>2, <2>3, <3>1
  <2>4. CASE Kind[t] = "memory" /\ scope' = [scope EXCEPT ![t] = FailedWrite(t)]
    <3>1. scope' = [scope EXCEPT ![t].pc = "failed"]
      BY <2>4 DEF FailedWrite
    <3>2. QED
      BY <1>1, <1>4, <1>5, <2>1, <2>2, <3>1
  <2>5. CASE /\ Kind[t] = "read"
             /\ scope' = [scope EXCEPT ![t].pc = IF exit THEN "done" ELSE "unwind"]
    <3>1. CASE ~exit
      <4>1. scope' = [scope EXCEPT ![t].pc = "unwind"]
        BY <2>5, <3>1
      <4>2. QED
        BY <1>1, <1>4, <1>5, <2>1, <2>2, <4>1
    <3>2. CASE exit
      <4> DEFINE s == [scope[t] EXCEPT !.pc = "done"]
      <4>1. /\ s \in Scope /\ s.pc = "done" /\ s.buffer = scope[t].buffer
            /\ s.queue = scope[t].queue
        BY <1>1 DEF Scope, PcSet
      <4>2. scope' = [scope EXCEPT ![t] = s]
        BY <2>5, <3>2
      <4>3. Pending(t) = <<>>
        <5>1. added[t] = <<>> /\ Pending(t) \in Seq(Event) /\ Len(Pending(t)) <= Len(added[t])
          BY <1>1, <2>5, Numbers DEF ShapeOf
        <5>2. QED
          BY <5>1
      <4> HIDE DEF s
      <4>4. QED
        BY <1>2, <1>3, <2>1, <2>2, <4>1, <4>2, <4>3
    <3>3. QED
      BY <3>1, <3>2
  <2>6. QED
    BY <1>10, <2>3, <2>4, <2>5 DEF commit
<1>11. CASE committed(t)
  <2>1. /\ scope[t].pc = "publish" /\ scope[t].queue = <<>>
        /\ UNCHANGED <<Kind, handlers, stopped, metrics, shown, history>>
        /\ scope' = [scope EXCEPT ![t].pc = IF scope[t].exit THEN "done" ELSE "body"]
    BY <1>11 DEF committed, At, bus, sinks
  <2>2. PICK p \in {"done", "body"} : scope' = [scope EXCEPT ![t].pc = p]
    BY <2>1
  <2> DEFINE s == [scope[t] EXCEPT !.pc = p]
  <2>3. /\ s \in Scope /\ s.pc = p /\ s.buffer = scope[t].buffer /\ s.queue = scope[t].queue
    BY <1>1 DEF Scope, PcSet
  <2>4. scope' = [scope EXCEPT ![t] = s]
    BY <2>2
  <2>5. Pending(t) = <<>> /\ scope[t].buffer = <<>>
    BY <1>1, <2>1 DEF Pending, Committing, ShapeOf
  <2> HIDE DEF s
  <2>6. QED
    BY <1>2, <2>1, <2>2, <2>3, <2>4, <2>5
<1>12. QED
  BY <1>6, <1>7, <1>8, <1>9, <1>10, <1>11

\* The container starts with its own subscription and idle scopes.
LEMMA InvInit ==
    Init => Inv
<1> SUFFICES ASSUME Init PROVE Inv
  OBVIOUS
<1> DEFINE key == [type |-> Degraded, list |-> <<OnDegraded>>]
<1>1. <<>> \in Seq(Event) /\ <<>> \in Seq(Callee) /\ <<OnDegraded>> \in Seq(Callee)
  BY DEF Callee
<1>2. key \in Key /\ key.type = Degraded /\ key.list = <<OnDegraded>>
  BY <1>1 DEF Key
<1>3. Idle \in Scope
  BY <1>1 DEF Idle, Scope, PcSet
<1> HIDE DEF key
<1>4. handlers = <<key>> /\ handlers \in Seq(Key) /\ Len(handlers) = 1 /\ handlers[1] = key
  BY <1>2 DEF Init, key
<1>5. scope \in [Task -> Scope] /\ \A t \in Task : scope[t] = Idle
  BY <1>3 DEF Init
<1>6. Types
  <2>1. Kind \in [Task -> {"outbox", "memory", "read"}]
    BY KindsAssumption DEF Init
  <2>2. added \in [Task -> Seq(Event)] /\ heard \in [Handler -> Seq(Event)]
    BY <1>1 DEF Init
  <2>3. QED
    BY <1>1, <1>4, <1>5, <2>1, <2>2 DEF Init, Types
<1>7. \A t \in Task : added[t] = <<>> /\ Len(added[t]) = 0
  BY DEF Init
<1>8. ASSUME NEW t \in Task
      PROVE  /\ Pending(t) = <<>> /\ Past(t) = 0 /\ Reached(t) = 0 /\ ~Committing(t)
             /\ scope[t].pc = "body" /\ scope[t].buffer = <<>> /\ scope[t].queue = <<>>
  <2>1. scope[t].pc = "body" /\ scope[t].buffer = <<>> /\ scope[t].queue = <<>>
    BY <1>5 DEF Idle
  <2>2. Pending(t) = <<>> /\ ~Committing(t)
    BY <2>1 DEF Pending, Committing
  <2>3. Past(t) = 0
    BY <1>7, <2>2 DEF Past
  <2>4. QED
    BY <2>1, <2>2, <2>3 DEF Reached
<1>9. Shaped
  BY <1>7, <1>8 DEF Shaped, ShapeOf
<1>10. Distinct
  BY <1>7 DEF Distinct
<1>11. \A h \in Handler : heard[h] = <<>> /\ Len(heard[h]) = 0 /\ Range(heard[h]) = {}
  BY DEF Init, Range
<1>12. Range(metrics) = {}
  BY DEF Init, Range
<1>13. Told
  <2>1. Known = {} /\ discarded = {}
    BY <1>11, <1>12 DEF Known, Init
  <2>2. QED
    BY <1>8, <2>1 DEF Told
<1>14. KeyedOnce /\ SubscribedOnce
  <2>1. ASSUME NEW h \in Handler PROVE ListedOnce(handlers, h)
    BY <1>2, <1>4 DEF ListedOnce
  <2>2. QED
    BY <1>4, <2>1 DEF KeyedOnce, SubscribedOnce
<1>15. ToCall /\ Counting
  BY <1>8 DEF ToCall, ToCallOf, Counting, CountOf
<1>16. InOrder
  BY <1>7, <1>11 DEF InOrder, OrderOf
<1>17. OperatorFirst
  <2>1. Len(key.list) = 1 /\ key.list[1] = OnDegraded
    BY <1>2
  <2>2. /\ Len(handlers) > 0 /\ handlers[1].type = Degraded
        /\ Len(handlers[1].list) > 0 /\ handlers[1].list[1] = OnDegraded
    <3>1. Len(handlers) > 0 /\ handlers[1].type = Degraded
      BY <1>2, <1>4
    <3>2. handlers[1].list = key.list
      BY <1>4
    <3>3. QED
      BY <2>1, <3>1, <3>2
  <2>3. QED
    BY <2>2, Zenon DEF OperatorFirst
<1>18. Counted /\ Shown
  BY <1>11, <1>12 DEF Counted, Shown
<1>19. QED
  BY <1>6, <1>9, <1>10, <1>13, <1>14, <1>15, <1>16, <1>17, <1>18 DEF Inv

\* Every step of every task, of the bus and of the container keeps the invariant.
LEMMA InvNext ==
    Inv /\ [Next]_vars => Inv'
<1> SUFFICES ASSUME Inv, [Next]_vars PROVE Inv'
  OBVIOUS
<1>1. handlers \in Seq(Key) /\ stopped \in BOOLEAN
  BY DEF Inv, Types
<1>2. ASSUME handlers' = handlers, stopped' = stopped, UNCHANGED <<Kind, sinks, scope, history>>
      PROVE  Inv'
  <2>1. KeyedOnce' /\ SubscribedOnce' /\ OperatorFirst'
    BY <1>2 DEF Inv, KeyedOnce, SubscribedOnce, OperatorFirst
  <2>2. QED
    BY <1>1, <1>2, <2>1, BusInv
<1>3. CASE UNCHANGED vars
  BY <1>2, <1>3 DEF vars, bus, plane
<1>4. CASE set_sync_status
  BY <1>2, <1>4 DEF set_sync_status, bus
<1>5. CASE assert_ready_to_start
  BY <1>2, <1>5 DEF assert_ready_to_start, bus
<1>6. CASE startup
  BY <1>2, <1>6 DEF startup
<1>7. CASE shutdown
  <2>1. /\ handlers' = <<>> /\ stopped' = TRUE /\ UNCHANGED <<Kind, sinks, scope, history>>
    BY <1>7 DEF shutdown
  <2>2. handlers' \in Seq(Key) /\ Len(handlers') = 0
    BY <2>1
  <2>3. KeyedOnce' /\ SubscribedOnce' /\ OperatorFirst'
    BY <2>1, <2>2 DEF KeyedOnce, SubscribedOnce, ListedOnce, OperatorFirst
  <2>4. QED
    BY <2>1, <2>2, <2>3, BusInv
<1>8. ASSUME NEW h \in Handler, unsubscribe(h) PROVE Inv'
  BY <1>8, UnsubscribeInv
<1>9. ASSUME NEW h \in Handler, NEW type \in {Base, Degraded}, subscribe(type, h) PROVE Inv'
  BY <1>9, SubscribeInv
<1>10. ASSUME NEW t \in Task, NEW e \in Event, add(t, e) PROVE Inv'
  <2>1. CASE Kind[t] = "read"
    BY <1>10, <2>1, PlaceInv
  <2>2. CASE Kind[t] # "read"
    <3>1. /\ e \in Unused /\ scope[t].pc = "body"
          /\ scope' = [scope EXCEPT ![t].buffer = Append(@, e)]
          /\ added' = [added EXCEPT ![t] = Append(@, e)]
          /\ UNCHANGED <<Kind, handlers, stopped, metrics, shown, discarded, published, heard,
                         broken>>
      BY <1>10, <2>2 DEF add, At, bus, sinks
    <3>2. QED
      BY <2>2, <3>1, AppendInv
  <2>3. QED
    BY <2>1, <2>2
<1>11. ASSUME NEW t \in Task, NEW f \in Failure, degrade(t, f[1], f[2], f[3]) PROVE Inv'
  <2>1. CASE decide(f[1], f[2], f[3]) = {}
    BY <1>11, <2>1, PlaceInv
  <2>2. CASE decide(f[1], f[2], f[3]) # {}
    <3>1. PICK e \in Unused : /\ scope' = [scope EXCEPT ![t].buffer = Append(@, e)]
                              /\ added' = [added EXCEPT ![t] = Append(@, e)]
      BY <1>11, <2>2 DEF degrade
    <3>2. /\ scope[t].pc = "body" /\ Kind[t] # "read"
          /\ UNCHANGED <<Kind, handlers, stopped, metrics, shown, discarded, published, heard,
                         broken>>
      BY <1>11 DEF degrade, At, bus, sinks
    <3>3. QED
      BY <3>1, <3>2, AppendInv
  <2>3. QED
    BY <2>1, <2>2
<1>12. ASSUME NEW t \in Task, NEW exit \in BOOLEAN, commit(t, exit) PROVE Inv'
  BY <1>12, PlaceInv
<1>13. ASSUME NEW t \in Task, rollback(t) PROVE Inv'
  BY <1>13, RollbackInv
<1>14. ASSUME NEW t \in Task, raise(t) \/ again(t) \/ committed(t) PROVE Inv'
  BY <1>14, PlaceInv
<1>15. ASSUME NEW t \in Task, publish(t) PROVE Inv'
  BY <1>15, PublishInv
<1>16. ASSUME NEW t \in Task, dispatch(t) PROVE Inv'
  BY <1>16, DispatchInv
<1>17. ASSUME NEW t \in Task, delivered(t) PROVE Inv'
  BY <1>17, DeliveredInv
<1>18. QED
  BY <1>3, <1>4, <1>5, <1>6, <1>7, <1>8, <1>9, <1>10, <1>11, <1>12, <1>13, <1>14,
     <1>15, <1>16, <1>17 DEF Next, Publishing

\* The invariant holds in every reachable state.
LEMMA Invariance ==
    Spec => []Inv
<1>1. Init => Inv
  BY InvInit
<1>2. Inv /\ [Next]_vars => Inv'
  BY InvNext
<1>3. QED
  BY <1>1, <1>2, PTL DEF Spec
-----------------------------------------------------------------------------
(***************************************************************************)
(* What the container promises.                                            *)
(***************************************************************************)
\* What a rollback of a scope discarded is never counted by the metric sink
\* nor heard by a subscriber, before or after, whoever else publishes.
THEOREM RollbackNeverLeaks ==
    Spec => []RolledBackIsSilent
<1>1. Inv => RolledBackIsSilent
  BY DEF Inv, Told, Known, RolledBackIsSilent
<1>2. QED
  BY <1>1, Invariance, PTL

\* A subscriber hears the events of a scope in the order of add(), each at
\* most once, over commits, handlers that raise and retried activities.
THEOREM HeardAsAdded ==
    Spec => []HeardInOrder
<1>1. ASSUME Inv PROVE HeardInOrder
  <2> SUFFICES ASSUME NEW h \in Handler, NEW t \in Task,
                      NEW i \in 1..Len(heard[h]), NEW j \in 1..Len(heard[h]), i < j,
                      heard[h][i] \in Range(added[t]), heard[h][j] \in Range(added[t])
               PROVE  \E k, l \in 1..Len(added[t]) :
                          k < l /\ added[t][k] = heard[h][i] /\ added[t][l] = heard[h][j]
    BY DEF HeardInOrder
  <2>1. added[t] \in Seq(Event) /\ OrderOf(heard[h], added[t])
    BY <1>1 DEF Inv, Types, InOrder
  <2>2. Range(added[t]) = {added[t][k] : k \in 1..Len(added[t])}
    BY <2>1 DEF Range
  <2>3. PICK k \in 1..Len(added[t]) : added[t][k] = heard[h][i]
    BY <2>2
  <2>4. PICK l \in 1..Len(added[t]) : added[t][l] = heard[h][j]
    BY <2>2
  <2>5. k < l
    BY <2>1, <2>3, <2>4 DEF OrderOf
  <2>6. QED
    BY <2>3, <2>4, <2>5
<1>2. QED
  BY <1>1, Invariance, PTL

\* A task that left its scope normally has published every event it added and
\* did not roll back, unless a publish of that scope raised.
THEOREM CommitPublishesAll ==
    Spec => []CommittedIsPublished
<1>1. ASSUME Inv PROVE CommittedIsPublished
  <2> SUFFICES ASSUME NEW t \in Task \ broken, scope[t].pc = "done",
                      NEW e \in Range(added[t])
               PROVE  e \in published \cup discarded
    BY DEF CommittedIsPublished, At
  <2>1. /\ added[t] \in Seq(Event) /\ Len(added[t]) \in Nat
        /\ Past(t) + Len(Pending(t)) = Len(added[t]) /\ Past(t) \in Nat
    BY <1>1, Numbers DEF Inv
  <2>2. Pending(t) = <<>>
    BY <1>1 DEF Inv, Shaped, ShapeOf, Pending, Committing
  <2>3. Past(t) = Len(added[t])
    BY <2>1, <2>2
  <2>4. PICK k \in 1..Len(added[t]) : added[t][k] = e
    BY <2>1 DEF Range
  <2>5. QED
    BY <1>1, <2>3, <2>4 DEF Inv, Told
<1>2. QED
  BY <1>1, Invariance, PTL

\* Until the shutdown no subscriber hears of a degrade that the metric sink
\* has not counted; a counted one that the user is to see is shown, or the
\* commit that published it raised.
THEOREM OperatorIsFirst ==
    Spec => []OperatorHearsFirst
<1>1. Inv => OperatorHearsFirst
  BY DEF Inv, Counted, Shown, OperatorHearsFirst
<1>2. QED
  BY <1>1, Invariance, PTL

-----------------------------------------------------------------------------
(***************************************************************************)
(* The lifecycle manager, a component of its own.                          *)
(***************************************************************************)
CONSTANTS Managed, MaxStarts, MaxErrors
VARIABLES depends_on, required, order, phase, next, stack, degraded, up, starts, errors

L == INSTANCE Lifecycle WITH Component <- Managed, started <- stack

\* The instance has the set operators of the standard module.
LEMMA SameFinite == L!IsFiniteSet(Managed) <=> IsFiniteSet(Managed)
BY DEF L!IsFiniteSet, IsFiniteSet

LEMMA SameCount == L!Cardinality(Managed) = Cardinality(Managed)
BY DEF L!Cardinality, Cardinality

\* Kahn's algorithm takes one more component, if one is ready.
Grown(deps, s) ==
    IF L!Ready(deps, L!Elements(s)) = {} THEN s
    ELSE Append(s, L!Least(L!Ready(deps, L!Elements(s))))

\* A list of components, each once and after what it depends on.
Topological(deps, s) ==
    /\ s \in Seq(Managed)
    /\ \A a, b \in 1..Len(s) : s[a] = s[b] => a = b
    /\ \A a \in 1..Len(s) : \A d \in deps[s[a]] : \E b \in 1..Len(s) : b < a /\ s[b] = d

LEMMA ReadyIsFirst ==
    ASSUME L!ComponentAssumption, NEW deps, NEW placed, L!Ready(deps, placed) # {}
    PROVE  L!Least(L!Ready(deps, placed)) \in L!Ready(deps, placed)
<1> DEFINE R == L!Ready(deps, placed)
<1>1. R \in SUBSET Nat
  BY DEF L!Ready, L!ComponentAssumption
<1> HIDE DEF R
<1>2. \E n \in R : \A m \in R : n <= m
  BY <1>1, LeastElement DEF R
<1> QED BY <1>2 DEF L!Least, R

LEMMA GrownTopological ==
    ASSUME L!ComponentAssumption, NEW deps, NEW s, Topological(deps, s)
    PROVE  Topological(deps, Grown(deps, s))
<1> DEFINE R == L!Ready(deps, L!Elements(s))
           x == L!Least(R)
           t == Append(s, x)
           n == Len(s)
<1>1. CASE R = {}
  BY <1>1 DEF Grown
<1>2. CASE R # {}
  <2>1. x \in Managed /\ x \notin L!Elements(s) /\ deps[x] \subseteq L!Elements(s)
    <3>1. x \in R
      BY <1>2, ReadyIsFirst
    <3> QED BY <3>1 DEF L!Ready
  <2>2. Grown(deps, s) = t
    BY <1>2 DEF Grown
  <2> HIDE DEF x
  <2>3. s \in Seq(Managed) /\ n \in Nat
    BY DEF Topological
  <2>4. t \in Seq(Managed) /\ Len(t) = n + 1 /\ t[n + 1] = x /\ \A i \in 1..n : t[i] = s[i]
    BY <2>1, <2>3
  <2> HIDE DEF t
  <2>5. \A i \in 1..n : s[i] # x
    BY <2>1 DEF L!Elements
  <2>6. ASSUME NEW a \in 1..Len(t), NEW b \in 1..Len(t), t[a] = t[b] PROVE a = b
    <3>1. \A i \in 1..Len(t) : i \in 1..n \/ i = n + 1
      BY <2>3, <2>4
    <3>2. \A i, j \in 1..n : s[i] = s[j] => i = j
      BY DEF Topological
    <3> QED BY <2>4, <2>5, <2>6, <3>1, <3>2
  <2>7. ASSUME NEW a \in 1..Len(t), NEW d \in deps[t[a]] PROVE \E b \in 1..Len(t) : b < a /\ t[b] = d
    <3>1. CASE a \in 1..n
      <4>1. d \in deps[s[a]]
        BY <2>4, <2>7, <3>1
      <4>2. PICK b \in 1..n : b < a /\ s[b] = d
        BY <3>1, <4>1 DEF Topological
      <4>3. b \in 1..Len(t)
        BY <2>3, <2>4, <4>2
      <4> QED BY <2>4, <4>2, <4>3
    <3>2. CASE a = n + 1
      <4>1. d \in L!Elements(s)
        BY <2>1, <2>4, <2>7, <3>2
      <4>2. PICK b \in 1..n : s[b] = d
        BY <4>1 DEF L!Elements
      <4>3. b \in 1..Len(t) /\ b < a
        BY <2>3, <2>4, <3>2, <4>2
      <4> QED BY <2>4, <4>2, <4>3
    <3> QED BY <2>3, <2>4, <3>1, <3>2
  <2>8. Topological(deps, t)
    BY <2>4, <2>6, <2>7 DEF Topological
  <2> QED BY <2>2, <2>8
<1> QED BY <1>1, <1>2

\* The lists that the algorithm passes through.
Passes(f, deps, n) ==
    /\ f = [i \in 0..n |-> f[i]]
    /\ f[0] = <<>>
    /\ \A i \in 1..n : f[i] = Grown(deps, f[i - 1])

LEMMA PassesExist ==
    ASSUME NEW n \in Nat, NEW deps PROVE \E f : Passes(f, deps, n)
<1> DEFINE Bad == {k \in 0..n : ~ \E f : Passes(f, deps, k)}
<1>1. Bad = {}
  <2> SUFFICES ASSUME Bad # {} PROVE FALSE
    OBVIOUS
  <2>1. PICK k \in Bad : \A j \in Bad : k <= j
    <3>1. Bad \in SUBSET Nat
      OBVIOUS
    <3> HIDE DEF Bad
    <3> QED BY <3>1, LeastElement
  <2>2. k \in 0..n /\ ~ \E f : Passes(f, deps, k)
    BY <2>1
  <2>3. k # 0
    <3> DEFINE f == [i \in 0..0 |-> <<>>]
    <3>1. Passes(f, deps, 0)
      BY DEF Passes
    <3> QED BY <2>2, <3>1
  <2>4. k - 1 \in 0..n /\ k - 1 \notin Bad
    <3> HIDE DEF Bad
    <3> QED BY <2>1, <2>2, <2>3
  <2>5. PICK f : Passes(f, deps, k - 1)
    BY <2>4
  <2> DEFINE g == [i \in 0..k |-> IF i = k THEN Grown(deps, f[k - 1]) ELSE f[i]]
  <2>6. \A i \in 0..k : g[i] = IF i = k THEN Grown(deps, f[k - 1]) ELSE f[i]
    OBVIOUS
  <2>7. g = [i \in 0..k |-> g[i]]
    OBVIOUS
  <2> HIDE DEF g
  <2>8. g[0] = <<>>
    <3>1. 0 \in 0..k /\ f[0] = <<>>
      BY <2>2, <2>5 DEF Passes
    <3>2. g[0] = f[0]
      BY <2>3, <2>6, <3>1
    <3> QED BY <3>1, <3>2
  <2>9. ASSUME NEW i \in 1..k PROVE g[i] = Grown(deps, g[i - 1])
    <3>1. i - 1 \in 0..k /\ i - 1 # k /\ i \in 0..k
      BY <2>2
    <3>2. g[i - 1] = f[i - 1]
      BY <2>6, <3>1
    <3>3. CASE i = k
      BY <2>6, <3>1, <3>2, <3>3
    <3>4. CASE i # k
      <4>1. i \in 1..(k - 1) /\ g[i] = f[i]
        BY <2>2, <2>6, <3>1, <3>4
      <4>2. f[i] = Grown(deps, f[i - 1])
        BY <2>5, <4>1 DEF Passes
      <4> QED BY <3>2, <4>1, <4>2
    <3> QED BY <3>3, <3>4
  <2>10. Passes(g, deps, k)
    BY <2>7, <2>8, <2>9 DEF Passes
  <2> QED BY <2>2, <2>10
<1>2. n \notin Bad /\ n \in 0..n
  <2> HIDE DEF Bad
  <2> QED BY <1>1
<1> QED BY <1>2

LEMMA PassesTopological ==
    ASSUME L!ComponentAssumption, NEW n \in Nat, NEW deps, NEW f, Passes(f, deps, n)
    PROVE  Topological(deps, f[n])
<1> DEFINE Bad == {k \in 0..n : ~Topological(deps, f[k])}
<1>1. Bad = {}
  <2> SUFFICES ASSUME Bad # {} PROVE FALSE
    OBVIOUS
  <2>1. PICK k \in Bad : \A j \in Bad : k <= j
    <3>1. Bad \in SUBSET Nat
      OBVIOUS
    <3> HIDE DEF Bad
    <3> QED BY <3>1, LeastElement
  <2>2. k \in 0..n /\ ~Topological(deps, f[k])
    BY <2>1
  <2>3. k # 0
    <3>1. Topological(deps, <<>>)
      BY DEF Topological
    <3> QED BY <2>2, <3>1 DEF Passes
  <2>4. k \in 1..n /\ k - 1 \in 0..n /\ k - 1 \notin Bad
    <3> HIDE DEF Bad
    <3> QED BY <2>1, <2>2, <2>3
  <2>5. Topological(deps, f[k - 1])
    BY <2>4
  <2>6. f[k] = Grown(deps, f[k - 1])
    BY <2>4 DEF Passes
  <2> QED BY <2>2, <2>5, <2>6, GrownTopological
<1>2. n \notin Bad /\ n \in 0..n
  <2> HIDE DEF Bad
  <2> QED BY <1>1
<1> QED BY <1>2

\* The equation that the function of the algorithm is chosen by.
Kahn(g, deps) ==
    g = [n \in 0..Cardinality(Managed) |->
           IF n = 0 THEN <<>>
           ELSE LET ready == L!Ready(deps, L!Elements(g[n - 1]))
                IN  IF ready = {} THEN g[n - 1] ELSE Append(g[n - 1], L!Least(ready))]

LEMMA PassesKahn ==
    ASSUME Cardinality(Managed) \in Nat, NEW deps, NEW f
    PROVE  Passes(f, deps, Cardinality(Managed)) <=> Kahn(f, deps)
<1> DEFINE n == Cardinality(Managed)
           e(i) == IF i = 0 THEN <<>> ELSE Grown(deps, f[i - 1])
<1>1. Kahn(f, deps) <=> f = [i \in 0..n |-> e(i)]
  BY DEF Kahn, Grown
<1> HIDE DEF n
<1>2. ASSUME Passes(f, deps, n) PROVE f = [i \in 0..n |-> e(i)]
  <2>1. ASSUME NEW i \in 0..n PROVE f[i] = e(i)
    <3>1. CASE i = 0
      BY <1>2, <3>1 DEF Passes
    <3>2. CASE i # 0
      <4>1. i \in 1..n
        BY <3>2 DEF n
      <4> QED BY <1>2, <3>2, <4>1 DEF Passes
    <3> QED BY <3>1, <3>2
  <2>2. f = [i \in 0..n |-> f[i]]
    BY <1>2 DEF Passes
  <2> HIDE DEF e
  <2> QED BY <2>1, <2>2
<1>3. ASSUME f = [i \in 0..n |-> e(i)] PROVE Passes(f, deps, n)
  <2>1. f = [i \in 0..n |-> f[i]] /\ \A i \in 0..n : f[i] = e(i)
    <3> HIDE DEF e
    <3> QED BY <1>3
  <2>2. f[0] = <<>>
    <3>1. 0 \in 0..n
      BY DEF n
    <3> QED BY <2>1, <3>1
  <2>3. ASSUME NEW i \in 1..n PROVE f[i] = Grown(deps, f[i - 1])
    <3>1. i \in 0..n /\ i # 0
      OBVIOUS
    <3> QED BY <2>1, <3>1
  <2> HIDE DEF e
  <2> QED BY <2>1, <2>2, <2>3 DEF Passes
<1> QED BY <1>1, <1>2, <1>3 DEF n

LEMMA OrderIsTopological ==
    ASSUME L!ComponentAssumption, NEW deps PROVE Topological(deps, L!_topo_order(deps))
<1> DEFINE h == CHOOSE g : Kahn(g, deps)
           n == Cardinality(Managed)
<1>1. n \in Nat
  <2>1. IsFiniteSet(Managed)
    BY SameFinite DEF L!ComponentAssumption
  <2> QED BY <2>1, FS_CardinalityType
<1>2. \E g : Kahn(g, deps)
  BY <1>1, PassesExist, PassesKahn
<1>3. Kahn(h, deps)
  BY <1>2
<1>4. L!_topo_order(deps) = h[n]
  BY SameCount DEF L!_topo_order, Kahn
<1> HIDE DEF h
<1>5. Passes(h, deps, n)
  BY <1>1, <1>3, PassesKahn
<1> QED BY <1>1, <1>4, <1>5, PassesTopological

\* The stack of what was started: components of the order, in the order.
Stacked(s, o) ==
    /\ s \in Seq(Managed)
    /\ \A i \in 1..Len(s) : \E a \in 1..Len(o) : o[a] = s[i]
    /\ \A i, j \in 1..Len(s) : \A a, b \in 1..Len(o) :
          i < j /\ o[a] = s[i] /\ o[b] = s[j] => a < b

\* Those started before the one that is being started.
StartedBefore(s, o, n) ==
    \A i \in 1..Len(s) : \A a \in 1..Len(o) : o[a] = s[i] => a < n

LifecycleInv ==
    /\ Topological(depends_on, order)
    /\ Stacked(stack, order)
    /\ next \in Nat \ {0}
    /\ phase = "health" => next <= Len(order)
    /\ phase \in {"starting", "health"} => StartedBefore(stack, order, next)

LEMMA PushKeeps ==
    ASSUME NEW deps, NEW o, Topological(deps, o), NEW s, Stacked(s, o),
           NEW n \in 1..Len(o), StartedBefore(s, o, n)
    PROVE  Stacked(Append(s, o[n]), o) /\ StartedBefore(Append(s, o[n]), o, n + 1)
<1> DEFINE t == Append(s, o[n])
           k == Len(s)
<1>1. /\ o \in Seq(Managed) /\ o[n] \in Managed /\ Len(o) \in Nat
      /\ \A a, b \in 1..Len(o) : o[a] = o[b] => a = b
  BY DEF Topological
<1>2. s \in Seq(Managed) /\ k \in Nat
  BY DEF Stacked
<1>3. /\ t \in Seq(Managed) /\ Len(t) = k + 1 /\ t[k + 1] = o[n]
      /\ \A i \in 1..k : t[i] = s[i]
  BY <1>1, <1>2
<1> HIDE DEF t
<1>4. \A i \in 1..Len(t) : i \in 1..k \/ i = k + 1
  BY <1>2, <1>3
<1>5. ASSUME NEW i \in 1..Len(t), NEW a \in 1..Len(o), o[a] = t[i] PROVE IF i = k + 1 THEN a = n ELSE a < n
  <2>1. CASE i = k + 1
    BY <1>1, <1>3, <1>5, <2>1
  <2>2. CASE i # k + 1
    BY <1>3, <1>4, <1>5, <2>2 DEF StartedBefore
  <2> QED BY <2>1, <2>2
<1>6. \A i \in 1..Len(t) : \E a \in 1..Len(o) : o[a] = t[i]
  BY <1>3, <1>4 DEF Stacked
<1>7. ASSUME NEW i \in 1..Len(t), NEW j \in 1..Len(t), NEW a \in 1..Len(o), NEW b \in 1..Len(o),
             i < j, o[a] = t[i], o[b] = t[j]
      PROVE  a < b
  <2>1. i # k + 1 /\ i \in 1..k
    <3>1. i \in 1..(k + 1) /\ j \in 1..(k + 1) /\ i < j
      BY <1>3, <1>7
    <3> HIDE DEF k
    <3> QED BY <1>2, <3>1
  <2>2. a < n
    BY <1>5, <1>7, <2>1
  <2>3. CASE j = k + 1
    <3>1. b = n
      BY <1>5, <1>7, <2>3
    <3> QED BY <2>2, <3>1
  <2>4. CASE j # k + 1
    BY <1>3, <1>4, <1>7, <2>1, <2>4 DEF Stacked
  <2> QED BY <2>3, <2>4
<1>8. Stacked(t, o)
  BY <1>3, <1>6, <1>7 DEF Stacked
<1>9. StartedBefore(t, o, n + 1)
  <2> SUFFICES ASSUME NEW i \in 1..Len(t), NEW a \in 1..Len(o), o[a] = t[i] PROVE a < n + 1
    BY DEF StartedBefore
  <2>1. a = n \/ a < n
    BY <1>5
  <2> QED BY <1>1, <2>1
<1> QED BY <1>8, <1>9 DEF t

\* What is popped is needed by nothing that stays.
LEMMA PopKeeps ==
    ASSUME NEW deps, NEW o, Topological(deps, o), NEW s, Stacked(s, o), s # <<>>
    PROVE  /\ Stacked(L!Popped(s)[2], o)
           /\ \A e \in L!Elements(L!Popped(s)[2]) : L!Popped(s)[1] \notin deps[e]
<1> DEFINE k == Len(s)
           t == SubSeq(s, 1, k - 1)
<1>1. L!Popped(s)[1] = s[k] /\ L!Popped(s)[2] = t
  BY DEF L!Popped
<1>2. s \in Seq(Managed) /\ k \in Nat /\ k # 0
  BY DEF Stacked
<1>3. t \in Seq(Managed) /\ Len(t) = k - 1 /\ \A i \in 1..(k - 1) : t[i] = s[i]
  <2> DEFINE m == k - 1
  <2>1. m \in Nat /\ m <= k
    BY <1>2
  <2> HIDE DEF m
  <2>2. SubSeq(s, 1, m) \in Seq(Managed) /\ Len(SubSeq(s, 1, m)) = m
        /\ \A i \in 1..m : SubSeq(s, 1, m)[i] = s[i]
    BY <1>2, <2>1
  <2> QED BY <2>2 DEF m
<1> HIDE DEF t
<1>4. \A i \in 1..Len(t) : i \in 1..k /\ i < k /\ t[i] = s[i]
  BY <1>2, <1>3
<1>5. Stacked(t, o)
  BY <1>3, <1>4 DEF Stacked
<1>6. ASSUME NEW i \in 1..Len(t), s[k] \in deps[t[i]] PROVE FALSE
  <2>1. k \in 1..k /\ i \in 1..k /\ i < k /\ t[i] = s[i]
    BY <1>2, <1>4
  <2>2. PICK a \in 1..Len(o) : o[a] = s[i]
    BY <2>1 DEF Stacked
  <2>3. PICK b \in 1..Len(o) : b < a /\ o[b] = s[k]
    BY <1>6, <2>1, <2>2 DEF Topological
  <2>4. a < b
    BY <2>1, <2>2, <2>3 DEF Stacked
  <2> QED BY <2>3, <2>4
<1>7. \A e \in L!Elements(t) : s[k] \notin deps[e]
  BY <1>6 DEF L!Elements
<1> QED BY <1>1, <1>5, <1>7

LEMMA LifecycleInit ==
    ASSUME L!ComponentAssumption, L!Init PROVE LifecycleInv
<1>1. order = L!_topo_order(depends_on) /\ stack = <<>> /\ next = 1 /\ phase \in {"new", "rejected"}
  BY DEF L!Init, L!FirstOf
<1>2. Topological(depends_on, order)
  BY <1>1, OrderIsTopological
<1>3. Stacked(stack, order)
  BY <1>1 DEF Stacked
<1> QED BY <1>1, <1>2, <1>3 DEF LifecycleInv

\* What a step may close: the top of the stack, when it leaves the stack.
LEMMA LifecycleStep ==
    ASSUME LifecycleInv, [L!Next]_L!vars
    PROVE  /\ LifecycleInv'
           /\ [\A c \in up \ up' : \A e \in L!Elements(stack') : c \notin depends_on[e]]_L!vars
<1> DEFINE Closed == \A c \in up \ up' : \A e \in L!Elements(stack') : c \notin depends_on[e]
<1>1. /\ Topological(depends_on, order) /\ Stacked(stack, order)
      /\ next \in Nat \ {0} /\ Len(order) \in Nat
      /\ phase = "health" => next <= Len(order)
      /\ phase \in {"starting", "health"} => StartedBefore(stack, order, next)
  <2>1. Topological(depends_on, order)
    BY DEF LifecycleInv
  <2>2. order \in Seq(Managed)
    BY <2>1 DEF Topological
  <2>3. Len(order) \in Nat
    BY <2>2
  <2> QED BY <2>3 DEF LifecycleInv
<1>2. CASE UNCHANGED L!vars
  BY <1>1, <1>2 DEF LifecycleInv, L!vars, L!specs
\* A step that leaves the stack alone, and the position or more of the start.
<1>3. ASSUME UNCHANGED <<depends_on, order, stack>>, up \subseteq up',
             next' = next \/ next' = next + 1, phase' = "health" => next' <= Len(order),
             phase' \in {"starting", "health"} => phase \in {"starting", "health"}
      PROVE  LifecycleInv' /\ Closed
  <2>1. phase' \in {"starting", "health"} => StartedBefore(stack, order, next')
    BY <1>1, <1>3 DEF StartedBefore
  <2>2. next' \in Nat \ {0}
    BY <1>1, <1>3
  <2> QED BY <1>1, <1>3, <2>1, <2>2 DEF LifecycleInv
<1>4. CASE L!Start
  <2>1. /\ UNCHANGED <<depends_on, order, stack, up>> /\ stack = <<>> /\ next' = 1 /\ phase' = "starting"
    BY <1>4 DEF L!Start, L!specs, L!FirstOf
  <2>2. StartedBefore(stack', order', next')
    BY <2>1 DEF StartedBefore
  <2> QED BY <1>1, <2>1, <2>2 DEF LifecycleInv
<1>5. CASE L!AdapterStarts
  BY <1>3, <1>5 DEF L!AdapterStarts, L!specs
<1>6. CASE L!Healthy
  <2>1. /\ UNCHANGED <<depends_on, order, up>> /\ stack' = Append(stack, order[next])
        /\ phase = "health" /\ phase' = "starting" /\ next' = next + 1
    BY <1>6 DEF L!Healthy, L!specs, L!Current
  <2>2. next \in 1..Len(order) /\ StartedBefore(stack, order, next)
    BY <1>1, <2>1
  <2>3. Stacked(stack', order') /\ StartedBefore(stack', order', next')
    BY <1>1, <2>1, <2>2, PushKeeps
  <2> QED BY <1>1, <2>1, <2>3 DEF LifecycleInv
<1>7. CASE L!Unhealthy \/ L!Report \/ L!Cancelled \/ L!Close \/ L!CloseReturns
  <2>1. /\ UNCHANGED <<depends_on, order, stack, up>> /\ (next' = next \/ next' = next + 1)
        /\ phase' # "health" /\ (phase' = "starting" => phase \in {"starting", "health"})
    BY <1>7 DEF L!Unhealthy, L!Report, L!Cancelled, L!Close, L!CloseReturns, L!specs, L!Ended
  <2> QED BY <1>3, <2>1
<1>8. CASE L!CloseOne \/ L!CloseRaises
  <2>1. /\ UNCHANGED <<depends_on, order, next>> /\ stack # <<>> /\ stack' = L!Popped(stack)[2]
        /\ phase' \notin {"starting", "health"} /\ up \ up' \subseteq {L!Popped(stack)[1]}
    BY <1>8 DEF L!CloseOne, L!CloseRaises, L!specs, L!Ended
  <2>2. /\ Stacked(stack', order)
        /\ \A e \in L!Elements(stack') : L!Popped(stack)[1] \notin depends_on[e]
    BY <1>1, <2>1, PopKeeps
  <2> QED BY <1>1, <2>1, <2>2 DEF LifecycleInv
<1> QED BY <1>2, <1>4, <1>5, <1>6, <1>7, <1>8 DEF L!Next, L!Step

\* No adapter is closed under one that is still on the stack and depends on it,
\* in a rollback and in an orderly close alike, for any graph of dependencies
\* (lifecycle.py, _topo_order and _close_started).
THEOREM ClosedInReverse ==
    ASSUME L!ComponentAssumption PROVE L!Spec => L!ClosedAfterDependents
<1>1. L!Init => LifecycleInv
  BY LifecycleInit
<1>2. LifecycleInv /\ [L!Next]_L!vars =>
        /\ LifecycleInv'
        /\ [\A c \in up \ up' : \A e \in L!Elements(stack') : c \notin depends_on[e]]_L!vars
  BY LifecycleStep
<1> QED BY <1>1, <1>2, PTL DEF L!Spec, L!ClosedAfterDependents

=============================================================================
