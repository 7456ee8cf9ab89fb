-------------------------------- MODULE Stm ---------------------------------
(***************************************************************************)
(* The short-term tier: one namespace of the four key-value adapters, with *)
(* put, get, recent and evict called by concurrent tasks.  `backend` picks *)
(* the adapter.  "memory" is one dict and one sorted list under one lock:  *)
(* every call is a single step.  "redis" (and Valkey, which inherits it)   *)
(* writes row and recency set in one transaction and reads them one reply  *)
(* at a time.  "memcached" keeps the recency list under one key, rewritten *)
(* by compare-and-swap.  Every call to a server goes through retry_io: it  *)
(* may time out before or after its effect and be made again, and the task *)
(* may be cancelled at any await.                                          *)
(*                                                                         *)
(* The key of a row and of the recency index contain the namespace, so     *)
(* namespaces share nothing and one is modelled.  A row is the item with   *)
(* its expiry; of the item only the id and created_at are told apart.      *)
(***************************************************************************)
EXTENDS Integers, Sequences, FiniteSets

CONSTANTS
    Task,       \* concurrent callers
    Item,       \* records [id, created]: what put may be given
    Limits,     \* the limits recent is called with
    Backends,   \* the adapters a behaviour may start with
    Ttl,        \* default_ttl_s
    Cap,        \* max_items_per_namespace / recency_cap
    CasMax,     \* cas_max_attempts
    MaxCalls,   \* bound: calls made
    MaxNow,     \* bound: ticks of the clock
    MaxFaults,  \* bound: timeouts and cancellations
    None

Ids == {item.id : item \in Item}

ASSUME ItemAssumption == Item \subseteq [id : Nat, created : Nat]
ASSUME BoundAssumption ==
    /\ Backends \subseteq {"memory", "redis", "memcached"}
    /\ Limits \subseteq Nat
    /\ Ttl \in Nat \ {0} /\ Cap \in Nat \ {0} /\ CasMax \in Nat \ {0}
    /\ MaxCalls \in Nat /\ MaxNow \in Nat /\ MaxFaults \in Nat
    /\ None \notin [item : Item, expires : Nat, indexed : BOOLEAN]

VARIABLES
    backend,    \* the adapter under test, fixed
    rows,       \* id -> its row, or None
    index,      \* recency entries, most recent first
    lapses,     \* when the index key expires
    token,      \* CAS token of the index key, 0 when there is no key
    changes,    \* how often the index key was written or lapsed
    now,
    call,       \* task -> the state of its call
    calls, faults

vars == <<backend, rows, index, lapses, token, changes, now, call, calls, faults>>

Idle == [pc |-> "idle", op |-> "none", item |-> None, limit |-> 0,
         todo |-> <<>>, read |-> <<>>, seen |-> 0, tries |-> 0, since |-> 0]

Init == /\ backend \in Backends
        /\ rows = [id \in Ids |-> None]
        /\ index = <<>> /\ lapses = 0 /\ token = 0 /\ changes = 0
        /\ now = 0
        /\ call = [p \in Task |-> Idle]
        /\ calls = 0 /\ faults = 0

-----------------------------------------------------------------------------
(* The order and the bound of the index. *)

\* Ties on created_at: the sorted list orders by id, ZREVRANGE by id backwards,
\* and the sort of the Memcached list is stable, the new entry having come last.
Before(a, b) == \/ a.created > b.created
                \/ /\ a.created = b.created
                   /\ \/ backend = "memory" /\ a.id < b.id
                      \/ backend = "redis" /\ a.id > b.id

\* The entries of a list at the positions given, in their order.
Selected(s, positions) ==
    LET kept[i \in 0..Len(s)] ==
          IF i = 0 THEN <<>>
          ELSE IF i \in positions THEN Append(kept[i - 1], s[i]) ELSE kept[i - 1]
    IN  kept[Len(s)]

Without(s, ids) == Selected(s, {i \in 1..Len(s) : s[i].id \notin ids})

Added(s, item) ==
    LET rest == Without(s, {item.id})
        k == Cardinality({i \in 1..Len(rest) : ~Before(item, rest[i])})
    IN  SubSeq(rest, 1, k) \o <<item>> \o SubSeq(rest, k + 1, Len(rest))

\* Mutant: the oldest entries are kept.
TruncatedOldest(s) == IF Len(s) > Cap THEN SubSeq(s, Len(s) - Cap + 1, Len(s)) ELSE s

Truncated(s) == SubSeq(s, 1, IF Len(s) > Cap THEN Cap ELSE Len(s))

Row(item, indexed) == [item |-> item, expires |-> now + Ttl, indexed |-> indexed]

Expired(id) == rows[id] # None /\ rows[id].expires <= now
Live(id) == rows[id] # None /\ rows[id].expires > now

Drop(ids) == [id \in Ids |-> IF id \in ids THEN None ELSE rows[id]]

IdsOf(s) == {s[i].id : i \in 1..Len(s)}

-----------------------------------------------------------------------------
(* A call, its replies, and what interrupts it. *)

FirstStep(op) ==
    IF backend = "memory" THEN "exec"
    ELSE CASE op = "get" -> "fetch"
           [] op = "recent" -> "list"
           [] OTHER -> IF backend = "redis" THEN "exec" ELSE "row"

Opened(op, item, limit) ==
    [Idle EXCEPT !.pc = FirstStep(op), !.op = op, !.item = item, !.limit = limit,
                 !.todo = IF op = "get" THEN <<item.id>> ELSE <<>>]

Begin(p) == /\ call[p].pc \in {"idle", "raised"} /\ calls < MaxCalls
            /\ \/ \E item \in Item : call' = [call EXCEPT ![p] = Opened("put", item, 0)]
               \/ \E op \in {"get", "evict"}, id \in Ids :
                     call' = [call EXCEPT ![p] = Opened(op, [id |-> id, created |-> 0], 0)]
               \/ \E limit \in Limits :
                     call' = [call EXCEPT ![p] = Opened("recent", None, limit)]
            /\ calls' = calls + 1
            /\ UNCHANGED <<backend, rows, index, lapses, token, changes, now, faults>>

Goto(p, pc) == call' = [call EXCEPT ![p].pc = pc]

\* The compare-and-swap loop begins, and ends.
Looping(c) == [c EXCEPT !.pc = "read", !.read = <<>>, !.seen = 0, !.tries = 0, !.since = changes]
Looped(c) == [c EXCEPT !.read = <<>>, !.seen = 0, !.tries = 0, !.since = 0]

\* The next id of a recent, or its end: the reply it has just had.
Advance(c) == IF Len(c.todo) > 1 THEN [c EXCEPT !.todo = Tail(@), !.pc = "fetch"] ELSE Idle

\* The reply of the command that ended a put or an evict reaches the task.
Reply(p) == /\ call[p].pc = "reply"
            /\ call' = [call EXCEPT ![p] = Idle]
            /\ UNCHANGED <<backend, rows, index, lapses, token, changes, now, calls, faults>>

Waiting(p) == call[p].pc \notin {"idle", "raised"}

\* retry_io: an attempt timed out or lost its connection, before or after the
\* effect of the command it waited for.  The call starts again (attempt of the
\* public method), or only the compare-and-swap loop does (its own wrapper).
Retry(p) == /\ Waiting(p) /\ backend # "memory" /\ faults < MaxFaults
            /\ \/ call' = [call EXCEPT ![p] = Opened(@.op, @.item, @.limit)]
               \/ /\ call[p].pc = "cas"
                  /\ call' = [call EXCEPT ![p] = Looping(@)]
            /\ faults' = faults + 1
            /\ UNCHANGED <<backend, rows, index, lapses, token, changes, now, calls>>

\* Cancellation is never retried.
Cancel(p) == /\ Waiting(p) /\ faults < MaxFaults
             /\ call' = [call EXCEPT ![p] = Idle]
             /\ faults' = faults + 1
             /\ UNCHANGED <<backend, rows, index, lapses, token, changes, now, calls>>

\* Servers drop what expires; the dict keeps an expired row until it is touched.
Tick == LET dead == {id \in Ids : rows[id] # None /\ rows[id].expires <= now + 1}
            lapsed == backend # "memory" /\ lapses <= now + 1
        IN  /\ now < MaxNow /\ now' = now + 1
            /\ rows' = IF backend = "memory" THEN rows ELSE Drop(dead)
            /\ index' = IF lapsed THEN <<>> ELSE index
            /\ token' = IF lapsed THEN 0 ELSE token
            /\ changes' = IF lapsed /\ token # 0 THEN changes + 1 ELSE changes
            /\ UNCHANGED <<backend, lapses, call, calls, faults>>

-----------------------------------------------------------------------------
(* InMemoryStmAdapter: each method is one critical section. *)

\* _evict_locked: the recency entry removed is the one of the stored item.
Evicted(s, ids) ==
    Selected(s, {i \in 1..Len(s) :
                   ~(s[i].id \in ids /\ rows[s[i].id] # None /\ rows[s[i].id].item = s[i])})

ExpiredIds == {id \in Ids : Expired(id)}

InMemory(p, op) == backend = "memory" /\ call[p].pc = "exec" /\ call[p].op = op

MemoryReturn(p) == /\ call' = [call EXCEPT ![p] = Idle]
                   /\ UNCHANGED <<backend, lapses, token, changes, now, calls, faults>>

MemoryPut(p) ==
    LET item == call[p].item
        gone == ExpiredIds \cup {item.id}
        entries == Added(Evicted(index, gone), item)
        over == IdsOf(entries) \ IdsOf(Truncated(entries))
    IN  /\ InMemory(p, "put")
        /\ index' = Truncated(entries)
        /\ rows' = [id \in Ids |-> IF id \in over THEN None
                                   ELSE IF id = item.id THEN Row(item, TRUE)
                                   ELSE Drop(gone)[id]]
        /\ MemoryReturn(p)

\* get, evict: an expired row is pruned by the get that meets it.
MemoryGet(p) == LET gone == {call[p].item.id} \cap ExpiredIds IN
                /\ InMemory(p, "get")
                /\ index' = Evicted(index, gone) /\ rows' = Drop(gone)
                /\ MemoryReturn(p)

MemoryEvict(p) == LET gone == {call[p].item.id} IN
                  /\ InMemory(p, "evict")
                  /\ index' = Evicted(index, gone) /\ rows' = Drop(gone)
                  /\ MemoryReturn(p)

MemoryRecent(p) == /\ InMemory(p, "recent")
                   /\ index' = Evicted(index, ExpiredIds) /\ rows' = Drop(ExpiredIds)
                   /\ MemoryReturn(p)

-----------------------------------------------------------------------------
(* RedisStmAdapter: put and evict are one transaction each. *)

InRedis(p, op) == backend = "redis" /\ call[p].pc = "exec" /\ call[p].op = op

RedisPut(p) == /\ InRedis(p, "put")
               /\ rows' = [rows EXCEPT ![call[p].item.id] = Row(call[p].item, TRUE)]
               /\ index' = Added(index, call[p].item)
               /\ lapses' = now + Ttl
               /\ Goto(p, "reply")
               /\ UNCHANGED <<backend, token, changes, now, calls, faults>>

RedisEvict(p) == /\ InRedis(p, "evict")
                 /\ rows' = Drop({call[p].item.id})
                 /\ index' = Without(index, {call[p].item.id})
                 /\ Goto(p, "reply")
                 /\ UNCHANGED <<backend, lapses, token, changes, now, calls, faults>>

\* zrevrange(0, max(0, limit - 1)) is inclusive at both ends: it returns one
\* member when limit is 0, where the other adapters take a slice of none.
Requested(limit) == IF backend = "redis" /\ limit = 0 THEN 1 ELSE limit

\* recent, first command: the ids of the most recent entries.
List(p) == LET n == Requested(call[p].limit)
               ids == [i \in 1..(IF Len(index) < n THEN Len(index) ELSE n) |-> index[i].id]
           IN  /\ call[p].pc = "list"
               /\ call' = [call EXCEPT ![p] = IF ids = <<>> THEN Idle
                                              ELSE [@ EXCEPT !.todo = ids, !.pc = "fetch"]]
               /\ UNCHANGED <<backend, rows, index, lapses, token, changes, now, calls, faults>>

\* get of the next id.  One that is missing ends a get, and is removed from the
\* index by a recent.
Fetch(p) == LET id == Head(call[p].todo)
                c == call[p]
            IN  /\ call[p].pc = "fetch"
                /\ call' = [call EXCEPT ![p] =
                      IF Live(id) \/ c.op = "get" THEN Advance(c)
                      ELSE IF backend = "redis" THEN [c EXCEPT !.pc = "heal"]
                      ELSE Looping(c)]
                /\ UNCHANGED <<backend, rows, index, lapses, token, changes, now, calls, faults>>

RedisHeal(p) == /\ call[p].pc = "heal"
                /\ index' = Without(index, {Head(call[p].todo)})
                /\ call' = [call EXCEPT ![p] = Advance(@)]
                /\ UNCHANGED <<backend, rows, lapses, token, changes, now, calls, faults>>

-----------------------------------------------------------------------------
(* MemcachedStmAdapter: the row, then the list by compare-and-swap. *)

\* set or delete of the row, the first command of put and evict.
WriteRow(p) ==
    LET c == call[p] IN
    /\ c.pc = "row"
    /\ rows' = IF c.op = "put" THEN [rows EXCEPT ![c.item.id] = Row(c.item, FALSE)]
                               ELSE Drop({c.item.id})
    /\ call' = [call EXCEPT ![p] = Looping(@)]
    /\ UNCHANGED <<backend, index, lapses, token, changes, now, calls, faults>>

\* gets: the list and its token.
ReadRecency(p) ==
    /\ call[p].pc = "read"
    /\ call' = [call EXCEPT ![p].pc = "cas", ![p].read = index, ![p].seen = token]
    /\ UNCHANGED <<backend, rows, index, lapses, token, changes, now, calls, faults>>

\* The id that the loop removes or re-adds, and the list it writes.
Target(c) == IF c.op = "recent" THEN Head(c.todo) ELSE c.item.id
Updated(c) == Truncated(IF c.op = "put" THEN Added(c.read, c.item)
                                        ELSE Without(c.read, {Target(c)}))

\* Mutant: a plain set in place of the compare-and-swap.
SetSucceeds(p) ==
    LET c == call[p] IN
    /\ c.pc = "cas"
    /\ index' = Updated(c) /\ lapses' = now + Ttl
    /\ changes' = changes + 1 /\ token' = changes + 1
    /\ rows' = IF c.op = "put" /\ rows[c.item.id] # None
               THEN [rows EXCEPT ![c.item.id].indexed = TRUE] ELSE rows
    /\ call' = [call EXCEPT ![p] = IF c.op = "recent"
                                   THEN Advance(Looped(c))
                                   ELSE [Looped(c) EXCEPT !.pc = "reply"]]
    /\ UNCHANGED <<backend, now, calls, faults>>

\* add when there was no key, else cas: either fails if the key changed since.
CasSucceeds(p) ==
    LET c == call[p] IN
    /\ c.pc = "cas" /\ token = c.seen
    /\ index' = Updated(c) /\ lapses' = now + Ttl
    /\ changes' = changes + 1 /\ token' = changes + 1
    /\ rows' = IF c.op = "put" /\ rows[c.item.id] # None
               THEN [rows EXCEPT ![c.item.id].indexed = TRUE] ELSE rows
    /\ call' = [call EXCEPT ![p] = IF c.op = "recent"
                                   THEN Advance(Looped(c))
                                   ELSE [Looped(c) EXCEPT !.pc = "reply"]]
    /\ UNCHANGED <<backend, now, calls, faults>>

\* Mutant: the list is not read again before the next attempt.
CasFailsUnread(p) ==
    LET c == call[p] IN
    /\ c.pc = "cas" /\ token # c.seen
    /\ call' = [call EXCEPT ![p].tries = c.tries + 1,
                            ![p].pc = IF c.tries + 1 < CasMax THEN "cas" ELSE "raised"]
    /\ UNCHANGED <<backend, rows, index, lapses, token, changes, now, calls, faults>>

\* TierRepositoryUnavailableError is not retryable: the call ends with it.
CasFails(p) ==
    LET c == call[p] IN
    /\ c.pc = "cas" /\ token # c.seen
    /\ call' = [call EXCEPT ![p].tries = c.tries + 1,
                            ![p].read = <<>>, ![p].seen = 0,
                            ![p].pc = IF c.tries + 1 < CasMax THEN "read" ELSE "raised"]
    /\ UNCHANGED <<backend, rows, index, lapses, token, changes, now, calls, faults>>

-----------------------------------------------------------------------------
Step(p) == \/ Reply(p) \/ List(p) \/ Fetch(p)
           \/ MemoryPut(p) \/ MemoryGet(p) \/ MemoryEvict(p) \/ MemoryRecent(p)
           \/ RedisPut(p) \/ RedisEvict(p) \/ RedisHeal(p)
           \/ WriteRow(p) \/ ReadRecency(p) \/ CasSucceeds(p) \/ CasFails(p)

Next == \/ \E p \in Task : Begin(p) \/ Step(p) \/ Retry(p) \/ Cancel(p)
        \/ Tick

Spec == Init /\ [][Next]_vars

-----------------------------------------------------------------------------
(* Properties. *)

Calls == [pc : {"idle", "exec", "list", "fetch", "heal", "row", "read", "cas", "reply", "raised"},
          op : {"none", "put", "get", "recent", "evict"},
          item : Item \cup [id : Ids, created : {0}] \cup {None},
          limit : Limits \cup {0}, todo : Seq(Ids), read : Seq(Item),
          seen : Nat, tries : 0..CasMax, since : Nat]

\* The state has its type: rows are items with an expiry, the index is a list
\* of items, and each task is at one of the awaits of its call.
TypeOK == /\ backend \in Backends
          /\ rows \in [Ids -> [item : Item, expires : Nat, indexed : BOOLEAN] \cup {None}]
          /\ index \in Seq(Item)
          /\ lapses \in Nat /\ token \in Nat /\ changes \in Nat /\ now \in 0..MaxNow
          /\ call \in [Task -> Calls]
          /\ calls \in 0..MaxCalls /\ faults \in 0..MaxFaults

\* The in-process adapter gives up a live row, other than for an eviction or a
\* replacement, only when full, and then the least recent of all.
CapKeepsNewest ==
    [][backend = "memory" =>
         \A id \in Ids :
            Live(id) /\ rows'[id] = None /\ ~(\E p \in Task : MemoryEvict(p))
              => /\ Cardinality({x \in Ids : rows'[x] # None}) = Cap
                 /\ \A x \in Ids : rows'[x] # None => rows'[x].item.created >= rows[id].item.created
      ]_vars

\* The error "recency CAS failed ... (sustained write contention)" is true: the
\* list did change at least cas_max_attempts times under the call that raises.
ContentionIsReal ==
    \A p \in Task : call[p].pc = "raised" => changes - call[p].since >= CasMax

\* The index implements the abstract recency floor: no interleaving of the
\* compare-and-swap loops, no retry after a lost reply and no expiry of the
\* index key loses the entry of another id whose row is live and indexed.
Floor == INSTANCE RecencyFloor
            WITH floor <- index, kept <- {id \in Ids : Live(id) /\ rows[id].indexed}
ImplementsFloor == Floor!Spec
=============================================================================
