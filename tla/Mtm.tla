-------------------------------- MODULE Mtm ---------------------------------
(***************************************************************************)
(* The four MTM repositories.  Qdrant and pgvector are servers, Chroma and *)
(* FAISS run in the process behind one asyncio.Lock and a worker thread.   *)
(* What a call sends to a server or a thread is a job: it takes effect     *)
(* later, and goes on when the call that sent it has timed out or was      *)
(* cancelled.  The identifiers are numbered by their distance from the     *)
(* query, so a ranked list is an ascending one.                            *)
(***************************************************************************)
EXTENDS Naturals, FiniteSets, Sequences, SequencesExt, FiniteSetsExt

CONSTANTS
    Backends,     \* the repositories to choose from
    Id,           \* memory ids, a finite set of naturals
    Layouts,      \* functions from ids to namespaces, one of which is chosen
    AuthorizedIds,   \* of each id, where its namespace is shared
    SharedNs,     \* the namespaces of SHARED visibility
    Queries,      \* <<namespace, identities>>; Anyone: no identity set is given
    Anyone,
    Limit, MinWiden,
    Caller,
    MaxCalls, MaxAbandoned, MaxCrashes   \* bounds

ASSUME IdAssumption == IsFiniteSet(Id) /\ Id \subseteq Nat
ASSUME BackendsAssumption == Backends \subseteq {"qdrant", "pgvector", "chroma", "faiss"}
ASSUME CallerAssumption == "free" \notin Caller
ASSUME LimitAssumption == {Limit, MinWiden, MaxCalls, MaxAbandoned, MaxCrashes} \subseteq Nat

VARIABLES
    backend, NamespaceOf,   \* fixed
    exists,      \* collections or tables that have been created
    ensured,     \* _ensured, _collections or _indices: partitions seen to exist
    pool, pools, \* pgvector: the pool in use (0: none), and the open ones
    lock,        \* the caller inside the asyncio.Lock, or none
    points,      \* state of each point; for FAISS, the docstore
    index,       \* FAISS: ids that have a vector in the index
    disk,        \* FAISS: the two files, and which of them are torn
    jobs,        \* requests and threads under way
    call,        \* what each caller is doing
    calls, abandoned, crashes,
    acked, stamped   \* history: upserts returned; invalidations that must hold

tables  == <<exists, ensured, pool, pools>>
data    == <<points, index, disk>>
bounds  == <<calls, abandoned, crashes>>
history == <<acked, stamped>>
chosen  == <<backend, NamespaceOf>>
vars    == <<chosen, tables, lock, data, jobs, call, bounds, history>>

\* A call; `alone`: it invalidates a point that nobody is upserting.
Call(op, i, q, alone) ==
    [op |-> op, id |-> i, query |-> q, alone |-> alone, pc |-> "idle", job |-> 0, result |-> <<>>]
NoCall == Call("none", 0, <<>>, FALSE)
NoLock == "free"
Absent == "absent"
Locking == {"chroma", "faiss"}

Partition(ns) == IF ns \in SharedNs THEN "shared" ELSE "private"
Nothing       == [i \in Id |-> Absent]

\* The docstore is the second file to be written: where it is, so is the index.
\* One that was saved has an entry, and one that was cut short may hold none.
HasFiles  == disk.doc # Nothing \/ "dump" \in disk.torn
IsTorn    == HasFiles /\ disk.torn # {}
FileIndex == IF HasFiles THEN disk.index ELSE {}

Init ==
    /\ backend \in Backends /\ NamespaceOf \in Layouts
    /\ exists = {} /\ ensured = {} /\ pool = 0 /\ pools = {}
    /\ lock = NoLock
    /\ points = Nothing /\ index = {} /\ disk = [index |-> {}, doc |-> Nothing, torn |-> {}]
    /\ jobs = {} /\ call = [c \in Caller |-> NoCall]
    /\ calls = 0 /\ abandoned = 0 /\ crashes = 0
    /\ acked = {} /\ stamped = {}

-----------------------------------------------------------------------------
(***************************************************************************)
(* Calls begin at the lock, or at the check of the partition.  FAISS       *)
(* refuses a SHARED namespace.                                             *)
(***************************************************************************)
CallNs(k) == IF k.op = "semantic" THEN k.query[1] ELSE NamespaceOf[k.id]
Refused(k) == backend = "faiss" /\ CallNs(k) \in SharedNs

First == CASE backend \in Locking   -> "lock"
           [] backend = "qdrant"    -> "check"
           [] backend = "pgvector"  -> "pool"

\* An upsert of the point is under way, in a call or in a job left behind.
Upserting(i) ==
    \/ \E c \in Caller : call[c].op = "upsert" /\ call[c].id = i
    \/ \E j \in jobs : j.op = "upsert" /\ j.id = i

\* An upsert puts an end to what an invalidation promised, or is to promise.
Begin(c, k) ==
    /\ call[c].pc = "idle" /\ calls < MaxCalls
    /\ calls' = calls + 1
    /\ call' = [d \in Caller |->
                   IF d = c THEN [k EXCEPT !.pc = IF Refused(k) THEN "refused" ELSE First]
                   ELSE [call[d] EXCEPT !.alone = @ /\ ~(k.op = "upsert" /\ k.id = call[d].id)]]
    /\ stamped' = IF k.op = "upsert" THEN stamped \ {k.id} ELSE stamped
    /\ UNCHANGED <<chosen, tables, lock, data, jobs, abandoned, crashes, acked>>

upsert(c, i)     == Begin(c, Call("upsert", i, <<>>, FALSE))
invalidate(c, i) == Begin(c, Call("invalidate", i, <<>>, i \in acked /\ ~Upserting(i)))
semantic(c, q)   == Begin(c, Call("semantic", 0, q, FALSE))

Part(c) == Partition(CallNs(call[c]))
At(c, pc) == call[c].pc = pc
Goto(c, pc) == call' = [call EXCEPT ![c].pc = pc]

acquire(c) ==
    /\ At(c, "lock") /\ lock = NoLock
    /\ lock' = c /\ Goto(c, "open")
    /\ UNCHANGED <<chosen, tables, data, jobs, bounds, history>>

\* _collection() of Chroma and _load_sync() of FAISS: two files that both
\* exist are read back, and reading a torn one raises; else the index is new.
open(c) ==
    /\ At(c, "open")
    /\ \/ /\ Part(c) \in ensured \/ backend = "chroma"
          /\ Goto(c, "act")
          /\ ensured' = ensured \cup {Part(c)} /\ exists' = exists \cup {Part(c)}
          /\ UNCHANGED <<lock, points, index>>
       \/ /\ backend = "faiss" /\ Part(c) \notin ensured
          /\ ~IsTorn
          /\ points' = disk.doc /\ index' = FileIndex
          /\ Goto(c, "act") /\ ensured' = ensured \cup {Part(c)}
          /\ UNCHANGED <<lock, exists>>
       \/ /\ backend = "faiss" /\ Part(c) \notin ensured
          /\ IsTorn
          /\ Goto(c, "failed") /\ lock' = NoLock
          /\ UNCHANGED <<ensured, exists, points, index>>
    /\ UNCHANGED <<chosen, pool, pools, disk, jobs, bounds, history>>

\* Qdrant: _ensure_collection() for an upsert; the other calls look again and
\* have nothing to do where there is no collection.
check(c) ==
    /\ At(c, "check")
    /\ IF call[c].op = "upsert"
       THEN /\ Goto(c, IF Part(c) \in ensured \cup exists THEN "act" ELSE "create")
            /\ ensured' = IF Part(c) \in exists THEN ensured \cup {Part(c)} ELSE ensured
       ELSE /\ Goto(c, IF Part(c) \in exists THEN "act" ELSE "returned")
            /\ UNCHANGED ensured
    /\ UNCHANGED <<chosen, exists, pool, pools, lock, data, jobs, bounds, history>>

\* create_collection() of one that another caller has created is an error.
create(c) ==
    /\ At(c, "create")
    /\ Goto(c, IF Part(c) \in exists THEN "failed" ELSE "index")
    /\ exists' = exists \cup {Part(c)}
    /\ UNCHANGED <<chosen, ensured, pool, pools, lock, data, jobs, bounds, history>>

\* create_payload_index() for each keyword field.
create_indexes(c) ==
    /\ At(c, "index")
    /\ ensured' = ensured \cup {Part(c)} /\ Goto(c, "act")
    /\ UNCHANGED <<chosen, exists, pool, pools, lock, data, jobs, bounds, history>>

\* pgvector: _ensure_pool() looks, creates and stores the pool in two steps.
ensure_pool(c) ==
    /\ At(c, "pool")
    /\ Goto(c, IF pool = 0 THEN "connect" ELSE "table")
    /\ UNCHANGED <<chosen, tables, lock, data, jobs, bounds, history>>

create_pool(c) ==
    /\ At(c, "connect")
    /\ LET p == Max(pools \cup {0}) + 1
       IN pool' = p /\ pools' = pools \cup {p}
    /\ Goto(c, "table")
    /\ UNCHANGED <<chosen, exists, ensured, lock, data, jobs, bounds, history>>

\* close(): the pool in use is closed; one that was overwritten stays open.
close ==
    /\ backend = "pgvector" /\ pool # 0
    /\ \A c \in Caller : call[c].pc = "idle"
    /\ pools' = pools \ {pool} /\ pool' = 0
    /\ UNCHANGED <<chosen, exists, ensured, lock, data, jobs, call, bounds, history>>

\* _ensure_table(): CREATE ... IF NOT EXISTS; the other calls look.
ensure_table(c) ==
    /\ At(c, "table")
    /\ IF call[c].op = "upsert"
       THEN /\ ensured' = ensured \cup {Part(c)} /\ exists' = exists \cup {Part(c)}
            /\ Goto(c, "act")
       ELSE /\ Goto(c, IF Part(c) \in exists THEN "act" ELSE "returned")
            /\ UNCHANGED <<ensured, exists>>
    /\ UNCHANGED <<chosen, pool, pools, lock, data, jobs, bounds, history>>

-----------------------------------------------------------------------------
(***************************************************************************)
(* Searching.  The servers filter first; Chroma filters by namespace and   *)
(* state and by identities only after it has cut the list; FAISS ranks the *)
(* whole partition and filters what comes out.                             *)
(***************************************************************************)
Cut(s, n) == SubSeq(s, 1, IF n < Len(s) THEN n ELSE Len(s))

\* The ranked list of a set of ids, and what of a ranked list is in a set.
Ascending(S) ==
    CHOOSE s \in [1..Cardinality(S) -> S] : \A i, j \in 1..Cardinality(S) : i < j => s[i] < s[j]
Among(s, S)  == Ascending(Range(s) \cap S)

MayRead(i, q) ==
    q[1] \in SharedNs /\ q[2] # Anyone => AuthorizedIds[i] \cap q[2] # {}

ReadableBy(q) == {i \in Id : MayRead(i, q)}
Matching(q) == {i \in Id : points[i] = "active" /\ NamespaceOf[i] = q[1]}
Stored(part) == {i \in Id : points[i] # Absent /\ Partition(NamespaceOf[i]) = part}

\* _recall_filter() and the WHERE clause, then the limit.
FilteredSearch(q) == Cut(Ascending(Matching(q) \cap ReadableBy(q)), Limit)

\* Mutant: the list is cut to the limit and not to the widened number.
NotWidened(q) == Among(Cut(Ascending(Matching(q)), Limit), ReadableBy(q))

\* n_results is widened for the identity check, up to the larger of two bounds.
WidenedSearch(q) ==
    LET count   == Cardinality(Stored(Partition(q[1])))
        widened == Min({count, Max({Limit, MinWiden})})
        fetched == Cut(Ascending(Matching(q)), IF q[1] \in SharedNs /\ q[2] # Anyone
                                               THEN widened ELSE Min({count, Limit}))
    IN Cut(Among(fetched, ReadableBy(q)), Limit)

\* A vector without an entry in the docstore is skipped.
BruteForceSearch(q) == Cut(Among(Ascending(index), Matching(q)), Limit)

Search(q) == CASE backend = "chroma" -> WidenedSearch(q)
               [] backend = "faiss"  -> BruteForceSearch(q)
               [] OTHER              -> FilteredSearch(q)

\* `async with self._lock` is left, by a return or an exception.
Release(c) == IF lock = c THEN NoLock ELSE lock

search(c) ==
    /\ At(c, "act") /\ call[c].op = "semantic"
    /\ call' = [call EXCEPT ![c].pc = "returned", ![c].result = Search(call[c].query)]
    /\ lock' = Release(c)
    /\ UNCHANGED <<chosen, tables, data, jobs, bounds, history>>

-----------------------------------------------------------------------------
(***************************************************************************)
(* Writing: the call sends a job and waits for it.                         *)
(***************************************************************************)
send(c) ==
    /\ At(c, "act") /\ call[c].op # "semantic"
    /\ LET n == calls + abandoned
       IN  /\ jobs' = jobs \cup {[n |-> n, c |-> c, op |-> call[c].op, id |-> call[c].id, pc |-> "write"]}
           /\ call' = [call EXCEPT ![c].pc = "wait", ![c].job = n]
    /\ UNCHANGED <<chosen, tables, lock, data, bounds, history>>

\* An upsert replaces the point; an invalidation stamps one that is there.
Effect(j) ==
    IF j.op = "upsert" THEN "active"
    ELSE IF points[j.id] = Absent THEN Absent ELSE "superseded"

\* Mutant: only an upsert is saved.
SaveUpserts(j) == backend = "faiss" /\ j.op = "upsert"

\* A FAISS write has still to be saved, unless it found nothing to supersede.
NeedsSave(j) == backend = "faiss" /\ Effect(j) # Absent

\* The job takes effect.
write(j) ==
    /\ j.pc = "write"
    /\ points' = [points EXCEPT ![j.id] = Effect(j)]
    /\ index' = IF backend = "faiss" /\ j.op = "upsert" THEN index \cup {j.id} ELSE index
    /\ jobs' = (jobs \ {j}) \cup
               (IF NeedsSave(j) THEN {[j EXCEPT !.pc = "save"]} ELSE {})
    /\ UNCHANGED <<chosen, tables, lock, disk, call, bounds, history>>

\* Mutant: the docstore is saved before the index.
DocstoreFirst(j) ==
    IF j.pc = "save" THEN [disk EXCEPT !.doc = points] ELSE [disk EXCEPT !.index = index]

\* Mutant: the docstore is never written.
IndexOnly(j) == IF j.pc = "save" THEN [disk EXCEPT !.index = index] ELSE disk

\* _save_sync(): the index file and then the docstore.
Saved(j) ==
    IF j.pc = "save" THEN [disk EXCEPT !.index = index, !.torn = @ \ {"save"}]
                     ELSE [disk EXCEPT !.doc = points, !.torn = @ \ {"dump"}]

save(j) ==
    /\ j.pc \in {"save", "dump"}
    /\ disk' = Saved(j)
    /\ jobs' = (jobs \ {j}) \cup (IF j.pc = "save" THEN {[j EXCEPT !.pc = "dump"]} ELSE {})
    /\ UNCHANGED <<chosen, tables, lock, points, index, call, bounds, history>>

\* The awaited job has ended.
finish(c) ==
    /\ At(c, "wait") /\ \A j \in jobs : <<j.c, j.n>> # <<c, call[c].job>>
    /\ Goto(c, "returned") /\ lock' = Release(c)
    /\ UNCHANGED <<chosen, tables, data, jobs, bounds, history>>

return(c) ==
    /\ call[c].pc \in {"returned", "failed", "refused"}
    /\ call' = [call EXCEPT ![c] = NoCall]
    /\ acked' = IF At(c, "returned") /\ call[c].op = "upsert" THEN acked \cup {call[c].id} ELSE acked
    /\ stamped' = IF At(c, "returned") /\ call[c].alone
                  THEN stamped \cup {call[c].id} ELSE stamped
    /\ UNCHANGED <<chosen, tables, lock, data, jobs, bounds>>

\* A timeout: the call releases the lock and starts over while its job goes
\* on.  FAISS has no timeout; its caller is cancelled and gives up.
abandon(c) ==
    /\ At(c, "wait") /\ abandoned < MaxAbandoned
    /\ abandoned' = abandoned + 1
    /\ lock' = Release(c)
    /\ call' = [call EXCEPT ![c] = IF backend = "faiss" THEN NoCall ELSE [@ EXCEPT !.pc = First]]
    /\ UNCHANGED <<chosen, tables, data, jobs, calls, crashes, history>>

\* The process ends.  What is in its memory is gone, a file that was being
\* written may be torn, and a request may still reach a server.
crash ==
    /\ crashes < MaxCrashes /\ crashes' = crashes + 1
    /\ call' = [c \in Caller |-> NoCall] /\ lock' = NoLock
    /\ ensured' = {} /\ pool' = 0 /\ pools' = {}
    /\ jobs' = IF backend \in Locking THEN {} ELSE jobs
    /\ IF backend = "faiss"
       THEN /\ points' = Nothing /\ index' = {}
            /\ \E torn \in SUBSET {j.pc : j \in {k \in jobs : k.pc \in {"save", "dump"}}} :
                 disk' = [disk EXCEPT !.torn = @ \cup torn]
       ELSE UNCHANGED data
    /\ UNCHANGED <<chosen, exists, calls, abandoned, history>>

Step(c) ==
    \/ acquire(c) \/ open(c) \/ check(c) \/ create(c) \/ create_indexes(c)
    \/ ensure_pool(c) \/ create_pool(c) \/ ensure_table(c)
    \/ search(c) \/ send(c) \/ finish(c) \/ return(c)

Next ==
    \/ \E c \in Caller :
        \/ \E i \in Id : upsert(c, i) \/ invalidate(c, i)
        \/ \E q \in Queries : semantic(c, q)
        \/ Step(c) \/ abandon(c)
    \/ \E j \in jobs : write(j) \/ save(j)
    \/ close \/ crash

Spec == Init /\ [][Next]_vars

-----------------------------------------------------------------------------
States == {Absent, "active", "superseded"}

\* Only FAISS has an index and files, only pgvector pools, and the lock of a
\* locking repository is held by a caller inside it.
TypeOK ==
    /\ backend \in Backends /\ NamespaceOf \in Layouts
    /\ exists \subseteq {"shared", "private"} /\ ensured \subseteq {"shared", "private"}
    /\ pool \in pools \cup {0} /\ (pools # {} => backend = "pgvector")
    /\ lock \in Caller \cup {NoLock} /\ (lock # NoLock => call[lock].pc \in {"open", "act", "wait"})
    /\ points \in [Id -> States] /\ index \subseteq Id
    /\ disk.index \subseteq Id /\ disk.doc \in [Id -> States] /\ disk.torn \subseteq {"save", "dump"}
    /\ \A j \in jobs : j.op \in {"upsert", "invalidate"} /\ j.id \in Id
    /\ \A c \in Caller : call[c].result \in Seq(Id)
    /\ acked \subseteq Id /\ stamped \subseteq acked

\* What a caller finds in the repository now, or after the next load.
Loaded == backend # "faiss" \/ "private" \in ensured
Current(i) == IF Loaded THEN points[i] ELSE disk.doc[i]
CurrentIndex == IF Loaded THEN index ELSE FileIndex

\* What a search is to answer with: the nearest points its caller may read.
Expected(q) ==
    Cut(Ascending({i \in Matching(q) : MayRead(i, q) /\ (backend = "faiss" => i \in index)}), Limit)

\* A search answers with the nearest points that its caller may read, in rank
\* order and as many as the limit allows: filtering on the server, after
\* widening, and by brute force agree, but for Chroma on a SHARED partition
\* that holds more points than it widens to.
SearchIsExact ==
    [][\A c \in Caller :
         (search(c) /\ ~(/\ backend = "chroma" /\ call[c].query[1] \in SharedNs
                         /\ Cardinality(Stored("shared")) > Max({Limit, MinWiden})))
           => call'[c].result = Expected(call[c].query)]_vars

\* An upsert that has returned is found, with its vector, whatever timed out,
\* was cancelled or crashed since; only a torn FAISS file can lose it.
AcknowledgedIsFound ==
    IsTorn \/ \A i \in acked : /\ Current(i) # Absent
                               /\ backend = "faiss" => i \in CurrentIndex

\* An invalidation that returned holds until the point is upserted again: no
\* crash, cancelled writer or reload brings the superseded point back, unless
\* an upsert that had timed out was still under way.
InvalidationHolds ==
    IsTorn \/ \A i \in stamped : Current(i) = "superseded"

\* FAISS: an entry of the docstore always has its vector, in memory and in the
\* files, so that a crash between the two files never hides a point; a writer
\* that was cancelled goes on outside the lock, and is excepted.
IndexCoversDocstore ==
    (backend = "faiss" /\ ~IsTorn /\ abandoned = 0) =>
        /\ \A i \in Id : points[i] # Absent => i \in index
        /\ \A i \in Id : disk.doc[i] # Absent => i \in disk.index
=============================================================================
