------------------------------ MODULE MtmProofs ------------------------------
(***************************************************************************)
(* The MTM adapters, for any number of callers, ids, calls, timeouts and   *)
(* crashes, over the four backends: what an upsert acknowledged is found,  *)
(* what was invalidated stays superseded, and the index file of FAISS      *)
(* covers its docstore.  The invariant says of each id where its point is  *)
(* while the job that writes it goes from memory to the first and to the   *)
(* second file, and whose job that is.  Of the searches it is shown that a *)
(* ranked list exists and is the only one of its set, from which the three *)
(* ways to filter, widen and cut come to the same answer.                  *)
(***************************************************************************)
EXTENDS Mtm, SequenceTheorems, FiniteSetTheorems, FunctionTheorems, WellFoundedInduction, TLAPS

\* Where a call is.
PcSet == {"idle", "lock", "open", "check", "create", "index", "pool", "connect",
          "table", "act", "wait", "returned", "failed", "refused"}

\* A call whose result is one of R, and a job of the writer threads.
Calls(R) == [op : {"none", "upsert", "invalidate", "semantic"}, id : Id \cup {0},
             query : Queries \cup {<<>>}, alone : BOOLEAN,
             pc : PcSet, job : Nat, result : R]
Job == [n : Nat, c : Caller, op : {"upsert", "invalidate"}, id : Id,
        pc : {"write", "save", "dump"}]

\* What a search has returned is not typed: it is never read.
CallType == \E R : call \in [Caller -> Calls(R)]

\* The types of the stores, of the lock, of the jobs and of what is remembered.
StoreType ==
    /\ backend \in {"qdrant", "pgvector", "chroma", "faiss"}
    /\ lock \in Caller \cup {NoLock}
    /\ points \in [Id -> States] /\ index \subseteq Id
    /\ disk \in [index : SUBSET Id, doc : [Id -> States], torn : SUBSET {"save", "dump"}]
    /\ jobs \subseteq Job
    /\ calls \in Nat /\ abandoned \in Nat
    /\ acked \subseteq Id /\ stamped \subseteq Id

\* Where a call stands before it sends its job.
Ahead == {"lock", "open", "check", "create", "index", "pool", "connect", "table", "act"}

\* A job of the given caller and number.
IsOf(j, c, n) == j.c = c /\ j.n = n

\* The pair of caller and number names a job, and the one a call waits for is
\* a job of that call.
JobsNamed ==
    /\ \A c \in Caller : call[c].op \in {"upsert", "invalidate"} => call[c].id \in Id
    /\ \A c \in Caller : call[c].pc = "wait" => call[c].op \in {"upsert", "invalidate"}
    /\ \A c \in Caller : call[c].pc # "idle" => call[c].op # "none"
    /\ \A j, k \in jobs : IsOf(j, k.c, k.n) => j = k
    /\ \A j \in jobs : j.n <= calls + abandoned
    /\ \A j \in jobs : call[j.c].pc \in Ahead => j.n < calls + abandoned
    /\ \A j \in jobs : call[j.c].pc = "wait" /\ j.n = call[j.c].job
                         => j.op = call[j.c].op /\ j.id = call[j.c].id

\* Inside the lock is the caller that holds it, and a FAISS call that got past
\* the load is about the private partition, which is loaded.
Placed ==
    /\ \A c \in Caller : call[c].pc \in {"lock", "open"} => backend \in Locking
    /\ backend \in Locking =>
         /\ \A c \in Caller : call[c].pc \in {"open", "act", "wait"} => lock = c
         /\ \A c \in Caller : call[c].pc \in Ahead => call[c].pc \in {"lock", "open", "act"}
    /\ backend = "faiss" =>
         /\ \A c \in Caller : call[c].pc \notin {"idle", "refused"} => Part(c) = "private"
         /\ \A c \in Caller : call[c].pc \in {"act", "wait", "returned"} => "private" \in ensured
         /\ jobs # {} => "private" \in ensured
    /\ backend # "faiss" =>
         /\ ensured \subseteq exists
         /\ \A c \in Caller : call[c].op = "upsert" /\ call[c].pc \in {"act", "wait", "returned"}
                                => Part(c) \in exists
         /\ \A c \in Caller : call[c].pc = "index" => Part(c) \in exists
         /\ \A j \in jobs : j.pc = "write"

\* The job of a call has ended.
Ended(c) ==
    \/ call[c].pc = "returned"
    \/ call[c].pc = "wait" /\ \A j \in jobs : ~IsOf(j, c, call[c].job)

\* The point is where a search looks, and where a load would find it.
InMemory(i) == points[i] # Absent /\ (backend = "faiss" => i \in index)
InFiles(i)  == backend = "faiss" => disk.doc[i] # Absent /\ i \in disk.index

\* An upsert is in memory once its job has written, in the index file once it
\* has saved that, and in both files once it has ended.
Kept ==
    /\ \A i \in acked : /\ Loaded => InMemory(i)
                        /\ InFiles(i)
                        /\ backend # "faiss" => Partition(NamespaceOf[i]) \in exists
    /\ \A c \in Caller : call[c].op = "upsert" /\ Ended(c)
                           => InMemory(call[c].id) /\ InFiles(call[c].id)
    /\ \A j \in jobs : j.op = "upsert" /\ j.pc \in {"save", "dump"} => InMemory(j.id)
    /\ \A j \in jobs : j.op = "upsert" /\ j.pc = "dump" => j.id \in disk.index

\* The point is superseded there.
SupersededInMemory(i) == points[i] = "superseded"
SupersededInFiles(i) == backend = "faiss" => disk.doc[i] = "superseded"

\* No upsert is under way while an invalidation alone is, or is to hold.
Held ==
    /\ \A i \in stamped : /\ i \in acked /\ ~Upserting(i)
                          /\ Loaded => SupersededInMemory(i)
                          /\ SupersededInFiles(i)
    /\ \A c \in Caller : call[c].alone =>
         /\ call[c].op = "invalidate" /\ call[c].id \in acked /\ ~Upserting(call[c].id)
         /\ \A j \in jobs : IsOf(j, c, call[c].job) /\ call[c].pc = "wait"
                              /\ j.pc # "write" => SupersededInMemory(j.id)
         /\ Ended(c) => SupersededInMemory(call[c].id) /\ SupersededInFiles(call[c].id)

\* While nobody was cancelled a FAISS writer is alone, and the index file it
\* has saved is the index.
Covered ==
    backend = "faiss" /\ abandoned = 0 =>
        /\ \A j \in jobs : call[j.c].pc = "wait" /\ call[j.c].job = j.n
        /\ \A j \in jobs : j.pc = "dump" => disk.index = index
        /\ \A i \in Id : points[i] # Absent => i \in index
        /\ \A i \in Id : disk.doc[i] # Absent => i \in disk.index
        /\ Loaded => \A i \in Id : disk.doc[i] # Absent => points[i] # Absent

-----------------------------------------------------------------------------
(***************************************************************************)
(* What the actions do to the calls.                                       *)
(***************************************************************************)
\* The call of c goes on to p, and the other callers stay where they are.
Onward(c, p) ==
    /\ \A d \in Caller \ {c} : call'[d] = call[d]
    /\ call'[c].pc = p
    /\ call'[c].op = call[c].op /\ call'[c].id = call[c].id
    /\ call'[c].query = call[c].query /\ call'[c].alone = call[c].alone

\* The call of c has ended.
Gone(c) ==
    /\ \A d \in Caller \ {c} : call'[d] = call[d]
    /\ call'[c] = NoCall

\* A caller without a call.
LEMMA NoCallType == NoCall.pc = "idle" /\ NoCall.op = "none" /\ NoCall.alone = FALSE
BY DEF NoCall, Call

\* Where a call enters the lazy ensure.
LEMMA FirstIsAhead ==
    ASSUME StoreType PROVE First \in Ahead /\ First # "act" /\ First # "open"
BY DEF StoreType, First, Ahead, Locking

\* Goto changes the place of one call.
LEMMA GotoMoves ==
    ASSUME CallType, NEW c \in Caller, NEW p \in PcSet, Goto(c, p)
    PROVE  CallType' /\ Onward(c, p) /\ call'[c].job = call[c].job
<1>1. PICK R : call \in [Caller -> Calls(R)]
  BY DEF CallType
<1>2. call' = [call EXCEPT ![c] = [call[c] EXCEPT !.pc = p]]
  BY <1>1 DEF Goto
<1>3. call[c] \in Calls(R)
  BY <1>1
<1>4. [call[c] EXCEPT !.pc = p] \in Calls(R)
  BY <1>3 DEF Calls, PcSet
<1>5. call' \in [Caller -> Calls(R)]
  BY <1>1, <1>2, <1>4
<1>6. CallType'
  BY <1>5 DEF CallType
<1>7. call'[c] = [call[c] EXCEPT !.pc = p] /\ \A d \in Caller \ {c} : call'[d] = call[d]
  BY <1>1, <1>2
<1>8. QED
  BY <1>3, <1>6, <1>7 DEF Onward, Calls

\* A search returns its result, which nothing else reads.
LEMMA SearchMoves ==
    ASSUME CallType, NEW c \in Caller, search(c)
    PROVE  CallType' /\ Onward(c, "returned") /\ call'[c].job = call[c].job
<1>1. PICK R : call \in [Caller -> Calls(R)]
  BY DEF CallType
<1> DEFINE r == Search(call[c].query)
           k == [[call[c] EXCEPT !.pc = "returned"] EXCEPT !.result = r]
<1>2. call' = [call EXCEPT ![c].pc = "returned", ![c].result = r]
  BY DEF search
<1> HIDE DEF r
<1>3. call[c] \in Calls(R)
  BY <1>1
<1>4. call' = [call EXCEPT ![c] = k]
  BY <1>1, <1>2
<1>5. /\ k \in Calls(R \cup {r})
      /\ k.pc = "returned" /\ k.op = call[c].op /\ k.id = call[c].id
      /\ k.query = call[c].query /\ k.alone = call[c].alone /\ k.job = call[c].job
  BY <1>3 DEF Calls, PcSet
<1> HIDE DEF k
<1>6. ASSUME NEW d \in Caller PROVE call[d] \in Calls(R \cup {r})
  <2>1. call[d] \in Calls(R)
    BY <1>1
  <2>2. QED
    BY <2>1 DEF Calls
<1>7. call' \in [Caller -> Calls(R \cup {r})]
  BY <1>1, <1>4, <1>5, <1>6
<1>8. CallType'
  BY <1>7 DEF CallType
<1>9. call'[c] = k /\ \A d \in Caller \ {c} : call'[d] = call[d]
  BY <1>1, <1>4
<1>10. QED
  BY <1>5, <1>8, <1>9 DEF Onward

\* A call that has sent its job waits for that job.
LEMMA SendMoves ==
    ASSUME CallType, StoreType, NEW c \in Caller, send(c)
    PROVE  CallType' /\ Onward(c, "wait") /\ call'[c].job = calls + abandoned
<1>1. PICK R : call \in [Caller -> Calls(R)]
  BY DEF CallType
<1> DEFINE k == [[call[c] EXCEPT !.pc = "wait"] EXCEPT !.job = calls + abandoned]
<1>2. call' = [call EXCEPT ![c].pc = "wait", ![c].job = calls + abandoned]
  BY DEF send
<1>3. call[c] \in Calls(R) /\ calls + abandoned \in Nat
  BY <1>1 DEF StoreType
<1>4. call' = [call EXCEPT ![c] = k]
  BY <1>1, <1>2
<1>5. /\ k \in Calls(R)
      /\ k.pc = "wait" /\ k.op = call[c].op /\ k.id = call[c].id
      /\ k.query = call[c].query /\ k.alone = call[c].alone /\ k.job = calls + abandoned
  BY <1>3 DEF Calls, PcSet
<1> HIDE DEF k
<1>6. call' \in [Caller -> Calls(R)]
  BY <1>1, <1>4, <1>5
<1>7. CallType'
  BY <1>6 DEF CallType
<1>8. call'[c] = k /\ \A d \in Caller \ {c} : call'[d] = call[d]
  BY <1>1, <1>4
<1>9. QED
  BY <1>5, <1>7, <1>8 DEF Onward

\* No call is typed whatever the results are.
LEMMA NoCallIsCall == \A R : NoCall \in Calls(R \cup {<<>>})
BY DEF NoCall, Call, Calls, PcSet

\* Calls stay typed when another result is possible.
LEMMA Wider == \A R : Calls(R) \subseteq Calls(R \cup {<<>>})
BY DEF Calls

\* A call that ends leaves its caller without one.
LEMMA GoneMoves ==
    ASSUME CallType, NEW c \in Caller, call' = [call EXCEPT ![c] = NoCall]
    PROVE  CallType' /\ Gone(c)
<1>1. PICK R : call \in [Caller -> Calls(R)]
  BY DEF CallType
<1>2. call' \in [Caller -> Calls(R \cup {<<>>})]
  BY <1>1, NoCallIsCall, Wider
<1>3. QED
  BY <1>1, <1>2 DEF CallType, Gone

\* A crash leaves every caller without a call.
LEMMA CrashMoves ==
    ASSUME CallType, crash
    PROVE  CallType' /\ \A c \in Caller : call'[c] = NoCall
<1>1. call' = [c \in Caller |-> NoCall]
  BY DEF crash
<1>2. call' \in [Caller -> Calls({} \cup {<<>>})]
  BY <1>1, NoCallIsCall
<1>3. QED
  BY <1>1, <1>2 DEF CallType

\* The call k begins at c.
Begun(c, k) ==
    /\ call'[c].op = k.op /\ call'[c].id = k.id /\ call'[c].query = k.query
    /\ call'[c].alone = k.alone
    /\ call'[c].pc = IF Refused(k) THEN "refused" ELSE First
    /\ \A d \in Caller \ {c} :
         /\ call'[d].op = call[d].op /\ call'[d].id = call[d].id
         /\ call'[d].query = call[d].query
         /\ call'[d].pc = call[d].pc /\ call'[d].job = call[d].job
         /\ call'[d].alone = (call[d].alone /\ ~(k.op = "upsert" /\ k.id = call[d].id))

\* A caller without a call begins one.
LEMMA BeginMoves ==
    ASSUME CallType, StoreType, NEW c \in Caller,
           NEW op \in {"upsert", "invalidate", "semantic"}, NEW i \in Id \cup {0},
           NEW q \in Queries \cup {<<>>}, NEW alone \in BOOLEAN,
           Begin(c, Call(op, i, q, alone))
    PROVE  CallType' /\ Begun(c, Call(op, i, q, alone))
<1>1. PICK R : call \in [Caller -> Calls(R)]
  BY DEF CallType
<1> DEFINE k == Call(op, i, q, alone)
           T == Calls(R \cup {<<>>})
           First2 == IF Refused(k) THEN "refused" ELSE First
           Met(d) == k.op = "upsert" /\ k.id = call[d].id
           New(d) == IF d = c THEN [k EXCEPT !.pc = First2]
                     ELSE [call[d] EXCEPT !.alone = @ /\ ~Met(d)]
<1>2. call' = [d \in Caller |-> New(d)]
  BY DEF Begin
<1>3. k \in T
  BY DEF Call, Calls, PcSet
<1>4. First2 \in PcSet
  BY FirstIsAhead DEF Ahead, PcSet
<1>5. Met(c) \in BOOLEAN /\ \A d \in Caller : Met(d) \in BOOLEAN
  OBVIOUS
<1> HIDE DEF k, First2
<1>6. /\ [k EXCEPT !.pc = First2] \in T
      /\ [k EXCEPT !.pc = First2].op = k.op /\ [k EXCEPT !.pc = First2].id = k.id
      /\ [k EXCEPT !.pc = First2].query = k.query
      /\ [k EXCEPT !.pc = First2].alone = k.alone
      /\ [k EXCEPT !.pc = First2].pc = First2
  BY <1>3, <1>4 DEF Calls, PcSet
<1>7. ASSUME NEW d \in Caller \ {c}
      PROVE  /\ New(d) \in T
             /\ New(d).op = call[d].op /\ New(d).id = call[d].id
             /\ New(d).query = call[d].query
             /\ New(d).pc = call[d].pc /\ New(d).job = call[d].job
             /\ New(d).alone = (call[d].alone /\ ~Met(d))
  <2>1. call[d] \in Calls(R)
    BY <1>1
  <2>2. call[d] \in T
    BY <2>1, Wider
  <2>3. (call[d].alone /\ ~Met(d)) \in BOOLEAN
    OBVIOUS
  <2> DEFINE b == call[d].alone /\ ~Met(d)
  <2>4. New(d) = [call[d] EXCEPT !.alone = b]
    BY <2>2 DEF Calls
  <2>5. b \in BOOLEAN
    BY <2>3
  <2> HIDE DEF b, New
  <2>6. QED
    <3>1. New(d) \in T
      BY <2>2, <2>4, <2>5 DEF Calls
    <3>2. /\ New(d).op = call[d].op /\ New(d).id = call[d].id
          /\ New(d).query = call[d].query
          /\ New(d).pc = call[d].pc /\ New(d).job = call[d].job
          /\ New(d).alone = b
      BY <2>2, <2>4, <2>5 DEF Calls
    <3>3. QED
      BY <3>1, <3>2 DEF b
<1>8. New(c) = [k EXCEPT !.pc = First2]
  OBVIOUS
<1> HIDE DEF New, T
<1>9. call' \in [Caller -> T]
  BY <1>2, <1>6, <1>7, <1>8
<1>10. CallType'
  BY <1>9 DEF CallType, T
<1>11. \A d \in Caller : call'[d] = New(d)
  BY <1>2
<1>12. \A d \in Caller \ {c} :
         /\ New(d).op = call[d].op /\ New(d).id = call[d].id
         /\ New(d).query = call[d].query
         /\ New(d).pc = call[d].pc /\ New(d).job = call[d].job
         /\ New(d).alone = (call[d].alone /\ ~Met(d))
  BY <1>7
<1>13. /\ call'[c].op = k.op /\ call'[c].id = k.id /\ call'[c].query = k.query
       /\ call'[c].alone = k.alone /\ call'[c].pc = First2
  BY <1>6, <1>8, <1>11
<1>14. ASSUME NEW d \in Caller \ {c}
       PROVE  /\ call'[d].op = call[d].op /\ call'[d].id = call[d].id
              /\ call'[d].query = call[d].query
              /\ call'[d].pc = call[d].pc /\ call'[d].job = call[d].job
              /\ call'[d].alone = (call[d].alone /\ ~(k.op = "upsert" /\ k.id = call[d].id))
  <2>1. call'[d] = New(d)
    BY <1>11
  <2>2. QED
    BY <1>12, <2>1
<1>15. Begun(c, k)
  BY <1>13, <1>14 DEF Begun, First2
<1>16. QED
  BY <1>10, <1>15 DEF k

\* The fields of a typed call.
LEMMA CallFields ==
    ASSUME CallType, NEW c \in Caller
    PROVE  /\ call[c].pc \in PcSet /\ call[c].alone \in BOOLEAN /\ call[c].job \in Nat
           /\ call[c].op \in {"none", "upsert", "invalidate", "semantic"}
<1>1. PICK R : call \in [Caller -> Calls(R)]
  BY DEF CallType
<1>2. call[c] \in Calls(R)
  BY <1>1
<1>3. QED
  BY <1>2 DEF Calls

-----------------------------------------------------------------------------
(***************************************************************************)
(* The steps of a call up to its act: they create, load or find the        *)
(* partition, and touch no job and no file.                                *)
(***************************************************************************)
Walk(c, p) ==
    /\ Onward(c, p) /\ call'[c].job = call[c].job
    /\ call[c].pc \in Ahead \ {"act"} /\ p \in Ahead \cup {"returned", "failed"}
    /\ UNCHANGED <<backend, NamespaceOf, disk, jobs, calls, abandoned, acked, stamped>>
    /\ exists \subseteq exists' /\ ensured \subseteq ensured'
    /\ backend # "faiss" => ensured' \subseteq exists'
    /\ backend \in Locking => p \in {"open", "act", "failed"}
    /\ p # "lock" /\ (p = "open" => backend \in Locking)
    /\ \/ p = "open" /\ lock = NoLock /\ lock' = c
       \/ p = "failed" /\ lock' = NoLock /\ lock = c
       \/ p # "open" /\ lock' = lock /\ (backend \in Locking => call[c].pc = "open")
    /\ p = "act" => /\ backend = "faiss" => "private" \in ensured'
                    /\ backend # "faiss" /\ call[c].op = "upsert" => Part(c) \in exists'
    /\ p = "index" => backend # "faiss" /\ Part(c) \in exists'
    /\ p = "returned" => backend # "faiss" /\ call[c].op # "upsert" /\ Part(c) \notin exists
    /\ \/ UNCHANGED <<points, index>> /\ Loaded' = Loaded
       \/ backend = "faiss" /\ ~Loaded /\ Loaded' /\ points' = disk.doc /\ index' = FileIndex

\* The steps of the lazy ensure, of a load and of the lock are walks.
LEMMA Walks ==
    ASSUME CallType, StoreType, Placed, NEW c \in Caller,
           \/ acquire(c) \/ open(c) \/ check(c) \/ create(c) \/ create_indexes(c)
           \/ ensure_pool(c) \/ create_pool(c) \/ ensure_table(c)
    PROVE  CallType' /\ \E p \in PcSet : Walk(c, p)
<1> USE DEF chosen, tables, data, bounds, history, At
<1>1. CASE acquire(c)
  <2>1. CallType' /\ Onward(c, "open") /\ call'[c].job = call[c].job
    BY <1>1, GotoMoves DEF acquire, PcSet
  <2>2. Loaded' = Loaded
    BY <1>1 DEF acquire, Loaded
  <2>a. /\ UNCHANGED <<backend, NamespaceOf, disk, jobs, calls, abandoned, acked, stamped>>
        /\ UNCHANGED <<exists, ensured, points, index>>
        /\ lock = NoLock /\ lock' = c /\ call[c].pc = "lock"
    BY <1>1 DEF acquire
  <2>3. Walk(c, "open")
    BY <2>1, <2>2, <2>a DEF Walk, Ahead, Placed
  <2>4. QED
    BY <2>1, <2>3 DEF PcSet
<1>2. CASE open(c)
  <2>1. backend \in Locking /\ (backend = "faiss" => Part(c) = "private")
    BY <1>2, CallFields DEF open, Placed, Locking
  <2>2. CASE Part(c) \in ensured \/ backend = "chroma"
    <3>1. /\ Goto(c, "act")
          /\ ensured' = ensured \cup {Part(c)} /\ exists' = exists \cup {Part(c)}
          /\ UNCHANGED <<backend, NamespaceOf, disk, jobs, calls, abandoned, acked, stamped, lock,
                         points, index>>
          /\ call[c].pc = "open"
      BY <1>2, <2>2 DEF open
    <3>2. CallType' /\ Onward(c, "act") /\ call'[c].job = call[c].job
      BY <3>1, GotoMoves DEF PcSet
    <3>3. Loaded' = Loaded
      BY <3>1, <2>1, <2>2 DEF Loaded
    <3>4. Walk(c, "act")
      BY <3>1, <3>2, <3>3, <2>1, <2>2 DEF Walk, Ahead, Placed
    <3>5. QED
      BY <3>2, <3>4 DEF PcSet
  <2>3. CASE ~(Part(c) \in ensured \/ backend = "chroma") /\ ~IsTorn
    <3>1. /\ Goto(c, "act") /\ backend = "faiss"
          /\ points' = disk.doc /\ index' = FileIndex
          /\ ensured' = ensured \cup {Part(c)} /\ exists' = exists
          /\ UNCHANGED <<backend, NamespaceOf, disk, jobs, calls, abandoned, acked, stamped, lock>>
          /\ call[c].pc = "open"
      BY <1>2, <2>3 DEF open
    <3>2. CallType' /\ Onward(c, "act") /\ call'[c].job = call[c].job
      BY <3>1, GotoMoves DEF PcSet
    <3>3. ~Loaded /\ Loaded'
      BY <3>1, <2>1, <2>3 DEF Loaded
    <3>4. Walk(c, "act")
      BY <3>1, <3>2, <3>3, <2>1 DEF Walk, Ahead
    <3>5. QED
      BY <3>2, <3>4 DEF PcSet
  <2>4. CASE ~(Part(c) \in ensured \/ backend = "chroma") /\ IsTorn
    <3>1. /\ Goto(c, "failed") /\ backend = "faiss" /\ lock' = NoLock
          /\ UNCHANGED <<backend, NamespaceOf, disk, jobs, calls, abandoned, acked, stamped,
                         points, index, ensured, exists>>
          /\ call[c].pc = "open"
      BY <1>2, <2>4 DEF open
    <3>2. CallType' /\ Onward(c, "failed") /\ call'[c].job = call[c].job
      BY <3>1, GotoMoves DEF PcSet
    <3>3. Loaded' = Loaded
      BY <3>1 DEF Loaded
    <3>4. Walk(c, "failed")
      BY <3>1, <3>2, <3>3, <2>1 DEF Walk, Ahead, Placed
    <3>5. QED
      BY <3>2, <3>4 DEF PcSet
  <2>5. QED
    BY <2>2, <2>3, <2>4
<1>3. ASSUME NEW p \in PcSet, Goto(c, p), call[c].pc \in Ahead \ {"lock", "open", "act"},
             p \in Ahead \cup {"returned", "failed"}, p \notin {"lock", "open"},
             UNCHANGED <<backend, NamespaceOf, disk, jobs, calls, abandoned, acked, stamped, lock,
                         points, index>>,
             exists \subseteq exists', ensured \subseteq ensured',
             ensured \subseteq exists => ensured' \subseteq exists',
             p = "act" /\ ensured \subseteq exists /\ call[c].op = "upsert" => Part(c) \in exists',
             p = "index" => Part(c) \in exists',
             p = "returned" => call[c].op # "upsert" /\ Part(c) \notin exists
      PROVE  CallType' /\ \E q \in PcSet : Walk(c, q)
  <2>1. CallType' /\ Onward(c, p) /\ call'[c].job = call[c].job
    BY <1>3, GotoMoves
  <2>2. backend \notin Locking /\ backend # "faiss"
    BY <1>3 DEF Placed, Ahead, Locking
  <2>3. Loaded' = Loaded
    BY <1>3, <2>2 DEF Loaded
  <2>4. ensured \subseteq exists
    BY <2>2 DEF Placed
  <2>5. Walk(c, p)
    BY <1>3, <2>1, <2>2, <2>3, <2>4 DEF Walk
  <2>6. QED
    BY <2>1, <2>5
<1>4. CASE check(c)
  <2>1. CASE call[c].op = "upsert" /\ Part(c) \in ensured \cup exists
    BY <1>3, <1>4, <2>1 DEF check, Ahead, PcSet
  <2>2. CASE call[c].op = "upsert" /\ Part(c) \notin ensured \cup exists
    BY <1>3, <1>4, <2>2 DEF check, Ahead, PcSet
  <2>3. CASE call[c].op # "upsert" /\ Part(c) \in exists
    BY <1>3, <1>4, <2>3 DEF check, Ahead, PcSet
  <2>4. CASE call[c].op # "upsert" /\ Part(c) \notin exists
    BY <1>3, <1>4, <2>4 DEF check, Ahead, PcSet
  <2>5. QED
    BY <2>1, <2>2, <2>3, <2>4
<1>5. CASE create(c)
  <2>1. CASE Part(c) \in exists
    BY <1>3, <1>5, <2>1 DEF create, Ahead, PcSet
  <2>2. CASE Part(c) \notin exists
    BY <1>3, <1>5, <2>2 DEF create, Ahead, PcSet
  <2>3. QED
    BY <2>1, <2>2
<1>6. CASE create_indexes(c)
  <2>1. call[c].pc = "index" /\ backend \notin Locking
    BY <1>6 DEF create_indexes, Placed, Ahead
  <2>2. Part(c) \in exists
    BY <2>1 DEF Placed, Locking
  <2>3. QED
    BY <1>3, <1>6, <2>1, <2>2 DEF create_indexes, Ahead, PcSet
<1>7. CASE ensure_pool(c)
  <2>1. CASE pool = 0
    BY <1>3, <1>7, <2>1 DEF ensure_pool, Ahead, PcSet
  <2>2. CASE pool # 0
    BY <1>3, <1>7, <2>2 DEF ensure_pool, Ahead, PcSet
  <2>3. QED
    BY <2>1, <2>2
<1>8. CASE create_pool(c)
  BY <1>3, <1>8 DEF create_pool, Ahead, PcSet
<1>9. CASE ensure_table(c)
  <2>1. CASE call[c].op = "upsert"
    BY <1>3, <1>9, <2>1 DEF ensure_table, Ahead, PcSet
  <2>2. CASE call[c].op # "upsert" /\ Part(c) \in exists
    BY <1>3, <1>9, <2>2 DEF ensure_table, Ahead, PcSet
  <2>3. CASE call[c].op # "upsert" /\ Part(c) \notin exists
    BY <1>3, <1>9, <2>3 DEF ensure_table, Ahead, PcSet
  <2>4. QED
    BY <2>1, <2>2, <2>3
<1>10. QED
  BY <1>1, <1>2, <1>4, <1>5, <1>6, <1>7, <1>8, <1>9

-----------------------------------------------------------------------------
(***************************************************************************)
(* The invariant, one kind of step after the other.                        *)
(***************************************************************************)
Inv == CallType /\ StoreType /\ JobsNamed /\ Placed /\ Kept /\ Held /\ Covered

\* What a call is about does not change on its way.
LEMMA OnwardSame ==
    ASSUME NEW c \in Caller, NEW p, Onward(c, p), UNCHANGED NamespaceOf
    PROVE  \A d \in Caller : /\ call'[d].op = call[d].op /\ call'[d].id = call[d].id
                             /\ call'[d].alone = call[d].alone /\ Part(d)' = Part(d)
                             /\ call'[d].pc = IF d = c THEN p ELSE call[d].pc
BY DEF Onward, Part, CallNs

\* Upserting depends on the calls and on the jobs alone.
LEMMA SameUpserting ==
    ASSUME \A d \in Caller : call'[d].op = call[d].op /\ call'[d].id = call[d].id,
           \A j \in jobs' : j.op = "upsert" =>
               \/ \E k \in jobs : k.op = "upsert" /\ k.id = j.id
               \/ \E d \in Caller : call[d].op = "upsert" /\ call[d].id = j.id,
           NEW i, Upserting(i)'
    PROVE  Upserting(i)
BY DEF Upserting

\* A walk keeps the invariant.
LEMMA WalkInv ==
    ASSUME Inv, NEW c \in Caller, NEW p \in PcSet, CallType', Walk(c, p)
    PROVE  Inv'
<1> USE DEF Inv
<1>1. /\ Onward(c, p) /\ call'[c].job = call[c].job
      /\ UNCHANGED <<backend, NamespaceOf, disk, jobs, calls, abandoned, acked, stamped>>
      /\ exists \subseteq exists' /\ ensured \subseteq ensured'
      /\ call[c].pc \in Ahead \ {"act"} /\ p \in Ahead \cup {"returned", "failed"}
  BY DEF Walk
<1>2. \A d \in Caller : /\ call'[d].op = call[d].op /\ call'[d].id = call[d].id
                        /\ call'[d].alone = call[d].alone /\ Part(d)' = Part(d)
                        /\ call'[d].pc = IF d = c THEN p ELSE call[d].pc
                        /\ call'[d].job = call[d].job
  BY <1>1, OnwardSame DEF Onward
<1>3. \A i : Upserting(i)' => Upserting(i)
  BY <1>1, <1>2, SameUpserting
<1>4. StoreType'
  <2>1. points' \in [Id -> States] /\ index' \subseteq Id
    BY DEF StoreType, Walk, FileIndex
  <2>2. lock' \in Caller \cup {NoLock}
    BY DEF StoreType, Walk
  <2>3. QED
    BY <1>1, <2>1, <2>2 DEF StoreType
<1>5. JobsNamed'
  <2>1. \A j \in jobs : j.c \in Caller
    BY DEF StoreType, Job
  <2>2. c \in Caller /\ p # "wait"
    BY <1>1 DEF Ahead
  <2>3. (\A d \in Caller : call[d].op \in {"upsert", "invalidate"} => call[d].id \in Id)'
    BY <1>2 DEF JobsNamed
  <2>4. (\A d \in Caller : call[d].pc = "wait" => call[d].op \in {"upsert", "invalidate"})'
    BY <1>2, <2>2 DEF JobsNamed
  <2>a. (\A d \in Caller : call[d].pc # "idle" => call[d].op # "none")'
    BY <1>1, <1>2 DEF JobsNamed, Ahead
  <2>5. (\A j, k \in jobs : IsOf(j, k.c, k.n) => j = k)' /\ (\A j \in jobs : j.n <= calls + abandoned)'
    BY <1>1 DEF JobsNamed, IsOf
  <2>6. (\A j \in jobs : call[j.c].pc \in Ahead => j.n < calls + abandoned)'
    BY <1>1, <1>2, <2>1 DEF JobsNamed
  <2>7. (\A j \in jobs : call[j.c].pc = "wait" /\ j.n = call[j.c].job
                         => j.op = call[j.c].op /\ j.id = call[j.c].id)'
    BY <1>1, <1>2, <2>1, <2>2 DEF JobsNamed
  <2>8. QED
    BY <2>3, <2>4, <2>a, <2>5, <2>6, <2>7 DEF JobsNamed
<1>6. Placed'
  <2>1. (\A d \in Caller : call[d].pc \in {"lock", "open"} => backend \in Locking)'
    BY <1>1, <1>2 DEF Placed, Walk
  <2>2. (backend \in Locking =>
         /\ \A d \in Caller : call[d].pc \in {"open", "act", "wait"} => lock = d
         /\ \A d \in Caller : call[d].pc \in Ahead => call[d].pc \in {"lock", "open", "act"})'
    BY <1>1, <1>2, CallerAssumption DEF Placed, Walk, NoLock, Ahead
  <2>3. (backend = "faiss" =>
         /\ \A d \in Caller : call[d].pc \notin {"idle", "refused"} => Part(d) = "private"
         /\ \A d \in Caller : call[d].pc \in {"act", "wait", "returned"} => "private" \in ensured
         /\ jobs # {} => "private" \in ensured)'
    BY <1>1, <1>2 DEF Placed, Walk, Ahead
  <2>4. (backend # "faiss" =>
         /\ ensured \subseteq exists
         /\ \A d \in Caller : call[d].op = "upsert" /\ call[d].pc \in {"act", "wait", "returned"}
                                => Part(d) \in exists
         /\ \A d \in Caller : call[d].pc = "index" => Part(d) \in exists
         /\ \A j \in jobs : j.pc = "write")'
    <3> SUFFICES ASSUME backend # "faiss"
                 PROVE  /\ ensured' \subseteq exists'
                        /\ \A d \in Caller : call'[d].op = "upsert" /\ call'[d].pc \in {"act", "wait", "returned"}
                                               => Part(d)' \in exists'
                        /\ \A d \in Caller : call'[d].pc = "index" => Part(d)' \in exists'
                        /\ \A j \in jobs' : j.pc = "write"
      BY <1>1
    <3>1. /\ \A d \in Caller : call[d].op = "upsert" /\ call[d].pc \in {"act", "wait", "returned"}
                                => Part(d) \in exists
          /\ \A d \in Caller : call[d].pc = "index" => Part(d) \in exists
          /\ \A j \in jobs : j.pc = "write"
      BY DEF Placed
    <3>2. /\ ensured' \subseteq exists'
          /\ p = "act" => (call[c].op = "upsert" => Part(c) \in exists')
          /\ p = "returned" => call[c].op # "upsert"
          /\ p = "index" => Part(c) \in exists'
          /\ p # "wait"
      BY DEF Walk, Ahead
    <3>3. QED
      BY <1>1, <1>2, <3>1, <3>2
  <2>5. QED
    BY <2>1, <2>2, <2>3, <2>4 DEF Placed
<1>7. ASSUME NEW i \in acked PROVE InFiles(i) /\ (Loaded => InMemory(i)) => (Loaded' => InMemory(i)')
  <2>1. CASE UNCHANGED <<points, index>> /\ Loaded' = Loaded
    BY <1>1, <2>1 DEF InMemory
  <2>2. CASE backend = "faiss" /\ points' = disk.doc /\ index' = FileIndex
    <3>1. InFiles(i) => HasFiles
      BY <2>2 DEF InFiles, HasFiles, Nothing, StoreType
    <3>2. QED
      BY <1>1, <2>2, <3>1 DEF InMemory, InFiles, FileIndex
  <2>3. QED
    BY <2>1, <2>2 DEF Walk
<1>8. ASSUME ~(UNCHANGED <<points, index>> /\ Loaded' = Loaded)
      PROVE  /\ backend = "faiss" /\ ~Loaded /\ jobs = {} /\ points' = disk.doc
             /\ \A d \in Caller : call[d].pc \notin {"act", "wait", "returned"}
  BY <1>8 DEF Placed, Loaded, Walk
<1>9. ASSUME NEW d \in Caller, Ended(d)'
      PROVE  Ended(d) \/ (d = c /\ p = "returned")
  BY <1>1, <1>2, <1>9 DEF Ended, Ahead
<1>10. p = "returned" => call[c].op # "upsert" /\ ~call[c].alone
  <2>1. p = "returned" => backend # "faiss" /\ call[c].op # "upsert" /\ Part(c) \notin exists
    BY DEF Walk
  <2>2. call[c].alone => call[c].id \in acked /\ call[c].op = "invalidate"
    BY DEF Held
  <2>3. backend # "faiss" /\ call[c].alone => Part(c) \in exists
    BY <2>2 DEF Kept, Part, CallNs
  <2>4. QED
    BY <2>1, <2>3
<1>11. \A d \in Caller : Ended(d) => UNCHANGED <<points, index>> /\ Loaded' = Loaded
  BY <1>8 DEF Ended
<1>12. jobs # {} => UNCHANGED <<points, index>>
  BY <1>8
<1>13. Kept'
  <2>1. (\A i \in acked : /\ Loaded => InMemory(i)
                          /\ InFiles(i)
                          /\ backend # "faiss" => Partition(NamespaceOf[i]) \in exists)'
    <3> SUFFICES ASSUME NEW i \in acked
                 PROVE  /\ Loaded' => InMemory(i)'
                        /\ InFiles(i)'
                        /\ backend # "faiss" => Partition(NamespaceOf[i])' \in exists'
      BY <1>1
    <3>1. InFiles(i) /\ (Loaded => InMemory(i)) /\ (backend # "faiss" => Partition(NamespaceOf[i]) \in exists)
      BY DEF Kept
    <3>2. QED
      BY <1>1, <1>7, <3>1 DEF InFiles, Partition
  <2>2. (\A d \in Caller : call[d].op = "upsert" /\ Ended(d)
                           => InMemory(call[d].id) /\ InFiles(call[d].id))'
    BY <1>1, <1>2, <1>9, <1>10, <1>11 DEF Kept, InMemory, InFiles
  <2>3. (\A j \in jobs : j.op = "upsert" /\ j.pc \in {"save", "dump"} => InMemory(j.id))'
    BY <1>1, <1>12 DEF Kept, InMemory
  <2>4. (\A j \in jobs : j.op = "upsert" /\ j.pc = "dump" => j.id \in disk.index)'
    BY <1>1 DEF Kept
  <2>5. QED
    BY <2>1, <2>2, <2>3, <2>4 DEF Kept
<1>14. Held'
  <2>1. ASSUME NEW i \in stamped'
        PROVE  /\ i \in acked' /\ ~Upserting(i)'
               /\ Loaded' => SupersededInMemory(i)'
               /\ SupersededInFiles(i)'
    <3>1. /\ i \in acked /\ ~Upserting(i)
          /\ Loaded => SupersededInMemory(i)
          /\ SupersededInFiles(i)
      BY <1>1, <2>1 DEF Held
    <3>2. QED
      BY <1>1, <1>3, <1>8, <3>1 DEF SupersededInMemory, SupersededInFiles
  <2>2. ASSUME NEW d \in Caller, call'[d].alone
        PROVE  /\ call'[d].op = "invalidate" /\ call'[d].id \in acked' /\ ~Upserting(call[d].id)'
               /\ \A j \in jobs' : IsOf(j, d, call'[d].job) /\ call'[d].pc = "wait"
                                  /\ j.pc # "write" => SupersededInMemory(j.id)'
               /\ Ended(d)' => SupersededInMemory(call[d].id)' /\ SupersededInFiles(call[d].id)'
    <3>1. /\ call[d].op = "invalidate" /\ call[d].id \in acked /\ ~Upserting(call[d].id)
          /\ \A j \in jobs : IsOf(j, d, call[d].job) /\ call[d].pc = "wait"
                                  /\ j.pc # "write" => SupersededInMemory(j.id)
          /\ Ended(d) => SupersededInMemory(call[d].id) /\ SupersededInFiles(call[d].id)
      BY <1>2, <2>2 DEF Held
    <3>2. ~Upserting(call[d].id)'
      BY <1>2, <1>3, <3>1 DEF Upserting
    <3>3. ASSUME NEW j \in jobs', IsOf(j, d, call'[d].job), call'[d].pc = "wait", j.pc # "write"
          PROVE  SupersededInMemory(j.id)'
      <4>1. j \in jobs /\ IsOf(j, d, call[d].job) /\ call[d].pc = "wait"
        BY <1>1, <1>2, <3>3 DEF IsOf, Ahead
      <4>2. SupersededInMemory(j.id)
        BY <3>1, <3>3, <4>1
      <4>3. QED
        BY <4>1, <4>2, <1>12 DEF SupersededInMemory
    <3>4. Ended(d)' => Ended(d)
      BY <1>2, <1>9, <1>10, <2>2
    <3>5. Ended(d)' => SupersededInMemory(call[d].id)' /\ SupersededInFiles(call[d].id)'
      BY <1>1, <1>2, <1>11, <3>1, <3>4 DEF SupersededInMemory, SupersededInFiles
    <3>6. QED
      BY <1>1, <1>2, <3>1, <3>2, <3>3, <3>5
  <2>3. QED
    BY <2>1, <2>2 DEF Held
<1>15. Covered'
  <2> SUFFICES ASSUME backend = "faiss", abandoned = 0
               PROVE  /\ \A j \in jobs : call'[j.c].pc = "wait" /\ call'[j.c].job = j.n
                      /\ \A j \in jobs : j.pc = "dump" => disk.index = index'
                      /\ \A i \in Id : points'[i] # Absent => i \in index'
                      /\ \A i \in Id : disk.doc[i] # Absent => i \in disk.index
                      /\ Loaded' => \A i \in Id : disk.doc[i] # Absent => points'[i] # Absent
    BY <1>1 DEF Covered
  <2>1. /\ \A j \in jobs : call[j.c].pc = "wait" /\ call[j.c].job = j.n
        /\ \A j \in jobs : j.pc = "dump" => disk.index = index
        /\ \A i \in Id : points[i] # Absent => i \in index
        /\ \A i \in Id : disk.doc[i] # Absent => i \in disk.index
        /\ Loaded => \A i \in Id : disk.doc[i] # Absent => points[i] # Absent
    BY DEF Covered
  <2>2. \A j \in jobs : j.c \in Caller
    BY DEF StoreType, Job
  <2>3. \A j \in jobs : call'[j.c].pc = "wait" /\ call'[j.c].job = j.n
    BY <1>1, <1>2, <2>1, <2>2 DEF Ahead
  <2>4. \A j \in jobs : j.pc = "dump" => disk.index = index'
    BY <1>12, <2>1
  <2>5. ASSUME NEW i \in Id, points'[i] # Absent PROVE i \in index'
    <3>1. CASE UNCHANGED <<points, index>>
      BY <2>1, <2>5, <3>1
    <3>2. CASE points' = disk.doc /\ index' = FileIndex
      <4>1. disk.doc[i] # Absent /\ i \in disk.index
        BY <2>1, <2>5, <3>2
      <4>2. HasFiles
        BY <4>1 DEF HasFiles, Nothing
      <4>3. QED
        BY <3>2, <4>1, <4>2 DEF FileIndex
    <3>3. QED
      BY <3>1, <3>2 DEF Walk
  <2>6. Loaded' => \A i \in Id : disk.doc[i] # Absent => points'[i] # Absent
    BY <1>8, <2>1
  <2>7. QED
    BY <2>1, <2>3, <2>4, <2>5, <2>6
<1>16. QED
  BY <1>4, <1>5, <1>6, <1>13, <1>14, <1>15

\* A search that has its answer and a call whose job has ended return.
LEMMA AnswerInv ==
    ASSUME Inv, NEW c \in Caller, CallType', Onward(c, "returned"), call'[c].job = call[c].job,
           (call[c].pc = "act" /\ call[c].op = "semantic") \/ (call[c].pc = "wait" /\ Ended(c)),
           UNCHANGED <<chosen, tables, data, jobs, bounds, history>>, lock' = Release(c)
    PROVE  Inv'
<1> USE DEF Inv
<1>1. UNCHANGED <<backend, NamespaceOf, exists, ensured, points, index, disk, jobs, calls,
                  abandoned, acked, stamped>>
  BY DEF chosen, tables, data, bounds, history
<1>2. \A d \in Caller : /\ call'[d].op = call[d].op /\ call'[d].id = call[d].id
                        /\ call'[d].alone = call[d].alone /\ Part(d)' = Part(d)
                        /\ call'[d].pc = IF d = c THEN "returned" ELSE call[d].pc
                        /\ call'[d].job = call[d].job
  BY <1>1, OnwardSame DEF Onward
<1>3. \A i : Upserting(i)' => Upserting(i)
  BY <1>1, <1>2, SameUpserting
<1>4. \A j \in jobs : j.c \in Caller
  BY DEF StoreType, Job
<1>5. StoreType'
  BY <1>1 DEF StoreType, Release
<1>6. JobsNamed'
  BY <1>1, <1>2, <1>4 DEF JobsNamed, IsOf, Ahead
<1>7. Placed'
  BY <1>1, <1>2 DEF Placed, Release, Ahead
<1>8. Loaded' = Loaded
  BY <1>1 DEF Loaded
<1>9. \A d \in Caller : Ended(d)' => Ended(d) \/ call[d].op = "semantic"
  BY <1>1, <1>2 DEF Ended
<1>10. Kept'
  <2>1. (\A d \in Caller : call[d].op = "upsert" /\ Ended(d)
                           => InMemory(call[d].id) /\ InFiles(call[d].id))'
    BY <1>1, <1>2, <1>9 DEF Kept, InMemory, InFiles
  <2>2. QED
    BY <1>1, <1>8, <2>1 DEF Kept, InMemory, InFiles, Partition
<1>11. Held'
  <2>1. (\A i \in stamped : /\ i \in acked /\ ~Upserting(i)
                            /\ Loaded => SupersededInMemory(i)
                            /\ SupersededInFiles(i))'
    BY <1>1, <1>3, <1>8 DEF Held, SupersededInMemory, SupersededInFiles
  <2>2. ASSUME NEW d \in Caller, call'[d].alone
        PROVE  /\ call'[d].op = "invalidate" /\ call'[d].id \in acked' /\ ~Upserting(call[d].id)'
               /\ \A j \in jobs' : IsOf(j, d, call'[d].job) /\ call'[d].pc = "wait"
                                  /\ j.pc # "write" => SupersededInMemory(j.id)'
               /\ Ended(d)' => SupersededInMemory(call[d].id)' /\ SupersededInFiles(call[d].id)'
    <3>1. /\ call[d].op = "invalidate" /\ call[d].id \in acked /\ ~Upserting(call[d].id)
          /\ \A j \in jobs : IsOf(j, d, call[d].job) /\ call[d].pc = "wait"
                                  /\ j.pc # "write" => SupersededInMemory(j.id)
          /\ Ended(d) => SupersededInMemory(call[d].id) /\ SupersededInFiles(call[d].id)
      BY <1>2, <2>2 DEF Held
    <3>2. ~Upserting(call[d].id)'
      BY <1>2, <1>3, <3>1 DEF Upserting
    <3>3. Ended(d)' => SupersededInMemory(call[d].id)' /\ SupersededInFiles(call[d].id)'
      BY <1>1, <1>2, <1>9, <3>1 DEF SupersededInMemory, SupersededInFiles
    <3>4. \A j \in jobs' : IsOf(j, d, call'[d].job) /\ call'[d].pc = "wait"
                                  /\ j.pc # "write" => SupersededInMemory(j.id)'
      BY <1>1, <1>2, <3>1 DEF SupersededInMemory, IsOf
    <3>5. QED
      BY <1>1, <1>2, <3>1, <3>2, <3>3, <3>4
  <2>3. QED
    BY <2>1, <2>2 DEF Held
<1>12. Covered'
  <2> SUFFICES ASSUME backend = "faiss", abandoned = 0
               PROVE  \A j \in jobs : call'[j.c].pc = "wait" /\ call'[j.c].job = j.n
    BY <1>1, <1>8 DEF Covered
  <2>1. \A j \in jobs : call[j.c].pc = "wait" /\ call[j.c].job = j.n
    BY DEF Covered
  <2>2. \A j \in jobs : j.c # c
    BY <2>1 DEF Ended, IsOf
  <2>3. QED
    BY <1>2, <1>4, <2>1, <2>2
<1>13. QED
  BY <1>5, <1>6, <1>7, <1>10, <1>11, <1>12

\* A call that returns, or is cancelled, is gone; what it did is history.
LEMMA ReturnInv ==
    ASSUME Inv, NEW c \in Caller, return(c)
    PROVE  Inv'
<1> USE DEF Inv
<1>1. UNCHANGED <<backend, NamespaceOf, exists, ensured, points, index, disk, jobs, calls,
                  abandoned, lock>>
  BY DEF return, chosen, tables, data, bounds
<1>2. CallType' /\ Gone(c)
  BY GoneMoves DEF return
<1>3. \A d \in Caller \ {c} : call'[d] = call[d]
  BY <1>2 DEF Gone
<1>4. /\ call'[c].pc = "idle" /\ call'[c].op = "none" /\ call'[c].alone = FALSE
      /\ call[c].pc \in {"returned", "failed", "refused"}
  BY <1>2, NoCallType DEF Gone, return
<1>5. \A i : Upserting(i)' => Upserting(i)
  BY <1>1, <1>3, <1>4 DEF Upserting
<1>6. \A j \in jobs : j.c \in Caller
  BY DEF StoreType, Job
<1>7. At(c, "returned") /\ call[c].op = "upsert" =>
        /\ call[c].id \in Id /\ InMemory(call[c].id) /\ InFiles(call[c].id)
        /\ backend # "faiss" => Partition(NamespaceOf[call[c].id]) \in exists
  BY DEF At, Kept, Ended, JobsNamed, Placed, Part, CallNs
<1>8. At(c, "returned") /\ call[c].alone =>
        /\ call[c].id \in acked /\ ~Upserting(call[c].id)
        /\ SupersededInMemory(call[c].id) /\ SupersededInFiles(call[c].id)
  BY DEF At, Held, Ended
<1>9. /\ acked \subseteq acked'
      /\ \A i \in acked' : i \in acked \/ (At(c, "returned") /\ call[c].op = "upsert" /\ i = call[c].id)
      /\ \A i \in stamped' : i \in stamped \/ (At(c, "returned") /\ call[c].alone /\ i = call[c].id)
  BY DEF return
<1>10. StoreType'
  BY <1>1, <1>7, <1>8, <1>9 DEF StoreType
<1>11. JobsNamed'
  BY <1>1, <1>3, <1>4, <1>6 DEF JobsNamed, IsOf, Ahead
<1>12. Placed'
  <2>1. \A d \in Caller \ {c} : Part(d)' = Part(d)
    BY <1>1, <1>3 DEF Part, CallNs
  <2>2. QED
    BY <1>1, <1>3, <1>4, <2>1 DEF Placed, Ahead
<1>13. Loaded' = Loaded
  BY <1>1 DEF Loaded
<1>14. \A d \in Caller : Ended(d)' => d # c /\ Ended(d)
  BY <1>1, <1>3, <1>4 DEF Ended
<1>15. Kept'
  <2>1. ASSUME NEW i \in acked'
        PROVE  /\ Loaded' => InMemory(i)'
               /\ InFiles(i)'
               /\ backend # "faiss" => Partition(NamespaceOf[i]) \in exists
    BY <1>1, <1>7, <1>9, <1>13 DEF Kept, InMemory, InFiles
  <2>2. (\A d \in Caller : call[d].op = "upsert" /\ Ended(d)
                           => InMemory(call[d].id) /\ InFiles(call[d].id))'
    BY <1>1, <1>3, <1>14 DEF Kept, InMemory, InFiles
  <2>3. QED
    BY <1>1, <2>1, <2>2 DEF Kept, InMemory, InFiles, Partition
<1>16. Held'
  <2>1. ASSUME NEW i \in stamped'
        PROVE  /\ i \in acked' /\ ~Upserting(i)'
               /\ Loaded' => SupersededInMemory(i)'
               /\ SupersededInFiles(i)'
    <3>1. /\ i \in acked /\ ~Upserting(i)
          /\ Loaded => SupersededInMemory(i)
          /\ SupersededInFiles(i)
      BY <1>8, <1>9 DEF Held
    <3>2. QED
      BY <1>1, <1>5, <1>9, <1>13, <3>1 DEF SupersededInMemory, SupersededInFiles
  <2>2. ASSUME NEW d \in Caller, call'[d].alone
        PROVE  /\ call'[d].op = "invalidate" /\ call'[d].id \in acked' /\ ~Upserting(call[d].id)'
               /\ \A j \in jobs' : IsOf(j, d, call'[d].job) /\ call'[d].pc = "wait"
                                  /\ j.pc # "write" => SupersededInMemory(j.id)'
               /\ Ended(d)' => SupersededInMemory(call[d].id)' /\ SupersededInFiles(call[d].id)'
    <3>1. d # c /\ call'[d] = call[d]
      BY <1>3, <1>4, <2>2
    <3>2. /\ call[d].op = "invalidate" /\ call[d].id \in acked /\ ~Upserting(call[d].id)
          /\ \A j \in jobs : IsOf(j, d, call[d].job) /\ call[d].pc = "wait"
                                  /\ j.pc # "write" => SupersededInMemory(j.id)
          /\ Ended(d) => SupersededInMemory(call[d].id) /\ SupersededInFiles(call[d].id)
      BY <3>1, <2>2 DEF Held
    <3>3. ~Upserting(call[d].id)'
      BY <1>5, <3>1, <3>2 DEF Upserting
    <3>4. QED
      BY <1>1, <1>9, <1>14, <3>1, <3>2, <3>3 DEF SupersededInMemory, SupersededInFiles, IsOf
  <2>3. QED
    BY <2>1, <2>2 DEF Held
<1>17. Covered'
  BY <1>1, <1>3, <1>4, <1>6, <1>13 DEF Covered
<1>18. QED
  BY <1>2, <1>10, <1>11, <1>12, <1>15, <1>16, <1>17

\* A call that gives up leaves its job behind: the next one has a larger number.
LEMMA AbandonInv ==
    ASSUME Inv, NEW c \in Caller, abandon(c)
    PROVE  Inv'
<1> USE DEF Inv
<1>1. /\ UNCHANGED <<backend, NamespaceOf, exists, ensured, points, index, disk, jobs, calls,
                     acked, stamped>>
      /\ abandoned' = abandoned + 1 /\ call[c].pc = "wait" /\ lock' = Release(c)
  BY DEF abandon, chosen, tables, data, history, At
<1>2. CallType' /\ (Gone(c) \/ (backend # "faiss" /\ Onward(c, First) /\ call'[c].job = call[c].job))
  <2>1. CASE backend = "faiss"
    <3>1. call' = [call EXCEPT ![c] = NoCall]
      BY <2>1 DEF abandon
    <3>2. QED
      BY <3>1, GoneMoves
  <2>2. CASE backend # "faiss"
    <3>1. PICK R : call \in [Caller -> Calls(R)]
      BY DEF CallType
    <3>2. Goto(c, First)
      BY <2>2, <3>1 DEF abandon, Goto
    <3>3. First \in PcSet
      BY FirstIsAhead DEF Ahead, PcSet
    <3>4. QED
      BY <2>2, <3>2, <3>3, GotoMoves
  <2>3. QED
    BY <2>1, <2>2
<1>3. \A d \in Caller \ {c} : call'[d] = call[d] /\ Part(d)' = Part(d)
  BY <1>1, <1>2 DEF Gone, Onward, Part, CallNs
<1>4. /\ call'[c].pc \in Ahead \cup {"idle"} /\ call'[c].pc \notin {"open", "act"}
      /\ (call'[c].op = call[c].op /\ call'[c].id = call[c].id) \/ call'[c].op = "none"
      /\ call'[c].alone => call[c].alone /\ call'[c].op = call[c].op /\ call'[c].id = call[c].id
  BY <1>2, NoCallType, FirstIsAhead DEF Gone, Onward
<1>5. \A i : Upserting(i)' => Upserting(i)
  BY <1>1, <1>3, <1>4 DEF Upserting
<1>6. \A j \in jobs : j.c \in Caller /\ j.n \in Nat
  BY DEF StoreType, Job
<1>7. StoreType'
  BY <1>1 DEF StoreType, Release
<1>8. JobsNamed'
  <2>1. calls \in Nat /\ abandoned \in Nat
    BY DEF StoreType
  <2>2. \A j \in jobs : j.n <= calls + abandoned /\ calls' + abandoned' = calls + abandoned + 1
    BY <1>1, <2>1 DEF JobsNamed
  <2>3. (\A j \in jobs : j.n <= calls + abandoned)' /\ (\A j \in jobs : call[j.c].pc \in Ahead => j.n < calls + abandoned)'
    BY <1>1, <1>6, <2>1, <2>2
  <2>4. (\A j \in jobs : call[j.c].pc = "wait" /\ j.n = call[j.c].job
                         => j.op = call[j.c].op /\ j.id = call[j.c].id)'
    BY <1>1, <1>3, <1>4, <1>6 DEF JobsNamed, Ahead
  <2>5. \A d \in Caller : /\ call'[d].op \in {"upsert", "invalidate"} => call'[d].id \in Id
                          /\ call'[d].pc = "wait" => call'[d].op \in {"upsert", "invalidate"}
    BY <1>3, <1>4 DEF JobsNamed, Ahead
  <2>6. call'[c].pc # "idle" => call'[c].op # "none"
    BY <1>1, <1>2, NoCallType DEF JobsNamed, Gone, Onward
  <2>7. QED
    BY <1>1, <1>3, <2>3, <2>4, <2>5, <2>6 DEF JobsNamed, IsOf
<1>9. Placed'
  <2>a. /\ call'[c].pc \in {"lock", "open"} => backend \in Locking
        /\ backend \in Locking => call'[c].pc \in {"idle", "lock"}
    <3>1. /\ First \in {"lock", "open"} => backend \in Locking
          /\ backend \in Locking => First = "lock"
      BY DEF First, StoreType, Locking
    <3>2. QED
      BY <1>2, <3>1, NoCallType DEF Gone, Onward
  <2>1. (\A d \in Caller : call[d].pc \in {"lock", "open"} => backend \in Locking)'
    BY <1>1, <1>3, <2>a DEF Placed
  <2>2. (backend \in Locking =>
         /\ \A d \in Caller : call[d].pc \in {"open", "act", "wait"} => lock = d
         /\ \A d \in Caller : call[d].pc \in Ahead => call[d].pc \in {"lock", "open", "act"})'
    BY <1>1, <1>3, <2>a DEF Placed, Release, Ahead
  <2>3. (backend = "faiss" =>
         /\ \A d \in Caller : call[d].pc \notin {"idle", "refused"} => Part(d) = "private"
         /\ \A d \in Caller : call[d].pc \in {"act", "wait", "returned"} => "private" \in ensured
         /\ jobs # {} => "private" \in ensured)'
    BY <1>1, <1>2, <1>3, NoCallType DEF Placed, Gone
  <2>4. (backend # "faiss" =>
         /\ ensured \subseteq exists
         /\ \A d \in Caller : call[d].op = "upsert" /\ call[d].pc \in {"act", "wait", "returned"}
                                => Part(d) \in exists
         /\ \A d \in Caller : call[d].pc = "index" => Part(d) \in exists
         /\ \A j \in jobs : j.pc = "write")'
    <3>1. call'[c].pc \notin {"act", "wait", "returned", "index"}
      BY <1>2, NoCallType DEF First, Gone, Onward, StoreType, Locking
    <3>2. QED
      BY <1>1, <1>3, <3>1 DEF Placed
  <2>5. QED
    BY <2>1, <2>2, <2>3, <2>4 DEF Placed
<1>10. Loaded' = Loaded
  BY <1>1 DEF Loaded
<1>11. \A d \in Caller : Ended(d)' => d # c /\ Ended(d)
  BY <1>1, <1>3, <1>4 DEF Ended, Ahead
<1>12. Kept'
  <2>1. (\A d \in Caller : call[d].op = "upsert" /\ Ended(d)
                           => InMemory(call[d].id) /\ InFiles(call[d].id))'
    BY <1>1, <1>3, <1>11 DEF Kept, InMemory, InFiles
  <2>2. QED
    BY <1>1, <1>10, <2>1 DEF Kept, InMemory, InFiles, Partition
<1>13. Held'
  <2>1. (\A i \in stamped : /\ i \in acked /\ ~Upserting(i)
                            /\ Loaded => SupersededInMemory(i)
                            /\ SupersededInFiles(i))'
    BY <1>1, <1>5, <1>10 DEF Held, SupersededInMemory, SupersededInFiles
  <2>2. ASSUME NEW d \in Caller, call'[d].alone
        PROVE  /\ call'[d].op = "invalidate" /\ call'[d].id \in acked' /\ ~Upserting(call[d].id)'
               /\ \A j \in jobs' : IsOf(j, d, call'[d].job) /\ call'[d].pc = "wait"
                                  /\ j.pc # "write" => SupersededInMemory(j.id)'
               /\ Ended(d)' => SupersededInMemory(call[d].id)' /\ SupersededInFiles(call[d].id)'
    <3>1. call[d].alone /\ call'[d].op = call[d].op /\ call'[d].id = call[d].id
      BY <1>3, <1>4, <2>2
    <3>2. /\ call[d].op = "invalidate" /\ call[d].id \in acked /\ ~Upserting(call[d].id)
          /\ \A j \in jobs : IsOf(j, d, call[d].job) /\ call[d].pc = "wait"
                                  /\ j.pc # "write" => SupersededInMemory(j.id)
          /\ Ended(d) => SupersededInMemory(call[d].id) /\ SupersededInFiles(call[d].id)
      BY <3>1 DEF Held
    <3>3. ~Upserting(call[d].id)'
      BY <1>5, <3>1, <3>2 DEF Upserting
    <3>4. d = c => call'[d].pc # "wait"
      BY <1>4 DEF Ahead
    <3>5. QED
      BY <1>1, <1>3, <1>11, <3>1, <3>2, <3>3, <3>4 DEF SupersededInMemory, SupersededInFiles, IsOf
  <2>3. QED
    BY <2>1, <2>2 DEF Held
<1>14. Covered'
  BY <1>1 DEF Covered, StoreType
<1>15. QED
  BY <1>2, <1>7, <1>8, <1>9, <1>12, <1>13, <1>14

\* A call begins; an upsert takes back what the invalidations promised.
LEMMA BeginInv ==
    ASSUME Inv, NEW c \in Caller,
           NEW op \in {"upsert", "invalidate", "semantic"}, NEW i \in Id \cup {0},
           op # "semantic" => i \in Id,
           NEW q \in Queries \cup {<<>>}, NEW alone \in BOOLEAN,
           alone => op = "invalidate" /\ i \in acked /\ ~Upserting(i),
           Begin(c, Call(op, i, q, alone))
    PROVE  Inv'
<1> USE DEF Inv
<1> DEFINE k == Call(op, i, q, alone)
<1>1. k.op = op /\ k.id = i /\ k.query = q /\ k.alone = alone
  BY DEF Call
<1>2. CallType' /\ Begun(c, k)
  BY BeginMoves
<1>3. /\ UNCHANGED <<backend, NamespaceOf, exists, ensured, lock, points, index, disk, jobs,
                     abandoned, acked>>
      /\ calls' = calls + 1 /\ call[c].pc = "idle"
      /\ stamped' = IF op = "upsert" THEN stamped \ {i} ELSE stamped
  BY <1>1 DEF Begin, chosen, tables, data
<1>4. /\ call'[c].op = op /\ call'[c].id = i /\ call'[c].alone = alone
      /\ call'[c].pc = "refused" \/ (call'[c].pc = First /\ ~Refused(k))
      /\ call'[c].query = q
  BY <1>1, <1>2 DEF Begun
<1>5. \A d \in Caller \ {c} :
         /\ call'[d].op = call[d].op /\ call'[d].id = call[d].id
         /\ call'[d].pc = call[d].pc /\ call'[d].job = call[d].job
         /\ Part(d)' = Part(d)
         /\ call'[d].alone => call[d].alone /\ ~(op = "upsert" /\ i = call[d].id)
  <2>1. \A d \in Caller \ {c} :
         /\ call'[d].op = call[d].op /\ call'[d].id = call[d].id
         /\ call'[d].query = call[d].query
         /\ call'[d].pc = call[d].pc /\ call'[d].job = call[d].job
         /\ call'[d].alone = (call[d].alone /\ ~(op = "upsert" /\ i = call[d].id))
    BY <1>1, <1>2 DEF Begun
  <2>2. \A d \in Caller \ {c} : Part(d)' = Part(d)
    BY <1>3, <2>1 DEF Part, CallNs
  <2>3. QED
    BY <2>1, <2>2
<1>6. First \in Ahead /\ First \notin {"act", "open", "index"} /\ (First = "lock" <=> backend \in Locking)
  BY DEF StoreType, First, Ahead, Locking
<1>7. backend = "faiss" /\ ~Refused(k) => Part(c)' = "private"
  BY <1>1, <1>3, <1>4 DEF Refused, Part, CallNs, Partition
<1> HIDE DEF k
<1>8. \A x : Upserting(x)' => Upserting(x) \/ (op = "upsert" /\ x = i)
  BY <1>3, <1>4, <1>5 DEF Upserting
<1>9. \A j \in jobs : j.c \in Caller /\ j.n \in Nat
  BY DEF StoreType, Job
<1>10. StoreType'
  BY <1>3 DEF StoreType
<1>11. JobsNamed'
  <2>1. calls \in Nat /\ abandoned \in Nat
    BY DEF StoreType
  <2>2. \A j \in jobs : j.n <= calls + abandoned /\ calls' + abandoned' = calls + abandoned + 1
    BY <1>3, <2>1 DEF JobsNamed
  <2>3. (\A j \in jobs : j.n <= calls + abandoned)' /\ (\A j \in jobs : call[j.c].pc \in Ahead => j.n < calls + abandoned)'
    BY <1>3, <1>9, <2>1, <2>2
  <2>4. (\A j \in jobs : call[j.c].pc = "wait" /\ j.n = call[j.c].job
                         => j.op = call[j.c].op /\ j.id = call[j.c].id)'
    BY <1>3, <1>4, <1>5, <1>6, <1>9 DEF JobsNamed, Ahead
  <2>5. QED
    BY <1>3, <1>4, <1>5, <1>6, <2>3, <2>4 DEF JobsNamed, IsOf, Ahead
<1>12. Placed'
  <2>1. (\A d \in Caller : call[d].pc \in {"lock", "open"} => backend \in Locking)'
    BY <1>3, <1>4, <1>5, <1>6 DEF Placed
  <2>2. (backend \in Locking =>
         /\ \A d \in Caller : call[d].pc \in {"open", "act", "wait"} => lock = d
         /\ \A d \in Caller : call[d].pc \in Ahead => call[d].pc \in {"lock", "open", "act"})'
    BY <1>3, <1>4, <1>5, <1>6 DEF Placed, Ahead
  <2>3. (backend = "faiss" =>
         /\ \A d \in Caller : call[d].pc \notin {"idle", "refused"} => Part(d) = "private"
         /\ \A d \in Caller : call[d].pc \in {"act", "wait", "returned"} => "private" \in ensured
         /\ jobs # {} => "private" \in ensured)'
    BY <1>3, <1>4, <1>5, <1>6, <1>7 DEF Placed, Ahead
  <2>4. (backend # "faiss" =>
         /\ ensured \subseteq exists
         /\ \A d \in Caller : call[d].op = "upsert" /\ call[d].pc \in {"act", "wait", "returned"}
                                => Part(d) \in exists
         /\ \A d \in Caller : call[d].pc = "index" => Part(d) \in exists
         /\ \A j \in jobs : j.pc = "write")'
    BY <1>3, <1>4, <1>5, <1>6 DEF Placed, Ahead
  <2>5. QED
    BY <2>1, <2>2, <2>3, <2>4 DEF Placed
<1>13. Loaded' = Loaded
  BY <1>3 DEF Loaded
<1>14. \A d \in Caller : Ended(d)' => d # c /\ Ended(d)
  BY <1>3, <1>4, <1>5, <1>6 DEF Ended, Ahead
<1>15. Kept'
  <2>1. (\A d \in Caller : call[d].op = "upsert" /\ Ended(d)
                           => InMemory(call[d].id) /\ InFiles(call[d].id))'
    BY <1>3, <1>5, <1>14 DEF Kept, InMemory, InFiles
  <2>2. QED
    BY <1>3, <1>13, <2>1 DEF Kept, InMemory, InFiles, Partition
<1>16. Held'
  <2>1. ASSUME NEW x \in stamped'
        PROVE  /\ x \in acked' /\ ~Upserting(x)'
               /\ Loaded' => SupersededInMemory(x)'
               /\ SupersededInFiles(x)'
    <3>1. x \in stamped /\ ~(op = "upsert" /\ x = i)
      BY <1>3
    <3>2. QED
      BY <1>3, <1>8, <1>13, <3>1 DEF Held, SupersededInMemory, SupersededInFiles
  <2>2. ASSUME NEW d \in Caller, call'[d].alone
        PROVE  /\ call'[d].op = "invalidate" /\ call'[d].id \in acked' /\ ~Upserting(call[d].id)'
               /\ \A j \in jobs' : IsOf(j, d, call'[d].job) /\ call'[d].pc = "wait"
                                  /\ j.pc # "write" => SupersededInMemory(j.id)'
               /\ Ended(d)' => SupersededInMemory(call[d].id)' /\ SupersededInFiles(call[d].id)'
    <3>1. CASE d = c
      <4>1. alone /\ call'[d].pc # "wait" /\ ~Ended(d)'
        BY <1>4, <1>6, <1>14, <2>2, <3>1 DEF Ahead
      <4>2. call'[d].id = i /\ ~Upserting(i)'
        BY <1>4, <1>8, <4>1, <3>1
      <4>3. ~Upserting(call[d].id)'
        BY <4>2 DEF Upserting
      <4>4. QED
        BY <1>3, <1>4, <3>1, <4>1, <4>3
    <3>2. CASE d # c
      <4>1. call[d].alone /\ ~(op = "upsert" /\ i = call[d].id) /\ call'[d].id = call[d].id
        BY <1>5, <2>2, <3>2
      <4>2. /\ call[d].op = "invalidate" /\ call[d].id \in acked /\ ~Upserting(call[d].id)
            /\ \A j \in jobs : IsOf(j, d, call[d].job) /\ call[d].pc = "wait"
                                    /\ j.pc # "write" => SupersededInMemory(j.id)
            /\ Ended(d) => SupersededInMemory(call[d].id) /\ SupersededInFiles(call[d].id)
        BY <4>1 DEF Held
      <4>3. ~Upserting(call[d].id)'
        BY <1>8, <4>1, <4>2 DEF Upserting
      <4>4. QED
        BY <1>3, <1>5, <1>14, <3>2, <4>1, <4>2, <4>3 DEF SupersededInMemory, SupersededInFiles, IsOf
    <3>3. QED
      BY <3>1, <3>2
  <2>3. QED
    BY <2>1, <2>2 DEF Held
<1>17. Covered'
  BY <1>3, <1>5, <1>9, <1>13 DEF Covered
<1>18. QED
  BY <1>2, <1>10, <1>11, <1>12, <1>15, <1>16, <1>17

\* A job is sent under a number that no job of its caller has.
LEMMA SendInv ==
    ASSUME Inv, NEW c \in Caller, send(c)
    PROVE  Inv'
<1> USE DEF Inv
<1> DEFINE N == calls + abandoned
           new == [n |-> N, c |-> c, op |-> call[c].op, id |-> call[c].id, pc |-> "write"]
<1>1. /\ UNCHANGED <<backend, NamespaceOf, exists, ensured, lock, points, index, disk, calls,
                     abandoned, acked, stamped>>
      /\ call[c].pc = "act" /\ call[c].op # "semantic" /\ jobs' = jobs \cup {new}
  BY DEF send, chosen, tables, data, bounds, history, At
<1>2. CallType' /\ Onward(c, "wait") /\ call'[c].job = N
  BY SendMoves
<1>3. \A d \in Caller : /\ call'[d].op = call[d].op /\ call'[d].id = call[d].id
                        /\ call'[d].alone = call[d].alone /\ Part(d)' = Part(d)
                        /\ call'[d].pc = IF d = c THEN "wait" ELSE call[d].pc
                        /\ d # c => call'[d].job = call[d].job
  BY <1>1, <1>2, OnwardSame DEF Onward
<1>4. /\ new.n = N /\ new.c = c /\ new.op = call[c].op /\ new.id = call[c].id /\ new.pc = "write"
      /\ calls \in Nat /\ abandoned \in Nat /\ N \in Nat
  BY DEF StoreType
<1>5. call[c].op \in {"upsert", "invalidate"} /\ call[c].id \in Id
  BY <1>1, CallFields DEF JobsNamed
<1>6. new \in Job
  BY <1>4, <1>5 DEF Job
<1> HIDE DEF new, N
<1>7. /\ \A j \in jobs : j.c \in Caller /\ j.n \in Nat /\ j.n <= N
      /\ \A j \in jobs : j.c = c => j.n < N
  BY <1>1 DEF StoreType, Job, JobsNamed, N, Ahead
<1>8. \A i : Upserting(i)' => Upserting(i)
  BY <1>1, <1>3, <1>4, SameUpserting
<1>9. StoreType'
  BY <1>1, <1>6 DEF StoreType
<1>10. JobsNamed'
  <2>1. (\A d \in Caller : call[d].op \in {"upsert", "invalidate"} => call[d].id \in Id)'
        /\ (\A d \in Caller : call[d].pc = "wait" => call[d].op \in {"upsert", "invalidate"})'
        /\ (\A d \in Caller : call[d].pc # "idle" => call[d].op # "none")'
    BY <1>3, <1>5 DEF JobsNamed
  <2>2. ASSUME NEW j \in jobs', NEW k \in jobs', IsOf(j, k.c, k.n) PROVE j = k
    <3>1. CASE j \in jobs /\ k \in jobs
      BY <2>2, <3>1 DEF JobsNamed
    <3>2. CASE j \in jobs /\ k = new
      BY <1>4, <1>7, <2>2, <3>2 DEF IsOf
    <3>3. CASE j = new /\ k \in jobs
      BY <1>4, <1>7, <2>2, <3>3 DEF IsOf
    <3>4. QED
      BY <1>1, <3>1, <3>2, <3>3
  <2>3. (\A j \in jobs : j.n <= calls + abandoned)'
    BY <1>1, <1>4, <1>7 DEF N
  <2>4. (\A j \in jobs : call[j.c].pc \in Ahead => j.n < calls + abandoned)'
    BY <1>1, <1>3, <1>4, <1>7 DEF JobsNamed, Ahead
  <2>5. (\A j \in jobs : call[j.c].pc = "wait" /\ j.n = call[j.c].job
                         => j.op = call[j.c].op /\ j.id = call[j.c].id)'
    BY <1>1, <1>2, <1>3, <1>4, <1>7 DEF JobsNamed
  <2>6. QED
    BY <2>1, <2>2, <2>3, <2>4, <2>5 DEF JobsNamed
<1>11. Placed'
  BY <1>1, <1>3, <1>4 DEF Placed, Ahead
<1>12. Loaded' = Loaded
  BY <1>1 DEF Loaded
<1>13. \A d \in Caller : Ended(d)' => d # c /\ Ended(d)
  <2>1. new \in jobs' /\ IsOf(new, c, call'[c].job)
    BY <1>1, <1>2, <1>4 DEF IsOf
  <2>2. ~Ended(c)'
    BY <1>3, <2>1 DEF Ended
  <2>3. QED
    BY <1>1, <1>3, <2>2 DEF Ended
<1>14. Kept'
  <2>1. (\A d \in Caller : call[d].op = "upsert" /\ Ended(d)
                           => InMemory(call[d].id) /\ InFiles(call[d].id))'
    BY <1>1, <1>3, <1>13 DEF Kept, InMemory, InFiles
  <2>2. QED
    BY <1>1, <1>4, <1>12, <2>1 DEF Kept, InMemory, InFiles, Partition
<1>15. Held'
  <2>1. (\A i \in stamped : /\ i \in acked /\ ~Upserting(i)
                            /\ Loaded => SupersededInMemory(i)
                            /\ SupersededInFiles(i))'
    BY <1>1, <1>8, <1>12 DEF Held, SupersededInMemory, SupersededInFiles
  <2>2. ASSUME NEW d \in Caller, call'[d].alone
        PROVE  /\ call'[d].op = "invalidate" /\ call'[d].id \in acked' /\ ~Upserting(call[d].id)'
               /\ \A j \in jobs' : IsOf(j, d, call'[d].job) /\ call'[d].pc = "wait"
                                  /\ j.pc # "write" => SupersededInMemory(j.id)'
               /\ Ended(d)' => SupersededInMemory(call[d].id)' /\ SupersededInFiles(call[d].id)'
    <3>1. /\ call[d].op = "invalidate" /\ call[d].id \in acked /\ ~Upserting(call[d].id)
          /\ \A j \in jobs : IsOf(j, d, call[d].job) /\ call[d].pc = "wait"
                                  /\ j.pc # "write" => SupersededInMemory(j.id)
          /\ Ended(d) => SupersededInMemory(call[d].id) /\ SupersededInFiles(call[d].id)
      BY <1>3, <2>2 DEF Held
    <3>2. ~Upserting(call[d].id)'
      BY <1>3, <1>8, <3>1 DEF Upserting
    <3>3. ASSUME NEW j \in jobs', IsOf(j, d, call'[d].job), call'[d].pc = "wait", j.pc # "write"
          PROVE  SupersededInMemory(j.id)'
      <4>1. j \in jobs
        BY <1>1, <1>4, <3>3
      <4>2. d # c
        BY <1>2, <1>7, <3>3, <4>1 DEF IsOf
      <4>3. QED
        BY <1>1, <1>3, <3>1, <3>3, <4>1, <4>2 DEF SupersededInMemory
    <3>4. QED
      BY <1>1, <1>3, <1>13, <3>1, <3>2, <3>3 DEF SupersededInMemory, SupersededInFiles
  <2>3. QED
    BY <2>1, <2>2 DEF Held
<1>16. Covered'
  <2> SUFFICES ASSUME backend = "faiss", abandoned = 0
               PROVE  /\ \A j \in jobs' : call'[j.c].pc = "wait" /\ call'[j.c].job = j.n
                      /\ \A j \in jobs' : j.pc = "dump" => disk.index = index
    BY <1>1, <1>12 DEF Covered
  <2>1. \A j \in jobs : call[j.c].pc = "wait" /\ call[j.c].job = j.n
    BY DEF Covered
  <2>2. \A j \in jobs : j.c # c
    BY <1>1, <2>1
  <2>3. QED
    BY <1>1, <1>2, <1>3, <1>4, <1>7, <2>1, <2>2 DEF Covered
<1>17. QED
  BY <1>2, <1>9, <1>10, <1>11, <1>14, <1>15, <1>16

\* Every job of a locking repository none of whose callers was cancelled is the
\* only one.
LEMMA OneWriter ==
    ASSUME Inv, backend = "faiss", abandoned = 0, NEW j \in jobs, NEW k \in jobs
    PROVE  j = k
<1> USE DEF Inv
<1>1. j.c \in Caller /\ k.c \in Caller
  BY DEF StoreType, Job
<1>2. /\ call[j.c].pc = "wait" /\ call[j.c].job = j.n
      /\ call[k.c].pc = "wait" /\ call[k.c].job = k.n
  BY DEF Covered
<1>3. lock = j.c /\ lock = k.c
  BY <1>1, <1>2 DEF Placed, Locking
<1>4. IsOf(j, k.c, k.n)
  BY <1>2, <1>3 DEF IsOf
<1>5. QED
  BY <1>4 DEF JobsNamed

\* A job takes effect on its point: it is there when it was, an upserted one is
\* active, and a superseded one that nobody upserts stays so.
LEMMA WriteInv ==
    ASSUME Inv, NEW j \in jobs, write(j)
    PROVE  Inv'
<1> USE DEF Inv
<1> DEFINE j2 == [j EXCEPT !.pc = "save"]
<1>1. /\ UNCHANGED <<backend, NamespaceOf, exists, ensured, lock, disk, call, calls, abandoned,
                     acked, stamped>>
      /\ j.pc = "write" /\ points' = [points EXCEPT ![j.id] = Effect(j)]
      /\ index' = IF backend = "faiss" /\ j.op = "upsert" THEN index \cup {j.id} ELSE index
      /\ jobs' = (jobs \ {j}) \cup (IF NeedsSave(j) THEN {j2} ELSE {})
  BY DEF write, chosen, tables, bounds, history
<1>2. j \in Job /\ j.id \in Id /\ j.op \in {"upsert", "invalidate"} /\ j.c \in Caller
  BY DEF StoreType, Job
<1>3. /\ j2 \in Job /\ j2.n = j.n /\ j2.c = j.c /\ j2.op = j.op /\ j2.id = j.id /\ j2.pc = "save"
  BY <1>2 DEF Job
<1> HIDE DEF j2
<1>4. /\ j.op = "upsert" => Effect(j) = "active"
      /\ j.op = "invalidate" /\ points[j.id] = Absent => Effect(j) = Absent
      /\ j.op = "invalidate" /\ points[j.id] # Absent => Effect(j) = "superseded"
      /\ Effect(j) \in States
  BY <1>2 DEF Effect, States
<1>5. /\ points'[j.id] = Effect(j) /\ \A i \in Id \ {j.id} : points'[i] = points[i]
      /\ points' \in [Id -> States]
  BY <1>1, <1>2, <1>4 DEF StoreType
<1>6. Loaded' = Loaded /\ Loaded
  BY <1>1 DEF Loaded, Placed
<1>7. \A k \in jobs' : (k \in jobs /\ k # j) \/ (k = j2 /\ backend = "faiss" /\ NeedsSave(j))
  BY <1>1 DEF NeedsSave
<1>8. /\ \A i \in Id : InMemory(i) => InMemory(i)'
      /\ j.op = "upsert" => InMemory(j.id)'
  BY <1>1, <1>2, <1>4, <1>5 DEF InMemory, States, Absent
<1>9. \A i \in Id : ~Upserting(i) /\ SupersededInMemory(i) => SupersededInMemory(i)'
  BY <1>2, <1>4, <1>5 DEF SupersededInMemory, Upserting, Absent
<1>10. \A i : Upserting(i)' => Upserting(i)
  BY <1>1, <1>3, <1>7 DEF Upserting
<1>11. StoreType'
  BY <1>1, <1>2, <1>3, <1>5 DEF StoreType
<1>12. JobsNamed'
  <2>1. ASSUME NEW k \in jobs', NEW l \in jobs', IsOf(k, l.c, l.n) PROVE k = l
    BY <1>3, <1>7, <2>1 DEF JobsNamed, IsOf
  <2>2. \A k \in jobs' : \E l \in jobs : k.c = l.c /\ k.n = l.n /\ k.op = l.op /\ k.id = l.id
    BY <1>3, <1>7
  <2>3. QED
    BY <1>1, <2>1, <2>2 DEF JobsNamed
<1>13. Placed'
  <2>1. \A d \in Caller : Part(d)' = Part(d)
    BY <1>1 DEF Part, CallNs
  <2>2. backend # "faiss" => \A k \in jobs' : k.pc = "write"
    BY <1>7 DEF Placed
  <2>3. backend = "faiss" => "private" \in ensured
    BY DEF Placed
  <2>4. QED
    BY <1>1, <2>1, <2>2, <2>3 DEF Placed
<1>14. ASSUME NEW d \in Caller, Ended(d)', ~Ended(d)
       PROVE  /\ IsOf(j, d, call[d].job) /\ call[d].pc = "wait"
              /\ j.op = call[d].op /\ j.id = call[d].id /\ ~NeedsSave(j)
  <2>1. call[d].pc = "wait" /\ \A k \in jobs' : ~IsOf(k, d, call[d].job)
    BY <1>1, <1>14 DEF Ended
  <2>2. PICK k \in jobs : IsOf(k, d, call[d].job)
    BY <1>14, <2>1 DEF Ended
  <2>3. k = j
    BY <1>1, <2>1, <2>2
  <2>4. ~NeedsSave(j)
    BY <1>1, <1>3, <2>1, <2>2, <2>3 DEF IsOf
  <2>5. QED
    BY <2>1, <2>2, <2>3, <2>4 DEF JobsNamed, IsOf
<1>15. Kept'
  <2>1. (\A i \in acked : /\ Loaded => InMemory(i)
                          /\ InFiles(i)
                          /\ backend # "faiss" => Partition(NamespaceOf[i]) \in exists)'
    BY <1>1, <1>6, <1>8 DEF Kept, InFiles, Partition, StoreType
  <2>2. ASSUME NEW d \in Caller, call[d].op = "upsert", Ended(d)'
        PROVE  InMemory(call[d].id)' /\ InFiles(call[d].id)'
    <3>1. CASE Ended(d)
      <4>1. call[d].id \in Id /\ InMemory(call[d].id) /\ InFiles(call[d].id)
        BY <2>2, <3>1 DEF Kept, JobsNamed
      <4>2. QED
        BY <1>1, <1>8, <4>1 DEF InFiles, InMemory
    <3>2. CASE ~Ended(d)
      <4>1. j.op = "upsert" /\ j.id = call[d].id /\ ~NeedsSave(j)
        BY <1>14, <2>2, <3>2
      <4>2. backend # "faiss"
        BY <1>4, <4>1 DEF NeedsSave, Absent
      <4>3. QED
        BY <1>1, <1>8, <4>1, <4>2 DEF InFiles, InMemory
    <3>3. QED
      BY <3>1, <3>2
  <2>3. (\A k \in jobs : k.op = "upsert" /\ k.pc \in {"save", "dump"} => InMemory(k.id))'
    <3> SUFFICES ASSUME NEW k \in jobs', k.op = "upsert", k.pc \in {"save", "dump"}
                 PROVE  InMemory(k.id)'
      OBVIOUS
    <3>1. CASE k = j2
      BY <1>3, <1>8, <3>1
    <3>2. CASE k \in jobs
      <4>1. InMemory(k.id) /\ k.id \in Id
        BY <3>2 DEF Kept, StoreType, Job
      <4>2. QED
        BY <1>8, <4>1
    <3>3. QED
      BY <1>7, <3>1, <3>2
  <2>4. (\A k \in jobs : k.op = "upsert" /\ k.pc = "dump" => k.id \in disk.index)'
    BY <1>1, <1>3, <1>7 DEF Kept
  <2>5. QED
    BY <1>1, <2>1, <2>2, <2>3, <2>4 DEF Kept
<1>16. Held'
  <2>1. ASSUME NEW i \in stamped'
        PROVE  /\ i \in acked' /\ ~Upserting(i)'
               /\ Loaded' => SupersededInMemory(i)'
               /\ SupersededInFiles(i)'
    <3>1. /\ i \in acked /\ ~Upserting(i) /\ i \in Id
          /\ SupersededInMemory(i) /\ SupersededInFiles(i)
      BY <1>1, <1>6, <2>1 DEF Held, StoreType
    <3>2. QED
      BY <1>1, <1>9, <1>10, <3>1 DEF SupersededInFiles
  <2>2. ASSUME NEW d \in Caller, call'[d].alone
        PROVE  /\ call'[d].op = "invalidate" /\ call'[d].id \in acked' /\ ~Upserting(call[d].id)'
               /\ \A k \in jobs' : IsOf(k, d, call'[d].job) /\ call'[d].pc = "wait"
                                  /\ k.pc # "write" => SupersededInMemory(k.id)'
               /\ Ended(d)' => SupersededInMemory(call[d].id)' /\ SupersededInFiles(call[d].id)'
    <3>1. /\ call[d].op = "invalidate" /\ call[d].id \in acked /\ ~Upserting(call[d].id)
          /\ call[d].id \in Id /\ points[call[d].id] # Absent
          /\ \A k \in jobs : IsOf(k, d, call[d].job) /\ call[d].pc = "wait"
                                  /\ k.pc # "write" => SupersededInMemory(k.id)
          /\ Ended(d) => SupersededInMemory(call[d].id) /\ SupersededInFiles(call[d].id)
      BY <1>1, <1>6, <2>2 DEF Held, Kept, InMemory, StoreType
    <3>2. ~Upserting(call[d].id)'
      BY <1>1, <1>10, <3>1 DEF Upserting
    <3>3. j.op = call[d].op /\ j.id = call[d].id => SupersededInMemory(j.id)'
      BY <1>4, <1>5, <3>1 DEF SupersededInMemory
    <3>4. ASSUME NEW k \in jobs', IsOf(k, d, call[d].job), call[d].pc = "wait", k.pc # "write"
          PROVE  SupersededInMemory(k.id)'
      <4>1. CASE k = j2
        <5>1. j.op = call[d].op /\ j.id = call[d].id
          BY <1>3, <3>4, <4>1 DEF JobsNamed, IsOf
        <5>2. SupersededInMemory(j.id)'
          BY <3>3, <5>1
        <5>3. QED
          BY <1>3, <4>1, <5>2 DEF SupersededInMemory
      <4>2. CASE k \in jobs
        <5>1. k.id = call[d].id /\ SupersededInMemory(k.id)
          BY <3>1, <3>4, <4>2 DEF JobsNamed, IsOf
        <5>2. QED
          BY <1>9, <3>1, <5>1
      <4>3. QED
        BY <1>7, <4>1, <4>2
    <3>5. ASSUME Ended(d)' PROVE SupersededInMemory(call[d].id)' /\ SupersededInFiles(call[d].id)'
      <4>1. CASE Ended(d)
        <5>1. SupersededInMemory(call[d].id) /\ SupersededInFiles(call[d].id)
          BY <3>1, <4>1
        <5>2. QED
          BY <1>1, <1>9, <3>1, <5>1 DEF SupersededInFiles, SupersededInMemory
      <4>2. CASE ~Ended(d)
        <5>1. j.op = call[d].op /\ j.id = call[d].id /\ ~NeedsSave(j)
          BY <1>14, <3>5, <4>2
        <5>2. backend # "faiss"
          BY <1>4, <3>1, <5>1 DEF NeedsSave, Absent
        <5>3. SupersededInMemory(j.id)'
          BY <3>3, <5>1
        <5>4. QED
          BY <1>1, <5>1, <5>2, <5>3 DEF SupersededInFiles, SupersededInMemory
      <4>3. QED
        BY <4>1, <4>2
    <3>6. QED
      BY <1>1, <3>1, <3>2, <3>4, <3>5
  <2>3. QED
    BY <2>1, <2>2 DEF Held
<1>17. Covered'
  <2> SUFFICES ASSUME backend = "faiss", abandoned = 0
               PROVE  /\ \A k \in jobs' : call[k.c].pc = "wait" /\ call[k.c].job = k.n
                      /\ \A k \in jobs' : k.pc = "dump" => disk.index = index'
                      /\ \A i \in Id : points'[i] # Absent => i \in index'
                      /\ \A i \in Id : disk.doc[i] # Absent => i \in disk.index
                      /\ \A i \in Id : disk.doc[i] # Absent => points'[i] # Absent
    BY <1>1 DEF Covered
  <2>1. \A k \in jobs' : k = j2
    BY <1>7, OneWriter
  <2>2. \A i \in Id : points'[i] # Absent => i \in index'
    BY <1>1, <1>2, <1>4, <1>5 DEF Covered
  <2>3. \A i \in Id : points[i] # Absent => points'[i] # Absent
    BY <1>2, <1>4, <1>5 DEF Absent
  <2>4. \A k \in jobs' : call[k.c].pc = "wait" /\ call[k.c].job = k.n
    BY <1>3, <2>1 DEF Covered
  <2>5. QED
    BY <1>3, <1>6, <2>1, <2>2, <2>3, <2>4 DEF Covered
<1>18. CallType'
  BY <1>1 DEF CallType
<1>19. QED
  BY <1>11, <1>12, <1>13, <1>15, <1>16, <1>17, <1>18

\* A file is written from the memory, which holds all that the files must.
LEMMA SaveInv ==
    ASSUME Inv, NEW j \in jobs, save(j)
    PROVE  Inv'
<1> USE DEF Inv
<1> DEFINE j2 == [j EXCEPT !.pc = "dump"]
<1>1. /\ UNCHANGED <<backend, NamespaceOf, exists, ensured, lock, points, index, call, calls,
                     abandoned, acked, stamped>>
      /\ j.pc \in {"save", "dump"} /\ disk' = Saved(j)
      /\ jobs' = (jobs \ {j}) \cup (IF j.pc = "save" THEN {j2} ELSE {})
  BY DEF save, chosen, tables, bounds, history
<1>2. j \in Job /\ j.id \in Id /\ j.op \in {"upsert", "invalidate"} /\ j.c \in Caller
  BY DEF StoreType, Job
<1>3. /\ j2 \in Job /\ j2.n = j.n /\ j2.c = j.c /\ j2.op = j.op /\ j2.id = j.id /\ j2.pc = "dump"
  BY <1>2 DEF Job
<1> HIDE DEF j2
<1>4. backend = "faiss" /\ Loaded /\ Loaded' = Loaded
  BY <1>1 DEF Placed, Loaded
<1>5. /\ j.pc = "save" => disk'.index = index /\ disk'.doc = disk.doc
      /\ j.pc = "dump" => disk'.index = disk.index /\ disk'.doc = points
      /\ disk' \in [index : SUBSET Id, doc : [Id -> States], torn : SUBSET {"save", "dump"}]
  BY <1>1 DEF Saved, StoreType
<1>6. \A k \in jobs' : (k \in jobs /\ k # j) \/ (k = j2 /\ j.pc = "save")
  BY <1>1
<1>7. /\ \A i : InMemory(i)' = InMemory(i)
      /\ \A i : SupersededInMemory(i)' = SupersededInMemory(i)
  BY <1>1 DEF InMemory, SupersededInMemory
<1>8. /\ \A i : InMemory(i) /\ InFiles(i) => InFiles(i)'
      /\ \A i : SupersededInMemory(i) /\ SupersededInFiles(i) => SupersededInFiles(i)'
      /\ \A i : InMemory(i) /\ i \in disk.index => i \in disk'.index
  BY <1>1, <1>4, <1>5 DEF InMemory, InFiles, SupersededInMemory, SupersededInFiles
<1>9. \A i : Upserting(i)' => Upserting(i)
  BY <1>1, <1>3, <1>6 DEF Upserting
<1>10. StoreType'
  BY <1>1, <1>3, <1>5 DEF StoreType
<1>11. JobsNamed'
  <2>1. ASSUME NEW k \in jobs', NEW l \in jobs', IsOf(k, l.c, l.n) PROVE k = l
    BY <1>3, <1>6, <2>1 DEF JobsNamed, IsOf
  <2>2. \A k \in jobs' : \E l \in jobs : k.c = l.c /\ k.n = l.n /\ k.op = l.op /\ k.id = l.id
    BY <1>3, <1>6
  <2>3. QED
    BY <1>1, <2>1, <2>2 DEF JobsNamed
<1>12. Placed'
  <2>1. \A d \in Caller : Part(d)' = Part(d)
    BY <1>1 DEF Part, CallNs
  <2>2. QED
    BY <1>1, <1>4, <2>1 DEF Placed, Loaded
<1>13. ASSUME NEW d \in Caller, Ended(d)', ~Ended(d)
       PROVE  /\ IsOf(j, d, call[d].job) /\ call[d].pc = "wait"
              /\ j.op = call[d].op /\ j.id = call[d].id /\ j.pc = "dump"
  <2>1. call[d].pc = "wait" /\ \A k \in jobs' : ~IsOf(k, d, call[d].job)
    BY <1>1, <1>13 DEF Ended
  <2>2. PICK k \in jobs : IsOf(k, d, call[d].job)
    BY <1>13, <2>1 DEF Ended
  <2>3. k = j
    BY <1>1, <2>1, <2>2
  <2>4. j.pc # "save"
    BY <1>1, <1>3, <2>1, <2>2, <2>3 DEF IsOf
  <2>5. QED
    BY <1>1, <2>1, <2>2, <2>3, <2>4 DEF JobsNamed, IsOf
<1>14. Kept'
  <2>1. ASSUME NEW i \in acked
        PROVE  InMemory(i)' /\ InFiles(i)'
    BY <1>4, <1>7, <1>8 DEF Kept
  <2>2. ASSUME NEW d \in Caller, call[d].op = "upsert", Ended(d)'
        PROVE  InMemory(call[d].id)' /\ InFiles(call[d].id)'
    <3>1. CASE Ended(d)
      <4>1. InMemory(call[d].id) /\ InFiles(call[d].id)
        BY <2>2, <3>1 DEF Kept
      <4>2. InMemory(call[d].id) /\ InFiles(call[d].id) => InFiles(call[d].id)'
        BY <1>1, <1>8 DEF InFiles
      <4>3. QED
        BY <1>1, <4>1, <4>2 DEF InMemory
    <3>2. CASE ~Ended(d)
      <4>1. j.op = "upsert" /\ j.id = call[d].id /\ j.pc = "dump"
        BY <1>13, <2>2, <3>2
      <4>2. InMemory(j.id) /\ j.id \in disk.index
        BY <4>1 DEF Kept
      <4>3. QED
        BY <1>1, <1>5, <4>1, <4>2 DEF InFiles, InMemory
    <3>3. QED
      BY <3>1, <3>2
  <2>3. ASSUME NEW k \in jobs', k.op = "upsert", k.pc \in {"save", "dump"}
        PROVE  InMemory(k.id)
    BY <1>1, <1>3, <1>6, <2>3 DEF Kept
  <2>4. ASSUME NEW k \in jobs', k.op = "upsert", k.pc = "dump"
        PROVE  k.id \in disk'.index
    <3>1. CASE k = j2 /\ j.pc = "save"
      BY <1>3, <1>4, <1>5, <2>3, <2>4, <3>1 DEF InMemory
    <3>2. CASE k \in jobs
      <4>1. InMemory(k.id) /\ k.id \in disk.index
        BY <2>4, <3>2 DEF Kept
      <4>2. QED
        BY <1>8, <4>1
    <3>3. QED
      BY <1>6, <3>1, <3>2
  <2>5. (\A i \in acked : /\ Loaded => InMemory(i)
                          /\ InFiles(i)
                          /\ backend # "faiss" => Partition(NamespaceOf[i]) \in exists)'
    BY <1>1, <1>4, <2>1
  <2>6. (\A k \in jobs : k.op = "upsert" /\ k.pc \in {"save", "dump"} => InMemory(k.id))'
    BY <1>7, <2>3
  <2>7. QED
    BY <1>1, <2>2, <2>4, <2>5, <2>6 DEF Kept
<1>15. Held'
  <2>1. ASSUME NEW i \in stamped'
        PROVE  /\ i \in acked' /\ ~Upserting(i)'
               /\ Loaded' => SupersededInMemory(i)'
               /\ SupersededInFiles(i)'
    <3>1. /\ i \in acked /\ ~Upserting(i)
          /\ SupersededInMemory(i) /\ SupersededInFiles(i)
      BY <1>1, <1>4, <2>1 DEF Held
    <3>2. QED
      BY <1>1, <1>7, <1>8, <1>9, <3>1
  <2>2. ASSUME NEW d \in Caller, call'[d].alone
        PROVE  /\ call'[d].op = "invalidate" /\ call'[d].id \in acked' /\ ~Upserting(call[d].id)'
               /\ \A k \in jobs' : IsOf(k, d, call'[d].job) /\ call'[d].pc = "wait"
                                  /\ k.pc # "write" => SupersededInMemory(k.id)'
               /\ Ended(d)' => SupersededInMemory(call[d].id)' /\ SupersededInFiles(call[d].id)'
    <3>1. /\ call[d].op = "invalidate" /\ call[d].id \in acked /\ ~Upserting(call[d].id)
          /\ \A k \in jobs : IsOf(k, d, call[d].job) /\ call[d].pc = "wait"
                                  /\ k.pc # "write" => SupersededInMemory(k.id)
          /\ Ended(d) => SupersededInMemory(call[d].id) /\ SupersededInFiles(call[d].id)
      BY <1>1, <2>2 DEF Held
    <3>2. ~Upserting(call[d].id)'
      BY <1>1, <1>9, <3>1 DEF Upserting
    <3>3. ASSUME NEW k \in jobs', IsOf(k, d, call[d].job), call[d].pc = "wait", k.pc # "write"
          PROVE  SupersededInMemory(k.id)
      <4>1. CASE k = j2
        <5>1. SupersededInMemory(j.id)
          BY <1>1, <1>3, <3>1, <3>3, <4>1 DEF IsOf
        <5>2. QED
          BY <1>3, <4>1, <5>1
      <4>2. CASE k \in jobs
        BY <3>1, <3>3, <4>2
      <4>3. QED
        BY <1>6, <4>1, <4>2
    <3>4. ASSUME Ended(d)' PROVE SupersededInMemory(call[d].id) /\ SupersededInFiles(call[d].id)'
      <4>1. CASE Ended(d)
        <5>1. SupersededInMemory(call[d].id) /\ SupersededInFiles(call[d].id)
          BY <3>1, <4>1
        <5>2. SupersededInFiles(call[d].id)'
          BY <1>1, <1>5, <5>1 DEF SupersededInFiles, SupersededInMemory
        <5>3. QED
          BY <5>1, <5>2
      <4>2. CASE ~Ended(d)
        <5>1. /\ IsOf(j, d, call[d].job) /\ call[d].pc = "wait"
              /\ j.op = call[d].op /\ j.id = call[d].id /\ j.pc = "dump"
          BY <1>13, <3>4, <4>2
        <5>2. SupersededInMemory(j.id)
          BY <3>1, <5>1
        <5>3. QED
          BY <1>1, <1>5, <5>1, <5>2 DEF SupersededInFiles, SupersededInMemory
      <4>3. QED
        BY <4>1, <4>2
    <3>5. QED
      BY <1>1, <3>1, <3>2, <3>3, <3>4 DEF SupersededInMemory
  <2>3. QED
    BY <2>1, <2>2 DEF Held
<1>16. Covered'
  <2> SUFFICES ASSUME abandoned = 0
               PROVE  /\ \A k \in jobs' : call[k.c].pc = "wait" /\ call[k.c].job = k.n
                      /\ \A k \in jobs' : k.pc = "dump" => disk'.index = index
                      /\ \A i \in Id : points[i] # Absent => i \in index
                      /\ \A i \in Id : disk'.doc[i] # Absent => i \in disk'.index
                      /\ \A i \in Id : disk'.doc[i] # Absent => points[i] # Absent
    BY <1>1 DEF Covered
  <2>1. \A k \in jobs' : k = j2 /\ j.pc = "save"
    BY <1>4, <1>6, OneWriter
  <2>2. /\ call[j.c].pc = "wait" /\ call[j.c].job = j.n
        /\ j.pc = "dump" => disk.index = index
        /\ \A i \in Id : points[i] # Absent => i \in index
        /\ \A i \in Id : disk.doc[i] # Absent => points[i] # Absent
    BY <1>4 DEF Covered
  <2>3. QED
    BY <1>1, <1>3, <1>5, <2>1, <2>2
<1>17. CallType'
  BY <1>1 DEF CallType
<1>18. QED
  BY <1>10, <1>11, <1>12, <1>14, <1>15, <1>16, <1>17

\* The process ends: its calls are gone, and so is what was only in its memory.
LEMMA CrashInv ==
    ASSUME Inv, crash
    PROVE  Inv'
<1> USE DEF Inv
<1>1. CallType' /\ \A c \in Caller : call'[c] = NoCall
  BY CrashMoves
<1>2. \A c \in Caller : call'[c].pc = "idle" /\ call'[c].op = "none" /\ call'[c].alone = FALSE
  BY <1>1, NoCallType
<1>3. /\ UNCHANGED <<backend, NamespaceOf, exists, calls, abandoned, acked, stamped>>
      /\ ensured' = {} /\ lock' = NoLock /\ jobs' \subseteq jobs
      /\ backend = "faiss" => jobs' = {} /\ points' = Nothing /\ index' = {}
      /\ backend # "faiss" => UNCHANGED <<points, index, disk>>
  BY DEF crash, chosen, data, history, Locking
<1>4. /\ disk' \in [index : SUBSET Id, doc : [Id -> States], torn : SUBSET {"save", "dump"}]
      /\ disk'.doc = disk.doc /\ disk'.index = disk.index
  <2>1. CASE backend = "faiss"
    <3>1. PICK torn \in SUBSET {j.pc : j \in {k \in jobs : k.pc \in {"save", "dump"}}} :
            disk' = [disk EXCEPT !.torn = @ \cup torn]
      BY <2>1 DEF crash
    <3>2. torn \subseteq {"save", "dump"}
      OBVIOUS
    <3>3. QED
      BY <3>1, <3>2 DEF StoreType
  <2>2. CASE backend # "faiss"
    BY <1>3, <2>2 DEF StoreType
  <2>3. QED
    BY <2>1, <2>2
<1>5. points' \in [Id -> States] /\ index' \subseteq Id
  BY <1>3 DEF StoreType, Nothing, States
<1>6. StoreType'
  BY <1>3, <1>4, <1>5 DEF StoreType
<1>7. \A j \in jobs : j.c \in Caller
  BY DEF StoreType, Job
<1>8. JobsNamed'
  BY <1>2, <1>3, <1>7 DEF JobsNamed, IsOf, Ahead
<1>9. Placed'
  BY <1>2, <1>3 DEF Placed, Ahead
<1>10. Loaded' => Loaded /\ backend # "faiss"
  BY <1>3 DEF Loaded
<1>11. \A i : Upserting(i)' => Upserting(i)
  BY <1>2, <1>3 DEF Upserting
<1>12. \A c \in Caller : ~Ended(c)'
  BY <1>2 DEF Ended
<1>13. Kept'
  <2>1. (\A i \in acked : /\ Loaded => InMemory(i)
                          /\ InFiles(i)
                          /\ backend # "faiss" => Partition(NamespaceOf[i]) \in exists)'
    BY <1>3, <1>4, <1>10 DEF Kept, InMemory, InFiles, Partition
  <2>2. (\A j \in jobs : j.pc = "write")'
    BY <1>3 DEF Placed
  <2>3. QED
    BY <1>12, <2>1, <2>2 DEF Kept
<1>14. Held'
  <2>1. (\A i \in stamped : /\ i \in acked /\ ~Upserting(i)
                            /\ Loaded => SupersededInMemory(i)
                            /\ SupersededInFiles(i))'
    BY <1>3, <1>4, <1>10, <1>11 DEF Held, SupersededInMemory, SupersededInFiles
  <2>2. QED
    BY <1>2, <2>1 DEF Held
<1>15. Covered'
  BY <1>3, <1>4, <1>10 DEF Covered, Nothing
<1>16. QED
  BY <1>1, <1>6, <1>8, <1>9, <1>13, <1>14, <1>15

\* Nothing else touches what the invariant is about.
LEMMA StutterInv ==
    ASSUME Inv,
           UNCHANGED <<backend, NamespaceOf, exists, ensured, lock, points, index, disk, jobs,
                       call, calls,
                       abandoned, acked, stamped>>
    PROVE  Inv'
<1> USE DEF Inv
<1>1. CallType' /\ StoreType' /\ JobsNamed'
  BY DEF CallType, StoreType, JobsNamed, IsOf
<1>2. Placed' /\ Covered'
  BY DEF Placed, Covered, Part, CallNs, Partition, Loaded
<1>3. Loaded' = Loaded /\ \A c : Ended(c)' = Ended(c)
  BY DEF Loaded, Ended
<1>4. \A i : Upserting(i)' = Upserting(i)
  BY DEF Upserting
<1>5. Kept'
  BY <1>3 DEF Kept, InMemory, InFiles, Partition
<1>6. Held'
  BY <1>3, <1>4 DEF Held, SupersededInMemory, SupersededInFiles, IsOf, Upserting
<1>7. QED
  BY <1>1, <1>2, <1>5, <1>6

\* The stores start empty and nobody calls.
LEMMA InvInit == Init => Inv
<1> SUFFICES ASSUME Init PROVE Inv
  OBVIOUS
<1>1. call = [c \in Caller |-> NoCall]
  BY DEF Init
<1>2. call \in [Caller -> Calls({} \cup {<<>>})]
  BY <1>1, NoCallIsCall
<1>3. CallType
  BY <1>2 DEF CallType
<1>4. \A c \in Caller : call[c].pc = "idle" /\ call[c].op = "none" /\ call[c].alone = FALSE
  BY <1>1, NoCallType
<1>5. StoreType
  BY BackendsAssumption DEF Init, StoreType, Nothing, States
<1>6. JobsNamed /\ Placed
  BY <1>4 DEF Init, JobsNamed, Placed, Ahead
<1>7. Kept /\ Held
  BY <1>4 DEF Init, Kept, Held, Ended
<1>8. Covered
  BY DEF Init, Covered, Nothing
<1>9. QED
  BY <1>3, <1>5, <1>6, <1>7, <1>8 DEF Inv

\* Every step of every caller, writer thread and crash keeps the invariant.
LEMMA InvNext == Inv /\ [Next]_vars => Inv'
<1> SUFFICES ASSUME Inv, [Next]_vars PROVE Inv'
  OBVIOUS
<1> USE DEF Inv
<1>1. ASSUME NEW c \in Caller, NEW i \in Id, upsert(c, i) PROVE Inv'
  BY <1>1, BeginInv DEF upsert
<1>2. ASSUME NEW c \in Caller, NEW i \in Id, invalidate(c, i) PROVE Inv'
  <2>1. (i \in acked /\ ~Upserting(i)) \in BOOLEAN
    OBVIOUS
  <2>2. QED
    BY <1>2, <2>1, BeginInv DEF invalidate
<1>3. ASSUME NEW c \in Caller, NEW q \in Queries, semantic(c, q) PROVE Inv'
  BY <1>3, BeginInv DEF semantic
<1>4. ASSUME NEW c \in Caller,
             \/ acquire(c) \/ open(c) \/ check(c) \/ create(c) \/ create_indexes(c)
             \/ ensure_pool(c) \/ create_pool(c) \/ ensure_table(c)
      PROVE  Inv'
  <2>1. CallType' /\ \E p \in PcSet : Walk(c, p)
    BY <1>4, Walks
  <2>2. QED
    BY <2>1, WalkInv
<1>5. ASSUME NEW c \in Caller, search(c) PROVE Inv'
  <2>1. CallType' /\ Onward(c, "returned") /\ call'[c].job = call[c].job
    BY <1>5, SearchMoves
  <2>2. QED
    BY <1>5, <2>1, AnswerInv DEF search, At
<1>6. ASSUME NEW c \in Caller, finish(c) PROVE Inv'
  <2>1. CallType' /\ Onward(c, "returned") /\ call'[c].job = call[c].job
    BY <1>6, GotoMoves DEF finish, PcSet
  <2>2. Ended(c) /\ call[c].pc = "wait"
    BY <1>6 DEF finish, Ended, IsOf, At
  <2>3. QED
    BY <1>6, <2>1, <2>2, AnswerInv DEF finish
<1>7. ASSUME close PROVE Inv'
  BY <1>7, StutterInv DEF close, chosen, data, bounds, history
<1>8. ASSUME UNCHANGED vars PROVE Inv'
  BY <1>8, StutterInv DEF vars, chosen, tables, data, bounds, history
<1>9. QED
  BY <1>1, <1>2, <1>3, <1>4, <1>5, <1>6, <1>7, <1>8, SendInv, ReturnInv, AbandonInv, WriteInv,
     SaveInv,
     CrashInv DEF Next, Step

\* The invariant holds in every reachable state.
LEMMA InvAlways == Spec => []Inv
BY InvInit, InvNext, PTL DEF Spec

-----------------------------------------------------------------------------
(***************************************************************************)
(* Ranked lists.                                                           *)
(***************************************************************************)
LEMMA LeastElement ==
    ASSUME NEW T \in SUBSET Nat, T # {}
    PROVE  \E n \in T : \A m \in T : n <= m
<1> DEFINE R == OpToRel(<, Nat)
<1>1. IsWellFoundedOn(R, Nat)
  BY NatLessThanWellFounded, Zenon
<1> HIDE DEF R
<1>2. PICK n \in T : \A m \in T : ~(<<m, n>> \in R)
  BY <1>1, WFMin
<1>3. ASSUME NEW m \in T PROVE n <= m
  <2>1. ~(<<m, n>> \in R)
    BY <1>2
  <2>2. ~(m < n)
    BY <2>1 DEF R, OpToRel
  <2> QED BY <2>2
<1> QED BY <1>3

\* A list of the members of a set of numbers, in ascending order.
Rising(s, n) == \A i, j \in 1..n : i < j => s[i] < s[j]
Ranks(s, n, S) ==
    /\ s \in [1..n -> S] /\ Rising(s, n)
    /\ \A x \in S : \E i \in 1..n : s[i] = x

\* No two numbers of a rising list are the same, so that it names each once.
LEMMA RisingCounts ==
    ASSUME NEW n \in Nat, NEW S \in SUBSET Nat, NEW s, Ranks(s, n, S)
    PROVE  IsFiniteSet(S) /\ Cardinality(S) = n
<1> DEFINE I == 1..n
<1>1. IsFiniteSet(I) /\ Cardinality(I) = n
  <2>1. 1 \in Int /\ n \in Int
    OBVIOUS
  <2> QED BY <2>1, FS_Interval
<1>2. ASSUME NEW i \in I, NEW j \in I, s[i] = s[j] PROVE i = j
  <2>1. s[i] \in Nat /\ s[j] \in Nat
    BY DEF Ranks
  <2>2. ~(i < j) /\ ~(j < i)
    BY <1>2, <2>1 DEF Ranks, Rising
  <2> QED BY <2>2
<1>3. s \in [I -> S] /\ \A x \in S : \E i \in I : s[i] = x
  BY DEF Ranks
<1> HIDE DEF I
<1>4. s \in Bijection(I, S)
  BY <1>2, <1>3, Fun_IsBij
<1>5. ExistsBijection(I, S)
  BY <1>4 DEF ExistsBijection
<1> QED BY <1>1, <1>5, FS_Bijection

\* Every finite set of numbers has one.
LEMMA RanksExist ==
    ASSUME NEW S0 \in SUBSET Nat, IsFiniteSet(S0)
    PROVE  \E s : Ranks(s, Cardinality(S0), S0)
<1> DEFINE Good(n) == \A S \in SUBSET S0 : Cardinality(S) = n => \E s : Ranks(s, n, S)
           Bad == {n \in 0..Cardinality(S0) : ~Good(n)}
<1>0. Cardinality(S0) \in Nat
  BY FS_CardinalityType
<1>1. Bad = {}
  <2> SUFFICES ASSUME Bad # {} PROVE FALSE
    OBVIOUS
  <2>1. PICK n \in Bad : \A m \in Bad : n <= m
    <3>1. Bad \in SUBSET Nat
      BY <1>0
    <3> HIDE DEF Bad
    <3> QED BY <3>1, LeastElement
  <2>2. n \in 0..Cardinality(S0) /\ n \in Nat /\ ~Good(n)
    BY <1>0, <2>1
  <2>3. PICK S \in SUBSET S0 : Cardinality(S) = n /\ ~\E s : Ranks(s, n, S)
    BY <2>2
  <2>4. IsFiniteSet(S)
    BY FS_Subset
  <2>5. n # 0
    <3> SUFFICES ASSUME n = 0 PROVE FALSE
      OBVIOUS
    <3>1. S = {}
      BY <2>3, <2>4, FS_EmptySet
    <3> DEFINE s == [i \in 1..0 |-> 0]
    <3>2. Ranks(s, 0, {})
      BY DEF Ranks, Rising
    <3> HIDE DEF s
    <3> QED BY <2>3, <3>1, <3>2
  <2>6. PICK x \in S : \A y \in S : x <= y
    <3>1. S # {} /\ S \in SUBSET Nat
      BY <2>3, <2>5, FS_EmptySet
    <3> QED BY <3>1, LeastElement
  <2> DEFINE T == S \ {x}
             m == n - 1
  <2>7. T \in SUBSET S0 /\ Cardinality(T) = m
    BY <2>2, <2>3, <2>4, <2>6, FS_RemoveElement
  <2>8. m \in 0..Cardinality(S0) /\ m \notin Bad
    <3> HIDE DEF Bad
    <3> QED BY <1>0, <2>1, <2>2, <2>5
  <2>9. PICK t : Ranks(t, m, T)
    <3>1. Good(m)
      BY <2>8
    <3> HIDE DEF T, m
    <3> QED BY <2>7, <3>1
  <2> DEFINE s == [i \in 1..n |-> IF i = 1 THEN x ELSE t[i - 1]]
  <2>10. \A y \in T : y \in S /\ y \in Nat /\ x \in Nat /\ x < y
    BY <2>6
  <2> HIDE DEF T
  <2>11. ASSUME NEW i \in 1..n, i # 1 PROVE i - 1 \in 1..m /\ s[i] = t[i - 1] /\ t[i - 1] \in T
    <3>1. i - 1 \in 1..m
      BY <2>2, <2>11
    <3> QED BY <2>9, <2>11, <3>1 DEF Ranks
  <2>12. 1 \in 1..n /\ s[1] = x
    BY <2>2, <2>5
  <2>13. s = [i \in 1..n |-> s[i]]
    OBVIOUS
  <2> HIDE DEF s
  <2>14. s \in [1..n -> S]
    <3>1. \A i \in 1..n : s[i] \in S
      BY <2>10, <2>11, <2>12
    <3> QED BY <2>13, <3>1
  <2>15. ASSUME NEW i \in 1..n, NEW j \in 1..n, i < j PROVE s[i] < s[j]
    <3>1. j # 1
      BY <2>15
    <3>2. j - 1 \in 1..m /\ s[j] = t[j - 1] /\ t[j - 1] \in T
      BY <2>11, <3>1
    <3>3. CASE i = 1
      BY <2>10, <2>12, <3>2, <3>3
    <3>4. CASE i # 1
      <4>1. i - 1 \in 1..m /\ s[i] = t[i - 1] /\ i - 1 < j - 1
        BY <2>11, <2>15, <3>4
      <4> QED BY <2>9, <3>2, <4>1 DEF Ranks, Rising
    <3> QED BY <3>3, <3>4
  <2>16. ASSUME NEW y \in S PROVE \E i \in 1..n : s[i] = y
    <3>1. CASE y = x
      BY <2>12, <3>1
    <3>2. CASE y # x
      <4>1. PICK i \in 1..m : t[i] = y
        BY <2>9, <3>2 DEF Ranks, T
      <4>2. i + 1 \in 1..n /\ i + 1 # 1 /\ (i + 1) - 1 = i
        BY <2>2, <4>1
      <4>3. s[i + 1] = t[(i + 1) - 1]
        BY <2>11, <4>2
      <4> QED BY <4>1, <4>2, <4>3
    <3> QED BY <3>1, <3>2
  <2>17. Ranks(s, n, S)
    BY <2>14, <2>15, <2>16 DEF Ranks, Rising
  <2> QED BY <2>3, <2>17
<1>2. Cardinality(S0) \notin Bad /\ Cardinality(S0) \in 0..Cardinality(S0)
  <2> HIDE DEF Bad
  <2> QED BY <1>0, <1>1
<1>3. Good(Cardinality(S0))
  BY <1>2
<1> QED BY <1>3

\* And only one.
LEMMA RanksUnique ==
    ASSUME NEW n \in Nat, NEW S \in SUBSET Nat, NEW s, NEW t, Ranks(s, n, S), Ranks(t, n, S)
    PROVE  s = t
<1> DEFINE Bad == {k \in 1..n : s[k] # t[k]}
<1>0. ASSUME NEW a, NEW b, Ranks(a, n, S), Ranks(b, n, S), NEW k \in 1..n,
             \A j \in 1..n : j < k => a[j] = b[j], a[k] < b[k]
      PROVE  FALSE
  <2>1. PICK j \in 1..n : b[j] = a[k]
    BY <1>0 DEF Ranks
  <2>2. a[k] \in Nat /\ b[k] \in Nat /\ b[j] \in Nat /\ a[j] \in Nat
    BY <1>0, <2>1 DEF Ranks
  <2>3. CASE j < k
    <3>1. a[j] = b[j]
      BY <1>0, <2>3
    <3>2. a[j] < a[k]
      BY <1>0, <2>3 DEF Ranks, Rising
    <3> QED BY <2>1, <2>2, <3>1, <3>2
  <2>4. CASE j = k
    BY <1>0, <2>1, <2>2, <2>4
  <2>5. CASE k < j
    <3>1. b[k] < b[j]
      BY <1>0, <2>5 DEF Ranks, Rising
    <3> QED BY <1>0, <2>1, <2>2, <3>1
  <2> QED BY <2>3, <2>4, <2>5
<1>1. Bad = {}
  <2> SUFFICES ASSUME Bad # {} PROVE FALSE
    OBVIOUS
  <2>1. PICK k \in Bad : \A j \in Bad : k <= j
    <3>1. Bad \in SUBSET Nat
      OBVIOUS
    <3> HIDE DEF Bad
    <3> QED BY <3>1, LeastElement
  <2>2. k \in 1..n /\ s[k] # t[k]
    BY <2>1
  <2>3. ASSUME NEW j \in 1..n, j < k PROVE s[j] = t[j]
    <3>1. j \notin Bad
      <4> HIDE DEF Bad
      <4> QED BY <2>1, <2>2, <2>3
    <3> QED BY <3>1
  <2> HIDE DEF Bad
  <2>4. s[k] \in Nat /\ t[k] \in Nat
    BY <2>2 DEF Ranks
  <2>5. s[k] < t[k] \/ t[k] < s[k]
    BY <2>2, <2>4
  <2>6. ~(s[k] < t[k])
    BY <1>0, <2>2, <2>3
  <2>7. ~(t[k] < s[k])
    BY <1>0, <2>2, <2>3
  <2> QED BY <2>5, <2>6, <2>7
<1>2. \A k \in 1..n : s[k] = t[k]
  BY <1>1
<1> QED BY <1>2 DEF Ranks
\* The ranked list of a finite set of numbers.
LEMMA AscendingIs ==
    ASSUME NEW S \in SUBSET Nat, IsFiniteSet(S)
    PROVE  Cardinality(S) \in Nat /\ Ranks(Ascending(S), Cardinality(S), S)
<1> DEFINE n == Cardinality(S)
<1>1. n \in Nat
  BY FS_CardinalityType
<1>2. PICK t : Ranks(t, n, S)
  BY RanksExist
<1> DEFINE a == Ascending(S)
<1>3. a \in [1..n -> S] /\ Rising(a, n)
  <2>1. \E s \in [1..n -> S] : \A i, j \in 1..n : i < j => s[i] < s[j]
    BY <1>2 DEF Ranks, Rising
  <2>2. a = CHOOSE s \in [1..n -> S] : \A i, j \in 1..n : i < j => s[i] < s[j]
    BY DEF Ascending
  <2> HIDE DEF a, n
  <2> QED BY <2>1, <2>2 DEF Rising
<1> DEFINE T == {a[i] : i \in 1..n}
<1>4. T \in SUBSET S
  BY <1>3
<1>5. Ranks(a, n, T)
  <2> HIDE DEF a, n
  <2>1. a \in [1..n -> T]
    BY <1>3
  <2>2. \A x \in T : \E i \in 1..n : a[i] = x
    OBVIOUS
  <2> HIDE DEF T
  <2> QED BY <1>3, <2>1, <2>2 DEF Ranks
<1>6. Cardinality(T) = n
  <2> HIDE DEF a, T, n
  <2>1. T \in SUBSET Nat
    BY <1>4
  <2> QED BY <1>1, <1>5, <2>1, RisingCounts
<1>7. T = S
  <2> HIDE DEF a, T
  <2> QED BY <1>4, <1>6, FS_Subset
<1>8. Ranks(a, n, S)
  BY <1>5, <1>7
<1> QED BY <1>1, <1>8

\* A rising list is the ranked list of what it holds.
LEMMA RangeRanks ==
    ASSUME NEW n \in Nat, NEW S \in SUBSET Nat, NEW s \in [1..n -> S], Rising(s, n)
    PROVE  /\ Range(s) \in SUBSET S /\ Ranks(s, n, Range(s))
           /\ Ascending(Range(s)) = s
<1> DEFINE T == Range(s)
<1>1. T = {s[i] : i \in 1..n}
  BY DEF Range
<1>2. T \in SUBSET S /\ T \in SUBSET Nat /\ s \in [1..n -> T]
  BY <1>1
<1>3. \A x \in T : \E i \in 1..n : s[i] = x
  BY <1>1
<1> HIDE DEF T
<1>4. Ranks(s, n, T)
  BY <1>2, <1>3 DEF Ranks
<1>5. IsFiniteSet(T) /\ Cardinality(T) = n
  BY <1>2, <1>4, RisingCounts
<1>6. Ranks(Ascending(T), n, T)
  BY <1>2, <1>5, AscendingIs
<1>7. Ascending(T) = s
  BY <1>2, <1>4, <1>6, RanksUnique
<1> QED BY <1>2, <1>4, <1>7 DEF T

\* What is among a ranked list is ranked as it is there.
LEMMA AmongRanked ==
    ASSUME NEW S \in SUBSET Nat, IsFiniteSet(S), NEW R
    PROVE  Among(Ascending(S), R) = Ascending(S \cap R)
<1> DEFINE n == Cardinality(S)
           a == Ascending(S)
<1>1. n \in Nat /\ Ranks(a, n, S)
  BY AscendingIs
<1>2. Range(a) = S
  <2> HIDE DEF a, n
  <2>1. a \in [1..n -> S] /\ \A x \in S : \E i \in 1..n : a[i] = x
    BY <1>1 DEF Ranks
  <2> QED BY <2>1 DEF Range
<1> QED BY <1>2 DEF Among

\* A list that is no longer than the limit is not cut, and a longer one is cut
\* to its first members.
LEMMA CutWhole ==
    ASSUME NEW S, NEW n \in Nat, NEW s \in [1..n -> S], NEW k \in Nat, k >= n
    PROVE  Cut(s, k) = s
<1>1. s \in Seq(S) /\ Len(s) = n
  OBVIOUS
<1>2. Cut(s, k) = SubSeq(s, 1, n)
  BY <1>1 DEF Cut
<1> DEFINE t == SubSeq(s, 1, n)
<1>3. t \in Seq(S) /\ Len(t) = n /\ \A i \in 1..n : t[i] = s[i]
  BY <1>1
<1> HIDE DEF t
<1>4. t = s
  BY <1>1, <1>3, SeqEqual
<1> QED BY <1>2, <1>4 DEF t

LEMMA CutFirst ==
    ASSUME NEW S, NEW n \in Nat, NEW s \in [1..n -> S], NEW k \in Nat, k < n
    PROVE  Cut(s, k) = [i \in 1..k |-> s[i]]
<1>1. s \in Seq(S) /\ Len(s) = n
  OBVIOUS
<1>2. Cut(s, k) = SubSeq(s, 1, k)
  BY <1>1 DEF Cut
<1> DEFINE t == SubSeq(s, 1, k)
<1>3. t \in Seq(S) /\ Len(t) = k /\ \A i \in 1..k : t[i] = s[i]
  BY <1>1
<1> HIDE DEF t
<1>4. t \in [1..k -> S]
  BY <1>3
<1> QED BY <1>2, <1>3, <1>4 DEF t

\* The first members of a ranked list are a ranked list.
LEMMA CutRanked ==
    ASSUME NEW S \in SUBSET Nat, IsFiniteSet(S), NEW k \in Nat
    PROVE  /\ Range(Cut(Ascending(S), k)) \subseteq S
           /\ Ascending(Range(Cut(Ascending(S), k))) = Cut(Ascending(S), k)
           /\ k >= Cardinality(S) => Cut(Ascending(S), k) = Ascending(S)
           /\ \A l \in Nat : l >= k => Cut(Cut(Ascending(S), k), l) = Cut(Ascending(S), k)
<1> DEFINE n == Cardinality(S)
           a == Ascending(S)
           t == Cut(a, k)
<1>1. n \in Nat /\ a \in [1..n -> S] /\ Rising(a, n)
  BY AscendingIs DEF Ranks
<1> HIDE DEF n, a
<1>2. CASE k >= n
  <2>1. t = a
    BY <1>1, <1>2, CutWhole
  <2>2. ASSUME NEW l \in Nat, l >= k PROVE Cut(a, l) = a
    <3>1. l >= n
      BY <1>1, <1>2, <2>2
    <3> QED BY <1>1, <3>1, CutWhole
  <2>3. Range(a) \in SUBSET S /\ Ascending(Range(a)) = a
    BY <1>1, RangeRanks
  <2> HIDE DEF t
  <2>4. \A l \in Nat : l >= k => Cut(t, l) = t
    BY <2>1, <2>2
  <2> QED BY <2>1, <2>3, <2>4 DEF t, a
<1>3. CASE k < n
  <2>1. t \in [1..k -> S] /\ \A i \in 1..k : t[i] = a[i]
    <3>1. n \in Nat /\ k \in Nat /\ k < n /\ a \in [1..n -> S]
      BY <1>1, <1>3
    <3>2. Cut(a, k) = [i \in 1..k |-> a[i]]
      <4>1. \A m \in Nat : \A s \in [1..m -> S] : k < m => Cut(s, k) = [i \in 1..k |-> s[i]]
        BY CutFirst
      <4> QED BY <3>1, <4>1, Zenon
    <3>3. \A i \in 1..k : a[i] \in S
      BY <3>1
    <3> QED BY <3>2, <3>3
  <2> HIDE DEF t
  <2>2. Rising(t, k)
    <3> SUFFICES ASSUME NEW i \in 1..k, NEW j \in 1..k, i < j PROVE t[i] < t[j]
      BY DEF Rising
    <3>1. i \in 1..n /\ j \in 1..n /\ t[i] = a[i] /\ t[j] = a[j]
      BY <1>1, <1>3, <2>1
    <3> QED BY <1>1, <3>1 DEF Rising
  <2>3. Range(t) \in SUBSET S /\ Ascending(Range(t)) = t
    BY <2>1, <2>2, RangeRanks
  <2>4. \A l \in Nat : l >= k => Cut(t, l) = t
    BY <2>1, CutWhole
  <2> QED BY <1>1, <1>3, <2>3, <2>4 DEF t, a, n
<1> QED BY <1>1, <1>2, <1>3

-----------------------------------------------------------------------------
(***************************************************************************)
(* The three ways to search.                                               *)
(***************************************************************************)
\* The least and the larger of two bounds.
LEMMA MinIs == ASSUME NEW a \in Nat, NEW b \in Nat PROVE Min({a, b}) = IF a <= b THEN a ELSE b
BY DEF Min

LEMMA MaxIs == ASSUME NEW a \in Nat, NEW b \in Nat PROVE Max({a, b}) = IF a <= b THEN b ELSE a
BY DEF Max

\* The points that match are stored in the partition.
LEMMA MatchingIs ==
    ASSUME NEW q
    PROVE  /\ Matching(q) \in SUBSET Nat /\ IsFiniteSet(Matching(q))
           /\ Cardinality(Stored(Partition(q[1]))) \in Nat
           /\ Cardinality(Matching(q)) \in Nat
           /\ Cardinality(Matching(q)) <= Cardinality(Stored(Partition(q[1])))
<1> DEFINE X == Stored(Partition(q[1]))
           Y == Matching(q)
<1>1. X \in SUBSET Id
  BY DEF Stored
<1>2. Y \in SUBSET X
  <2> SUFFICES ASSUME NEW i \in Y PROVE i \in X
    OBVIOUS
  <2>1. i \in Id /\ points[i] = "active" /\ NamespaceOf[i] = q[1]
    BY DEF Matching
  <2> HIDE DEF Y
  <2> QED BY <2>1 DEF Stored, Absent
<1> HIDE DEF X, Y
<1>3. IsFiniteSet(X)
  BY <1>1, IdAssumption, FS_Subset
<1>4. IsFiniteSet(Y) /\ Cardinality(Y) <= Cardinality(X)
  BY <1>2, <1>3, FS_Subset
<1>5. Cardinality(X) \in Nat /\ Cardinality(Y) \in Nat
  BY <1>3, <1>4, FS_CardinalityType
<1>6. Y \in SUBSET Nat
  BY <1>1, <1>2, IdAssumption
<1> QED BY <1>4, <1>5, <1>6 DEF X, Y

\* Qdrant and pgvector filter first.
LEMMA FilteredIsExact ==
    ASSUME NEW q, backend # "faiss" PROVE FilteredSearch(q) = Expected(q)
<1>1. Matching(q) \cap ReadableBy(q)
        = {i \in Matching(q) : MayRead(i, q) /\ (backend = "faiss" => i \in index)}
  <2>1. Matching(q) \subseteq Id
    BY DEF Matching
  <2> QED BY <2>1 DEF ReadableBy
<1> QED BY <1>1 DEF FilteredSearch, Expected

\* FAISS filters what the whole index is ranked into.
LEMMA BruteForceIsExact ==
    ASSUME NEW q, index \subseteq Id, backend = "faiss", q[1] \notin SharedNs
    PROVE  BruteForceSearch(q) = Expected(q)
<1>1. index \in SUBSET Nat /\ IsFiniteSet(index)
  BY IdAssumption, FS_Subset
<1>2. Among(Ascending(index), Matching(q)) = Ascending(index \cap Matching(q))
  BY <1>1, AmongRanked
<1>3. \A i : MayRead(i, q)
  BY DEF MayRead
<1>4. index \cap Matching(q)
        = {i \in Matching(q) : MayRead(i, q) /\ (backend = "faiss" => i \in index)}
  BY <1>3
<1> QED BY <1>2, <1>4 DEF BruteForceSearch, Expected

\* Chroma fetches all that match where it has to check who may read, and all
\* it may answer with where it has not.
LEMMA WidenedIsExact ==
    ASSUME NEW q, backend # "faiss",
           ~(q[1] \in SharedNs /\ Cardinality(Stored("shared")) > Max({Limit, MinWiden}))
    PROVE  WidenedSearch(q) = Expected(q)
<1> DEFINE count == Cardinality(Stored(Partition(q[1])))
           wide  == Max({Limit, MinWiden})
           Y     == Matching(q)
           a     == Ascending(Y)
<1>1. /\ Y \in SUBSET Nat /\ IsFiniteSet(Y) /\ Y \subseteq Id
      /\ count \in Nat /\ Cardinality(Y) \in Nat /\ Cardinality(Y) <= count
  BY MatchingIs DEF Matching
<1>2. Limit \in Nat /\ MinWiden \in Nat /\ wide \in Nat
  BY LimitAssumption, MaxIs
<1>3. q[1] \in SharedNs => count <= wide
  <2> SUFFICES ASSUME q[1] \in SharedNs PROVE count <= wide
    OBVIOUS
  <2>1. count = Cardinality(Stored("shared"))
    BY DEF Partition
  <2> HIDE DEF count, wide
  <2> QED BY <1>1, <1>2, <2>1 DEF wide
<1>4. {i \in Y : MayRead(i, q) /\ (backend = "faiss" => i \in index)} = Y \cap ReadableBy(q)
  BY <1>1 DEF ReadableBy
<1>5. Expected(q) = Cut(Ascending(Y \cap ReadableBy(q)), Limit)
  BY <1>4 DEF Expected
<1> DEFINE checked == q[1] \in SharedNs /\ q[2] # Anyone
           fetched == Cut(a, IF checked THEN Min({count, wide}) ELSE Min({count, Limit}))
<1>6. WidenedSearch(q) = Cut(Among(fetched, ReadableBy(q)), Limit)
  BY DEF WidenedSearch
<1>7. Min({count, wide}) = (IF count <= wide THEN count ELSE wide)
  <2> HIDE DEF count, wide
  <2> QED BY <1>1, <1>2, MinIs
<1>8. Min({count, Limit}) = (IF count <= Limit THEN count ELSE Limit)
  <2> HIDE DEF count
  <2> QED BY <1>1, <1>2, MinIs
<1> HIDE DEF count, wide, Y
<1>9. CASE checked
  <2>1. fetched = Cut(a, count)
    BY <1>3, <1>7, <1>9
  <2>2. Cut(a, count) = a
    BY <1>1, CutRanked
  <2>3. Among(a, ReadableBy(q)) = Ascending(Y \cap ReadableBy(q))
    BY <1>1, AmongRanked
  <2> QED BY <1>5, <1>6, <2>1, <2>2, <2>3
<1>10. CASE ~checked
  <2>1. \A i : MayRead(i, q)
    BY <1>10 DEF MayRead
  <2>2. ReadableBy(q) = Id
    BY <2>1 DEF ReadableBy
  <2>3. Y \cap ReadableBy(q) = Y
    BY <1>1, <2>2
  <2> DEFINE m == IF count <= Limit THEN count ELSE Limit
             t == Cut(a, m)
  <2>4. m \in Nat /\ m <= Limit
    BY <1>1, <1>2
  <2>5. fetched = t
    BY <1>8, <1>10
  <2>6. /\ Range(t) \subseteq Y /\ Ascending(Range(t)) = t
        /\ Cut(t, Limit) = t
    <3> HIDE DEF m
    <3> QED BY <1>1, <1>2, <2>4, CutRanked
  <2>7. t = Cut(a, Limit)
    <3>1. CASE count <= Limit
      <4>1. m = count /\ count >= Cardinality(Y) /\ Limit >= Cardinality(Y)
        BY <1>1, <1>2, <3>1
      <4>2. Cut(a, count) = a /\ Cut(a, Limit) = a
        BY <1>1, <1>2, <4>1, CutRanked
      <4> QED BY <4>1, <4>2
    <3>2. CASE ~(count <= Limit)
      BY <3>2
    <3> QED BY <3>1, <3>2
  <2> HIDE DEF t, fetched
  <2>8. Among(t, ReadableBy(q)) = t
    <3>1. Range(t) \cap ReadableBy(q) = Range(t)
      BY <1>1, <2>2, <2>6
    <3> QED BY <2>6, <3>1 DEF Among
  <2>9. WidenedSearch(q) = t
    BY <1>6, <2>5, <2>6, <2>8
  <2> QED BY <1>5, <2>3, <2>7, <2>9
<1> QED BY <1>9, <1>10

\* What a search puts into its call.
LEMMA SearchAnswers ==
    ASSUME CallType, NEW c \in Caller, search(c)
    PROVE  call'[c].result = Search(call[c].query)
<1>1. PICK R : call \in [Caller -> Calls(R)]
  BY DEF CallType
<1>2. call[c] \in Calls(R)
  BY <1>1
<1> DEFINE r == Search(call[c].query)
<1>3. call' = [call EXCEPT ![c].pc = "returned", ![c].result = r]
  BY DEF search
<1> HIDE DEF r
<1>4. call'[c] = [call[c] EXCEPT !.pc = "returned", !.result = r]
  BY <1>1, <1>3
<1>5. call'[c].result = r
  BY <1>2, <1>4 DEF Calls
<1> QED BY <1>5 DEF r

\* A search of each repository in a state of the invariant.
LEMMA SearchesExactly ==
    ASSUME Inv, NEW c \in Caller, search(c),
           ~(/\ backend = "chroma" /\ call[c].query[1] \in SharedNs
             /\ Cardinality(Stored("shared")) > Max({Limit, MinWiden}))
    PROVE  call'[c].result = Expected(call[c].query)
<1> DEFINE q == call[c].query
<1>1. call'[c].result = Search(q)
  BY SearchAnswers DEF Inv
<1>2. CASE backend = "chroma"
  <2>1. WidenedSearch(q) = Expected(q)
    <3> HIDE DEF q
    <3>1. ~(q[1] \in SharedNs /\ Cardinality(Stored("shared")) > Max({Limit, MinWiden}))
      BY <1>2 DEF q
    <3> QED BY <1>2, <3>1, WidenedIsExact
  <2>2. Search(q) = WidenedSearch(q)
    BY <1>2 DEF Search
  <2> QED BY <1>1, <2>1, <2>2
<1>3. CASE backend = "faiss"
  <2>1. call[c].pc = "act" /\ call[c].op = "semantic"
    BY DEF search, At
  <2>2. Part(c) = "private"
    BY <1>3, <2>1 DEF Inv, Placed
  <2>3. Part(c) = Partition(q[1])
    BY <2>1 DEF Part, CallNs
  <2>4. q[1] \notin SharedNs
    BY <2>2, <2>3 DEF Partition
  <2>5. index \subseteq Id
    BY DEF Inv, StoreType
  <2> HIDE DEF q
  <2>6. BruteForceSearch(q) = Expected(q)
    BY <1>3, <2>4, <2>5, BruteForceIsExact
  <2>7. Search(q) = BruteForceSearch(q)
    BY <1>3 DEF Search
  <2> QED BY <1>1, <2>6, <2>7 DEF q
<1>4. CASE backend # "chroma" /\ backend # "faiss"
  <2> HIDE DEF q
  <2>1. FilteredSearch(q) = Expected(q)
    BY <1>4, FilteredIsExact
  <2>2. Search(q) = FilteredSearch(q)
    BY <1>4 DEF Search
  <2> QED BY <1>1, <2>1, <2>2 DEF q
<1> QED BY <1>2, <1>3, <1>4

-----------------------------------------------------------------------------
(***************************************************************************)
(* The theorems.                                                           *)
(***************************************************************************)

\* upsert() of the four repositories: what it returned from is found, with its
\* vector, in every later state, whatever timed out, was cancelled or crashed,
\* for any number of callers, calls, timeouts and crashes.
THEOREM AcknowledgedStays == Spec => []AcknowledgedIsFound
<1>1. Inv => AcknowledgedIsFound
  <2> SUFFICES ASSUME Inv, NEW i \in acked
               PROVE  Current(i) # Absent /\ (backend = "faiss" => i \in CurrentIndex)
    BY DEF AcknowledgedIsFound
  <2>1. (Loaded => InMemory(i)) /\ InFiles(i) /\ i \in Id
    BY DEF Inv, Kept, StoreType
  <2>2. CASE Loaded
    BY <2>1, <2>2 DEF Current, CurrentIndex, InMemory
  <2>3. CASE ~Loaded
    <3>1. backend = "faiss" /\ disk.doc[i] # Absent /\ i \in disk.index
      BY <2>1, <2>3 DEF Loaded, InFiles
    <3>2. HasFiles
      BY <2>1, <3>1 DEF HasFiles, Nothing
    <3>3. QED
      BY <2>3, <3>1, <3>2 DEF Current, CurrentIndex, FileIndex
  <2>4. QED
    BY <2>2, <2>3
<1>2. QED
  BY <1>1, InvAlways, PTL

\* invalidate() of the four repositories: once it has returned the point stays
\* superseded until it is upserted again; no reload, no cancelled writer and no
\* crash brings it back.
THEOREM SupersededStays == Spec => []InvalidationHolds
<1>1. Inv => InvalidationHolds
  <2> SUFFICES ASSUME Inv, NEW i \in stamped PROVE Current(i) = "superseded"
    BY DEF InvalidationHolds
  <2>1. (Loaded => SupersededInMemory(i)) /\ SupersededInFiles(i)
    BY DEF Inv, Held
  <2>2. QED
    BY <2>1 DEF Current, Loaded, SupersededInMemory, SupersededInFiles
<1>2. QED
  BY <1>1, InvAlways, PTL

\* _save_sync() of FAISS writes the index before the docstore: as long as no
\* writer was cancelled, no crash leaves an entry without its vector.
THEOREM IndexFirst == Spec => []IndexCoversDocstore
<1>1. Inv => IndexCoversDocstore
  BY DEF Inv, Covered, IndexCoversDocstore
<1>2. QED
  BY <1>1, InvAlways, PTL

\* semantic() of the four repositories: each answers with the nearest points
\* that its caller may read, in rank order and up to the limit, whether it
\* filters on the server, widens and checks, or ranks everything; for any
\* number of points, namespaces and identities, but for a SHARED partition of
\* Chroma that holds more points than it widens to.
THEOREM SearchAnswersExactly == Spec => SearchIsExact
<1> DEFINE Exact == \A c \in Caller :
                      (search(c) /\ ~(/\ backend = "chroma" /\ call[c].query[1] \in SharedNs
                                      /\ Cardinality(Stored("shared")) > Max({Limit, MinWiden})))
                        => call'[c].result = Expected(call[c].query)
<1>1. Inv /\ [Next]_vars => Exact
  BY SearchesExactly
<1>2. Inv /\ [Next]_vars => [Exact]_vars
  BY <1>1
<1>3. Spec => [][Exact]_vars
  <2> HIDE DEF Exact
  <2> QED BY <1>2, InvAlways, PTL DEF Spec
<1> QED BY <1>3 DEF SearchIsExact
=============================================================================
