------------------------- MODULE LocalMemoryProofs --------------------------
(***************************************************************************)
(* The embedded facade over its tiers, for any callers, texts, storages    *)
(* and bounds: what close releases, what promotion repeats, and what the   *)
(* graph and its copies tell after passes that were cut, raised or crashed *)
(* anywhere.  The facts of a pass are new to the graph, so storing one     *)
(* replaces nothing but itself; the pass holds the lease, so what it read  *)
(* is still there when it writes.                                          *)
(***************************************************************************)
EXTENDS LocalMemory, SequenceTheorems, WellFoundedInduction, TLAPS

-----------------------------------------------------------------------------
(***************************************************************************)
(* The container: closers and connections.                                 *)
(***************************************************************************)
RoleSet  == {"kv", "vector", "graph", "relational"}
Closable == {r \in RoleSet : _resolve_closer(r)}

\* Where every client that may hold a connection is registered in each phase.
ClosersInv ==
    /\ phase \in {"absent", "building", "open", "closing"}
    /\ phase # "absent" => _assert_supported(storage)
    /\ closers \in Seq(RoleSet) /\ pending \in Seq(RoleSet)
    /\ connected \subseteq Closable
    /\ phase \in {"absent", "building"} => connected \subseteq stuck
    /\ phase = "building" => pending # <<>> /\ Closable \subseteq ToSet(closers) \cup ToSet(pending)
    /\ phase \in {"open", "closing"} => Closable \subseteq ToSet(closers)
    /\ phase = "closing" => pending # <<>> /\ connected \subseteq ToSet(pending) \cup stuck

(***************************************************************************)
(* Calls of add, their rows and points.                                    *)
(***************************************************************************)
Row  == [id : 0..(MaxRows - 1), text : Texts]
Call == [at : {"idle", "write_stm", "promote", "upsert"}, todo : Seq(Texts), id : Nat \cup {None}]

\* Calls run only while the facade is open, and a call has a message in hand.
CallsInv ==
    /\ life \in Nat /\ nextRow \in Nat
    /\ stm \in Seq(Row)
    /\ call \in [Adder -> Call]
    /\ \A t \in Adder : call[t].at # "idle" => phase = "open" /\ call[t].todo # <<>>

\* A recorded point of this life is in the ledger, and a call that was told to
\* write a point has none of that text in this life.
PromotedInv ==
    /\ \A p \in points : p.life <= life /\ p.life \in Nat
    /\ \A p \in points : (p.by # None /\ p.life = life) => p.text \in promoted
    /\ \A t \in Adder : call[t].at = "upsert" =>
          \A p \in points : (p.by = t /\ p.text = Head(call[t].todo)) => p.life # life

(***************************************************************************)
(* The graph and the pass inside the lease.                                *)
(***************************************************************************)
Inside == {"reconcile", "upsert", "expire", "invalidate_ltm", "invalidate_mtm", "announce"}

Fields == {"id", "point", "slot", "object", "polarity", "valid_at", "invalid_at", "state"}

IsFact(f) ==
    /\ DOMAIN f = Fields
    /\ f.id \in Nat
    /\ f.state \in {"active", "superseded"}

IsActive(f)   == f.state = "active" /\ f.invalid_at = None
Answered(S, s) == \E g \in S : g.slot = s /\ IsActive(g)
IdIn(S, i)    == \E g \in S : g.id = i

\* The node of f is in S, whatever has been stamped on it.
NodeIn(S, f)    == \E g \in S : g.id = f.id /\ g.point = f.point /\ g.slot = f.slot
StampedNode(S, f) == \E g \in S : g.id = f.id /\ g.point = f.point /\ g.state = "superseded"

\* Every slot with facts has an active one, ids are unique and were minted.
GraphInv ==
    /\ nextId \in Nat
    /\ \A f \in ltm : IsFact(f) /\ f.id < nextId /\ (f.state = "active" => IsActive(f))
    /\ \A f, g \in ltm : f.id = g.id => f = g
    /\ \A f \in ltm : Answered(ltm, f.slot)

\* memory_json of an active node is what the node says.
JsonInv == \A f \in ltm : f.id \in DOMAIN json /\ (IsActive(f) => json[f.id] = Snapshot(f))

\* A stamp in MTM has its reason in the graph.
StampInv == \A i \in mtm : \E f \in ltm : f.point = i /\ f.state = "superseded"

\* The facts of the window still to be stored: minted by this pass, and new.
Waiting(d) == IF pc[d] = "reconcile" THEN 1 ELSE 2
TodoInv(d) ==
    /\ \A i \in 1..Len(todo[d]) : IsFact(todo[d][i]) /\ IsActive(todo[d][i]) /\ todo[d][i].id < nextId
    /\ \A i, j \in 1..Len(todo[d]) : todo[d][i].id = todo[d][j].id => i = j
    /\ \A i \in Waiting(d)..Len(todo[d]) : ~IdIn(ltm, todo[d][i].id)

\* The fact about to be stored is new, or a node as it stands; with it the
\* slot has an active fact.
UpsertInv(d) ==
    /\ fact[d].id < nextId
    /\ IdIn(ltm, fact[d].id) => fact[d] \in ltm
    /\ Answered(ltm \cup {fact[d]}, fact[d].slot)
    /\ fact[d].state = "active" => IsActive(fact[d])
    /\ newest[d] # None => fact[d].state = "superseded"
    /\ losers[d] # {} => newest[d] = None /\ IsActive(fact[d])
    /\ \A i \in 2..Len(todo[d]) : todo[d][i].id # fact[d].id

\* The losers are other nodes of the slot.
LosersInv(d) ==
    \A l \in losers[d] : l.id # fact[d].id /\ l.slot = fact[d].slot /\ NodeIn(ltm, l)

PassInv(d) ==
    pc[d] \in Inside =>
        /\ lease = d
        /\ todo[d] \in Seq({todo[d][i] : i \in 1..Len(todo[d])})
        /\ TodoInv(d)
        /\ pc[d] # "reconcile" => todo[d] # <<>> /\ IsFact(fact[d]) /\ LosersInv(d)
        /\ pc[d] = "reconcile" => newest[d] = None /\ losers[d] = {}
        /\ pc[d] = "upsert" => UpsertInv(d)
        /\ pc[d] = "expire" => fact[d] \in ltm /\ fact[d].state = "superseded"
        /\ pc[d] \in {"invalidate_ltm", "invalidate_mtm", "announce"} =>
              fact[d] \in ltm /\ IsActive(fact[d])
        /\ pc[d] \in {"invalidate_mtm", "announce"} => StampedNode(ltm, loser[d])

\* What the extractor finds in some row, none of it structured.
Extracted == UNION {ToSet(Candidates(r)) : r \in Row}

PassesInv ==
    /\ pc \in [Consolidator -> Inside \cup {"idle", "waiting"}]
    /\ window \in [Consolidator -> Seq(Extracted)]
    /\ DOMAIN todo = Consolidator /\ DOMAIN fact = Consolidator /\ DOMAIN losers = Consolidator
    /\ DOMAIN loser = Consolidator /\ DOMAIN newest = Consolidator
    /\ \A d \in Consolidator :
          /\ PassInv(d)
          /\ pc[d] \notin Inside => newest[d] = None /\ losers[d] = {}

TierInv == GraphInv /\ JsonInv /\ StampInv /\ PassesInv

AddInv == CallsInv /\ PromotedInv /\ DuplicateNeedsRestart
Inv == ClosersInv /\ AddInv /\ TierInv

-----------------------------------------------------------------------------
(***************************************************************************)
(* Sequences of roles.                                                     *)
(***************************************************************************)
LEMMA TailOf ==
    ASSUME NEW S, NEW s \in Seq(S), s # <<>>
    PROVE  Head(s) \in S /\ Tail(s) \in Seq(S) /\ ToSet(s) = {Head(s)} \cup ToSet(Tail(s))
<1>1. /\ Len(s) \in Nat /\ Len(s) > 0 /\ DOMAIN s = 1..Len(s)
      /\ Head(s) = s[1] /\ Tail(s) \in Seq(S) /\ DOMAIN Tail(s) = 1..(Len(s) - 1)
      /\ \A i \in 1..(Len(s) - 1) : Tail(s)[i] = s[i + 1]
  OBVIOUS
<1>2. Head(s) \in S
  BY <1>1
<1>3. ASSUME NEW i \in 1..Len(s) PROVE s[i] \in {Head(s)} \cup ToSet(Tail(s))
  <2>1. CASE i = 1
    BY <1>1, <2>1
  <2>2. CASE i # 1
    <3>1. i - 1 \in 1..(Len(s) - 1) /\ Tail(s)[i - 1] = s[i]
      BY <1>1, <2>2
    <3> QED BY <1>1, <3>1 DEF ToSet
  <2> QED BY <2>1, <2>2
<1>4. ASSUME NEW i \in 1..(Len(s) - 1) PROVE Tail(s)[i] \in ToSet(s)
  <2>1. i + 1 \in 1..Len(s) /\ Tail(s)[i] = s[i + 1]
    BY <1>1
  <2> QED BY <1>1, <2>1 DEF ToSet
<1>5. Head(s) \in ToSet(s)
  BY <1>1 DEF ToSet
<1> QED BY <1>1, <1>2, <1>3, <1>4, <1>5 DEF ToSet

LEMMA AppendOf ==
    ASSUME NEW S, NEW s \in Seq(S), NEW x \in S
    PROVE  Append(s, x) \in Seq(S) /\ ToSet(Append(s, x)) = ToSet(s) \cup {x}
<1>1. /\ Len(s) \in Nat /\ DOMAIN s = 1..Len(s) /\ Append(s, x) \in Seq(S)
      /\ DOMAIN Append(s, x) = 1..(Len(s) + 1) /\ Append(s, x)[Len(s) + 1] = x
      /\ \A i \in 1..Len(s) : Append(s, x)[i] = s[i]
  OBVIOUS
<1>2. ASSUME NEW i \in 1..(Len(s) + 1) PROVE Append(s, x)[i] \in ToSet(s) \cup {x}
  <2>1. i = Len(s) + 1 \/ i \in 1..Len(s)
    BY <1>1
  <2> QED BY <1>1, <2>1 DEF ToSet
<1>3. ASSUME NEW i \in 1..Len(s) PROVE s[i] \in ToSet(Append(s, x))
  <2>1. i \in 1..(Len(s) + 1) /\ Append(s, x)[i] = s[i]
    BY <1>1
  <2> QED BY <1>1, <2>1 DEF ToSet
<1>4. x \in ToSet(Append(s, x))
  <2>1. Len(s) + 1 \in 1..(Len(s) + 1)
    BY <1>1
  <2> QED BY <1>1, <2>1 DEF ToSet
<1> QED BY <1>1, <1>2, <1>3, <1>4 DEF ToSet

LEMMA ReverseOf ==
    ASSUME NEW S, NEW s \in Seq(S)
    PROVE  Reverse(s) \in Seq(S) /\ ToSet(Reverse(s)) = ToSet(s) /\ (s # <<>> => Reverse(s) # <<>>)
<1>1. Len(s) \in Nat /\ DOMAIN s = 1..Len(s) /\ \A i \in 1..Len(s) : s[i] \in S
  OBVIOUS
<1>2. \A i \in 1..Len(s) : Len(s) - i + 1 \in 1..Len(s) /\ Len(s) - (Len(s) - i + 1) + 1 = i
  BY <1>1
<1>3. DOMAIN Reverse(s) = 1..Len(s) /\ \A i \in 1..Len(s) : Reverse(s)[i] = s[Len(s) - i + 1]
  BY DEF Reverse
<1>4. Reverse(s) \in Seq(S) /\ Len(Reverse(s)) = Len(s)
  BY <1>1, <1>2, IsASeq DEF Reverse
<1>5. ASSUME NEW i \in 1..Len(s) PROVE s[i] \in ToSet(Reverse(s)) /\ Reverse(s)[i] \in ToSet(s)
  BY <1>1, <1>2, <1>3 DEF ToSet
<1>6. ToSet(Reverse(s)) = ToSet(s)
  BY <1>1, <1>3, <1>5 DEF ToSet
<1> QED BY <1>4, <1>6

-----------------------------------------------------------------------------
(***************************************************************************)
(* close releases.                                                         *)
(***************************************************************************)
\* The relational store, for one, always has a client to close.
LEMMA SomethingToClose ==
    ASSUME _assert_supported(storage) PROVE "relational" \in Closable
<1>1. Len(Roles) = 4 /\ Roles[4] = "relational"
  BY DEF Roles
<1>2. storage["relational"] \in Registered("relational")
  BY <1>1 DEF _assert_supported
<1>3. Registered("relational") = {"sqlite", "postgres", "mysql"}
  BY DEF Registered
<1> QED BY <1>2, <1>3 DEF Closable, RoleSet, _resolve_closer

LEMMA UseKeepsClosers ==
    ASSUME ClosersInv, NEW role \in RoleSet, Use(role)
    PROVE  ClosersInv'
BY DEF ClosersInv, Use, Closable, _resolve_closer, _assert_supported

LEMMA ContainerKeepsClosers ==
    ASSUME ClosersInv, UNCHANGED container
    PROVE  ClosersInv'
BY DEF ClosersInv, container, Closable, _resolve_closer, _assert_supported

LEMMA ConstructCloses ==
    ASSUME ClosersInv, Construct PROVE ClosersInv'
<1>1. Roles \in Seq(RoleSet) /\ Roles # <<>> /\ <<>> \in Seq(RoleSet)
  BY DEF Roles, RoleSet
<1>2. RoleSet \subseteq ToSet(Roles)
  <2>1. DOMAIN Roles = 1..4 /\ Roles[1] = "kv" /\ Roles[2] = "vector" /\ Roles[3] = "graph" /\ Roles[4] = "relational"
    BY DEF Roles
  <2> QED BY <2>1 DEF ToSet, RoleSet
<1> QED BY <1>1, <1>2 DEF ClosersInv, Construct, Closable, _resolve_closer, _assert_supported

LEMMA BuildCloses ==
    ASSUME ClosersInv, Build PROVE ClosersInv'
<1> DEFINE r == Head(pending)
<1>1. /\ pending \in Seq(RoleSet) /\ pending # <<>> /\ closers \in Seq(RoleSet)
      /\ Closable \subseteq ToSet(closers) \cup ToSet(pending)
  BY DEF ClosersInv, Build
<1>2. r \in RoleSet /\ Tail(pending) \in Seq(RoleSet) /\ ToSet(pending) = {r} \cup ToSet(Tail(pending))
  BY <1>1, TailOf
<1>3. Append(closers, r) \in Seq(RoleSet) /\ ToSet(Append(closers, r)) = ToSet(closers) \cup {r}
  BY <1>1, <1>2, AppendOf
<1>4. closers' \in Seq(RoleSet) /\ ToSet(closers) \subseteq ToSet(closers') /\ (r \in Closable => r \in ToSet(closers'))
  BY <1>1, <1>3 DEF Build, _register_closer, Closable
<1>5. Closable' = Closable /\ pending' = Tail(pending)
  BY DEF Build, Closable, _resolve_closer
<1>6. Closable \subseteq ToSet(closers') \cup ToSet(Tail(pending))
  BY <1>1, <1>2, <1>4
<1>7. Tail(pending) = <<>> => ToSet(Tail(pending)) = {}
  BY DEF ToSet
<1> HIDE DEF r
<1> QED BY <1>2, <1>4, <1>5, <1>6, <1>7 DEF ClosersInv, Build, _assert_supported

LEMMA CloseCloses ==
    ASSUME ClosersInv, Close PROVE ClosersInv'
<1>1. /\ closers \in Seq(RoleSet) /\ Closable \subseteq ToSet(closers) /\ connected \subseteq Closable
      /\ _assert_supported(storage)
  BY DEF ClosersInv, Close
<1>2. closers # <<>>
  <2>1. "relational" \in ToSet(closers)
    BY <1>1, SomethingToClose
  <2> QED BY <2>1 DEF ToSet
<1>3. Reverse(closers) \in Seq(RoleSet) /\ ToSet(Reverse(closers)) = ToSet(closers) /\ Reverse(closers) # <<>>
  BY <1>1, <1>2, ReverseOf
<1>4. Closable' = Closable
  BY DEF Close, Closable, _resolve_closer
<1> QED BY <1>1, <1>3, <1>4 DEF ClosersInv, Close, _assert_supported

LEMMA CloseNextCloses ==
    ASSUME ClosersInv, CloseNext PROVE ClosersInv'
<1> DEFINE r == Head(pending)
<1>1. /\ pending \in Seq(RoleSet) /\ pending # <<>> /\ closers \in Seq(RoleSet)
      /\ connected \subseteq ToSet(pending) \cup stuck
  BY DEF ClosersInv, CloseNext
<1>2. r \in RoleSet /\ Tail(pending) \in Seq(RoleSet) /\ ToSet(pending) = {r} \cup ToSet(Tail(pending))
  BY <1>1, TailOf
<1>3. connected' \subseteq ToSet(Tail(pending)) \cup stuck' /\ connected' \subseteq connected
  BY <1>1, <1>2 DEF CloseNext
<1>4. Tail(pending) = <<>> => ToSet(Tail(pending)) = {}
  BY DEF ToSet
<1>5. Closable' = Closable /\ pending' = Tail(pending)
  BY DEF CloseNext, Closable, _resolve_closer
<1>6. closers' \in Seq(RoleSet) /\ (Tail(pending) # <<>> => closers' = closers)
  BY <1>1 DEF CloseNext, ClosersAfter
<1> HIDE DEF r
<1> QED BY <1>2, <1>3, <1>4, <1>5, <1>6 DEF ClosersInv, CloseNext, _assert_supported

LEMMA ClosersStep ==
    ASSUME ClosersInv, [Next]_vars PROVE ClosersInv'
<1>1. ASSUME Construct PROVE ClosersInv'
  BY <1>1, ConstructCloses
<1>2. ASSUME Build PROVE ClosersInv'
  BY <1>2, BuildCloses
<1>3. ASSUME BuildFails PROVE ClosersInv'
  BY <1>3 DEF ClosersInv, BuildFails, Closable, _resolve_closer, _assert_supported
<1>4. ASSUME Close PROVE ClosersInv'
  BY <1>4, CloseCloses
<1>5. ASSUME CloseNext PROVE ClosersInv'
  BY <1>5, CloseNextCloses
<1>6. ASSUME CloseCancelled PROVE ClosersInv'
  BY <1>6 DEF ClosersInv, CloseCancelled, Closable, _resolve_closer, _assert_supported
<1>7. ASSUME Crash PROVE ClosersInv'
  BY <1>7 DEF ClosersInv, Crash, Closable, _resolve_closer, _assert_supported
<1>8. ASSUME NEW t \in Adder, \/ \E msgs \in Messages : Add(t, msgs)
                              \/ WriteStm(t) \/ Promote(t) \/ UpsertPoint(t) \/ AddFails(t)
      PROVE  ClosersInv'
  <2>1. "kv" \in RoleSet /\ "vector" \in RoleSet
    BY DEF RoleSet
  <2>2. \/ UNCHANGED container \/ Use("kv") \/ Use("vector")
    BY <1>8 DEF Add, WriteStm, Promote, UpsertPoint, AddFails
  <2> QED BY <2>1, <2>2, UseKeepsClosers, ContainerKeepsClosers
<1>9. ASSUME NEW d \in Consolidator, Consolidate(d) \/ Pass(d) PROVE ClosersInv'
  <2>1. "kv" \in RoleSet /\ "vector" \in RoleSet /\ "graph" \in RoleSet
    BY DEF RoleSet
  <2>2. \/ UNCHANGED container \/ Use("kv") \/ Use("vector") \/ Use("graph")
    BY <1>9 DEF Consolidate, Pass
  <2> QED BY <2>1, <2>2, UseKeepsClosers, ContainerKeepsClosers
<1>10. CASE UNCHANGED vars
  BY <1>10, ContainerKeepsClosers DEF vars
<1> QED BY <1>1, <1>2, <1>3, <1>4, <1>5, <1>6, <1>7, <1>8, <1>9, <1>10 DEF Next

-----------------------------------------------------------------------------
(***************************************************************************)
(* Calls of add, and what they promote.                                    *)
(***************************************************************************)
\* What add keeps is left alone.
LEMMA RowsKeepAdd ==
    ASSUME AddInv, UNCHANGED <<rows, life>>, phase' = phase
    PROVE  AddInv'
BY DEF AddInv, CallsInv, PromotedInv, DuplicateNeedsRestart, rows

LEMMA NoCallIsIdle == NoCall \in Call /\ NoCall.at = "idle"
BY DEF NoCall, Call

\* The call of t moves to c, and writes no point and no promotion.
LEMMA CallMoves ==
    ASSUME AddInv, NEW t \in Adder, NEW c \in Call, call' = [call EXCEPT ![t] = c],
           UNCHANGED <<points, promoted, life>>, phase' = phase, nextRow' \in Nat, stm' \in Seq(Row),
           c.at # "idle" => phase = "open" /\ c.todo # <<>>,
           c.at = "upsert" => \A p \in points : (p.by = t /\ p.text = Head(c.todo)) => p.life # life
    PROVE  AddInv'
<1>1. /\ call' \in [Adder -> Call] /\ call'[t] = c
      /\ \A u \in Adder : u # t => call'[u] = call[u]
  BY DEF AddInv, CallsInv
<1>2. CallsInv'
  BY <1>1 DEF AddInv, CallsInv
<1>3. PromotedInv'
  BY <1>1 DEF AddInv, PromotedInv
<1> QED BY <1>2, <1>3 DEF AddInv, DuplicateNeedsRestart

\* Where a call stands after the message in hand.
AfterMessage(t) == IF Len(call[t].todo) = 1 THEN NoCall
                   ELSE [at |-> "write_stm", todo |-> Tail(call[t].todo), id |-> None]

LEMMA AfterMessageIsCall ==
    ASSUME CallsInv, NEW t \in Adder, call[t].at # "idle"
    PROVE  /\ AfterMessage(t) \in Call /\ AfterMessage(t).at \in {"idle", "write_stm"}
           /\ AfterMessage(t).at # "idle" => AfterMessage(t).todo # <<>>
           /\ NextMessage(t) <=> call' = [call EXCEPT ![t] = AfterMessage(t)]
<1>1. call[t].todo \in Seq(Texts) /\ call[t].todo # <<>>
  BY DEF CallsInv, Call
<1>2. Tail(call[t].todo) \in Seq(Texts) /\ (Len(call[t].todo) # 1 => Tail(call[t].todo) # <<>>)
  <2> DEFINE s == call[t].todo
  <2>1. s \in Seq(Texts) /\ s # <<>>
    BY <1>1
  <2> HIDE DEF s
  <2>2. Tail(s) \in Seq(Texts) /\ Len(Tail(s)) = Len(s) - 1 /\ Len(s) \in Nat
    BY <2>1
  <2>3. Tail(s) = <<>> => Len(Tail(s)) = 0
    OBVIOUS
  <2>4. Len(s) # 1 => Tail(s) # <<>>
    BY <2>2, <2>3
  <2> QED BY <2>2, <2>4 DEF s
<1>3. AfterMessage(t) \in Call
  BY <1>2, NoCallIsIdle DEF AfterMessage, Call
<1>4. AfterMessage(t).at \in {"idle", "write_stm"} /\ (AfterMessage(t).at # "idle" => AfterMessage(t).todo # <<>>)
  BY <1>2, NoCallIsIdle DEF AfterMessage
<1> QED BY <1>3, <1>4 DEF NextMessage, AfterMessage

LEMMA AddKeeps ==
    ASSUME AddInv, NEW t \in Adder, NEW msgs \in Messages, Add(t, msgs)
    PROVE  AddInv'
<1> DEFINE c == [at |-> "write_stm", todo |-> msgs, id |-> None]
<1>1. msgs \in Seq(Texts) /\ msgs # <<>>
  BY MessagesAssumption DEF Texts
<1>2. c \in Call /\ c.at = "write_stm" /\ c.todo # <<>>
  BY <1>1 DEF Call
<1>3. nextRow' \in Nat /\ stm' \in Seq(Row)
  BY DEF Add, AddInv, CallsInv
<1>4. call' = [call EXCEPT ![t] = c] /\ UNCHANGED <<points, promoted, life>> /\ phase' = phase /\ phase = "open"
  BY DEF Add, container
<1> HIDE DEF c
<1> QED BY <1>2, <1>3, <1>4, CallMoves

LEMMA WriteStmKeeps ==
    ASSUME AddInv, NEW t \in Adder, WriteStm(t)
    PROVE  AddInv'
<1> DEFINE c == [call[t] EXCEPT !.at = "promote", !.id = nextRow]
<1>1. call[t] \in Call /\ call[t].todo # <<>> /\ nextRow \in Nat /\ MaxRows \in Nat /\ nextRow < MaxRows
  BY LocalBounds DEF WriteStm, AddInv, CallsInv
<1>2. c \in Call /\ c.at = "promote" /\ c.todo # <<>>
  BY <1>1 DEF Call
<1>3. [id |-> nextRow, text |-> Head(call[t].todo)] \in Row
  <2>1. call[t].todo \in Seq(Texts) /\ Head(call[t].todo) \in Texts
    BY <1>1 DEF Call
  <2> QED BY <1>1, <2>1 DEF Row
<1>4. nextRow' \in Nat /\ stm' \in Seq(Row)
  BY <1>1, <1>3 DEF WriteStm, AddInv, CallsInv
<1>5. call' = [call EXCEPT ![t] = c]
  BY <1>1 DEF WriteStm, AddInv, CallsInv
<1>6. UNCHANGED <<points, promoted, life>> /\ phase' = phase /\ phase = "open"
  BY DEF WriteStm, Use
<1> HIDE DEF c
<1> QED BY <1>2, <1>4, <1>5, <1>6, CallMoves

LEMMA PromoteKeeps ==
    ASSUME AddInv, NEW t \in Adder, Promote(t)
    PROVE  AddInv'
<1>1. call[t] \in Call /\ call[t].todo # <<>> /\ call[t].at # "idle" /\ CallsInv
  BY DEF Promote, AddInv, CallsInv
<1>2. nextRow' \in Nat /\ stm' \in Seq(Row)
  BY DEF Promote, AddInv, CallsInv
<1>3. UNCHANGED <<points, promoted, life>> /\ phase' = phase /\ phase = "open"
  BY DEF Promote, container
<1>4. CASE AlreadyPromoted(Head(call[t].todo))
  <2>1. NextMessage(t)
    BY <1>4 DEF Promote
  <2> QED BY <1>1, <1>2, <1>3, <2>1, AfterMessageIsCall, CallMoves
<1>5. CASE ~AlreadyPromoted(Head(call[t].todo))
  <2> DEFINE c == [call[t] EXCEPT !.at = "upsert"]
  <2>1. c \in Call /\ c.at = "upsert" /\ c.todo = call[t].todo
    BY <1>1 DEF Call
  <2>2. call' = [call EXCEPT ![t] = c]
    BY <1>1, <1>5 DEF Promote, CallsInv
  <2>3. \A p \in points : (p.by = t /\ p.text = Head(call[t].todo)) => p.life # life
    BY <1>5, LocalNone DEF AlreadyPromoted, AddInv, PromotedInv
  <2> HIDE DEF c
  <2> QED BY <1>1, <1>2, <1>3, <2>1, <2>2, <2>3, CallMoves
<1> QED BY <1>4, <1>5

\* A point is written, by t or unrecorded; the call moves on or ends.
LEMMA UpsertPointKeeps ==
    ASSUME AddInv, NEW t \in Adder, UpsertPoint(t)
    PROVE  AddInv'
<1> DEFINE text == Head(call[t].todo)
           P(by) == [id |-> call[t].id, text |-> text, life |-> life, by |-> by]
<1>1. /\ call[t] \in Call /\ call[t].todo # <<>> /\ call[t].at = "upsert" /\ CallsInv /\ life \in Nat
      /\ phase = "open" /\ phase' = phase /\ life' = life /\ UNCHANGED <<stm, nextRow>>
  BY DEF UpsertPoint, Use, AddInv, CallsInv
<1>2. PICK by \in {t, None} :
        /\ points' = points \cup {P(by)}
        /\ promoted' = IF by = t THEN promoted \cup {text} ELSE promoted
  <2>1. \/ points' = points \cup {P(t)} /\ promoted' = promoted \cup {text}
        \/ points' = points \cup {P(None)} /\ promoted' = promoted
    BY DEF UpsertPoint
  <2>2. t # None
    BY LocalNone
  <2> HIDE DEF P, text
  <2> QED BY <2>1, <2>2
<1>3. PICK c \in Call :
        /\ call' = [call EXCEPT ![t] = c]
        /\ c.at # "idle" => c.todo # <<>>
        /\ c.at # "upsert"
  <2>1. NextMessage(t) \/ call' = [call EXCEPT ![t] = NoCall]
    BY DEF UpsertPoint
  <2>2. CASE NextMessage(t)
    BY <1>1, <2>2, AfterMessageIsCall
  <2>3. CASE call' = [call EXCEPT ![t] = NoCall]
    BY <2>3, NoCallIsIdle
  <2> QED BY <2>1, <2>2, <2>3
<1>4. /\ call' \in [Adder -> Call] /\ call'[t] = c
      /\ \A u \in Adder : u # t => call'[u] = call[u]
  BY <1>1, <1>3 DEF CallsInv
<1>5. CallsInv'
  BY <1>1, <1>3, <1>4 DEF CallsInv
<1>6. P(by).by = by /\ P(by).life = life /\ P(by).text = text
  OBVIOUS
<1> HIDE DEF P, text
<1>7. \A p \in points' : p.life <= life' /\ p.life \in Nat
  BY <1>1, <1>2, <1>6 DEF AddInv, PromotedInv
<1>8. \A p \in points' : (p.by # None /\ p.life = life') => p.text \in promoted'
  BY <1>1, <1>2, <1>6 DEF AddInv, PromotedInv
<1>9. ASSUME NEW u \in Adder, call'[u].at = "upsert",
             NEW p \in points', p.by = u, p.text = Head(call'[u].todo)
      PROVE  p.life # life'
  <2>1. u # t /\ call'[u] = call[u] /\ u # None
    BY <1>3, <1>4, <1>9, LocalNone
  <2>2. p \in points
    BY <1>2, <1>6, <1>9, <2>1
  <2> QED BY <1>1, <1>9, <2>1, <2>2 DEF AddInv, PromotedInv
<1>10. DuplicateNeedsRestart'
  <2>1. ASSUME NEW p \in points, p.by = by, by # None, p.text = text PROVE p.life # life
    BY <1>1, <2>1 DEF AddInv, PromotedInv, text
  <2> QED BY <1>2, <1>6, <2>1 DEF AddInv, DuplicateNeedsRestart
<1> QED BY <1>5, <1>7, <1>8, <1>9, <1>10 DEF AddInv, PromotedInv

LEMMA AddStep ==
    ASSUME AddInv, [Next]_vars PROVE AddInv'
<1>1. ASSUME Construct PROVE AddInv'
  <2>1. life' = life + 1 /\ phase = "absent" /\ phase' = "building" /\ UNCHANGED <<points, call, nextRow>>
    BY <1>1 DEF Construct
  <2>2. stm' \in Seq(Row)
    BY <1>1 DEF Construct, AddInv, CallsInv
  <2>3. CallsInv'
    BY <2>1, <2>2 DEF AddInv, CallsInv
  <2>4. \A p \in points : p.life <= life /\ p.life \in Nat /\ life \in Nat
    BY DEF AddInv, CallsInv, PromotedInv
  <2>5. \A p \in points' : p.life <= life' /\ p.life \in Nat /\ p.life # life'
    BY <2>1, <2>4
  <2> QED BY <2>1, <2>3, <2>5 DEF AddInv, PromotedInv, DuplicateNeedsRestart
<1>2. ASSUME Build PROVE AddInv'
  BY <1>2 DEF Build, rows, AddInv, CallsInv, PromotedInv, DuplicateNeedsRestart
<1>3. ASSUME BuildFails PROVE AddInv'
  BY <1>3 DEF BuildFails, rows, AddInv, CallsInv, PromotedInv, DuplicateNeedsRestart
<1>4. ASSUME Close PROVE AddInv'
  BY <1>4 DEF Close, rows, AddInv, CallsInv, PromotedInv, DuplicateNeedsRestart
<1>5. ASSUME CloseNext PROVE AddInv'
  BY <1>5 DEF CloseNext, rows, AddInv, CallsInv, PromotedInv, DuplicateNeedsRestart
<1>6. ASSUME CloseCancelled PROVE AddInv'
  BY <1>6 DEF CloseCancelled, rows, AddInv, CallsInv, PromotedInv, DuplicateNeedsRestart
<1>7. ASSUME Crash PROVE AddInv'
  <2>1. /\ call' = [t \in Adder |-> NoCall] /\ phase' = "absent"
        /\ UNCHANGED <<life, stm, points, promoted, nextRow>>
    BY <1>7 DEF Crash
  <2>2. call' \in [Adder -> Call] /\ \A t \in Adder : call'[t].at = "idle"
    BY <2>1, NoCallIsIdle
  <2> QED BY <2>1, <2>2 DEF AddInv, CallsInv, PromotedInv, DuplicateNeedsRestart
<1>8. ASSUME NEW t \in Adder, NEW msgs \in Messages, Add(t, msgs) PROVE AddInv'
  BY <1>8, AddKeeps
<1>9. ASSUME NEW t \in Adder, WriteStm(t) PROVE AddInv'
  BY <1>9, WriteStmKeeps
<1>10. ASSUME NEW t \in Adder, Promote(t) PROVE AddInv'
  BY <1>10, PromoteKeeps
<1>11. ASSUME NEW t \in Adder, UpsertPoint(t) PROVE AddInv'
  BY <1>11, UpsertPointKeeps
<1>12. ASSUME NEW t \in Adder, AddFails(t) PROVE AddInv'
  <2>1. /\ call' = [call EXCEPT ![t] = NoCall] /\ phase' = phase
        /\ UNCHANGED <<life, stm, points, promoted, nextRow>>
    BY <1>12 DEF AddFails, container
  <2>2. nextRow' \in Nat /\ stm' \in Seq(Row)
    BY <2>1 DEF AddInv, CallsInv
  <2> QED BY <2>1, <2>2, NoCallIsIdle, CallMoves
<1>13. ASSUME NEW d \in Consolidator, Consolidate(d) \/ Pass(d) PROVE AddInv'
  <2>1. UNCHANGED <<rows, life>> /\ phase' = phase
    BY <1>13 DEF Consolidate, Pass, Use, container
  <2> QED BY <2>1, RowsKeepAdd
<1>14. CASE UNCHANGED vars
  <2>1. UNCHANGED <<rows, life>> /\ phase' = phase
    BY <1>14 DEF vars, container
  <2> QED BY <2>1, RowsKeepAdd
<1> QED BY <1>1, <1>2, <1>3, <1>4, <1>5, <1>6, <1>7, <1>8, <1>9, <1>10, <1>11, <1>12, <1>13, <1>14 DEF Next

-----------------------------------------------------------------------------
(***************************************************************************)
(* The window of a pass.                                                   *)
(***************************************************************************)
\* Every set of naturals that is not empty has a least element.
LEMMA LeastElement ==
    ASSUME NEW T \in SUBSET Nat, T # {}
    PROVE  \E n \in T : \A m \in T : n <= m
<1> DEFINE R == OpToRel(<, Nat)
<1>1. IsWellFoundedOn(R, Nat)
  BY NatLessThanWellFounded, Zenon
<1> HIDE DEF R
<1>2. PICK n \in T : \A m \in T : ~(<<m, n>> \in R)
  BY <1>1, WFMin
<1>3. ASSUME NEW m \in T PROVE n <= m
  <2>1. ~(<<m, n>> \in R)
    BY <1>2
  <2>2. ~(m < n)
    BY <2>1 DEF R, OpToRel
  <2>3. QED
    BY <2>2
<1>4. QED
  BY <1>3

\* FlattenSeq makes one sequence of the lists.
LEMMA FlattenNonEmpty ==
    ASSUME NEW S, NEW ss \in Seq(Seq(S)), Len(ss) > 0
    PROVE  FlattenSeq(ss) \in Seq(S)
<1> DEFINE Of(k, f) == f = [i \in 1..k |-> IF i = 1 THEN ss[i] ELSE f[i - 1] \o ss[i]]
           Bad == {k \in Nat : k <= Len(ss) /\ ~ \E f \in [1..k -> Seq(S)] : Of(k, f)}
<1>1. Len(ss) \in Nat /\ \A i \in 1..Len(ss) : ss[i] \in Seq(S)
  OBVIOUS
<1>b. Bad \subseteq Nat /\ \A k \in Bad : k <= Len(ss)
  OBVIOUS
<1> HIDE DEF Of
<1>c. /\ \A k \in Bad : ~ \E f \in [1..k -> Seq(S)] : Of(k, f)
      /\ \A k \in Nat : k <= Len(ss) /\ k \notin Bad => \E f \in [1..k -> Seq(S)] : Of(k, f)
  OBVIOUS
<1> HIDE DEF Bad
<1>2. Bad = {}
  <2> SUFFICES ASSUME Bad # {} PROVE FALSE
    OBVIOUS
  <2>1. PICK k \in Bad : \A m \in Bad : k <= m
    BY <1>b, LeastElement
  <2>2. k # 0
    <3>1. [i \in 1..0 |-> ss[i]] \in [1..0 -> Seq(S)] /\ Of(0, [i \in 1..0 |-> ss[i]])
      BY DEF Of
    <3>2. QED
      BY <1>c, <3>1, <2>1, Zenon
  <2>3. k - 1 \in Nat /\ k - 1 <= Len(ss) /\ k - 1 \notin Bad
    BY <1>b, <2>1, <2>2, <1>1
  <2>4. PICK f \in [1..(k - 1) -> Seq(S)] : Of(k - 1, f)
    BY <1>c, <2>3, Zenon
  <2> DEFINE g == [i \in 1..k |-> IF i = 1 THEN ss[i]
                                  ELSE IF i = k THEN f[k - 1] \o ss[i] ELSE f[i]]
  <2>5. k \in Nat /\ k >= 1 /\ k <= Len(ss)
    BY <1>b, <2>1, <2>2
  <2>6. g \in [1..k -> Seq(S)]
    <3>1. ASSUME NEW i \in 1..k
          PROVE  (IF i = 1 THEN ss[i]
                  ELSE IF i = k THEN f[k - 1] \o ss[i] ELSE f[i]) \in Seq(S)
      <4>1. ss[i] \in Seq(S)
        BY <1>1, <2>5
      <4>2. i # 1 => k - 1 \in 1..(k - 1) /\ f[k - 1] \in Seq(S)
        BY <2>4, <2>5
      <4>3. i # 1 => f[k - 1] \o ss[i] \in Seq(S)
        BY <4>1, <4>2, ConcatProperties
      <4>4. i # k => f[i] \in Seq(S)
        BY <2>4, <2>5
      <4>5. QED
        BY <4>1, <4>3, <4>4
    <3>2. QED
      BY <3>1
  <2>7. ASSUME NEW i \in 1..k
        PROVE  g[i] = IF i = 1 THEN ss[i] ELSE g[i - 1] \o ss[i]
    <3>1. CASE i = 1
      BY <3>1, <2>5
    <3>2. CASE i # 1 /\ i = k
      <4>1. i - 1 \in 1..k /\ i - 1 # k /\ i - 1 = k - 1 /\ k - 1 \in 1..(k - 1)
        BY <3>2, <2>5
      <4>2. g[i - 1] = f[k - 1]
        <5>1. f = [j \in 1..(k - 1) |-> IF j = 1 THEN ss[j] ELSE f[j - 1] \o ss[j]]
          BY <2>4 DEF Of
        <5>2. k - 1 = 1 => f[k - 1] = ss[1]
          BY <4>1, <5>1
        <5>3. QED
          BY <4>1, <5>2
      <4>3. QED
        BY <3>2, <4>1, <4>2
    <3>3. CASE i # 1 /\ i # k
      <4>1. i - 1 \in 1..(k - 1) /\ i \in 1..(k - 1) /\ i - 1 # k /\ i - 1 \in 1..k
        BY <3>3, <2>5
      <4>2. f = [j \in 1..(k - 1) |-> IF j = 1 THEN ss[j] ELSE f[j - 1] \o ss[j]]
        BY <2>4 DEF Of
      <4>3. g[i] = f[i] /\ f[i] = f[i - 1] \o ss[i]
        BY <3>3, <4>1, <4>2
      <4>4. g[i - 1] = f[i - 1]
        <5>1. i - 1 = 1 => f[i - 1] = ss[1]
          BY <4>1, <4>2
        <5>2. QED
          BY <4>1, <5>1
      <4>5. QED
        BY <3>3, <4>3, <4>4
    <3>4. QED
      BY <3>1, <3>2, <3>3
  <2> HIDE DEF g
  <2>8. Of(k, g)
    BY <2>6, <2>7 DEF Of
  <2>9. QED
    BY <1>c, <2>1, <2>6, <2>8, Zenon
<1>3. PICK f \in [1..Len(ss) -> Seq(S)] : Of(Len(ss), f)
  <2>1. Len(ss) <= Len(ss) /\ Len(ss) \notin Bad
    BY <1>1, <1>2
  <2>2. QED
    BY <1>c, <1>1, <2>1, Zenon
<1> DEFINE n == Len(ss)
           h == CHOOSE h : Of(n, h)
           Untyped == {i \in 1..n : h[i] \notin Seq(S)}
<1>4. h = [i \in 1..n |-> IF i = 1 THEN ss[i] ELSE h[i - 1] \o ss[i]]
  <2>1. Of(n, h)
    BY <1>3
  <2>2. QED
    BY <2>1 DEF Of
<1>5. FlattenSeq(ss) = h[n]
  BY <1>1 DEF FlattenSeq, Of
<1>a. n \in Nat /\ n > 0 /\ \A i \in 1..n : ss[i] \in Seq(S)
  BY <1>1
<1> HIDE DEF h, n
<1>6. h[1] = ss[1] /\ \A i \in 2..n : h[i] = h[i - 1] \o ss[i]
  <2>1. \A i \in 1..n : h[i] = IF i = 1 THEN ss[i] ELSE h[i - 1] \o ss[i]
    BY <1>4, Zenon
  <2>2. h[1] = ss[1]
    BY <1>a, <2>1
  <2>3. ASSUME NEW i \in 2..n PROVE h[i] = h[i - 1] \o ss[i]
    <3>1. i \in 1..n /\ i # 1
      BY <1>a
    <3>2. QED
      BY <2>1, <3>1
  <2>4. QED
    BY <2>2, <2>3
<1>7. Untyped = {}
  <2> SUFFICES ASSUME Untyped # {} PROVE FALSE
    OBVIOUS
  <2>1. PICK k \in Untyped : \A m \in Untyped : k <= m
    <3>1. Untyped \in SUBSET Nat
      BY <1>a
    <3> HIDE DEF Untyped
    <3>2. QED
      BY <3>1, LeastElement
  <2>2. k \in 1..n /\ h[k] \notin Seq(S)
    BY <2>1
  <2>3. k # 1
    BY <1>a, <1>6, <2>2
  <2>4. k - 1 \in 1..n /\ k - 1 \notin Untyped /\ k \in 2..n
    BY <1>a, <2>1, <2>2, <2>3
  <2>5. h[k - 1] \in Seq(S) /\ ss[k] \in Seq(S)
    BY <1>a, <2>2, <2>4
  <2>6. h[k] \in Seq(S)
    <3>1. h[k - 1] \o ss[k] \in Seq(S)
      BY <2>5, ConcatProperties
    <3>2. QED
      BY <1>6, <2>4, <3>1
  <2>7. QED
    BY <2>2, <2>6
<1>8. \A i \in 1..n : h[i] \in Seq(S)
  BY <1>a, <1>7
<1>9. n \in 1..n
  BY <1>a
<1> QED BY <1>5, <1>8, <1>9

LEMMA FlattenType ==
    ASSUME NEW S, NEW ss \in Seq(Seq(S))
    PROVE  FlattenSeq(ss) \in Seq(S)
<1>1. CASE Len(ss) = 0
  <2>1. FlattenSeq(ss) = <<>>
    BY <1>1 DEF FlattenSeq
  <2> QED BY <2>1
<1>2. CASE Len(ss) # 0
  BY <1>2, FlattenNonEmpty
<1> QED BY <1>1, <1>2

\* A window of rows holds what the extractor finds in them, none structured.
LEMMA WindowType ==
    ASSUME NEW rs \in Seq(Row)
    PROVE  WindowOf(rs) \in Seq(Extracted)
<1>1. ASSUME NEW r \in Row PROVE Candidates(r) \in Seq(Extracted)
  <2>1. r.text \in Texts /\ Extract[r.text] \in Seq(Range(Extract[r.text]))
    BY MessagesAssumption DEF Row, Texts
  <2>2. Len(Extract[r.text]) \in Nat
    BY <2>1
  <2>3. DOMAIN Candidates(r) = 1..Len(Extract[r.text])
    BY DEF Candidates
  <2>4. \A i \in 1..Len(Extract[r.text]) : Candidates(r)[i] \in Extracted
    BY <2>3 DEF Extracted, ToSet
  <2>5. Candidates(r) = [i \in 1..Len(Extract[r.text]) |-> Candidates(r)[i]]
    BY DEF Candidates
  <2> QED BY <2>2, <2>4, <2>5, IsASeq
<1> DEFINE ss == [i \in 1..Len(rs) |-> Candidates(rs[i])]
<1>2. ss \in Seq(Seq(Extracted))
  <2>1. Len(rs) \in Nat /\ \A i \in 1..Len(rs) : rs[i] \in Row
    OBVIOUS
  <2>2. \A i \in 1..Len(rs) : Candidates(rs[i]) \in Seq(Extracted)
    BY <1>1, <2>1
  <2> QED BY <2>1, <2>2, IsASeq
<1> HIDE DEF ss
<1>3. FlattenSeq(ss) \in Seq(Extracted)
  BY <1>2, FlattenType
<1> QED BY <1>3 DEF WindowOf, ss

LEMMA ExtractedIsPlain ==
    ASSUME NEW c \in Extracted PROVE ~c.structured
<1>1. PICK r \in Row : c \in ToSet(Candidates(r))
  BY DEF Extracted
<1>2. PICK i \in 1..Len(Extract[r.text]) : c = Candidates(r)[i]
  BY <1>1 DEF ToSet, Candidates
<1> QED BY <1>2 DEF Candidates

LEMMA RecentType ==
    ASSUME CallsInv PROVE recent(Limit) \in Seq(Row)
<1> DEFINE a == IF Len(stm) > Limit THEN Len(stm) - Limit + 1 ELSE 1
<1>1. stm \in Seq(Row) /\ Len(stm) \in Nat /\ Limit \in Nat
  BY LocalBounds DEF CallsInv
<1>2. a \in Nat /\ a >= 1
  BY <1>1
<1> HIDE DEF a
<1>3. SubSeq(stm, a, Len(stm)) \in Seq(Row)
  <2>1. a \in Int /\ Len(stm) \in Int /\ \A i \in a..Len(stm) : stm[i] \in Row
    BY <1>1, <1>2
  <2> QED BY ONLY <2>1, SubSeqProperties
<1>4. Reverse(SubSeq(stm, a, Len(stm))) \in Seq(Row)
  BY <1>3, ReverseOf
<1> QED BY <1>4 DEF recent, a

-----------------------------------------------------------------------------
(***************************************************************************)
(* What storing and stamping do to the nodes of a graph S.                 *)
(***************************************************************************)
StoredIn(S, f) == {g \in S : g.id # f.id} \cup {f}
Marked(g, i, at) ==
    IF g.id = i THEN [g EXCEPT !.state = "superseded", !.invalid_at = at] ELSE g
StampedIn(S, i, at) == {Marked(g, i, at) : g \in S}

\* The nodes are facts with ids of their own below n.
Nodes(S, n) ==
    /\ \A f \in S : IsFact(f) /\ f.id < n /\ (f.state = "active" => IsActive(f))
    /\ \A f, g \in S : f.id = g.id => f = g
AllAnswered(S) == \A f \in S : Answered(S, f.slot)
AllStamped(M, S) == \A i \in M : \E f \in S : f.point = i /\ f.state = "superseded"
Told(S, j) == \A f \in S : f.id \in DOMAIN j /\ (IsActive(f) => j[f.id] = Snapshot(f))

\* A node that is stored again is as it was: nothing is replaced.
LEMMA StoreAdds ==
    ASSUME NEW S, NEW n, Nodes(S, n), NEW f, IdIn(S, f.id) => f \in S
    PROVE  StoredIn(S, f) = S \cup {f}
BY DEF StoredIn, Nodes, IdIn

\* h is the node g after the stamp of i.
Comes(h, g, i) ==
    /\ h.id = g.id /\ h.point = g.point /\ h.slot = g.slot /\ IsFact(h)
    /\ g.id # i => h = g
    /\ g.id = i \/ g.state = "superseded" => h.state = "superseded"

LEMMA MarkedComes ==
    ASSUME NEW g, IsFact(g), NEW i, NEW at
    PROVE  Comes(Marked(g, i, at), g, i)
<1>1. CASE g.id = i
  <2> DEFINE h == [g EXCEPT !.state = "superseded", !.invalid_at = at]
  <2>1. DOMAIN h = Fields /\ h.state = "superseded"
    BY DEF IsFact, Fields
  <2>2. h.id = g.id /\ h.point = g.point /\ h.slot = g.slot
    BY DEF IsFact, Fields
  <2>3. Marked(g, i, at) = h
    BY <1>1 DEF Marked
  <2> HIDE DEF h
  <2> QED BY <1>1, <2>1, <2>2, <2>3 DEF Comes, IsFact
<1>2. CASE g.id # i
  BY <1>2 DEF Marked, Comes
<1> QED BY <1>1, <1>2

\* The nodes of S and those of the stamped graph, one for one.
LEMMA StampedBack ==
    ASSUME NEW S, NEW n, Nodes(S, n), NEW i, NEW at, NEW h \in StampedIn(S, i, at)
    PROVE  \E g \in S : h = Marked(g, i, at) /\ Comes(h, g, i)
<1>1. PICK g \in S : h = Marked(g, i, at)
  BY DEF StampedIn
<1>2. IsFact(g)
  BY DEF Nodes
<1>3. Comes(Marked(g, i, at), g, i)
  BY <1>2, MarkedComes
<1> QED BY <1>1, <1>3

LEMMA StampedOn ==
    ASSUME NEW S, NEW n, Nodes(S, n), NEW i, NEW at, NEW g \in S
    PROVE  \E h \in StampedIn(S, i, at) : Comes(h, g, i)
<1>1. Marked(g, i, at) \in StampedIn(S, i, at)
  BY DEF StampedIn
<1>2. IsFact(g)
  BY DEF Nodes
<1>3. Comes(Marked(g, i, at), g, i)
  BY <1>2, MarkedComes
<1> QED BY <1>1, <1>3

LEMMA StampKeepsNodes ==
    ASSUME NEW S, NEW n, Nodes(S, n), NEW i, NEW at
    PROVE  Nodes(StampedIn(S, i, at), n)
<1> DEFINE T == StampedIn(S, i, at)
<1>1. ASSUME NEW h \in T PROVE IsFact(h) /\ h.id < n /\ (h.state = "active" => IsActive(h))
  <2>1. PICK g \in S : Comes(h, g, i)
    BY StampedBack
  <2>2. g.id < n /\ (g.state = "active" => IsActive(g))
    BY DEF Nodes
  <2>3. IsFact(h) /\ h.id = g.id /\ (h = g \/ h.state = "superseded")
    BY <2>1 DEF Comes
  <2> QED BY <2>2, <2>3
<1>2. ASSUME NEW h \in T, NEW k \in T, h.id = k.id PROVE h = k
  <2>1. PICK g \in S : h = Marked(g, i, at) /\ Comes(h, g, i)
    BY StampedBack
  <2>2. PICK m \in S : k = Marked(m, i, at) /\ Comes(k, m, i)
    BY StampedBack
  <2>3. h.id = g.id /\ k.id = m.id
    BY <2>1, <2>2 DEF Comes
  <2>4. g = m
    BY <1>2, <2>3 DEF Nodes
  <2> QED BY <2>1, <2>2, <2>4
<1> HIDE DEF T
<1> QED BY <1>1, <1>2 DEF Nodes, T

\* The slot of what is stamped stays answered by another node.
LEMMA StampKeepsAnswered ==
    ASSUME NEW S, NEW n, Nodes(S, n), AllAnswered(S), NEW i, NEW at,
           \A f \in S : f.id = i => \E g \in S : g.slot = f.slot /\ IsActive(g) /\ g.id # i
    PROVE  AllAnswered(StampedIn(S, i, at))
<1> DEFINE T == StampedIn(S, i, at)
<1>1. ASSUME NEW h \in T PROVE \E k \in T : k.slot = h.slot /\ IsActive(k)
  <2>1. PICK f \in S : Comes(h, f, i)
    BY StampedBack
  <2>2. PICK g \in S : g.slot = f.slot /\ IsActive(g)
    BY DEF AllAnswered, Answered
  <2>3. PICK w \in S : w.slot = f.slot /\ IsActive(w) /\ w.id # i
    <3>1. CASE g.id # i
      BY <2>2, <3>1
    <3>2. CASE g.id = i
      BY <2>2, <3>2
    <3> QED BY <3>1, <3>2
  <2>4. PICK k \in T : Comes(k, w, i)
    BY StampedOn
  <2>5. k = w /\ h.slot = f.slot
    BY <2>1, <2>3, <2>4 DEF Comes
  <2> QED BY <2>3, <2>4, <2>5
<1> HIDE DEF T
<1> QED BY <1>1 DEF AllAnswered, Answered, T

LEMMA StampKeepsStamped ==
    ASSUME NEW S, NEW n, Nodes(S, n), NEW i, NEW at, NEW M, AllStamped(M, S)
    PROVE  AllStamped(M, StampedIn(S, i, at))
<1>1. ASSUME NEW x \in M PROVE \E h \in StampedIn(S, i, at) : h.point = x /\ h.state = "superseded"
  <2>1. PICK f \in S : f.point = x /\ f.state = "superseded"
    BY DEF AllStamped
  <2>2. PICK h \in StampedIn(S, i, at) : Comes(h, f, i)
    BY StampedOn
  <2>3. h.point = x /\ h.state = "superseded"
    BY <2>1, <2>2 DEF Comes
  <2> QED BY <2>3
<1> QED BY <1>1 DEF AllStamped

LEMMA StampKeepsTold ==
    ASSUME NEW S, NEW n, Nodes(S, n), NEW i, NEW at, NEW j, Told(S, j)
    PROVE  Told(StampedIn(S, i, at), j)
<1>1. ASSUME NEW h \in StampedIn(S, i, at) PROVE h.id \in DOMAIN j /\ (IsActive(h) => j[h.id] = Snapshot(h))
  <2>1. PICK g \in S : Comes(h, g, i)
    BY StampedBack
  <2>2. g.id \in DOMAIN j /\ (IsActive(g) => j[g.id] = Snapshot(g))
    BY DEF Told
  <2>3. h.id = g.id /\ (h = g \/ h.state = "superseded")
    BY <2>1 DEF Comes
  <2>4. IsActive(h) => h.state # "superseded"
    BY DEF IsActive
  <2> QED BY <2>2, <2>3, <2>4
<1> QED BY <1>1 DEF Told

LEMMA StampKeepsIds ==
    ASSUME NEW S, NEW n, Nodes(S, n), NEW i, NEW at, NEW x, ~IdIn(S, x)
    PROVE  ~IdIn(StampedIn(S, i, at), x)
<1>1. ASSUME NEW h \in StampedIn(S, i, at) PROVE h.id # x
  <2>1. PICK g \in S : Comes(h, g, i)
    BY StampedBack
  <2> QED BY <2>1 DEF Comes, IdIn
<1> QED BY <1>1 DEF IdIn

LEMMA StampKeepsNode ==
    ASSUME NEW S, NEW n, Nodes(S, n), NEW i, NEW at, NEW f, NodeIn(S, f)
    PROVE  NodeIn(StampedIn(S, i, at), f) /\ (f.id = i => StampedNode(StampedIn(S, i, at), f))
<1>1. PICK g \in S : g.id = f.id /\ g.point = f.point /\ g.slot = f.slot
  BY DEF NodeIn
<1>2. PICK h \in StampedIn(S, i, at) : Comes(h, g, i)
  BY StampedOn
<1>3. h.id = f.id /\ h.point = f.point /\ h.slot = f.slot /\ (f.id = i => h.state = "superseded")
  BY <1>1, <1>2 DEF Comes
<1>4. NodeIn(StampedIn(S, i, at), f)
  BY <1>3 DEF NodeIn
<1>5. f.id = i => StampedNode(StampedIn(S, i, at), f)
  BY <1>3 DEF StampedNode
<1> QED BY <1>4, <1>5

\* A node with another id is not touched.
LEMMA StampKeepsOther ==
    ASSUME NEW S, NEW n, Nodes(S, n), NEW i, NEW at, NEW f \in S, f.id # i
    PROVE  f \in StampedIn(S, i, at)
<1>1. PICK h \in StampedIn(S, i, at) : Comes(h, f, i)
  BY StampedOn
<1> QED BY <1>1 DEF Comes

-----------------------------------------------------------------------------
(***************************************************************************)
(* The steps outside a pass, and those that begin and end one.             *)
(***************************************************************************)
LEMMA GraphParts ==
    /\ GraphInv <=> nextId \in Nat /\ Nodes(ltm, nextId) /\ AllAnswered(ltm)
    /\ JsonInv <=> Told(ltm, json)
    /\ StampInv <=> AllStamped(mtm, ltm)
<1>1. GraphInv <=> nextId \in Nat /\ Nodes(ltm, nextId) /\ AllAnswered(ltm)
  BY DEF GraphInv, Nodes, AllAnswered
<1>2. JsonInv <=> Told(ltm, json)
  BY DEF JsonInv, Told
<1>3. StampInv <=> AllStamped(mtm, ltm)
  BY DEF StampInv, AllStamped
<1> QED BY <1>1, <1>2, <1>3

LEMMA GraphUnchanged ==
    ASSUME GraphInv, JsonInv, StampInv, UNCHANGED <<ltm, json, nextId>>, mtm' \subseteq mtm
    PROVE  GraphInv' /\ JsonInv' /\ StampInv'
<1>1. GraphInv'
  BY DEF GraphInv
<1>2. JsonInv'
  BY DEF JsonInv
<1>3. StampInv'
  BY DEF StampInv
<1> QED BY <1>1, <1>2, <1>3

\* Nothing that a pass reads has changed.
PassFrame(d) ==
    /\ ltm' = ltm /\ nextId' = nextId
    /\ pc'[d] = pc[d] /\ todo'[d] = todo[d] /\ fact'[d] = fact[d] /\ losers'[d] = losers[d]
    /\ loser'[d] = loser[d] /\ newest'[d] = newest[d]

LEMMA PassUnchanged ==
    ASSUME NEW d \in Consolidator, PassInv(d), PassFrame(d), pc[d] \in Inside => lease' = d
    PROVE  PassInv(d)'
<1>1. TodoInv(d) => TodoInv(d)'
  BY DEF TodoInv, Waiting, PassFrame
<1>2. LosersInv(d) => LosersInv(d)'
  BY DEF LosersInv, PassFrame
<1>3. UpsertInv(d) => UpsertInv(d)'
  BY DEF UpsertInv, PassFrame
<1> QED BY <1>1, <1>2, <1>3 DEF PassInv, PassFrame

LEMMA TierUnchanged ==
    ASSUME TierInv, mtm' \subseteq mtm,
           UNCHANGED <<ltm, json, nextId, lease, pc, window, todo, fact, losers, loser, newest>>
    PROVE  TierInv'
<1>1. GraphInv' /\ JsonInv' /\ StampInv'
  BY GraphUnchanged DEF TierInv
<1>2. ASSUME NEW d \in Consolidator PROVE PassInv(d)'
  <2>1. PassInv(d) /\ PassFrame(d)
    BY DEF TierInv, PassesInv, PassFrame
  <2>2. pc[d] \in Inside => lease' = d
    BY <2>1 DEF PassInv
  <2> QED BY <2>1, <2>2, PassUnchanged
<1>3. PassesInv'
  BY <1>2 DEF TierInv, PassesInv
<1> QED BY <1>1, <1>3 DEF TierInv

LEMMA CrashKeepsTier ==
    ASSUME TierInv, Crash PROVE TierInv'
<1>1. GraphInv' /\ JsonInv' /\ StampInv'
  BY GraphUnchanged DEF TierInv, Crash
<1>2. "idle" \notin Inside /\ <<>> \in Seq(Extracted)
  BY DEF Inside
<1>3. ASSUME NEW d \in Consolidator
      PROVE  pc'[d] = "idle" /\ newest'[d] = None /\ losers'[d] = {} /\ PassInv(d)'
  <2>1. pc'[d] = "idle" /\ newest'[d] = None /\ losers'[d] = {}
    BY DEF Crash
  <2> QED BY <1>2, <2>1 DEF PassInv
<1>4. pc' \in [Consolidator -> Inside \cup {"idle", "waiting"}] /\ window' \in [Consolidator -> Seq(Extracted)]
  BY <1>2 DEF Crash
<1>5. /\ DOMAIN todo' = Consolidator /\ DOMAIN fact' = Consolidator /\ DOMAIN losers' = Consolidator
      /\ DOMAIN loser' = Consolidator /\ DOMAIN newest' = Consolidator
  BY DEF Crash
<1>6. PassesInv'
  BY <1>3, <1>4, <1>5 DEF PassesInv
<1> QED BY <1>1, <1>6 DEF TierInv

\* A pass inside the lease is the only one there.
LEMMA OthersOutside ==
    ASSUME PassesInv, NEW d \in Consolidator, pc[d] \in Inside
    PROVE  \A e \in Consolidator \ {d} : pc[e] \notin Inside
BY DEF PassesInv, PassInv

\* Of the calls of consolidate, only d moves.
OnlyMoves(d) ==
    /\ pc' \in [Consolidator -> Inside \cup {"idle", "waiting"}]
    /\ window' \in [Consolidator -> Seq(Extracted)]
    /\ DOMAIN todo' = Consolidator /\ DOMAIN fact' = Consolidator /\ DOMAIN losers' = Consolidator
    /\ DOMAIN loser' = Consolidator /\ DOMAIN newest' = Consolidator
    /\ \A e \in Consolidator \ {d} :
          pc'[e] = pc[e] /\ newest'[e] = newest[e] /\ losers'[e] = losers[e]

LEMMA OnePassMoves ==
    ASSUME PassesInv, NEW d \in Consolidator, OnlyMoves(d),
           \A e \in Consolidator \ {d} : pc[e] \notin Inside,
           PassInv(d)', pc'[d] \notin Inside => newest'[d] = None /\ losers'[d] = {}
    PROVE  PassesInv'
<1>1. ASSUME NEW e \in Consolidator
      PROVE  PassInv(e)' /\ (pc'[e] \notin Inside => newest'[e] = None /\ losers'[e] = {})
  <2>1. CASE e = d
    BY <2>1
  <2>2. CASE e # d
    <3>1. pc'[e] \notin Inside /\ newest'[e] = None /\ losers'[e] = {}
      BY <2>2 DEF OnlyMoves, PassesInv
    <3> QED BY <3>1 DEF PassInv
  <2> QED BY <2>1, <2>2
<1> QED BY <1>1 DEF PassesInv, OnlyMoves

\* A pass that ends leaves the graph and forgets its locals.
LEMMA ForgetKeepsTier ==
    ASSUME TierInv, NEW d \in Consolidator, D!Forget(d), lease' = D!LeaseReleased(d),
           UNCHANGED <<ltm, mtm, json, nextId>>
    PROVE  TierInv'
<1>1. GraphInv' /\ JsonInv' /\ StampInv'
  BY GraphUnchanged DEF TierInv
<1>2. "idle" \notin Inside /\ <<>> \in Seq(Extracted)
  BY DEF Inside
<1>3. ASSUME NEW e \in Consolidator
      PROVE  PassInv(e)' /\ (pc'[e] \notin Inside => newest'[e] = None /\ losers'[e] = {})
  <2>1. CASE e = d
    <3>1. pc'[e] = "idle" /\ newest'[e] = None /\ losers'[e] = {}
      BY <2>1 DEF TierInv, PassesInv, D!Forget, D!Goto
    <3> QED BY <1>2, <3>1 DEF PassInv
  <2>2. CASE e # d
    <3>1. PassInv(e) /\ PassFrame(e)
      BY <2>2 DEF TierInv, PassesInv, PassFrame, D!Forget, D!Goto
    <3>2. pc[e] \in Inside => lease' = e
      BY <2>2, <3>1 DEF PassInv, D!LeaseReleased
    <3>3. PassInv(e)'
      BY <3>1, <3>2, PassUnchanged
    <3> QED BY <3>1, <3>3 DEF TierInv, PassesInv, PassFrame
  <2> QED BY <2>1, <2>2
<1>4. pc' \in [Consolidator -> Inside \cup {"idle", "waiting"}] /\ window' \in [Consolidator -> Seq(Extracted)]
  BY <1>2 DEF TierInv, PassesInv, D!Forget, D!Goto
<1>5. /\ DOMAIN todo' = Consolidator /\ DOMAIN fact' = Consolidator /\ DOMAIN losers' = Consolidator
      /\ DOMAIN loser' = Consolidator /\ DOMAIN newest' = Consolidator
  BY DEF TierInv, PassesInv, D!Forget
<1>6. PassesInv'
  BY <1>3, <1>4, <1>5 DEF PassesInv
<1> QED BY <1>1, <1>6 DEF TierInv

LEMMA ConsolidateKeepsTier ==
    ASSUME TierInv, CallsInv, NEW d \in Consolidator, Consolidate(d) PROVE TierInv'
<1>1. UNCHANGED <<ltm, mtm, json, nextId, lease, todo, fact, losers, loser, newest>>
  BY DEF Consolidate, D!Distill, D!graph, D!ghost
<1>2. GraphInv' /\ JsonInv' /\ StampInv'
  BY <1>1, GraphUnchanged DEF TierInv
<1>3. WindowOf(recent(Limit)) \in Seq(Extracted)
  BY RecentType, WindowType
<1>4. /\ pc[d] = "idle" /\ pc' = [pc EXCEPT ![d] = "waiting"]
      /\ window' = [window EXCEPT ![d] = WindowOf(recent(Limit))]
  BY DEF Consolidate, D!Distill, D!Goto
<1>5. "idle" \notin Inside /\ "waiting" \notin Inside
  BY DEF Inside
<1>6. ASSUME NEW e \in Consolidator
      PROVE  PassInv(e)' /\ (pc'[e] \notin Inside => newest'[e] = None /\ losers'[e] = {})
  <2>1. CASE e = d
    BY <1>1, <1>4, <1>5, <2>1 DEF TierInv, PassesInv, PassInv
  <2>2. CASE e # d
    <3>1. PassInv(e) /\ PassFrame(e)
      BY <1>1, <1>4, <2>2 DEF TierInv, PassesInv, PassFrame
    <3>2. pc[e] \in Inside => lease' = e
      BY <1>1, <3>1 DEF PassInv
    <3>3. PassInv(e)'
      BY <3>1, <3>2, PassUnchanged
    <3> QED BY <3>1, <3>3 DEF TierInv, PassesInv, PassFrame
  <2> QED BY <2>1, <2>2
<1>7. pc' \in [Consolidator -> Inside \cup {"idle", "waiting"}] /\ window' \in [Consolidator -> Seq(Extracted)]
  BY <1>3, <1>4 DEF TierInv, PassesInv
<1>8. PassesInv'
  BY <1>1, <1>6, <1>7 DEF TierInv, PassesInv
<1> QED BY <1>2, <1>8 DEF TierInv

-----------------------------------------------------------------------------
(***************************************************************************)
(* The facts of a window are minted as the lease is taken.                 *)
(***************************************************************************)
LEMMA CollectedIsNew ==
    ASSUME NEW c \in Extracted, NEW i \in Nat, NEW base \in Nat, NEW now
    PROVE  /\ IsFact(D!CollectedFact(c, i, base, now)) /\ IsActive(D!CollectedFact(c, i, base, now))
           /\ D!CollectedFact(c, i, base, now).id = base + i
<1>1. ~c.structured
  BY ExtractedIsPlain
<1> DEFINE f == D!CollectedFact(c, i, base, now)
<1>2. DOMAIN f = Fields
  BY DEF D!CollectedFact, Fields
<1>3. f.id = base + i /\ f.state = "active" /\ f.invalid_at = None
  BY <1>1 DEF D!CollectedFact
<1> HIDE DEF f
<1>4. IsFact(f) /\ IsActive(f)
  BY <1>2, <1>3 DEF IsFact, IsActive
<1> QED BY <1>3, <1>4 DEF f

LEMMA MoreIds ==
    ASSUME NEW S, NEW n \in Nat, NEW m \in Nat, n <= m, Nodes(S, n)
    PROVE  Nodes(S, m)
<1>1. ASSUME NEW f \in S PROVE IsFact(f) /\ f.id < m /\ (f.state = "active" => IsActive(f))
  <2>1. IsFact(f) /\ f.id < n /\ f.id \in Nat /\ (f.state = "active" => IsActive(f))
    BY DEF Nodes, IsFact
  <2> QED BY <2>1
<1> QED BY <1>1 DEF Nodes

LEMMA AcquireKeepsTier ==
    ASSUME TierInv, NEW d \in Consolidator, D!Acquire(d), UNCHANGED json PROVE TierInv'
<1> DEFINE n == Len(window[d])
           q == D!_collect_facts(window[d], nextId, clock + 1)
<1>1. /\ pc[d] = "waiting" /\ lease = None /\ lease' = d /\ pc' = [pc EXCEPT ![d] = "reconcile"]
      /\ nextId' = nextId + n + 1 /\ todo' = [todo EXCEPT ![d] = q]
      /\ UNCHANGED <<ltm, mtm, window, fact, losers, loser, newest>>
  BY DEF D!Acquire, D!LeaseFree, D!Goto, D!graph
<1>2. nextId \in Nat /\ Nodes(ltm, nextId) /\ AllAnswered(ltm)
  BY GraphParts DEF TierInv
<1>3. window[d] \in Seq(Extracted) /\ n \in Nat /\ \A i \in 1..n : window[d][i] \in Extracted
  BY DEF TierInv, PassesInv
<1>4. DOMAIN q = 1..n /\ \A i \in 1..n : q[i] = D!CollectedFact(window[d][i], i, nextId, clock + 1)
  BY DEF D!_collect_facts
<1>5. ASSUME NEW i \in 1..n PROVE IsFact(q[i]) /\ IsActive(q[i]) /\ q[i].id = nextId + i
  <2>1. i \in Nat /\ window[d][i] \in Extracted
    BY <1>3
  <2> HIDE DEF q
  <2> QED BY <1>2, <1>4, <2>1, CollectedIsNew
<1>6. q \in Seq({q[i] : i \in 1..n}) /\ Len(q) = n
  <2>1. q = [i \in 1..n |-> q[i]]
    BY DEF D!_collect_facts
  <2> HIDE DEF q
  <2>2. [i \in 1..n |-> q[i]] \in Seq({q[i] : i \in 1..n})
    BY <1>3, IsASeq
  <2>3. Len([i \in 1..n |-> q[i]]) = n
    BY <1>3
  <2> QED BY <2>1, <2>2, <2>3
<1> HIDE DEF q
<1>7. nextId' \in Nat /\ nextId <= nextId'
  BY <1>1, <1>2, <1>3
<1>8. GraphInv'
  <2>1. Nodes(ltm, nextId')
    BY <1>2, <1>7, MoreIds
  <2>2. Nodes(ltm, nextId)' /\ AllAnswered(ltm)'
    BY <1>1, <1>2, <2>1
  <2> QED BY <1>7, <2>2, GraphParts DEF GraphInv, Nodes, AllAnswered
<1>9. JsonInv' /\ StampInv'
  <2>1. JsonInv'
    BY <1>1 DEF TierInv, JsonInv
  <2>2. StampInv'
    BY <1>1 DEF TierInv, StampInv
  <2> QED BY <2>1, <2>2
<1>10. \A e \in Consolidator \ {d} : pc[e] \notin Inside
  BY <1>1, LocalNone DEF TierInv, PassesInv, PassInv
<1>11. pc'[d] = "reconcile" /\ todo'[d] = q /\ newest'[d] = None /\ losers'[d] = {}
  <2>1. pc[d] \notin Inside
    BY <1>1 DEF Inside
  <2> QED BY <1>1, <2>1 DEF TierInv, PassesInv
<1>12. TodoInv(d)'
  <2>1. ASSUME NEW i \in 1..n PROVE q[i].id < nextId' /\ ~IdIn(ltm, q[i].id)
    <3>1. q[i].id = nextId + i /\ i \in Nat /\ i >= 1 /\ i <= n
      BY <1>3, <1>5
    <3>2. ASSUME NEW g \in ltm PROVE g.id < nextId /\ g.id \in Nat
      BY <1>2 DEF Nodes, IsFact
    <3> QED BY <1>1, <1>2, <1>3, <3>1, <3>2 DEF IdIn
  <2>2. ASSUME NEW i \in 1..n, NEW j \in 1..n, q[i].id = q[j].id PROVE i = j
    <3>1. q[i].id = nextId + i /\ q[j].id = nextId + j
      BY <1>5
    <3>2. nextId + i = nextId + j
      BY <2>2, <3>1, Zenon
    <3>3. i \in Nat /\ j \in Nat
      BY <1>3
    <3> QED BY <1>2, <3>2, <3>3
  <2> QED BY <1>1, <1>3, <1>5, <1>6, <1>11, <2>1, <2>2 DEF TodoInv, Waiting
<1>13. PassInv(d)'
  <2>1. todo'[d] \in Seq({todo'[d][i] : i \in 1..Len(todo'[d])})
    BY <1>6, <1>11
  <2> QED BY <1>1, <1>11, <1>12, <2>1 DEF PassInv
<1>14. OnlyMoves(d)
  BY <1>1 DEF TierInv, PassesInv, OnlyMoves, Inside
<1>15. PassesInv'
  <2>1. pc'[d] \notin Inside => newest'[d] = None /\ losers'[d] = {}
    BY <1>11
  <2> QED BY <1>10, <1>13, <1>14, <2>1, OnePassMoves DEF TierInv
<1> QED BY <1>8, <1>9, <1>15 DEF TierInv

-----------------------------------------------------------------------------
(***************************************************************************)
(* One fact of the window: decided, stored, and what it displaces stamped. *)
(***************************************************************************)
LEMMA OwnRange ==
    ASSUME NEW S, NEW s \in Seq(S) PROVE s \in Seq({s[i] : i \in 1..Len(s)})
<1> DEFINE R == {s[i] : i \in 1..Len(s)}
<1>1. Len(s) \in Nat /\ s \in [1..Len(s) -> S]
  OBVIOUS
<1>2. \A i \in 1..Len(s) : s[i] \in R
  OBVIOUS
<1> HIDE DEF R
<1>3. s = [i \in 1..Len(s) |-> s[i]]
  BY <1>1
<1>4. [i \in 1..Len(s) |-> s[i]] \in Seq(R)
  BY <1>1, <1>2, IsASeq
<1>5. s \in Seq(R)
  BY <1>3, <1>4
<1> QED BY <1>5 DEF R

\* The step to the next fact, when the facts behind the head are new to the
\* graph as it is now.
LEMMA NextFactInv ==
    ASSUME PassesInv, NEW d \in Consolidator, pc[d] \in Inside, D!NextFact(d),
           lease' = lease, nextId' = nextId, window' = window, todo[d] # <<>>,
           \A i \in 2..Len(todo[d]) : ~IdIn(ltm', todo[d][i].id)
    PROVE  PassesInv'
<1> DEFINE q == todo[d]
<1>1. PassInv(d) /\ lease = d /\ q \in Seq({q[i] : i \in 1..Len(q)}) /\ TodoInv(d)
  BY DEF PassesInv, PassInv
<1>2. /\ pc'[d] = "reconcile" /\ todo'[d] = Tail(q) /\ losers'[d] = {} /\ newest'[d] = None
      /\ OnlyMoves(d)
  <2>1. pc'[d] = "reconcile" /\ todo'[d] = Tail(q) /\ losers'[d] = {} /\ newest'[d] = None
    BY DEF PassesInv, D!NextFact, D!Goto
  <2>2. OnlyMoves(d)
    BY DEF PassesInv, D!NextFact, D!Goto, OnlyMoves, Inside
  <2> QED BY <2>1, <2>2
<1>3. Len(q) \in Nat /\ Len(q) > 0 /\ Len(Tail(q)) = Len(q) - 1
      /\ \A i \in 1..(Len(q) - 1) : Tail(q)[i] = q[i + 1]
  BY <1>1
<1>4. Tail(q) \in Seq({Tail(q)[i] : i \in 1..Len(Tail(q))})
  <2>1. Tail(q) \in Seq({q[i] : i \in 1..Len(q)})
    BY <1>1, <1>3
  <2> HIDE DEF q
  <2> QED BY <2>1, OwnRange
<1>5. TodoInv(d)'
  <2>1. ASSUME NEW i \in 1..Len(Tail(q))
        PROVE  IsFact(Tail(q)[i]) /\ IsActive(Tail(q)[i]) /\ Tail(q)[i].id < nextId /\ ~IdIn(ltm', Tail(q)[i].id)
    <3>1. i + 1 \in 2..Len(q) /\ i + 1 \in 1..Len(q) /\ Tail(q)[i] = q[i + 1]
      BY <1>3
    <3>2. IsFact(q[i + 1]) /\ IsActive(q[i + 1]) /\ q[i + 1].id < nextId /\ ~IdIn(ltm', q[i + 1].id)
      BY <1>1, <3>1 DEF TodoInv
    <3> QED BY <3>1, <3>2
  <2>2. ASSUME NEW i \in 1..Len(Tail(q)), NEW j \in 1..Len(Tail(q)), Tail(q)[i].id = Tail(q)[j].id
        PROVE  i = j
    <3>1. i + 1 \in 1..Len(q) /\ Tail(q)[i] = q[i + 1] /\ j + 1 \in 1..Len(q) /\ Tail(q)[j] = q[j + 1]
      BY <1>3
    <3>2. i + 1 = j + 1
      BY <1>1, <2>2, <3>1 DEF TodoInv
    <3> QED BY <1>3, <3>2
  <2> HIDE DEF q
  <2> QED BY <1>2, <2>1, <2>2 DEF TodoInv, Waiting
<1>6. PassInv(d)'
  <2>1. todo'[d] \in Seq({todo'[d][i] : i \in 1..Len(todo'[d])})
    BY <1>2, <1>4
  <2> QED BY <1>1, <1>2, <1>5, <2>1 DEF PassInv
<1>7. \A e \in Consolidator \ {d} : pc[e] \notin Inside
  BY OthersOutside
<1>8. pc'[d] \notin Inside => newest'[d] = None /\ losers'[d] = {}
  BY <1>2
<1> QED BY <1>2, <1>6, <1>7, <1>8, OnePassMoves

\* A conflict is an active node of the winner's slot, with another id.
LEMMA ConflictsAreNodes ==
    ASSUME GraphInv, NEW w, NEW cands \in D!TopK({c \in D!find_conflicts(w.slot) : c.id # w.id}),
           NEW c \in cands
    PROVE  c \in ltm /\ c.slot = w.slot /\ IsActive(c) /\ c.id # w.id /\ IsFact(c) /\ c.id < nextId
<1>1. c \in D!find_conflicts(w.slot) /\ c.id # w.id
  BY DEF D!TopK
<1>2. c \in ltm /\ c.slot = w.slot /\ c.state = "active"
  BY <1>1 DEF D!find_conflicts
<1> QED BY <1>1, <1>2 DEF GraphInv

\* What a decision leaves to be stored.
Decided(d) ==
    /\ IsFact(fact'[d]) /\ LosersInv(d)' /\ UpsertInv(d)'

LEMMA SelfExpiredIs ==
    ASSUME NEW w, IsFact(w), NEW n
    PROVE  /\ IsFact(D!SelfExpired(w, n)) /\ D!SelfExpired(w, n).state = "superseded"
           /\ D!SelfExpired(w, n).id = w.id /\ D!SelfExpired(w, n).slot = w.slot
<1> DEFINE f == D!SelfExpired(w, n)
<1>1. DOMAIN f = Fields /\ f.state = "superseded"
  BY DEF D!SelfExpired, IsFact, Fields
<1>2. f.id = w.id /\ f.slot = w.slot
  BY DEF D!SelfExpired, IsFact, Fields
<1> HIDE DEF f
<1>3. IsFact(f)
  BY <1>1, <1>2 DEF IsFact
<1> QED BY <1>1, <1>2, <1>3 DEF f

LEMMA ReconcileDecides ==
    ASSUME TierInv, NEW d \in Consolidator, D!Reconcile(d) PROVE Decided(d)
<1> DEFINE w == Head(todo[d])
<1>1. pc[d] = "reconcile" /\ todo[d] # <<>> /\ pc[d] \in Inside
  BY DEF D!Reconcile, Inside
<1>2. /\ TodoInv(d) /\ todo[d] \in Seq({todo[d][i] : i \in 1..Len(todo[d])})
      /\ newest[d] = None /\ losers[d] = {}
  BY <1>1 DEF TierInv, PassesInv, PassInv
<1>3. Len(todo[d]) \in Nat /\ 1 \in 1..Len(todo[d]) /\ w = todo[d][1]
  BY <1>1, <1>2
<1>4. IsFact(w) /\ IsActive(w) /\ w.id < nextId /\ ~IdIn(ltm, w.id)
  <2>1. 1 \in Waiting(d)..Len(todo[d])
    BY <1>1, <1>3 DEF Waiting
  <2> QED BY <1>2, <1>3, <2>1 DEF TodoInv
<1>5. \A i \in 2..Len(todo[d]) : todo[d][i].id # w.id /\ ~IdIn(ltm, todo[d][i].id)
  <2>1. ASSUME NEW i \in 2..Len(todo[d]) PROVE todo[d][i].id # w.id /\ ~IdIn(ltm, todo[d][i].id)
    <3>1. i \in 1..Len(todo[d]) /\ i # 1 /\ i \in Waiting(d)..Len(todo[d])
      BY <1>1, <1>3 DEF Waiting
    <3> QED BY <1>2, <1>3, <3>1 DEF TodoInv
  <2> QED BY <2>1
<1>6. UNCHANGED <<ltm, nextId, todo>> /\ GraphInv
  BY DEF D!Reconcile, D!graph, D!ghost, TierInv
<1>7. /\ DOMAIN fact = Consolidator /\ DOMAIN losers = Consolidator /\ DOMAIN newest = Consolidator
  BY DEF TierInv, PassesInv
<1>8. PICK cands \in D!TopK({c \in D!find_conflicts(w.slot) : c.id # w.id}) :
         LET same   == {c \in cands : D!_identical(w, c)}
             lost   == {c \in cands : D!_contradicts(w, c)}
             later  == D!more_recent(lost, w)
         IN
         \/ /\ \E c \in same : fact' = [fact EXCEPT ![d] = c]
            /\ UNCHANGED <<losers, newest>>
         \/ /\ same = {}
            /\ \E n \in later :
                /\ \A r \in later : r.valid_at <= n.valid_at
                /\ fact' = [fact EXCEPT ![d] = D!SelfExpired(w, n)]
                /\ newest' = [newest EXCEPT ![d] = n.id]
            /\ UNCHANGED losers
         \/ /\ same = {} /\ later = {}
            /\ fact' = [fact EXCEPT ![d] = w]
            /\ losers' = [losers EXCEPT ![d] = lost]
            /\ UNCHANGED newest
  BY Zenon DEF D!Reconcile
<1>9. \A c \in cands : c \in ltm /\ c.slot = w.slot /\ IsActive(c) /\ c.id # w.id /\ IsFact(c) /\ c.id < nextId
  BY <1>6, ConflictsAreNodes
<1>10. \/ \E c \in cands : fact'[d] = c /\ losers'[d] = {} /\ newest'[d] = None
       \/ \E n \in cands : fact'[d] = D!SelfExpired(w, n) /\ losers'[d] = {}
       \/ fact'[d] = w /\ losers'[d] \subseteq cands /\ newest'[d] = None
  <2>1. CASE \E c \in cands : fact' = [fact EXCEPT ![d] = c] /\ UNCHANGED <<losers, newest>>
    BY <1>2, <1>7, <2>1
  <2>2. CASE \E n \in cands : fact' = [fact EXCEPT ![d] = D!SelfExpired(w, n)] /\ UNCHANGED losers
    BY <1>2, <1>7, <2>2
  <2>3. CASE \E lost \in SUBSET cands :
                fact' = [fact EXCEPT ![d] = w] /\ losers' = [losers EXCEPT ![d] = lost] /\ UNCHANGED newest
    BY <1>2, <1>7, <2>3
  <2> HIDE DEF w
  <2> QED BY <1>8, <2>1, <2>2, <2>3 DEF D!more_recent
<1> HIDE DEF w
<1>11. CASE \E c \in cands : fact'[d] = c /\ losers'[d] = {} /\ newest'[d] = None
  <2>1. PICK c \in cands : fact'[d] = c /\ losers'[d] = {} /\ newest'[d] = None
    BY <1>11
  <2>2. c \in ltm /\ IsActive(c) /\ IsFact(c) /\ c.id < nextId
    BY <1>9
  <2>3. Answered(ltm \cup {c}, c.slot)
    BY <2>2 DEF Answered
  <2>4. \A i \in 2..Len(todo[d]) : todo[d][i].id # c.id
    BY <1>5, <2>2 DEF IdIn
  <2>5. UpsertInv(d)'
    BY <1>6, <2>1, <2>2, <2>3, <2>4 DEF UpsertInv
  <2>6. LosersInv(d)'
    BY <2>1 DEF LosersInv
  <2> QED BY <2>1, <2>2, <2>5, <2>6 DEF Decided
<1>12. CASE \E n \in cands : fact'[d] = D!SelfExpired(w, n) /\ losers'[d] = {}
  <2>1. PICK n \in cands : fact'[d] = D!SelfExpired(w, n) /\ losers'[d] = {}
    BY <1>12
  <2>2. IsFact(fact'[d]) /\ fact'[d].state = "superseded" /\ fact'[d].id = w.id /\ fact'[d].slot = w.slot
    BY <1>4, <2>1, SelfExpiredIs
  <2>3. Answered(ltm \cup {fact'[d]}, fact'[d].slot)
    BY <1>9, <2>2 DEF Answered
  <2>5. UpsertInv(d)'
    BY <1>4, <1>5, <1>6, <2>1, <2>2, <2>3 DEF UpsertInv
  <2>6. LosersInv(d)'
    BY <2>1 DEF LosersInv
  <2> QED BY <2>2, <2>5, <2>6 DEF Decided
<1>13. CASE fact'[d] = w /\ losers'[d] \subseteq cands /\ newest'[d] = None
  <2>1. Answered(ltm \cup {w}, w.slot)
    BY <1>4 DEF Answered
  <2>5. UpsertInv(d)'
    BY <1>4, <1>5, <1>6, <1>13, <2>1 DEF UpsertInv
  <2>6. LosersInv(d)'
    <3>1. ASSUME NEW l \in losers'[d] PROVE l.id # w.id /\ l.slot = w.slot /\ NodeIn(ltm, l)
      BY <1>9, <1>13 DEF NodeIn
    <3> QED BY <1>6, <1>13, <3>1 DEF LosersInv
  <2> QED BY <1>4, <1>13, <2>5, <2>6 DEF Decided
<1> QED BY <1>10, <1>11, <1>12, <1>13

LEMMA ReconcileKeepsTier ==
    ASSUME TierInv, NEW d \in Consolidator, D!Reconcile(d), UNCHANGED json PROVE TierInv'
<1>1. /\ pc[d] = "reconcile" /\ todo[d] # <<>> /\ pc' = [pc EXCEPT ![d] = "upsert"]
      /\ UNCHANGED <<ltm, mtm, nextId, lease, window, todo, loser>>
  BY DEF D!Reconcile, D!Goto, D!graph, D!ghost
<1>2. GraphInv' /\ JsonInv' /\ StampInv'
  BY <1>1, GraphUnchanged DEF TierInv
<1>3. Decided(d)
  BY ReconcileDecides
<1>4. pc[d] \in Inside /\ PassInv(d) /\ pc'[d] = "upsert" /\ pc'[d] \in Inside
  BY <1>1 DEF TierInv, PassesInv, Inside
<1>5. TodoInv(d)'
  <2>1. TodoInv(d) /\ \A i \in 2..Len(todo[d]) : i \in 1..Len(todo[d])
    BY <1>4 DEF PassInv
  <2> QED BY <1>1, <1>4, <2>1 DEF TodoInv, Waiting
<1>6. PassInv(d)'
  BY <1>1, <1>3, <1>4, <1>5 DEF PassInv, Decided
<1>7. OnlyMoves(d)
  <2>1. /\ pc' \in [Consolidator -> Inside \cup {"idle", "waiting"}]
        /\ window' \in [Consolidator -> Seq(Extracted)]
    BY <1>1 DEF TierInv, PassesInv, Inside
  <2>2. \E x : fact' = [fact EXCEPT ![d] = x]
    BY Zenon DEF D!Reconcile
  <2>3. losers' = losers \/ \E x : losers' = [losers EXCEPT ![d] = x]
    BY Zenon DEF D!Reconcile
  <2>4. newest' = newest \/ \E x : newest' = [newest EXCEPT ![d] = x]
    BY Zenon DEF D!Reconcile
  <2>5. /\ DOMAIN fact' = Consolidator /\ DOMAIN losers' = Consolidator /\ DOMAIN newest' = Consolidator
        /\ \A e \in Consolidator \ {d} : newest'[e] = newest[e] /\ losers'[e] = losers[e]
    BY <2>2, <2>3, <2>4 DEF TierInv, PassesInv
  <2> QED BY <1>1, <2>1, <2>5 DEF TierInv, PassesInv, OnlyMoves
<1>8. PassesInv'
  BY <1>4, <1>6, <1>7, OthersOutside, OnePassMoves DEF TierInv
<1> QED BY <1>2, <1>8 DEF TierInv

\* What storing a fact adds to a graph.
LEMMA AddKeepsNodes ==
    ASSUME NEW S, NEW n, Nodes(S, n), NEW f, IsFact(f), f.id < n, IdIn(S, f.id) => f \in S,
           f.state = "active" => IsActive(f)
    PROVE  Nodes(S \cup {f}, n)
<1>1. ASSUME NEW g \in S \cup {f} PROVE IsFact(g) /\ g.id < n /\ (g.state = "active" => IsActive(g))
  BY DEF Nodes
<1>2. ASSUME NEW g \in S \cup {f}, NEW h \in S \cup {f}, g.id = h.id PROVE g = h
  BY <1>2 DEF Nodes, IdIn
<1> QED BY <1>1, <1>2 DEF Nodes

LEMMA AddKeepsAnswered ==
    ASSUME NEW S, AllAnswered(S), NEW f, Answered(S \cup {f}, f.slot)
    PROVE  AllAnswered(S \cup {f})
<1>1. ASSUME NEW g \in S PROVE Answered(S \cup {f}, g.slot)
  BY DEF AllAnswered, Answered
<1> QED BY <1>1 DEF AllAnswered

\* memory_json, with that of f written.
Retold(j, f) == [i \in DOMAIN j \cup {f.id} |-> IF i = f.id THEN Snapshot(f) ELSE j[i]]

LEMMA AddKeepsTold ==
    ASSUME NEW S, NEW n, NEW f, Nodes(S \cup {f}, n), NEW j, Told(S, j)
    PROVE  Told(S \cup {f}, Retold(j, f))
<1> DEFINE k == Retold(j, f)
<1>1. DOMAIN k = DOMAIN j \cup {f.id} /\ k[f.id] = Snapshot(f)
      /\ \A i \in DOMAIN j : i # f.id => k[i] = j[i]
  BY DEF Retold
<1> HIDE DEF k
<1>2. ASSUME NEW g \in S \cup {f} PROVE g.id \in DOMAIN k /\ (IsActive(g) => k[g.id] = Snapshot(g))
  <2>1. CASE g.id = f.id
    <3>1. g = f
      BY <2>1 DEF Nodes
    <3> QED BY <1>1, <3>1
  <2>2. CASE g.id # f.id
    <3>1. g \in S
      BY <2>2
    <3> QED BY <1>1, <2>2, <3>1 DEF Told
  <2> QED BY <2>1, <2>2
<1> QED BY <1>2 DEF Told, k

\* A pass of which only the graph and the place have changed.
LEMMA SameLocals ==
    ASSUME PassesInv, NEW d \in Consolidator, pc[d] \in Inside, pc[d] # "reconcile",
           NEW l \in Inside \ {"reconcile", "upsert"}, D!Goto(d, l),
           UNCHANGED <<lease, nextId, window, todo, fact, newest>>,
           DOMAIN losers' = Consolidator, DOMAIN loser' = Consolidator,
           \A e \in Consolidator \ {d} : losers'[e] = losers[e],
           \A i \in 2..Len(todo[d]) : ~IdIn(ltm', todo[d][i].id),
           \A x \in losers'[d] : x.id # fact[d].id /\ x.slot = fact[d].slot /\ NodeIn(ltm', x),
           fact[d] \in ltm',
           l = "expire" => fact[d].state = "superseded",
           l # "expire" => IsActive(fact[d]),
           l \in {"invalidate_mtm", "announce"} => StampedNode(ltm', loser'[d])
    PROVE  PassesInv'
<1>1. PassInv(d) /\ lease = d /\ TodoInv(d) /\ IsFact(fact[d]) /\ todo[d] # <<>>
  BY DEF PassesInv, PassInv
<1>2. pc' = [pc EXCEPT ![d] = l] /\ pc'[d] = l
  BY DEF D!Goto, PassesInv
<1>3. TodoInv(d)'
  BY <1>1, <1>2 DEF TodoInv, Waiting
<1>4. LosersInv(d)'
  BY DEF LosersInv
<1>5. PassInv(d)'
  <2>1. /\ todo'[d] \in Seq({todo'[d][i] : i \in 1..Len(todo'[d])})
        /\ todo'[d] # <<>> /\ IsFact(fact'[d]) /\ lease' = d
    BY <1>1 DEF PassInv
  <2>2. /\ l = "expire" => fact'[d] \in ltm' /\ fact'[d].state = "superseded"
        /\ l \in {"invalidate_ltm", "invalidate_mtm", "announce"} => fact'[d] \in ltm' /\ IsActive(fact'[d])
        /\ l \in {"invalidate_mtm", "announce"} => StampedNode(ltm', loser'[d])
    OBVIOUS
  <2>3. pc'[d] # "reconcile" /\ pc'[d] # "upsert"
    BY <1>2
  <2> QED BY <1>2, <1>3, <1>4, <2>1, <2>2, <2>3 DEF PassInv
<1>6. OnlyMoves(d)
  BY <1>2 DEF PassesInv, OnlyMoves
<1>7. pc'[d] \notin Inside => newest'[d] = None /\ losers'[d] = {}
  BY <1>2
<1> QED BY <1>5, <1>6, <1>7, OthersOutside, OnePassMoves

LEMMA UpsertKeepsTier ==
    ASSUME TierInv, NEW d \in Consolidator, D!Upsert(d),
           json' = [i \in DOMAIN json \cup {fact[d].id} |->
                       IF i = fact[d].id THEN Snapshot(fact[d]) ELSE json[i]]
    PROVE  TierInv'
<1> DEFINE f == fact[d]
<1>1. pc[d] = "upsert" /\ UNCHANGED <<mtm, lease, nextId, window>> /\ ltm' = StoredIn(ltm, f)
  BY DEF D!Upsert, D!upsert_fact, D!ghost, StoredIn
<1>2. /\ nextId \in Nat /\ Nodes(ltm, nextId) /\ AllAnswered(ltm) /\ Told(ltm, json)
      /\ AllStamped(mtm, ltm) /\ PassesInv
  BY GraphParts DEF TierInv
<1>3. pc[d] \in Inside /\ PassInv(d)
  BY <1>1, <1>2 DEF PassesInv, Inside
<1>4. todo[d] # <<>> /\ IsFact(f) /\ LosersInv(d) /\ UpsertInv(d) /\ TodoInv(d)
  BY <1>1, <1>3 DEF PassInv
<1>5. /\ f.id < nextId /\ (IdIn(ltm, f.id) => f \in ltm) /\ Answered(ltm \cup {f}, f.slot)
      /\ (f.state = "active" => IsActive(f)) /\ (newest[d] # None => f.state = "superseded")
      /\ (losers[d] # {} => newest[d] = None /\ IsActive(f))
      /\ \A i \in 2..Len(todo[d]) : todo[d][i].id # f.id
  BY <1>4 DEF UpsertInv
<1>6. ltm' = ltm \cup {f}
  BY <1>1, <1>2, <1>5, StoreAdds
<1>7. Nodes(ltm \cup {f}, nextId)
  BY <1>2, <1>4, <1>5, AddKeepsNodes
<1>8. AllAnswered(ltm \cup {f})
  BY <1>2, <1>5, AddKeepsAnswered
<1>9. Told(ltm \cup {f}, json')
  <2>1. Told(ltm \cup {f}, Retold(json, f))
    BY <1>2, <1>7, AddKeepsTold
  <2>2. json' = Retold(json, f)
    BY DEF Retold
  <2> QED BY <2>1, <2>2
<1>10. AllStamped(mtm, ltm \cup {f})
  BY <1>2 DEF AllStamped
<1>11. GraphInv' /\ JsonInv' /\ StampInv'
  <2>1. GraphInv'
    BY <1>1, <1>2, <1>6, <1>7, <1>8 DEF GraphInv, Nodes, AllAnswered
  <2>2. JsonInv'
    BY <1>6, <1>9 DEF JsonInv, Told
  <2>3. StampInv'
    BY <1>1, <1>6, <1>10 DEF StampInv, AllStamped
  <2> QED BY <2>1, <2>2, <2>3
<1>12. \A i \in 2..Len(todo[d]) : ~IdIn(ltm', todo[d][i].id)
  <2>1. ASSUME NEW i \in 2..Len(todo[d]) PROVE ~IdIn(ltm', todo[d][i].id)
    <3>1. ~IdIn(ltm, todo[d][i].id)
      BY <1>1, <1>4 DEF TodoInv, Waiting
    <3> QED BY <1>5, <1>6, <3>1 DEF IdIn
  <2> QED BY <2>1
<1>13. \A x \in losers[d] : x.id # f.id /\ x.slot = f.slot /\ NodeIn(ltm', x)
  BY <1>4, <1>6 DEF LosersInv, NodeIn
<1>14. CASE newest[d] # None /\ D!Goto(d, "expire") /\ UNCHANGED <<todo, fact, losers, loser, newest>>
  <2>1. "expire" \in Inside \ {"reconcile", "upsert"} /\ f \in ltm' /\ f.state = "superseded" /\ pc[d] # "reconcile"
        /\ "expire" \notin {"invalidate_mtm", "announce"}
    BY <1>1, <1>5, <1>6, <1>14 DEF Inside
  <2>2. DOMAIN losers' = Consolidator /\ DOMAIN loser' = Consolidator
    BY <1>2, <1>14 DEF PassesInv
  <2>3. PassesInv'
    BY <1>1, <1>2, <1>3, <1>12, <1>13, <1>14, <2>1, <2>2, SameLocals
  <2> QED BY <1>11, <2>3 DEF TierInv
<1>15. CASE losers[d] # {} /\ D!Goto(d, "invalidate_ltm") /\ UNCHANGED <<todo, fact, losers, loser, newest>>
  <2>1. "invalidate_ltm" \in Inside \ {"reconcile", "upsert"} /\ f \in ltm' /\ IsActive(f) /\ pc[d] # "reconcile"
        /\ "invalidate_ltm" \notin {"invalidate_mtm", "announce"}
    BY <1>1, <1>5, <1>6, <1>15 DEF Inside
  <2>2. DOMAIN losers' = Consolidator /\ DOMAIN loser' = Consolidator
    BY <1>2, <1>15 DEF PassesInv
  <2>3. PassesInv'
    BY <1>1, <1>2, <1>3, <1>12, <1>13, <1>15, <2>1, <2>2, SameLocals
  <2> QED BY <1>11, <2>3 DEF TierInv
<1>16. CASE D!NextFact(d)
  <2>1. PassesInv'
    BY <1>1, <1>2, <1>3, <1>4, <1>12, <1>16, NextFactInv
  <2> QED BY <1>11, <2>1 DEF TierInv
<1> QED BY <1>14, <1>15, <1>16 DEF D!Upsert

\* A stamp in the graph, where another node answers for the slot.
LEMMA GraphStamped ==
    ASSUME GraphInv, JsonInv, StampInv, NEW i, NEW at, ltm' = D!Stamped(i, at),
           UNCHANGED <<json, mtm, nextId>>,
           \A f \in ltm : f.id = i => \E g \in ltm : g.slot = f.slot /\ IsActive(g) /\ g.id # i
    PROVE  GraphInv' /\ JsonInv' /\ StampInv' /\ ltm' = StampedIn(ltm, i, at)
<1>1. ltm' = StampedIn(ltm, i, at)
  BY DEF D!Stamped, StampedIn, Marked
<1>2. nextId \in Nat /\ Nodes(ltm, nextId) /\ AllAnswered(ltm) /\ Told(ltm, json) /\ AllStamped(mtm, ltm)
  BY GraphParts
<1>3. Nodes(StampedIn(ltm, i, at), nextId)
  BY <1>2, StampKeepsNodes
<1>4. AllAnswered(StampedIn(ltm, i, at))
  BY <1>2, StampKeepsAnswered
<1>5. Told(StampedIn(ltm, i, at), json)
  BY <1>2, StampKeepsTold
<1>6. AllStamped(mtm, StampedIn(ltm, i, at))
  BY <1>2, StampKeepsStamped
<1>7. GraphInv'
  BY <1>1, <1>2, <1>3, <1>4 DEF GraphInv, Nodes, AllAnswered
<1>8. JsonInv'
  BY <1>1, <1>5 DEF JsonInv, Told
<1>9. StampInv'
  BY <1>1, <1>6 DEF StampInv, AllStamped
<1> QED BY <1>1, <1>7, <1>8, <1>9

\* The facts behind the head of the window are new before and after a stamp.
LEMMA RestIsNew ==
    ASSUME PassesInv, NEW d \in Consolidator, pc[d] \in Inside, pc[d] # "reconcile"
    PROVE  \A i \in 2..Len(todo[d]) : ~IdIn(ltm, todo[d][i].id)
BY DEF PassesInv, PassInv, TodoInv, Waiting

LEMMA RestStaysNew ==
    ASSUME TierInv, NEW d \in Consolidator, pc[d] \in Inside, pc[d] # "reconcile", NEW i, NEW at,
           ltm' = StampedIn(ltm, i, at)
    PROVE  \A k \in 2..Len(todo[d]) : ~IdIn(ltm', todo[d][k].id)
<1>1. Nodes(ltm, nextId) /\ PassesInv
  BY GraphParts DEF TierInv
<1>2. ASSUME NEW k \in 2..Len(todo[d]) PROVE ~IdIn(StampedIn(ltm, i, at), todo[d][k].id)
  <2>1. ~IdIn(ltm, todo[d][k].id)
    BY <1>1, RestIsNew
  <2> QED BY <1>1, <2>1, StampKeepsIds
<1> QED BY <1>2

LEMMA ExpireKeepsTier ==
    ASSUME TierInv, NEW d \in Consolidator, D!Expire(d), UNCHANGED json PROVE TierInv'
<1> DEFINE f == fact[d]
           at == fact[d].invalid_at
<1>1. /\ pc[d] = "expire" /\ ltm' = D!Stamped(f.id, at) /\ D!NextFact(d)
      /\ UNCHANGED <<mtm, lease, nextId, window>>
  BY DEF D!Expire, D!invalidate, D!ghost
<1>2. pc[d] \in Inside /\ pc[d] # "reconcile" /\ PassesInv /\ PassInv(d) /\ GraphInv /\ JsonInv /\ StampInv
  BY <1>1 DEF TierInv, PassesInv, Inside
<1>3. todo[d] # <<>> /\ f \in ltm /\ f.state = "superseded"
  BY <1>1, <1>2 DEF PassInv
<1>4. ASSUME NEW g \in ltm, g.id = f.id
      PROVE  \E h \in ltm : h.slot = g.slot /\ IsActive(h) /\ h.id # f.id
  <2>1. PICK h \in ltm : h.slot = g.slot /\ IsActive(h)
    BY <1>2 DEF GraphInv, Answered
  <2>2. h # f
    BY <1>3, <2>1 DEF IsActive
  <2>3. h.id # f.id
    BY <1>2, <1>3, <2>2 DEF GraphInv
  <2> QED BY <2>1, <2>3
<1> HIDE DEF f, at
<1>5. GraphInv' /\ JsonInv' /\ StampInv' /\ ltm' = StampedIn(ltm, f.id, at)
  BY <1>1, <1>2, <1>4, GraphStamped
<1>6. \A k \in 2..Len(todo[d]) : ~IdIn(ltm', todo[d][k].id)
  BY <1>2, <1>5, RestStaysNew
<1>7. PassesInv'
  BY <1>1, <1>2, <1>3, <1>6, NextFactInv
<1> QED BY <1>5, <1>7 DEF TierInv

LEMMA InvalidateLtmKeepsTier ==
    ASSUME TierInv, NEW d \in Consolidator, D!InvalidateLtm(d), UNCHANGED json PROVE TierInv'
<1> DEFINE f == fact[d]
           at == fact[d].valid_at
<1>1. PICK l \in losers[d] : loser' = [loser EXCEPT ![d] = l] /\ ltm' = D!Stamped(l.id, at)
  <2>1. PICK l \in losers[d] : /\ loser' = [loser EXCEPT ![d] = l]
                               /\ D!invalidate(l.id, f.id, at, "functional_supersede")
    BY Zenon DEF D!InvalidateLtm
  <2>2. ltm' = D!Stamped(l.id, at)
    BY <2>1 DEF D!invalidate
  <2> QED BY <2>1, <2>2
<1>2. /\ pc[d] = "invalidate_ltm" /\ D!Goto(d, "invalidate_mtm")
      /\ UNCHANGED <<mtm, lease, nextId, window, todo, fact, losers, newest>>
  BY DEF D!InvalidateLtm, D!ghost
<1>3. pc[d] \in Inside /\ pc[d] # "reconcile" /\ PassesInv /\ PassInv(d) /\ GraphInv /\ JsonInv /\ StampInv
  BY <1>2 DEF TierInv, PassesInv, Inside
<1>4. f \in ltm /\ IsActive(f) /\ LosersInv(d)
  BY <1>2, <1>3 DEF PassInv
<1>5. \A x \in losers[d] : x.id # f.id /\ x.slot = f.slot /\ NodeIn(ltm, x)
  BY <1>4 DEF LosersInv
<1>6. ASSUME NEW g \in ltm, g.id = l.id
      PROVE  \E h \in ltm : h.slot = g.slot /\ IsActive(h) /\ h.id # l.id
  <2>1. PICK m \in ltm : m.id = l.id /\ m.slot = l.slot
    BY <1>5 DEF NodeIn
  <2>2. m = g
    BY <1>3, <1>6, <2>1 DEF GraphInv
  <2>3. f.slot = g.slot /\ f.id # l.id
    BY <1>5, <2>1, <2>2
  <2> QED BY <1>4, <2>3
<1> HIDE DEF at
<1>7. GraphInv' /\ JsonInv' /\ StampInv' /\ ltm' = StampedIn(ltm, l.id, at)
  BY <1>1, <1>2, <1>3, <1>6, GraphStamped
<1>8. \A k \in 2..Len(todo[d]) : ~IdIn(ltm', todo[d][k].id)
  BY <1>3, <1>7, RestStaysNew
<1>9. Nodes(ltm, nextId)
  BY <1>3, GraphParts
<1>10. \A x \in losers[d] : x.id # f.id /\ x.slot = f.slot /\ NodeIn(ltm', x)
  <2>1. ASSUME NEW x \in losers[d] PROVE NodeIn(ltm', x)
    <3>1. NodeIn(StampedIn(ltm, l.id, at), x)
      BY <1>5, <1>9, StampKeepsNode
    <3> QED BY <1>7, <3>1
  <2> QED BY <1>5, <2>1
<1>11. f \in ltm'
  <2>1. f \in StampedIn(ltm, l.id, at)
    BY <1>4, <1>5, <1>9, StampKeepsOther
  <2> QED BY <1>7, <2>1
<1>12. StampedNode(ltm', loser'[d])
  <2>1. StampedNode(StampedIn(ltm, l.id, at), l)
    BY <1>5, <1>9, StampKeepsNode
  <2>2. loser'[d] = l
    BY <1>1, <1>3 DEF PassesInv
  <2> QED BY <1>7, <2>1, <2>2
<1>13. /\ DOMAIN losers' = Consolidator /\ DOMAIN loser' = Consolidator
       /\ "invalidate_mtm" \in Inside \ {"reconcile", "upsert"}
  BY <1>1, <1>2, <1>3 DEF PassesInv, Inside
<1>14. PassesInv'
  BY <1>2, <1>3, <1>4, <1>8, <1>10, <1>11, <1>12, <1>13, SameLocals
<1> QED BY <1>7, <1>14 DEF TierInv

LEMMA InvalidateMtmKeepsTier ==
    ASSUME TierInv, NEW d \in Consolidator, D!InvalidateMtm(d), UNCHANGED json PROVE TierInv'
<1>1. /\ pc[d] = "invalidate_mtm" /\ D!Goto(d, "announce") /\ mtm' = mtm \cup {loser[d].point}
      /\ UNCHANGED <<ltm, lease, nextId, window, todo, fact, losers, loser, newest>>
  BY DEF D!InvalidateMtm, D!_mtm_point_id, D!ghost
<1>2. pc[d] \in Inside /\ pc[d] # "reconcile" /\ PassesInv /\ PassInv(d) /\ GraphInv /\ JsonInv /\ StampInv
  BY <1>1 DEF TierInv, PassesInv, Inside
<1>3. fact[d] \in ltm /\ IsActive(fact[d]) /\ LosersInv(d) /\ StampedNode(ltm, loser[d])
  BY <1>1, <1>2 DEF PassInv
<1>4. GraphInv' /\ JsonInv'
  <2>1. GraphInv'
    BY <1>1, <1>2 DEF GraphInv
  <2>2. JsonInv'
    BY <1>1, <1>2 DEF JsonInv
  <2> QED BY <2>1, <2>2
<1>5. StampInv'
  BY <1>1, <1>2, <1>3 DEF StampInv, StampedNode
<1>6. \A k \in 2..Len(todo[d]) : ~IdIn(ltm', todo[d][k].id)
  BY <1>1, <1>2, RestIsNew
<1>7. \A x \in losers'[d] : x.id # fact[d].id /\ x.slot = fact[d].slot /\ NodeIn(ltm', x)
  BY <1>1, <1>3 DEF LosersInv
<1>8. /\ DOMAIN losers' = Consolidator /\ DOMAIN loser' = Consolidator
      /\ "announce" \in Inside \ {"reconcile", "upsert"}
  BY <1>1, <1>2 DEF PassesInv, Inside
<1>9. PassesInv'
  BY <1>1, <1>2, <1>3, <1>6, <1>7, <1>8, SameLocals
<1> QED BY <1>4, <1>5, <1>9 DEF TierInv

LEMMA AnnounceKeepsTier ==
    ASSUME TierInv, NEW d \in Consolidator, D!Announce(d), UNCHANGED json PROVE TierInv'
<1>1. pc[d] = "announce" /\ UNCHANGED <<ltm, mtm, lease, nextId, window>>
  BY DEF D!Announce, D!ghost
<1>2. pc[d] \in Inside /\ pc[d] # "reconcile" /\ PassesInv /\ PassInv(d)
  BY <1>1 DEF TierInv, PassesInv, Inside
<1>3. fact[d] \in ltm /\ IsActive(fact[d]) /\ LosersInv(d) /\ todo[d] # <<>>
  BY <1>1, <1>2 DEF PassInv
<1>4. GraphInv' /\ JsonInv' /\ StampInv'
  BY <1>1, GraphUnchanged DEF TierInv
<1>5. \A k \in 2..Len(todo[d]) : ~IdIn(ltm', todo[d][k].id)
  BY <1>1, <1>2, RestIsNew
<1>6. CASE D!NextFact(d)
  <2>1. PassesInv'
    BY <1>1, <1>2, <1>3, <1>5, <1>6, NextFactInv
  <2> QED BY <1>4, <2>1 DEF TierInv
<1>7. CASE /\ losers' = [losers EXCEPT ![d] = @ \ {loser[d]}] /\ D!Goto(d, "invalidate_ltm")
           /\ UNCHANGED <<todo, fact, loser, newest>>
  <2>1. /\ DOMAIN losers' = Consolidator /\ DOMAIN loser' = Consolidator /\ losers'[d] \subseteq losers[d]
        /\ \A e \in Consolidator \ {d} : losers'[e] = losers[e]
        /\ "invalidate_ltm" \in Inside \ {"reconcile", "upsert"}
    BY <1>2, <1>7 DEF PassesInv, Inside
  <2>2. \A x \in losers'[d] : x.id # fact[d].id /\ x.slot = fact[d].slot /\ NodeIn(ltm', x)
    BY <1>1, <1>3, <2>1 DEF LosersInv
  <2>3. PassesInv'
    BY <1>1, <1>2, <1>3, <1>5, <1>7, <2>1, <2>2, SameLocals
  <2> QED BY <1>4, <2>3 DEF TierInv
<1> QED BY <1>6, <1>7 DEF D!Announce

-----------------------------------------------------------------------------
LEMMA PassKeepsTier ==
    ASSUME TierInv, NEW d \in Consolidator, Pass(d) PROVE TierInv'
<1>1. CASE (D!Acquire(d) \/ D!Finish(d) \/ D!Announce(d) \/ D!Cancel(d)) /\ UNCHANGED json
  <2>1. CASE D!Acquire(d)
    BY <1>1, <2>1, AcquireKeepsTier
  <2>2. CASE D!Announce(d)
    BY <1>1, <2>2, AnnounceKeepsTier
  <2>3. CASE D!Finish(d) \/ D!Cancel(d)
    <3>1. D!Forget(d) /\ lease' = D!LeaseReleased(d) /\ UNCHANGED <<ltm, mtm, json, nextId>>
      BY <1>1, <2>3 DEF D!Finish, D!Cancel, D!graph
    <3> QED BY <3>1, ForgetKeepsTier
  <2> QED BY <1>1, <2>1, <2>2, <2>3
<1>2. CASE (D!Reconcile(d) \/ D!Expire(d) \/ D!InvalidateLtm(d)) /\ UNCHANGED json
  BY <1>2, ReconcileKeepsTier, ExpireKeepsTier, InvalidateLtmKeepsTier
<1>3. CASE /\ D!Upsert(d)
           /\ json' = [i \in DOMAIN json \cup {fact[d].id} |->
                          IF i = fact[d].id THEN Snapshot(fact[d]) ELSE json[i]]
  BY <1>3, UpsertKeepsTier
<1>4. CASE Raise(d) /\ UNCHANGED json
  <2>1. D!Forget(d) /\ lease' = D!LeaseReleased(d) /\ UNCHANGED <<ltm, mtm, json, nextId>>
    BY <1>4 DEF Raise
  <2> QED BY <2>1, ForgetKeepsTier
<1>5. CASE D!InvalidateMtm(d) /\ UNCHANGED json
  BY <1>5, InvalidateMtmKeepsTier
<1>6. \/ (D!Acquire(d) \/ D!Finish(d) \/ D!Announce(d) \/ D!Cancel(d)) /\ UNCHANGED json
      \/ (D!Reconcile(d) \/ D!Expire(d) \/ D!InvalidateLtm(d)) /\ UNCHANGED json
      \/ /\ D!Upsert(d)
         /\ json' = [i \in DOMAIN json \cup {fact[d].id} |->
                        IF i = fact[d].id THEN Snapshot(fact[d]) ELSE json[i]]
      \/ Raise(d) /\ UNCHANGED json
      \/ D!InvalidateMtm(d) /\ UNCHANGED json
  <2>1. UNCHANGED <<rows, json>> => UNCHANGED json
    OBVIOUS
  <2>2. UNCHANGED <<container, rows, json>> => UNCHANGED json
    OBVIOUS
  <2> QED BY <2>1, <2>2, Zenon DEF Pass
<1> QED BY <1>1, <1>2, <1>3, <1>4, <1>5, <1>6, Zenon

LEMMA TierStep ==
    ASSUME TierInv, CallsInv, [Next]_vars PROVE TierInv'
<1>1. CASE UNCHANGED vars
  <2>1. mtm' \subseteq mtm /\ UNCHANGED <<ltm, json, nextId, lease, pc, window, todo, fact, losers, loser, newest>>
    BY <1>1 DEF vars, distill
  <2> QED BY <2>1, TierUnchanged
<1>2. CASE Construct \/ Build \/ BuildFails \/ Close \/ CloseNext \/ CloseCancelled
  <2>1. mtm' \subseteq mtm /\ UNCHANGED <<ltm, json, nextId, lease, pc, window, todo, fact, losers, loser, newest>>
    BY <1>2 DEF Construct, Build, BuildFails, Close, CloseNext, CloseCancelled, distill
  <2> QED BY <2>1, TierUnchanged
<1>3. CASE Crash
  BY <1>3, CrashKeepsTier
<1>4. ASSUME NEW t \in Adder, \/ \E msgs \in Messages : Add(t, msgs)
                              \/ WriteStm(t) \/ Promote(t) \/ UpsertPoint(t) \/ AddFails(t)
      PROVE  TierInv'
  <2>1. mtm' \subseteq mtm /\ UNCHANGED <<ltm, json, nextId, lease, pc, window, todo, fact, losers, loser, newest>>
    BY <1>4 DEF Add, WriteStm, Promote, UpsertPoint, AddFails, distill
  <2> QED BY <2>1, TierUnchanged
<1>5. ASSUME NEW d \in Consolidator, Consolidate(d) \/ Pass(d) PROVE TierInv'
  BY <1>5, ConsolidateKeepsTier, PassKeepsTier
<1> QED BY <1>1, <1>2, <1>3, <1>4, <1>5 DEF Next

LEMMA InitInv ==
    ASSUME Init PROVE Inv
<1>1. ClosersInv
  BY DEF Init, ClosersInv
<1>2. CallsInv
  <2>1. NoCall \in Call /\ NoCall.at = "idle"
    BY DEF NoCall, Call
  <2> QED BY <2>1 DEF Init, CallsInv
<1>3. PromotedInv /\ DuplicateNeedsRestart
  BY DEF Init, PromotedInv, DuplicateNeedsRestart, NoCall
<1>4. GraphInv /\ JsonInv /\ StampInv
  <2>1. nextId \in Nat /\ ltm = {} /\ mtm = {}
    BY LocalBounds DEF Init, D!Init
  <2> QED BY <2>1 DEF GraphInv, JsonInv, StampInv
<1>5. PassesInv
  <2>1. /\ pc = [d \in Consolidator |-> "idle"] /\ window = [d \in Consolidator |-> <<>>]
        /\ todo = [d \in Consolidator |-> <<>>] /\ fact = [d \in Consolidator |-> None]
        /\ losers = [d \in Consolidator |-> {}] /\ loser = [d \in Consolidator |-> None]
        /\ newest = [d \in Consolidator |-> None]
    BY DEF Init, D!Init
  <2>2. \A d \in Consolidator : PassInv(d)
    BY <2>1 DEF PassInv, Inside
  <2>3. pc \in [Consolidator -> Inside \cup {"idle", "waiting"}] /\ window \in [Consolidator -> Seq(Extracted)]
    BY <2>1
  <2> QED BY <2>1, <2>2, <2>3 DEF PassesInv
<1> QED BY <1>1, <1>2, <1>3, <1>4, <1>5 DEF Inv, AddInv, TierInv

\* The invariant of the facade: its clients are where close will find them,
\* the ledger knows the points of this life, and the graph, memory_json, the
\* MTM stamps and the pass inside the lease agree.
THEOREM FacadeInvariant == Spec => []Inv
<1>1. ASSUME Init PROVE Inv
  BY <1>1, InitInv
<1>2. ASSUME Inv, [Next]_vars PROVE Inv'
  <2>1. ClosersInv'
    BY <1>2, ClosersStep DEF Inv
  <2>2. AddInv'
    BY <1>2, AddStep DEF Inv
  <2>3. TierInv'
    BY <1>2, TierStep DEF Inv, AddInv
  <2> QED BY <2>1, <2>2, <2>3 DEF Inv
<1> QED BY <1>1, <1>2, PTL DEF Spec

\* LocalContainer.aclose: whatever closers raised, and however often a close
\* was cancelled and tried again, when the container is gone the only clients
\* that still hold a connection are those whose closer raised.
THEOREM CloseReleasesAll == Spec => []CloseReleases
<1>1. Inv => CloseReleases
  BY DEF Inv, ClosersInv, CloseReleases
<1> QED BY <1>1, FacadeInvariant, PTL

\* DeterministicPromoteStage and the in-process ledger: one caller writes two
\* recorded points of one text only in two lives of the container, whatever
\* calls run together, fail or time out.
THEOREM PromotedOnce == Spec => []DuplicateNeedsRestart
<1>1. Inv => DuplicateNeedsRestart
  BY DEF Inv, AddInv
<1> QED BY <1>1, FacadeInvariant, PTL

\* graph_recall over what upsert_fact and invalidate wrote: although
\* invalidate leaves memory_json alone, a fact that recall returns is described
\* by it as the node stands.
THEOREM RecallIsCurrent == Spec => []RecalledIsCurrent
<1>1. Inv => RecalledIsCurrent
  BY DEF Inv, TierInv, GraphInv, JsonInv, IsActive, RecalledIsCurrent, graph_recall
<1> QED BY <1>1, FacadeInvariant, PTL

\* Invalidate, don't delete: whatever passes were cut by failures, 404s or
\* crashes, recall of the LTM tier finds an active fact of every slot that was
\* ever consolidated.
THEOREM SlotsStayAnswered == Spec => []SlotAlwaysAnswered
<1>1. Inv => SlotAlwaysAnswered
  <2> SUFFICES ASSUME Inv, NEW f \in ltm
               PROVE  \E g \in ltm : g.slot = f.slot /\ <<"ltm", g.id>> \in recall("ltm")
    BY DEF SlotAlwaysAnswered
  <2>1. PICK g \in ltm : g.slot = f.slot /\ IsActive(g)
    BY DEF Inv, TierInv, GraphInv, Answered
  <2>2. g \in graph_recall
    BY <2>1 DEF graph_recall, IsActive
  <2>3. <<"ltm", g.id>>[1] \in _channels_for_tier("ltm")
    BY DEF _channels_for_tier
  <2>4. <<"ltm", g.id>> \in recall("ltm")
    BY <2>2, <2>3 DEF recall
  <2> QED BY <2>1, <2>4
<1> QED BY <1>1, FacadeInvariant, PTL

\* MtmTierRepository.invalidate after FalkorLtmAdapter.invalidate: MTM recall
\* hides a point only when the graph holds a superseded fact drawn from it.
THEOREM StampsAreJustified == Spec => []StampIsJustified
<1>1. Inv => StampIsJustified
  <2> SUFFICES ASSUME Inv, NEW p \in points, <<"mtm", p.id>> \notin recall(None)
               PROVE  \E f \in ltm : f.point = p.id /\ f.state = "superseded"
    BY DEF StampIsJustified
  <2>1. <<"mtm", p.id>>[1] \in _channels_for_tier(None)
    BY DEF _channels_for_tier
  <2>2. p.id \in mtm
    BY <2>1 DEF recall
  <2> QED BY <2>2 DEF Inv, TierInv, StampInv
<1> QED BY <1>1, FacadeInvariant, PTL

=============================================================================
