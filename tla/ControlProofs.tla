--------------------------- MODULE ControlProofs ----------------------------
(***************************************************************************)
(* The control plane, for any number of workers, records, attempts and     *)
(* crashes: a stamped database is complete, a provenance sync that has     *)
(* returned is in the mirror, the audit log is in order, and aclose loses  *)
(* no record.  The three actors share no variable but the count of unknown *)
(* outcomes, so each part has an invariant of its own.                     *)
(***************************************************************************)
EXTENDS Control, FiniteSetTheorems, SequenceTheorems, WellFoundedInduction, TLAPS

\* Every set of naturals that is not empty has a least element.
LEMMA LeastElement ==
    ASSUME NEW T \in SUBSET Nat, T # {}
    PROVE  \E n \in T : \A m \in T : n <= m
<1> DEFINE R == OpToRel(<, Nat)
<1>1. IsWellFoundedOn(R, Nat)
  BY NatLessThanWellFounded, Zenon
<1> HIDE DEF R
<1>2. PICK n \in T : \A m \in T : ~(<<m, n>> \in R)
  BY <1>1, WFMin
<1>3. ASSUME NEW m \in T PROVE n <= m
  <2>1. ~(<<m, n>> \in R)
    BY <1>2
  <2>2. ~(m < n)
    BY <2>1 DEF R, OpToRel
  <2>3. QED
    BY <2>2
<1>4. QED
  BY <1>3

-----------------------------------------------------------------------------
(***************************************************************************)
(* The revision is a finite sequence of operations.                        *)
(***************************************************************************)

\* FlattenSeq of a sequence of sequences is a sequence of their elements.  Its
\* recursive function exists: a least length without one has a predecessor.
LEMMA FlattenType ==
    ASSUME NEW S, NEW ss \in Seq(Seq(S))
    PROVE  FlattenSeq(ss) \in Seq(S)
<1> DEFINE Of(k, f) == f = [i \in 1..k |-> IF i = 1 THEN ss[i] ELSE f[i - 1] \o ss[i]]
           Bad == {k \in Nat : k <= Len(ss) /\ ~ \E f \in [1..k -> Seq(S)] : Of(k, f)}
<1>1. Len(ss) \in Nat /\ \A i \in 1..Len(ss) : ss[i] \in Seq(S)
  OBVIOUS
<1>b. Bad \subseteq Nat /\ \A k \in Bad : k <= Len(ss)
  OBVIOUS
<1> HIDE DEF Of
<1>c. /\ \A k \in Bad : ~ \E f \in [1..k -> Seq(S)] : Of(k, f)
      /\ \A k \in Nat : k <= Len(ss) /\ k \notin Bad => \E f \in [1..k -> Seq(S)] : Of(k, f)
  OBVIOUS
<1> HIDE DEF Bad
<1>2. Bad = {}
  <2> SUFFICES ASSUME Bad # {} PROVE FALSE
    OBVIOUS
  <2>1. PICK k \in Bad : \A m \in Bad : k <= m
    BY <1>b, LeastElement
  <2>2. k # 0
    <3>1. [i \in 1..0 |-> ss[i]] \in [1..0 -> Seq(S)] /\ Of(0, [i \in 1..0 |-> ss[i]])
      BY DEF Of
    <3>2. QED
      BY <1>c, <3>1, <2>1, Zenon
  <2>3. k - 1 \in Nat /\ k - 1 <= Len(ss) /\ k - 1 \notin Bad
    BY <1>b, <2>1, <2>2, <1>1
  <2>4. PICK f \in [1..(k - 1) -> Seq(S)] : Of(k - 1, f)
    BY <1>c, <2>3, Zenon
  <2> DEFINE g == [i \in 1..k |-> IF i = 1 THEN ss[i]
                                  ELSE IF i = k THEN f[k - 1] \o ss[i] ELSE f[i]]
  <2>5. k \in Nat /\ k >= 1 /\ k <= Len(ss)
    BY <1>b, <2>1, <2>2
  <2>6. g \in [1..k -> Seq(S)]
    <3>1. ASSUME NEW i \in 1..k
          PROVE  (IF i = 1 THEN ss[i]
                  ELSE IF i = k THEN f[k - 1] \o ss[i] ELSE f[i]) \in Seq(S)
      <4>1. ss[i] \in Seq(S)
        BY <1>1, <2>5
      <4>2. i # 1 => k - 1 \in 1..(k - 1) /\ f[k - 1] \in Seq(S)
        BY <2>4, <2>5
      <4>3. i # 1 => f[k - 1] \o ss[i] \in Seq(S)
        BY <4>1, <4>2, ConcatProperties
      <4>4. i # k => f[i] \in Seq(S)
        BY <2>4, <2>5
      <4>5. QED
        BY <4>1, <4>3, <4>4
    <3>2. QED
      BY <3>1
  <2>7. ASSUME NEW i \in 1..k
        PROVE  g[i] = IF i = 1 THEN ss[i] ELSE g[i - 1] \o ss[i]
    <3>1. CASE i = 1
      BY <3>1, <2>5
    <3>2. CASE i # 1 /\ i = k
      <4>1. i - 1 \in 1..k /\ i - 1 # k /\ i - 1 = k - 1 /\ k - 1 \in 1..(k - 1)
        BY <3>2, <2>5
      <4>2. g[i - 1] = f[k - 1]
        <5>1. f = [j \in 1..(k - 1) |-> IF j = 1 THEN ss[j] ELSE f[j - 1] \o ss[j]]
          BY <2>4 DEF Of
        <5>2. k - 1 = 1 => f[k - 1] = ss[1]
          BY <4>1, <5>1
        <5>3. QED
          BY <4>1, <5>2
      <4>3. QED
        BY <3>2, <4>1, <4>2
    <3>3. CASE i # 1 /\ i # k
      <4>1. i - 1 \in 1..(k - 1) /\ i \in 1..(k - 1) /\ i - 1 # k /\ i - 1 \in 1..k
        BY <3>3, <2>5
      <4>2. f = [j \in 1..(k - 1) |-> IF j = 1 THEN ss[j] ELSE f[j - 1] \o ss[j]]
        BY <2>4 DEF Of
      <4>3. g[i] = f[i] /\ f[i] = f[i - 1] \o ss[i]
        BY <3>3, <4>1, <4>2
      <4>4. g[i - 1] = f[i - 1]
        <5>1. i - 1 = 1 => f[i - 1] = ss[1]
          BY <4>1, <4>2
        <5>2. QED
          BY <4>1, <5>1
      <4>5. QED
        BY <3>3, <4>3, <4>4
    <3>4. QED
      BY <3>1, <3>2, <3>3
  <2> HIDE DEF g
  <2>8. Of(k, g)
    BY <2>6, <2>7 DEF Of
  <2>9. QED
    BY <1>c, <2>1, <2>6, <2>8, Zenon
<1>3. PICK f \in [1..Len(ss) -> Seq(S)] : Of(Len(ss), f)
  <2>1. Len(ss) <= Len(ss) /\ Len(ss) \notin Bad
    BY <1>1, <1>2
  <2>2. QED
    BY <1>c, <1>1, <2>1, Zenon
<1> DEFINE n == Len(ss)
           h == CHOOSE h : Of(n, h)
           Untyped == {i \in 1..n : h[i] \notin Seq(S)}
<1>4. h = [i \in 1..n |-> IF i = 1 THEN ss[i] ELSE h[i - 1] \o ss[i]]
  <2>1. Of(n, h)
    BY <1>3
  <2>2. QED
    BY <2>1 DEF Of
<1>5. ASSUME n # 0 PROVE FlattenSeq(ss) = h[n]
  BY <1>5 DEF FlattenSeq, Of
<1> HIDE DEF h
<1>6. Untyped = {}
  <2> SUFFICES ASSUME Untyped # {} PROVE FALSE
    OBVIOUS
  <2>1. PICK k \in Untyped : \A m \in Untyped : k <= m
    <3>1. Untyped \in SUBSET Nat
      BY <1>1
    <3> HIDE DEF Untyped
    <3>2. QED
      BY <3>1, LeastElement
  <2>2. k \in 1..n /\ ss[k] \in Seq(S) /\ h[k] = IF k = 1 THEN ss[k] ELSE h[k - 1] \o ss[k]
    BY <1>1, <1>4
  <2>3. CASE k = 1
    BY <2>2, <2>3
  <2>4. CASE k # 1
    <3>1. k - 1 \in 1..n /\ k - 1 \notin Untyped
      BY <1>1, <2>1, <2>2, <2>4
    <3>2. h[k - 1] \in Seq(S)
      BY <3>1
    <3>3. h[k - 1] \o ss[k] \in Seq(S)
      BY <2>2, <3>2, ConcatProperties
    <3>4. QED
      BY <2>1, <2>2, <2>4, <3>3
  <2>5. QED
    BY <2>3, <2>4
<1>7. CASE n = 0
  BY <1>7, <1>1 DEF FlattenSeq
<1>8. CASE n # 0
  BY <1>1, <1>5, <1>6, <1>8
<1> QED
  BY <1>7, <1>8

\* The operations of a table whose indexes form a sequence.
LEMMA TableOpsType ==
    ASSUME NEW t, NEW I, t.indexes \in Seq(I)
    PROVE  TableOps(t) \in Seq(Range(TableOps(t)))
<1> DEFINE O == {Created(t)} \cup {Indexed(t.name, i) : i \in I}
           first == <<Created(t)>>
           rest == [i \in DOMAIN t.indexes |-> Indexed(t.name, t.indexes[i])]
<1>1. DOMAIN t.indexes = 1..Len(t.indexes) /\ Len(t.indexes) \in Nat
  OBVIOUS
<1>2. first \in Seq(O)
  OBVIOUS
<1>3. \A i \in 1..Len(t.indexes) : Indexed(t.name, t.indexes[i]) \in O
  OBVIOUS
<1>4. rest \in Seq(O)
  BY <1>1, <1>3
<1>5. TableOps(t) \in Seq(O)
  <2>1. first \o rest \in Seq(O)
    BY <1>2, <1>4, ConcatProperties
  <2>2. QED
    BY <2>1 DEF TableOps
<1>6. QED
  BY <1>5, SeqOfRange

\* A table carries a sequence of indexes.
Sequenced(t) == \E I : t.indexes \in Seq(I)

\* Short tuples are sequences.
LEMMA Tuples ==
    /\ \E I : << >> \in Seq(I)
    /\ \A a : \E I : <<a>> \in Seq(I)
    /\ \A a, b : \E I : <<a, b>> \in Seq(I)
    /\ \A a, b, c : \E I : <<a, b, c>> \in Seq(I)
    /\ \A a, b, c, d : \E I : <<a, b, c, d>> \in Seq(I)
<1>1. \A I : << >> \in Seq(I)
  OBVIOUS
<1>2. \A a : <<a>> \in Seq({a})
  OBVIOUS
<1>3. \A a, b : <<a, b>> \in Seq({a, b})
  OBVIOUS
<1>4. \A a, b, c : <<a, b, c>> \in Seq({a, b, c})
  OBVIOUS
<1>5. \A a, b, c, d : <<a, b, c, d>> \in Seq({a, b, c, d})
  OBVIOUS
<1>6. QED
  BY <1>1, <1>2, <1>3, <1>4, <1>5, Zenon

\* The operations that revision 0001 is made of.
Revision ==
    {create_acl_entries, create_agent_bindings, create_audit_log, create_conflict_records,
        create_devices, create_fact_provenance, create_grants, create_memory_provenance,
        create_namespaces, create_orgs, create_principals, create_private_sync_log,
        create_provenance_ledger, create_session_participants, create_sessions,
        create_trust_ledger_entries, create_usage_event, create_usage_outbox,
        create_usage_rollup, create_workspace_memberships, create_workspaces}

\* Every operation of the revision carries a sequence of indexes.
LEMMA RevisionSequenced == \A t \in Revision : Sequenced(t)
<1>1. Sequenced(create_acl_entries)
  BY Tuples DEF create_acl_entries, Table, Sequenced
<1>2. Sequenced(create_agent_bindings)
  BY Tuples DEF create_agent_bindings, Table, Sequenced
<1>3. Sequenced(create_audit_log)
  BY Tuples DEF create_audit_log, Table, Sequenced
<1>4. Sequenced(create_conflict_records)
  BY Tuples DEF create_conflict_records, Table, Sequenced
<1>5. Sequenced(create_devices)
  BY Tuples DEF create_devices, Table, Sequenced
<1>6. Sequenced(create_fact_provenance)
  BY Tuples DEF create_fact_provenance, Table, Sequenced
<1>7. Sequenced(create_grants)
  BY Tuples DEF create_grants, Table, Sequenced
<1>8. Sequenced(create_memory_provenance)
  BY Tuples DEF create_memory_provenance, Table, Sequenced
<1>9. Sequenced(create_namespaces)
  BY Tuples DEF create_namespaces, Table, Sequenced
<1>10. Sequenced(create_orgs)
  BY Tuples DEF create_orgs, Table, Sequenced
<1>11. Sequenced(create_principals)
  BY Tuples DEF create_principals, Table, Sequenced
<1>12. Sequenced(create_private_sync_log)
  BY Tuples DEF create_private_sync_log, Table, Sequenced
<1>13. Sequenced(create_provenance_ledger)
  BY Tuples DEF create_provenance_ledger, Table, Sequenced
<1>14. Sequenced(create_session_participants)
  BY Tuples DEF create_session_participants, Table, Sequenced
<1>15. Sequenced(create_sessions)
  BY Tuples DEF create_sessions, Table, Sequenced
<1>16. Sequenced(create_trust_ledger_entries)
  BY Tuples DEF create_trust_ledger_entries, Table, Sequenced
<1>17. Sequenced(create_usage_event)
  BY Tuples DEF create_usage_event, Table, Sequenced
<1>18. Sequenced(create_usage_outbox)
  BY Tuples DEF create_usage_outbox, Table, Sequenced
<1>19. Sequenced(create_usage_rollup)
  BY Tuples DEF create_usage_rollup, Table, Sequenced
<1>20. Sequenced(create_workspace_memberships)
  BY Tuples DEF create_workspace_memberships, Table, Sequenced
<1>21. Sequenced(create_workspaces)
  BY Tuples DEF create_workspaces, Table, Sequenced
<1> QED
  BY <1>1, <1>2, <1>3, <1>4, <1>5, <1>6, <1>7, <1>8, <1>9, <1>10, <1>11, <1>12, <1>13, <1>14,
      <1>15, <1>16, <1>17, <1>18, <1>19, <1>20, <1>21 DEF Revision

\* The revision is a sequence of its operations.
LEMMA MigrationType == Migration \in Seq(Revision)
BY DEF Migration, Revision

\* upgrade() is a finite sequence of operations.
LEMMA UpgradeType == Len(upgrade) \in Nat
<1> DEFINE n == Len(Migration)
           ops == [i \in DOMAIN Migration |-> TableOps(Migration[i])]
           O == UNION {Range(TableOps(Migration[i])) : i \in 1..n}
<1>1. n \in Nat /\ DOMAIN Migration = 1..n /\ \A i \in 1..n : Migration[i] \in Revision
  BY MigrationType
<1>2. ASSUME NEW i \in 1..n PROVE TableOps(Migration[i]) \in Seq(O)
  <2>1. TableOps(Migration[i]) \in Seq(Range(TableOps(Migration[i])))
    BY <1>1, RevisionSequenced, TableOpsType DEF Sequenced
  <2>2. Range(TableOps(Migration[i])) \subseteq O
    OBVIOUS
  <2>3. QED
    BY <2>1, <2>2, SeqMonotonic
<1> HIDE DEF O
<1>3. ops \in Seq(Seq(O))
  BY <1>1, <1>2
<1>4. FlattenSeq(ops) \in Seq(O)
  BY <1>3, FlattenType
<1>5. QED
  BY <1>4 DEF upgrade

-----------------------------------------------------------------------------
(***************************************************************************)
(* Migrations.                                                             *)
(***************************************************************************)

\* Nothing has been left behind by a revision that died half-way.
Clean == Transactional(dialect) \/ crashes = 0

\* How far the revision has come: all or nothing when no migration is under
\* way, as far as it says when one is.
MigrationInv ==
    /\ stamped \in BOOLEAN /\ migrating \in {"no", "up", "down"}
    /\ crashes \in Nat /\ pos \in Nat
    /\ Clean /\ migrating = "no" => built = IF stamped THEN Len(upgrade) ELSE 0
    /\ Clean /\ migrating = "up" => ~stamped /\ built = pos
    /\ Clean /\ migrating = "down" => stamped /\ built = Len(upgrade) - pos

\* An empty database has come nowhere.
LEMMA MigrationInit == Init => MigrationInv
<1> SUFFICES ASSUME Init PROVE MigrationInv
  OBVIOUS
<1>1. ~stamped /\ stamped \in BOOLEAN /\ migrating = "no" /\ built = 0 /\ pos = 0 /\ crashes = 0
  BY DEF Init
<1>2. QED
  BY <1>1 DEF MigrationInv

\* Every step of every actor keeps what the migration has reached.
LEMMA MigrationKeeps == MigrationInv /\ [Next]_vars => MigrationInv'
<1> SUFFICES ASSUME MigrationInv, [Next]_vars PROVE MigrationInv'
  OBVIOUS
<1> USE UpgradeType DEF MigrationInv, Clean
<1>1. CASE BeginUpgrade
  BY <1>1 DEF BeginUpgrade, Idle
<1>2. CASE BeginDowngrade
  BY <1>2 DEF BeginDowngrade, Idle
<1>3. CASE MigrationStep
  <2>1. CASE migrating = "up"
    BY <1>3, <2>1 DEF MigrationStep, Idle
  <2>2. CASE migrating = "down"
    BY <1>3, <2>2 DEF MigrationStep, Idle
  <2>3. QED
    BY <1>3, <2>1, <2>2 DEF MigrationStep, Idle
<1>4. CASE MigrationEnds
  <2>1. /\ stamped' \in BOOLEAN /\ (stamped' <=> migrating = "up")
        /\ migrating' = "no" /\ pos = Len(upgrade) /\ migrating \in {"up", "down"}
        /\ pos' = 0 /\ built' = built /\ crashes' = crashes /\ dialect' = dialect
    BY <1>4 DEF MigrationEnds, Idle
  <2>2. QED
    BY <2>1
<1>5. CASE MigrationCrash
  BY <1>5 DEF MigrationCrash, Idle, Undone
<1>6. CASE UNCHANGED <<dialect, migrationVars>>
  BY <1>6 DEF migrationVars
<1>7. ~Migrate => UNCHANGED <<dialect, migrationVars>>
  BY DEF Next, vars, SyncBegin, SyncExecute, SyncCommit, SyncAttemptFails, record, RecordNoLoop,
         Drain, DrainGet, DrainExecute, DrainCommit, DrainAttemptFails, DrainCancelled,
         AcloseBegin, Aclose, AcloseCancel, AcloseEnd
<1>8. QED
  BY <1>1, <1>2, <1>3, <1>4, <1>5, <1>6, <1>7 DEF Migrate

\* A database that carries the version row has every operation of the revision
\* and on Postgres one that does not has none, through any sequence of upgrades,
\* downgrades and crashes between their operations; that the operations are the
\* metadata's is a fact about constants, which TLC evaluates.
THEOREM StampedIsComplete == RevisionIsMetadata => (Spec => []StampedMatchesMetadata)
<1> SUFFICES ASSUME RevisionIsMetadata PROVE Spec => []StampedMatchesMetadata
  OBVIOUS
<1>1. MigrationInv => StampedMatchesMetadata
  BY DEF MigrationInv, StampedMatchesMetadata, Clean, Idle
<1> QED
  BY MigrationInit, MigrationKeeps, <1>1, PTL DEF Spec

-----------------------------------------------------------------------------
(***************************************************************************)
(* The provenance mirror.                                                  *)
(***************************************************************************)
\* A mirror holds rows as the mapping of the item makes them,
Rows(p) == \A r \in p : r = Row(r)

\* no two of which clash on a unique key,
OneRowEach(p) == \A r, s \in p : r # s => ~Clash(r, s)

\* and one of which may carry a given grain.
HasGrain(p, g) == \E r \in p : r.grain = g

\* What an upsert that does not raise leaves: rows that do not clash, every
\* grain that was there and, but on MySQL, the grain of the item.
LEMMA UpsertMirrors ==
    ASSUME NEW d, NEW p, NEW item, NEW q \in Upsert(d, p, item), Rows(p), OneRowEach(p)
    PROVE  /\ Rows(q) /\ OneRowEach(q)
           /\ \A g : HasGrain(p, g) => HasGrain(q, g)
           /\ d # "mysql" => HasGrain(q, item.grain)
<1> DEFINE same == {r \in p : r.grain = item.grain}
           hit == IF d = "mysql" THEN same \cup {r \in p : r.id = item.id} ELSE same
<1>1. CASE hit # {}
  <2>1. PICK r \in hit : q = (p \ {r}) \cup {[r EXCEPT !.state = item.state]}
    BY <1>1 DEF Upsert
  <2> DEFINE r1 == [r EXCEPT !.state = item.state]
  <2>2. r \in p /\ r1.id = r.id /\ r1.grain = r.grain /\ r1 = Row(r1)
    BY <2>1 DEF Rows, Row
  <2> HIDE DEF r1
  <2>3. Rows(q)
    BY <2>1, <2>2 DEF Rows, r1
  <2>4. OneRowEach(q)
    <3>1. \A x \in p \ {r} : ~Clash(x, r) /\ ~Clash(r, x)
      BY <2>2 DEF OneRowEach
    <3>2. \A x \in p \ {r} : ~Clash(x, r1) /\ ~Clash(r1, x)
      BY <2>2, <3>1 DEF Clash
    <3>3. q = (p \ {r}) \cup {r1}
      BY <2>1 DEF r1
    <3>4. QED
      BY <3>2, <3>3 DEF OneRowEach
  <2>5. \A g : HasGrain(p, g) => HasGrain(q, g)
    BY <2>1, <2>2 DEF HasGrain, r1
  <2>6. d # "mysql" => r.grain = item.grain
    BY <2>1
  <2>7. d # "mysql" => HasGrain(q, item.grain)
    BY <2>2, <2>5, <2>6 DEF HasGrain
  <2>8. QED
    BY <2>3, <2>4, <2>5, <2>7
<1>2. CASE hit = {}
  <2>1. q = p \cup {Row(item)} /\ \A r \in p : r.id # item.id
    BY <1>2 DEF Upsert
  <2>2. \A r \in p : r.grain # item.grain
    BY <1>2
  <2>3. Row(item).id = item.id /\ Row(item).grain = item.grain /\ Row(item) = Row(Row(item))
    BY DEF Row
  <2>4. Rows(q)
    BY <2>1, <2>3 DEF Rows
  <2>5. OneRowEach(q)
    BY <2>1, <2>2, <2>3 DEF OneRowEach, Clash
  <2>6. QED
    BY <2>1, <2>3, <2>4, <2>5 DEF HasGrain
<1>3. QED
  BY <1>1, <1>2

\* A returned sync has its grain in the mirror.
Mirrored(s, p) == s.phase = "done" => HasGrain(p, s.item.grain)

\* The mirror is clean, and each sync that returned is in it.
MirrorInv ==
    /\ Rows(prov) /\ OneRowEach(prov)
    /\ DOMAIN sync = Worker
    /\ \A w \in Worker : DOMAIN sync[w] = {"phase", "item", "attempt"}
    /\ dialect # "mysql" => \A w \in Worker : Mirrored(sync[w], prov)

\* The mirror starts empty.
LEMMA MirrorInit == Init => MirrorInv
BY DEF Init, MirrorInv, Rows, OneRowEach, Mirrored, NoSync

\* A step that changes the call of one worker and keeps the grains.
LEMMA OneWorkerMoves ==
    ASSUME MirrorInv, NEW w \in Worker, NEW c,
           sync' = [sync EXCEPT ![w] = c], DOMAIN c = {"phase", "item", "attempt"},
           dialect' = dialect, Rows(prov'), OneRowEach(prov'),
           \A g : HasGrain(prov, g) => HasGrain(prov', g),
           dialect # "mysql" => Mirrored(c, prov')
    PROVE  MirrorInv'
BY DEF MirrorInv, Mirrored

\* Every attempt of every worker keeps the mirror.
LEMMA MirrorKeeps == MirrorInv /\ [Next]_vars => MirrorInv'
<1> SUFFICES ASSUME MirrorInv, [Next]_vars PROVE MirrorInv'
  OBVIOUS
<1>1. ASSUME NEW w \in Worker, SyncBegin(w) PROVE MirrorInv'
  <2>1. PICK item \in Item :
          sync' = [sync EXCEPT ![w] = [phase |-> "begin", item |-> item, attempt |-> 1]]
    BY <1>1 DEF SyncBegin
  <2>2. prov' = prov /\ dialect' = dialect
    BY <1>1 DEF SyncBegin
  <2>3. QED
    BY <2>1, <2>2, OneWorkerMoves DEF Mirrored, MirrorInv
<1>2. ASSUME NEW w \in Worker, SyncExecute(w) PROVE MirrorInv'
  <2> DEFINE next == IF Upsert(dialect, prov, sync[w].item) = {} THEN "raised" ELSE "committing"
             c == [sync[w] EXCEPT !.phase = next]
  <2>1. sync' = [sync EXCEPT ![w] = c] /\ prov' = prov /\ dialect' = dialect
    BY <1>2 DEF SyncExecute, MirrorInv
  <2>2. DOMAIN c = {"phase", "item", "attempt"} /\ c.phase # "done"
    BY DEF MirrorInv
  <2> HIDE DEF c
  <2>3. QED
    BY <2>1, <2>2, OneWorkerMoves DEF Mirrored, MirrorInv
<1>3. ASSUME NEW w \in Worker, SyncCommit(w) PROVE MirrorInv'
  <2> DEFINE c == [sync[w] EXCEPT !.phase = "done"]
  <2>1. sync' = [sync EXCEPT ![w] = c] /\ dialect' = dialect
    BY <1>3 DEF SyncCommit, MirrorInv
  <2>2. DOMAIN c = {"phase", "item", "attempt"} /\ c.item = sync[w].item
    BY DEF MirrorInv
  <2> HIDE DEF c
  <2>3. prov' \in Upsert(dialect, prov, sync[w].item)
    BY <1>3 DEF SyncCommit
  <2>4. /\ Rows(prov') /\ OneRowEach(prov')
        /\ \A g : HasGrain(prov, g) => HasGrain(prov', g)
        /\ dialect # "mysql" => HasGrain(prov', c.item.grain)
    BY <2>2, <2>3, UpsertMirrors DEF MirrorInv
  <2>5. QED
    BY <2>1, <2>2, <2>4, OneWorkerMoves DEF Mirrored
<1>4. ASSUME NEW w \in Worker, SyncAttemptFails(w) PROVE MirrorInv'
  <2> DEFINE next == IF sync[w].attempt < MaxAttempts THEN "begin" ELSE "raised"
             c == [sync[w] EXCEPT !.phase = next,
                                  !.attempt = IF @ < MaxAttempts THEN @ + 1 ELSE @]
  <2>1. sync' = [sync EXCEPT ![w] = c] /\ dialect' = dialect
    BY <1>4 DEF SyncAttemptFails, MirrorInv
  <2>2. DOMAIN c = {"phase", "item", "attempt"} /\ c.phase # "done"
    BY DEF MirrorInv
  <2> HIDE DEF c
  <2>3. prov' = prov \/ prov' \in Upsert(dialect, prov, sync[w].item)
    BY <1>4 DEF SyncAttemptFails
  <2>4. /\ Rows(prov') /\ OneRowEach(prov')
        /\ \A g : HasGrain(prov, g) => HasGrain(prov', g)
    <3>1. CASE prov' = prov
      BY <3>1 DEF MirrorInv
    <3>2. CASE prov' \in Upsert(dialect, prov, sync[w].item)
      BY <3>2, UpsertMirrors DEF MirrorInv
    <3>3. QED
      BY <2>3, <3>1, <3>2
  <2>5. QED
    BY <2>1, <2>2, <2>4, OneWorkerMoves DEF Mirrored
<1>5. CASE UNCHANGED <<dialect, prov, sync>>
  BY <1>5 DEF MirrorInv
<1>6. (\A w \in Worker : ~(SyncBegin(w) \/ SyncExecute(w) \/ SyncCommit(w) \/ SyncAttemptFails(w)))
        => UNCHANGED <<dialect, prov, sync>>
  BY DEF Next, vars, syncVars, Migrate, BeginUpgrade, BeginDowngrade, MigrationStep, MigrationEnds,
         MigrationCrash, record, RecordNoLoop, Drain, DrainGet, DrainExecute, DrainCommit,
         DrainAttemptFails, DrainCancelled, AcloseBegin, Aclose, AcloseCancel, AcloseEnd
<1>7. QED
  BY <1>1, <1>2, <1>3, <1>4, <1>5, <1>6

\* sync_provenance is idempotent over lost commits, retries and concurrent
\* workers: no grain and no memory id is mirrored twice, and what returned is
\* there.
THEOREM SyncIsMirrored == Spec => []ReturnedIsMirrored
<1>1. MirrorInv => ReturnedIsMirrored
  BY DEF MirrorInv, ReturnedIsMirrored, OneRowEach, Mirrored, HasGrain
<1>2. QED
  BY MirrorInit, MirrorKeeps, <1>1, PTL DEF Spec

-----------------------------------------------------------------------------
(***************************************************************************)
(* The durable audit recorder.                                             *)
(***************************************************************************)
\* The record that the drain task is writing.
InHand == IF Busy THEN {current.record} ELSE {}

\* The records that the recorder is done with.
Settled == Range(audit) \cup marked \cup dropped

\* The types of what the recorder keeps.
RecorderType ==
    /\ recorded \in Nat /\ queue \in Seq(Nat) /\ audit \in Seq(Nat)
    /\ current \in [record : Nat, attempt : Nat]
    /\ drain \in {"none", "waiting", "appending", "committing", "done"}
    /\ closing \in {"open", "joining", "resuming", "stopping", "closed"}
    /\ unknown \in Nat /\ IsFiniteSet(Range(audit))

\* No element of s is beyond n.
Below(s, n) == \A i \in DOMAIN s : s[i] <= n

\* Every element of s is beyond n.
Ahead(n, s) == \A i \in DOMAIN s : n < s[i]

\* Records are numbered in the order of recording: those in the log are not
\* after the one in hand, and that one is before those in the queue.
InTurn ==
    /\ \A i, j \in DOMAIN queue : i < j => queue[i] < queue[j]
    /\ \A i, j \in DOMAIN audit : i <= j => audit[i] <= audit[j]
    /\ Below(queue, recorded) /\ Below(audit, recorded)
    /\ \A k \in DOMAIN audit : Ahead(audit[k], queue)
    /\ Busy => /\ current.record <= recorded /\ Ahead(current.record, queue)
               /\ Below(audit, current.record)

\* A row of the record in hand was written by an attempt whose fate is unknown;
\* the next one may write another.
Counted ==
    /\ Len(audit) <= Cardinality(Range(audit)) + unknown
    /\ Busy /\ current.record \in Range(audit) =>
           Len(audit) + 1 <= Cardinality(Range(audit)) + unknown

\* The records of before aclose are still held or settled, and once the joiner
\* was woken they are settled.
Flushing ==
    /\ unfinished = Len(queue) + (IF Busy THEN 1 ELSE 0)
    /\ drain = "none" => queue = << >>
    /\ closing = "joining" => due \subseteq Range(queue) \cup InHand \cup Settled
    /\ closing \in {"resuming", "stopping", "closed"} => due \subseteq Settled

\* The invariant of the audit recorder.
RecorderInv == RecorderType /\ InTurn /\ Counted /\ Flushing

\* The recorder starts with nothing recorded.
LEMMA RecorderInit == Init => RecorderInv
<1> SUFFICES ASSUME Init PROVE RecorderInv
  OBVIOUS
<1>1. /\ recorded = 0 /\ queue = << >> /\ unfinished = 0 /\ drain = "none" /\ audit = << >>
      /\ current = [record |-> 0, attempt |-> 0] /\ closing = "open" /\ unknown = 0
  BY DEF Init
<1>2. Range(audit) = {} /\ Len(audit) = 0 /\ ~Busy
  BY <1>1 DEF Range, Busy
<1>3. RecorderType
  BY <1>1, <1>2, FS_EmptySet DEF RecorderType
<1>4. InTurn
  BY <1>1, <1>2 DEF InTurn, Below, Ahead
<1>5. Counted
  BY <1>1, <1>2, FS_EmptySet DEF Counted
<1>6. Flushing
  BY <1>1, <1>2 DEF Flushing
<1>7. QED
  BY <1>3, <1>4, <1>5, <1>6 DEF RecorderInv

\* The record in hand becomes a row of the log.
LEMMA RowAppended ==
    ASSUME RecorderInv, Busy, audit' = Append(audit, current.record)
    PROVE  /\ audit' \in Seq(Nat) /\ Len(audit') = Len(audit) + 1
           /\ Range(audit') = Range(audit) \cup {current.record} /\ IsFiniteSet(Range(audit'))
           /\ Cardinality(Range(audit')) =
                IF current.record \in Range(audit) THEN Cardinality(Range(audit))
                ELSE Cardinality(Range(audit)) + 1
           /\ \A i, j \in DOMAIN audit' : i <= j => audit'[i] <= audit'[j]
           /\ Below(audit', recorded) /\ Below(audit', current.record)
           /\ \A k \in DOMAIN audit' : Ahead(audit'[k], queue)
<1> DEFINE r == current.record
<1>1. audit \in Seq(Nat) /\ r \in Nat /\ IsFiniteSet(Range(audit)) /\ recorded \in Nat
  BY DEF RecorderInv, RecorderType
<1>2. /\ audit' \in Seq(Nat) /\ Len(audit') = Len(audit) + 1 /\ DOMAIN audit' = 1..(Len(audit) + 1)
      /\ \A i \in 1..Len(audit) : audit'[i] = audit[i]
      /\ audit'[Len(audit) + 1] = r /\ DOMAIN audit = 1..Len(audit) /\ Len(audit) \in Nat
  BY <1>1
<1>3. Range(audit') = Range(audit) \cup {r}
  BY <1>2 DEF Range
<1>4. /\ Below(audit, r) /\ r <= recorded /\ Ahead(r, queue)
      /\ \A i, j \in DOMAIN audit : i <= j => audit[i] <= audit[j]
      /\ \A k \in DOMAIN audit : Ahead(audit[k], queue)
  BY DEF RecorderInv, InTurn
<1>5. \A k \in DOMAIN audit' : audit'[k] \in Nat /\ audit'[k] <= r
  BY <1>1, <1>2, <1>4 DEF Below
<1>6. \A i, j \in DOMAIN audit' : i <= j => audit'[i] <= audit'[j]
  BY <1>2, <1>4, <1>5
<1>7. \A k \in DOMAIN audit' : Ahead(audit'[k], queue)
  BY <1>2, <1>4
<1>8. /\ IsFiniteSet(Range(audit'))
      /\ Cardinality(Range(audit')) = IF r \in Range(audit) THEN Cardinality(Range(audit))
                                      ELSE Cardinality(Range(audit)) + 1
  BY <1>1, <1>3, FS_AddElement
<1>9. Below(audit', recorded) /\ Below(audit', r)
  BY <1>1, <1>4, <1>5 DEF Below
<1>10. QED
  BY <1>2, <1>3, <1>6, <1>7, <1>8, <1>9

\* The log after an attempt, whether its COMMIT got through or not.
LEMMA LogAfter ==
    ASSUME RecorderInv, Busy, RowOrNot
    PROVE  /\ audit' \in Seq(Nat) /\ IsFiniteSet(Range(audit'))
           /\ Range(audit) \subseteq Range(audit')
           /\ \A i, j \in DOMAIN audit' : i <= j => audit'[i] <= audit'[j]
           /\ Below(audit', recorded) /\ Below(audit', current.record)
           /\ \A k \in DOMAIN audit' : Ahead(audit'[k], queue)
           /\ Len(audit') <= Cardinality(Range(audit')) + unknown
<1>1. /\ audit \in Seq(Nat) /\ Len(audit) \in Nat /\ Cardinality(Range(audit)) \in Nat
      /\ unknown \in Nat
  BY FS_CardinalityType DEF RecorderInv, RecorderType
<1>2. CASE audit' = audit
  BY <1>2 DEF RecorderInv, RecorderType, InTurn, Counted
<1>3. CASE audit' = Append(audit, current.record)
  <2>1. Len(audit') <= Cardinality(Range(audit')) + unknown
    BY <1>1, <1>3, RowAppended DEF RecorderInv, Counted
  <2>2. QED
    BY <1>3, <2>1, RowAppended
<1>4. QED
  BY <1>2, <1>3 DEF RowOrNot

\* A step that leaves the recorder alone, whatever else it counts as unknown.
LEMMA RecorderFrame ==
    ASSUME RecorderInv, UNCHANGED auditVars, unknown' \in Nat, unknown' >= unknown
    PROVE  RecorderInv'
<1>1. /\ recorded' = recorded /\ queue' = queue /\ unfinished' = unfinished /\ drain' = drain
      /\ current' = current /\ audit' = audit /\ marked' = marked /\ dropped' = dropped
      /\ closing' = closing /\ due' = due
  BY DEF auditVars
<1>2. Len(audit) \in Nat /\ Cardinality(Range(audit)) \in Nat /\ unknown \in Nat
  BY FS_CardinalityType DEF RecorderInv, RecorderType
<1>3. (Busy' <=> Busy) /\ Settled' = Settled /\ InHand' = InHand
  BY <1>1 DEF Busy, Settled, InHand
<1>4. RecorderType' /\ InTurn' /\ Flushing'
  BY <1>1, <1>3 DEF RecorderInv, RecorderType, InTurn, Below, Ahead, Flushing
<1>5. Counted'
  BY <1>1, <1>2, <1>3 DEF RecorderInv, Counted
<1>6. QED
  BY <1>4, <1>5 DEF RecorderInv

\* record(): the newest record goes to the end of the queue.
LEMMA RecordStep == RecorderInv /\ record => RecorderInv'
<1> SUFFICES ASSUME RecorderInv, record PROVE RecorderInv'
  OBVIOUS
<1>t. /\ recorded \in Nat /\ queue \in Seq(Nat) /\ Len(queue) \in Nat
      /\ DOMAIN queue = 1..Len(queue)
      /\ audit \in Seq(Nat) /\ current.record \in Nat
      /\ \A i \in DOMAIN queue : queue[i] \in Nat
      /\ \A k \in DOMAIN audit : audit[k] \in Nat
  BY DEF RecorderInv, RecorderType
<1>1. /\ recorded' = recorded + 1 /\ drain' = (IF Alive THEN drain ELSE "waiting")
      /\ current' = current /\ audit' = audit /\ marked' = marked /\ dropped' = dropped
      /\ closing' = closing /\ due' = due /\ unknown' = unknown
  BY DEF record
<1>2. (Busy' <=> Busy) /\ Settled' = Settled /\ InHand' = InHand
  BY <1>1 DEF Busy, Alive, Settled, InHand
<1>3. \/ queue' = queue /\ unfinished' = unfinished
      \/ queue' = Append(queue, recorded + 1) /\ unfinished' = unfinished + 1
  BY <1>1 DEF record
<1>4. queue' \in Seq(Nat) /\ Len(queue') \in Nat /\ DOMAIN queue' = 1..Len(queue')
  <2>1. CASE queue' = queue
    BY <1>t, <2>1
  <2>2. CASE queue' = Append(queue, recorded + 1)
    BY <1>t, <2>2
  <2>3. QED
    BY <1>3, <2>1, <2>2
<1>n. /\ recorded \in Nat /\ Len(queue) \in Nat
      /\ \A i \in DOMAIN queue : i \in Nat /\ i <= Len(queue) /\ queue[i] \in Nat
      /\ \A i \in DOMAIN queue' : \/ i \in DOMAIN queue /\ queue'[i] = queue[i]
                                  \/ i = Len(queue) + 1 /\ queue'[i] = recorded + 1
  <2>1. CASE queue' = queue
    BY <1>t, <2>1
  <2>2. CASE queue' = Append(queue, recorded + 1)
    BY <1>t, <2>2
  <2>3. QED
    BY <1>3, <2>1, <2>2
<1>r. Range(queue) \subseteq Range(queue')
  <2>1. \A i \in DOMAIN queue : i \in DOMAIN queue' /\ queue'[i] = queue[i]
    BY <1>t, <1>3
  <2>2. QED
    BY <2>1 DEF Range
<1>5. RecorderType'
  <2>1. drain' \in {"none", "waiting", "appending", "committing", "done"}
    BY <1>1 DEF RecorderInv, RecorderType
  <2>2. QED
    BY <1>n, <1>1, <1>4, <2>1 DEF RecorderInv, RecorderType
<1>6. InTurn'
  <2>1. Below(queue', recorded') /\ Below(audit', recorded')
    <3>1. Below(queue, recorded) /\ Below(audit, recorded)
      BY DEF RecorderInv, InTurn
    <3>2. \A k \in DOMAIN audit : audit[k] <= recorded + 1
      BY <1>t, <3>1 DEF Below
    <3>3. \A i \in DOMAIN queue' : queue'[i] <= recorded + 1
      BY <1>n, <3>1 DEF Below
    <3>4. QED
      BY <1>1, <3>2, <3>3 DEF Below
  <2>2. \A i, j \in DOMAIN queue' : i < j => queue'[i] < queue'[j]
    <3>1. /\ \A i, j \in DOMAIN queue : i < j => queue[i] < queue[j]
          /\ \A i \in DOMAIN queue : queue[i] < recorded + 1
      BY <1>n DEF RecorderInv, InTurn, Below
    <3>2. QED
      BY <1>n, <3>1
  <2>3. \A n \in Nat : n <= recorded /\ Ahead(n, queue) => Ahead(n, queue')
    BY <1>n DEF Ahead
  <2>4. \A k \in DOMAIN audit : audit[k] \in Nat /\ audit[k] <= recorded /\ Ahead(audit[k], queue)
    BY <1>t DEF RecorderInv, InTurn, Below
  <2>5. \A k \in DOMAIN audit' : Ahead(audit'[k], queue')
    BY <1>1, <2>3, <2>4
  <2>6. Busy' => current'.record <= recorded' /\ Ahead(current'.record, queue') /\ Below(audit', current'.record)
    BY <1>t, <1>1, <1>2, <2>3 DEF RecorderInv, InTurn
  <2>7. QED
    BY <1>1, <2>1, <2>2, <2>5, <2>6 DEF RecorderInv, InTurn
<1>7. Counted'
  BY <1>1, <1>2 DEF RecorderInv, Counted
<1>8. Flushing'
  <2>1. unfinished' = Len(queue') + (IF Busy' THEN 1 ELSE 0)
    <3>1. unfinished = Len(queue) + (IF Busy THEN 1 ELSE 0)
      BY DEF RecorderInv, Flushing
    <3>2. CASE queue' = queue /\ unfinished' = unfinished
      BY <1>2, <3>1, <3>2
    <3>3. CASE queue' = Append(queue, recorded + 1) /\ unfinished' = unfinished + 1
      <4>1. Len(queue') = Len(queue) + 1
        BY <1>t, <3>3
      <4>2. QED
        BY <1>n, <1>2, <3>1, <3>3, <4>1
    <3>4. QED
      BY <1>3, <3>2, <3>3
  <2>2. drain' # "none"
    BY <1>1 DEF Alive, Busy
  <2>3. QED
    BY <1>1, <1>2, <1>r, <2>1, <2>2 DEF RecorderInv, Flushing
<1>9. QED
  BY <1>5, <1>6, <1>7, <1>8 DEF RecorderInv

\* _drain takes the head of the queue in hand.
LEMMA DrainGetStep == RecorderInv /\ DrainGet => RecorderInv'
<1> SUFFICES ASSUME RecorderInv, DrainGet PROVE RecorderInv'
  OBVIOUS
<1>1. /\ drain = "waiting" /\ queue # << >> /\ drain' = "appending" /\ queue' = Tail(queue)
      /\ current' = [record |-> Head(queue), attempt |-> 1]
      /\ recorded' = recorded /\ unfinished' = unfinished /\ audit' = audit /\ marked' = marked
      /\ dropped' = dropped /\ closing' = closing /\ due' = due /\ unknown' = unknown
  BY DEF DrainGet
<1>2. ~Busy /\ Busy' /\ current'.record = Head(queue)
  BY <1>1 DEF Busy
<1>3. /\ queue \in Seq(Nat) /\ audit \in Seq(Nat) /\ recorded \in Nat
  BY DEF RecorderInv, RecorderType
<1>4. /\ Len(queue) \in Nat /\ Len(queue) >= 1 /\ Head(queue) = queue[1] /\ Head(queue) \in Nat
      /\ queue' \in Seq(Nat) /\ Len(queue') = Len(queue) - 1
      /\ DOMAIN queue = 1..Len(queue) /\ DOMAIN queue' = 1..(Len(queue) - 1)
      /\ \A i \in 1..(Len(queue) - 1) : queue'[i] = queue[i + 1]
  BY <1>1, <1>3
<1>5. /\ 1 \in DOMAIN queue
      /\ \A i \in DOMAIN queue' : i \in Nat /\ i >= 1 /\ i + 1 \in DOMAIN queue /\ queue'[i] = queue[i + 1]
      /\ \A i \in DOMAIN queue : queue[i] \in Nat
      /\ \A k \in DOMAIN audit : audit[k] \in Nat
  <2>1. \A i \in 1..(Len(queue) - 1) : i \in Nat /\ i >= 1 /\ i + 1 \in 1..Len(queue)
    BY <1>4
  <2>2. (\A i \in DOMAIN queue : queue[i] \in Nat) /\ (\A k \in DOMAIN audit : audit[k] \in Nat)
    BY <1>3
  <2>3. 1 \in DOMAIN queue
    BY <1>4
  <2>4. \A i \in DOMAIN queue' : i \in Nat /\ i >= 1 /\ i + 1 \in DOMAIN queue /\ queue'[i] = queue[i + 1]
    BY <1>4, <2>1
  <2>5. QED
    BY <2>2, <2>3, <2>4
<1>6. RecorderType'
  BY <1>1, <1>4 DEF RecorderInv, RecorderType
<1>7. InTurn'
  <2>1. /\ \A i, j \in DOMAIN queue : i < j => queue[i] < queue[j]
        /\ Below(queue, recorded) /\ Below(audit, recorded)
        /\ \A k \in DOMAIN audit : Ahead(audit[k], queue)
        /\ \A i, j \in DOMAIN audit : i <= j => audit[i] <= audit[j]
    BY DEF RecorderInv, InTurn
  <2>2. \A i, j \in DOMAIN queue' : i < j => queue'[i] < queue'[j]
    BY <1>5, <2>1
  <2>3. Below(queue', recorded)
    BY <1>5, <2>1 DEF Below
  <2>4. \A n : Ahead(n, queue) => Ahead(n, queue')
    BY <1>5 DEF Ahead
  <2>5. Ahead(queue[1], queue')
    BY <1>5, <2>1 DEF Ahead
  <2>6. Below(audit, queue[1])
    BY <1>5, <2>1 DEF Below, Ahead
  <2>7. queue[1] <= recorded
    BY <1>5, <2>1 DEF Below
  <2>8. QED
    BY <1>1, <1>2, <1>4, <2>1, <2>2, <2>3, <2>4, <2>5, <2>6, <2>7 DEF InTurn
<1>8. Counted'
  <2>1. current'.record \notin Range(audit)
    BY <1>2, <1>4, <1>5 DEF Range, RecorderInv, InTurn, Ahead
  <2>2. QED
    BY <1>1, <2>1 DEF RecorderInv, Counted
<1>9. Flushing'
  <2>1. unfinished' = Len(queue') + 1
    BY <1>1, <1>2, <1>4 DEF RecorderInv, Flushing
  <2>2. Range(queue) \subseteq Range(queue') \cup {queue[1]}
    <3>1. \A i \in 1..Len(queue) : i = 1 \/ (i - 1 \in 1..(Len(queue) - 1) /\ queue'[i - 1] = queue[i])
      BY <1>4
    <3>2. ASSUME NEW x \in Range(queue) PROVE x \in Range(queue') \cup {queue[1]}
      <4>1. PICK i \in 1..Len(queue) : x = queue[i]
        BY <1>4 DEF Range
      <4>2. CASE i = 1
        BY <4>1, <4>2
      <4>3. CASE i # 1
        <5>1. i - 1 \in DOMAIN queue' /\ queue'[i - 1] = x
          BY <1>4, <3>1, <4>1, <4>3
        <5>2. QED
          BY <5>1 DEF Range
      <4>4. QED
        BY <4>2, <4>3
    <3>3. QED
      BY <3>2
  <2>3. InHand = {} /\ InHand' = {queue[1]} /\ Settled' = Settled
    BY <1>1, <1>2, <1>4 DEF InHand, Settled
  <2>4. QED
    BY <1>1, <1>2, <2>1, <2>2, <2>3 DEF RecorderInv, Flushing
<1>10. QED
  BY <1>6, <1>7, <1>8, <1>9 DEF RecorderInv

\* The record in hand is let go: in the log, marked, or dropped.
LEMMA LetGo ==
    ASSUME RecorderInv, Busy, RowOrNot, drain' \in {"waiting", "done"}, TaskDone,
           recorded' = recorded, queue' = queue, current' = current, due' = due,
           marked \subseteq marked', dropped \subseteq dropped',
           unknown' \in Nat, unknown' >= unknown, current.record \in Settled'
    PROVE  RecorderInv'
<1>1. ~Busy'
  BY DEF Busy
<1>2. /\ queue \in Seq(Nat) /\ Len(queue) \in Nat /\ unknown \in Nat
      /\ Len(audit') \in Nat /\ Cardinality(Range(audit')) \in Nat
  BY LogAfter, FS_CardinalityType DEF RecorderInv, RecorderType
<1>3. /\ unfinished' = Len(queue)
      /\ closing' = IF closing = "joining" /\ Len(queue) = 0 THEN "resuming" ELSE closing
  BY <1>2 DEF TaskDone, JoinWakes, RecorderInv, Flushing
<1>4. RecorderType'
  BY <1>3, LogAfter DEF RecorderInv, RecorderType
<1>5. InTurn'
  BY <1>1, LogAfter DEF RecorderInv, InTurn
<1>6. Counted'
  BY <1>1, <1>2, LogAfter DEF Counted
<1>7. Flushing'
  <2>1. Settled \subseteq Settled'
    BY LogAfter DEF Settled
  <2>2. InHand = {current.record} /\ InHand' = {}
    BY <1>1 DEF InHand
  <2>3. Len(queue) = 0 => Range(queue) = {}
    BY <1>2 DEF Range
  <2>4. /\ closing = "joining" => due \subseteq Range(queue) \cup InHand \cup Settled
        /\ closing \in {"resuming", "stopping", "closed"} => due \subseteq Settled
    BY DEF RecorderInv, Flushing
  <2>5. closing = "joining" => due' \subseteq Range(queue') \cup Settled'
    BY <2>1, <2>2, <2>4
  <2>6. closing' \in {"resuming", "stopping", "closed"} => due' \subseteq Settled'
    BY <1>3, <2>1, <2>3, <2>4, <2>5
  <2>7. closing' = "joining" => closing = "joining"
    BY <1>3
  <2>8. QED
    BY <1>1, <1>3, <2>2, <2>5, <2>6, <2>7 DEF Flushing
<1>8. QED
  BY <1>4, <1>5, <1>6, <1>7 DEF RecorderInv

\* The record in hand stays there, for another step or another attempt.
LEMMA KeepHold ==
    ASSUME RecorderInv, Busy, RowOrNot, Busy', drain' \in {"appending", "committing"},
           (audit' = audit /\ unknown' = unknown) \/ unknown' = unknown + 1,
           recorded' = recorded, queue' = queue, unfinished' = unfinished, due' = due,
           current' \in [record : Nat, attempt : Nat], current'.record = current.record,
           marked' = marked, dropped' = dropped, closing' = closing
    PROVE  RecorderInv'
<1>1. /\ unknown \in Nat /\ unknown' \in Nat /\ Len(audit') \in Nat
      /\ Cardinality(Range(audit')) \in Nat
  BY LogAfter, FS_CardinalityType DEF RecorderInv, RecorderType
<1>2. RecorderType'
  BY <1>1, LogAfter DEF RecorderInv, RecorderType
<1>3. InTurn'
  BY LogAfter DEF RecorderInv, InTurn
<1>4. Counted'
  BY <1>1, LogAfter DEF Counted, RecorderInv
<1>5. Flushing'
  <2>1. Settled \subseteq Settled' /\ InHand' = InHand
    BY LogAfter DEF Settled, InHand
  <2>2. QED
    BY <2>1 DEF RecorderInv, Flushing
<1>6. QED
  BY <1>2, <1>3, <1>4, <1>5 DEF RecorderInv

\* A step of the drain task, or its cancellation from outside.
LEMMA DrainStep == RecorderInv /\ (Drain \/ DrainCancelled) => RecorderInv'
<1> SUFFICES ASSUME RecorderInv, Drain \/ DrainCancelled PROVE RecorderInv'
  OBVIOUS
<1>t. unknown \in Nat /\ current \in [record : Nat, attempt : Nat]
  BY DEF RecorderInv, RecorderType
<1>1. CASE DrainGet
  BY <1>1, DrainGetStep
<1>2. CASE DrainExecute
  <2>1. Busy /\ Busy' /\ RowOrNot
    BY <1>2 DEF DrainExecute, Busy, RowOrNot
  <2>2. QED
    BY <1>2, <1>t, <2>1, KeepHold DEF DrainExecute
<1>3. CASE DrainCommit
  <2>1. Busy /\ RowOrNot /\ TaskDone /\ drain' = "waiting"
    BY <1>3 DEF DrainCommit, Busy, RowOrNot, Finished
  <2>2. audit' = Append(audit, current.record)
    BY <1>3 DEF DrainCommit
  <2>3. current.record \in Settled'
    BY <2>1, <2>2, RowAppended DEF Settled
  <2>4. QED
    BY <1>3, <1>t, <2>1, <2>3, LetGo DEF DrainCommit
<1>4. CASE DrainAttemptFails
  <2>1. /\ Busy /\ RowOrNot /\ unknown' = unknown + 1 /\ recorded' = recorded
        /\ dropped' = dropped /\ due' = due
    BY <1>4 DEF DrainAttemptFails
  <2>2. CASE current.attempt < MaxAttempts
    <3>1. /\ drain' = "appending" /\ current' = [current EXCEPT !.attempt = @ + 1]
          /\ queue' = queue /\ unfinished' = unfinished /\ marked' = marked /\ closing' = closing
      BY <1>4, <2>2 DEF DrainAttemptFails, RetryOrMark
    <3>2. /\ Busy' /\ current' \in [record : Nat, attempt : Nat]
          /\ current'.record = current.record
      BY <3>1, <1>t DEF Busy
    <3>3. QED
      BY <2>1, <3>1, <3>2, KeepHold
  <2>3. CASE ~(current.attempt < MaxAttempts)
    <3>1. /\ marked' = marked \cup {current.record} /\ drain' = "waiting" /\ TaskDone
          /\ queue' = queue /\ current' = current
      BY <1>4, <2>3 DEF DrainAttemptFails, RetryOrMark, Finished
    <3>2. current.record \in Settled'
      BY <3>1 DEF Settled
    <3>3. QED
      BY <1>t, <2>1, <3>1, <3>2, LetGo
  <2>4. QED
    BY <2>2, <2>3
<1>5. CASE DrainCancelled /\ Busy
  <2>1. /\ drain' = "done" /\ RowOrNot /\ TaskDone /\ dropped' = dropped \cup {current.record}
        /\ recorded' = recorded /\ queue' = queue /\ current' = current /\ due' = due
        /\ marked' = marked /\ unknown' = unknown
    BY <1>5 DEF DrainCancelled, DrainStops
  <2>2. current.record \in Settled'
    BY <2>1 DEF Settled
  <2>3. QED
    BY <1>5, <1>t, <2>1, <2>2, LetGo
<1>6. CASE DrainCancelled /\ ~Busy
  <2>1. /\ drain = "waiting" /\ drain' = "done" /\ audit' = audit /\ unfinished' = unfinished
        /\ closing' = closing /\ dropped' = dropped /\ recorded' = recorded /\ queue' = queue
        /\ current' = current /\ due' = due /\ marked' = marked /\ unknown' = unknown
    BY <1>6 DEF DrainCancelled, DrainStops, RowOrNot, Alive, Busy
  <2>2. ~Busy' /\ Settled' = Settled /\ InHand' = InHand
    BY <1>6, <2>1 DEF Busy, Settled, InHand
  <2>3. QED
    BY <1>6, <2>1, <2>2
       DEF RecorderInv, RecorderType, InTurn, Below, Ahead, Counted, Flushing
<1>7. QED
  BY <1>1, <1>2, <1>3, <1>4, <1>5, <1>6 DEF Drain

\* A step of aclose().
LEMMA AcloseStep == RecorderInv /\ (AcloseBegin \/ Aclose) => RecorderInv'
<1> SUFFICES ASSUME RecorderInv, AcloseBegin \/ Aclose PROVE RecorderInv'
  OBVIOUS
<1>t. queue \in Seq(Nat) /\ Len(queue) \in Nat
  BY DEF RecorderInv, RecorderType
<1>1. CASE AcloseBegin
  <2>1. /\ closing = "open" /\ due' = Range(queue) \cup InHand
        /\ closing' = CASE drain = "none" -> "closed"
                       [] drain # "none" /\ unfinished = 0 -> "resuming"
                       [] OTHER -> "joining"
    BY <1>1 DEF AcloseBegin, JoinWakes, InHand
  <2>2. /\ recorded' = recorded /\ queue' = queue /\ unfinished' = unfinished /\ drain' = drain
        /\ current' = current /\ audit' = audit /\ marked' = marked /\ dropped' = dropped
        /\ unknown' = unknown
    BY <1>1 DEF AcloseBegin
  <2>3. (Busy' <=> Busy) /\ Settled' = Settled /\ InHand' = InHand
    BY <2>2 DEF Busy, Settled, InHand
  <2>4. drain = "none" \/ unfinished = 0 => due' = {}
    <3>1. drain = "none" => ~Busy /\ Len(queue) = 0
      BY <1>t DEF RecorderInv, Flushing, Busy
    <3>2. unfinished = 0 => ~Busy /\ Len(queue) = 0
      BY <1>t DEF RecorderInv, Flushing
    <3>3. Len(queue) = 0 => Range(queue) = {}
      BY <1>t DEF Range
    <3>4. QED
      BY <2>1, <3>1, <3>2, <3>3 DEF InHand
  <2>5. /\ closing' \in {"closed", "resuming", "joining"}
        /\ closing' # "joining" => drain = "none" \/ unfinished = 0
    BY <2>1
  <2>6. RecorderType' /\ InTurn' /\ Counted'
    BY <2>2, <2>3, <2>5 DEF RecorderInv, RecorderType, InTurn, Below, Ahead, Counted
  <2>7. Flushing'
    BY <2>1, <2>2, <2>3, <2>4, <2>5 DEF RecorderInv, Flushing
  <2>8. QED
    BY <2>6, <2>7 DEF RecorderInv
<1>2. CASE AcloseCancel
  <2>1. /\ closing = "resuming" /\ closing' = "stopping"
        /\ recorded' = recorded /\ queue' = queue /\ unfinished' = unfinished /\ drain' = drain
        /\ current' = current /\ audit' = audit /\ marked' = marked /\ dropped' = dropped
        /\ unknown' = unknown /\ due' = due
    BY <1>2 DEF AcloseCancel
  <2>2. (Busy' <=> Busy) /\ Settled' = Settled /\ InHand' = InHand
    BY <2>1 DEF Busy, Settled, InHand
  <2>3. QED
    BY <2>1, <2>2 DEF RecorderInv, RecorderType, InTurn, Below, Ahead, Counted, Flushing
<1>3. CASE AcloseEnd
  <2>1. /\ closing = "stopping" /\ closing' = "closed"
        /\ recorded' = recorded /\ queue' = queue /\ current' = current /\ marked' = marked
        /\ dropped' = dropped /\ unknown' = unknown /\ due' = due
    BY <1>3 DEF AcloseEnd
  <2>2. ~Busy'
    BY <1>3 DEF AcloseEnd, DrainStops, Alive, Busy
  <2>3. /\ audit' \in Seq(Nat) /\ IsFiniteSet(Range(audit')) /\ Range(audit) \subseteq Range(audit')
        /\ \A i, j \in DOMAIN audit' : i <= j => audit'[i] <= audit'[j]
        /\ Below(audit', recorded)
        /\ \A k \in DOMAIN audit' : Ahead(audit'[k], queue)
        /\ Len(audit') <= Cardinality(Range(audit')) + unknown
    <3>1. CASE Busy
      <4>1. RowOrNot
        BY <1>3, <3>1 DEF AcloseEnd, DrainStops, Alive
      <4>2. QED
        BY <3>1, <4>1, LogAfter
    <3>2. CASE ~Busy
      <4>1. audit' = audit
        BY <1>3, <3>2 DEF AcloseEnd, DrainStops, RowOrNot, Busy
      <4>2. QED
        BY <4>1 DEF RecorderInv, RecorderType, InTurn, Counted
    <3>3. QED
      BY <3>1, <3>2
  <2>4. RecorderType' /\ InTurn' /\ Counted'
    <3>1. drain' \in {"done", drain}
      BY <1>3 DEF AcloseEnd, DrainStops
    <3>2. QED
      BY <2>1, <2>2, <2>3, <3>1 DEF RecorderInv, RecorderType, InTurn, Counted
  <2>5. Flushing'
    <3>1. Settled \subseteq Settled'
      BY <2>1, <2>3 DEF Settled
    <3>2. unfinished' = Len(queue)
      BY <1>3, <1>t DEF AcloseEnd, DrainStops, Alive, RecorderInv, Flushing
    <3>3. drain' = "none" => drain = "none"
      BY <1>3 DEF AcloseEnd, DrainStops
    <3>4. QED
      BY <2>1, <2>2, <3>1, <3>2, <3>3 DEF RecorderInv, Flushing
  <2>6. QED
    BY <2>4, <2>5 DEF RecorderInv
<1>4. QED
  BY <1>1, <1>2, <1>3 DEF Aclose

\* Every step of every actor keeps the invariant of the recorder.
LEMMA RecorderKeeps == RecorderInv /\ [Next]_vars => RecorderInv'
<1> SUFFICES ASSUME RecorderInv, [Next]_vars PROVE RecorderInv'
  OBVIOUS
<1>t. unknown \in Nat /\ recorded \in Nat
  BY DEF RecorderInv, RecorderType
<1>1. CASE Migrate \/ (\E w \in Worker : SyncBegin(w) \/ SyncExecute(w) \/ SyncCommit(w) \/ SyncAttemptFails(w))
           \/ UNCHANGED vars
  <2>1. UNCHANGED auditVars /\ unknown' \in {unknown, unknown + 1}
    BY <1>1 DEF Migrate, BeginUpgrade, BeginDowngrade, MigrationStep, MigrationEnds, MigrationCrash,
                SyncBegin, SyncExecute, SyncCommit, SyncAttemptFails, vars
  <2>2. QED
    BY <1>t, <2>1, RecorderFrame
<1>2. CASE record
  BY <1>2, RecordStep
<1>3. CASE RecordNoLoop
  <2>1. /\ recorded' = recorded + 1 /\ queue' = queue /\ unfinished' = unfinished /\ drain' = drain
        /\ current' = current /\ audit' = audit /\ marked' = marked /\ dropped' = dropped
        /\ closing' = closing /\ due' = due /\ unknown' = unknown
    BY <1>3 DEF RecordNoLoop
  <2>2. (Busy' <=> Busy) /\ Settled' = Settled /\ InHand' = InHand
    BY <2>1 DEF Busy, Settled, InHand
  <2>3. /\ Below(queue, recorded + 1) /\ Below(audit, recorded + 1)
        /\ Busy => current.record <= recorded + 1
    BY <1>t DEF RecorderInv, RecorderType, InTurn, Below
  <2>4. InTurn'
    BY <2>1, <2>2, <2>3 DEF RecorderInv, InTurn
  <2>5. RecorderType' /\ Counted' /\ Flushing'
    BY <1>t, <2>1, <2>2 DEF RecorderInv, RecorderType, Counted, Flushing
  <2>6. QED
    BY <2>4, <2>5 DEF RecorderInv
<1>4. CASE Drain \/ DrainCancelled
  BY <1>4, DrainStep
<1>5. CASE AcloseBegin \/ Aclose
  BY <1>5, AcloseStep
<1>6. QED
  BY <1>1, <1>2, <1>3, <1>4, <1>5 DEF Next

\* The invariant of the recorder holds in every reachable state.
LEMMA RecorderInvariance == Spec => []RecorderInv
BY RecorderInit, RecorderKeeps, PTL DEF Spec

\* The audit log is in the order of recording and repeats a record at most once
\* for every attempt whose fate was not learnt, for any bound of the queue, any
\* number of attempts and any cancellations of the drain task.
THEOREM AuditOrder == Spec => []AuditInOrder
<1>1. RecorderInv => AuditInOrder
  BY DEF RecorderInv, InTurn, Counted, AuditInOrder
<1>2. QED
  BY RecorderInvariance, <1>1, PTL

\* aclose loses nothing that was queued before it: each record is in the log,
\* marked as failed, or was in the hands of a drain task cancelled from outside.
THEOREM AcloseLosesNothing == Spec => []CloseFlushes
<1>1. RecorderInv => CloseFlushes
  BY DEF RecorderInv, Flushing, CloseFlushes, Settled
<1>2. QED
  BY RecorderInvariance, <1>1, PTL
=============================================================================
