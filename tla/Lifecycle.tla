------------------------------ MODULE Lifecycle -----------------------------
(***************************************************************************)
(* LifecycleManager: adapters are started in topological order, each gated *)
(* on its health; a required one that fails, or a cancellation, rolls back *)
(* what was started in reverse order.  Every start, health and close of an *)
(* adapter is an await that may raise; the adapters themselves are outside *)
(* the code and are modelled by whether they are up.                       *)
(***************************************************************************)
EXTENDS Naturals, Sequences, FiniteSets

CONSTANTS
    Component,    \* names of the managed components, a finite set of naturals
    MaxStarts,    \* bound on the calls of start()
    MaxErrors     \* bound on the closes that raise

ASSUME ComponentAssumption == IsFiniteSet(Component) /\ Component \subseteq Nat
ASSUME BoundsAssumption == MaxStarts \in Nat /\ MaxErrors \in Nat

VARIABLES
    depends_on, required,  \* the LifecycleSpecs, fixed at construction
    order,                 \* _topo_order of them
    phase,                 \* the call the manager is in, or how the last ended
    next,                  \* position in order of the adapter being started
    started,               \* LifecycleManager._started, a stack
    degraded,              \* the report's degraded components
    up,                    \* adapters that are open
    starts, errors

specs == <<depends_on, required, order>>
vars  == <<specs, phase, next, started, degraded, up, starts, errors>>

Elements(s) == {s[i] : i \in 1..Len(s)}
Least(S)    == CHOOSE x \in S : \A y \in S : x <= y

-----------------------------------------------------------------------------
\* The components whose in-degree has dropped to zero.
Ready(deps, placed) == {c \in Component \ placed : deps[c] \subseteq placed}

\* Kahn's algorithm, the least name first; it stops short on a cycle.
_topo_order(deps) ==
    LET kahn[n \in 0..Cardinality(Component)] ==
            IF n = 0 THEN <<>>
            ELSE LET ready == Ready(deps, Elements(kahn[n - 1]))
                 IN  IF ready = {} THEN kahn[n - 1] ELSE Append(kahn[n - 1], Least(ready))
    IN kahn[Cardinality(Component)]

\* Where `for name in self._order` begins.
FirstOf == 1

\* The constructor raises when the order does not hold every component.
Init ==
    /\ depends_on \in [Component -> SUBSET Component]
    /\ required \in SUBSET Component
    /\ order = _topo_order(depends_on)
    /\ phase = IF Len(order) = Cardinality(Component) THEN "new" ELSE "rejected"
    /\ next = FirstOf /\ started = <<>> /\ degraded = {} /\ up = {}
    /\ starts = 0 /\ errors = 0

\* start(): the host calls it on a manager that has nothing open.
Start ==
    /\ phase \in {"new", "failed", "closed"} /\ started = <<>> /\ starts < MaxStarts
    /\ phase' = "starting" /\ next' = FirstOf /\ degraded' = {}
    /\ starts' = starts + 1
    /\ UNCHANGED <<specs, started, up, errors>>

Current == order[next]

\* adapter.start() returns; its health is asked next.
AdapterStarts ==
    /\ phase = "starting" /\ next <= Len(order)
    /\ up' = up \cup {Current}
    /\ phase' = "health"
    /\ UNCHANGED <<specs, next, started, degraded, starts, errors>>

\* The report names the component.
Degrade(c) == degraded \cup {c}

\* The adapter is healthy, possibly degraded.
Healthy ==
    /\ phase = "health"
    /\ started' = Append(started, Current)
    /\ degraded' \in {degraded, Degrade(Current)}
    /\ phase' = "starting" /\ next' = next + 1
    /\ UNCHANGED <<specs, up, starts, errors>>

\* A failure of a required component is not survived.
Blocks(c) == c \in required

\* start() or health() raises, or health is bad: degrade or roll back.
Unhealthy ==
    /\ phase \in {"starting", "health"} /\ next <= Len(order)
    /\ IF Blocks(Current)
       THEN phase' = "rollback" /\ UNCHANGED <<next, degraded>>
       ELSE phase' = "starting" /\ next' = next + 1 /\ degraded' = Degrade(Current)
    /\ UNCHANGED <<specs, started, up, starts, errors>>

\* CancelledError at an await of start().
Cancelled ==
    /\ phase \in {"starting", "health"} /\ next <= Len(order)
    /\ phase' = "rollback"
    /\ UNCHANGED <<specs, next, started, degraded, up, starts, errors>>

\* Every component was tried: the report is returned.
Report ==
    /\ phase = "starting" /\ next > Len(order)
    /\ phase' = "running"
    /\ UNCHANGED <<specs, next, started, degraded, up, starts, errors>>

\* Mutant: only a running manager can be closed.
OnlyRunning == phase = "running"

\* close() has no precondition; there is nothing to do on an empty stack.
Closable == phase = "running" \/ (phase \in {"failed", "closed"} /\ started # <<>>)

\* close(): of a running manager, or again after a close that raised.
Close ==
    /\ Closable
    /\ phase' = "closing"
    /\ UNCHANGED <<specs, next, started, degraded, up, starts, errors>>

\* Mutant: adapters are closed in the order they were started.
CloseHead(s) == <<Head(s), Tail(s)>>

\* _close_started pops the last one.
Popped(s) == <<s[Len(s)], SubSeq(s, 1, Len(s) - 1)>>

Ended == IF phase = "rollback" THEN "failed" ELSE "closed"

\* One turn of _close_started: pop, then close the adapter.
CloseOne ==
    /\ phase \in {"rollback", "closing"} /\ started # <<>>
    /\ started' = Popped(started)[2]
    /\ up' = up \ {Popped(started)[1]}
    /\ UNCHANGED <<specs, phase, next, degraded, starts, errors>>

\* adapter.close() raises: the loop ends, what is left stays on the stack.
CloseRaises ==
    /\ phase \in {"rollback", "closing"} /\ started # <<>> /\ errors < MaxErrors
    /\ errors' = errors + 1
    /\ started' = Popped(started)[2]
    /\ phase' = Ended
    /\ UNCHANGED <<specs, next, degraded, up, starts>>

\* The stack is empty: close() returns, or start() re-raises.
CloseReturns ==
    /\ phase \in {"rollback", "closing"} /\ started = <<>>
    /\ phase' = Ended
    /\ UNCHANGED <<specs, next, started, degraded, up, starts, errors>>

Step == AdapterStarts \/ Healthy \/ Unhealthy \/ Report \/ CloseOne \/ CloseReturns
Next == Start \/ Close \/ Step \/ Cancelled \/ CloseRaises

Spec == Init /\ [][Next]_vars

\* A call in progress goes on; the host closes what it has started.
FairSpec == Spec /\ WF_vars(Step) /\ WF_vars(Close)

-----------------------------------------------------------------------------
Phases == {"rejected", "new", "starting", "health", "rollback", "closing",
           "running", "failed", "closed"}

TypeOK ==
    /\ depends_on \in [Component -> SUBSET Component]
    /\ required \subseteq Component
    /\ order \in Seq(Component)
    /\ phase \in Phases
    /\ next \in 1..(Len(order) + 1)
    /\ started \in Seq(Component)
    /\ degraded \subseteq Component /\ up \subseteq Component
    /\ starts \in 0..MaxStarts /\ errors \in 0..MaxErrors
    /\ phase = "health" => next <= Len(order)

\* Nothing is closed under a component that is still on the stack and needs
\* it, in a rollback and in an orderly close alike.
ClosedAfterDependents ==
    [][\A c \in up \ up' : \A e \in Elements(started') : c \notin depends_on[e]]_vars

\* Every start() ends, and what was started is closed in the end, closes that
\* raise and cancelled starts included.
StartedIsClosed == (started # <<>>) ~> (started = <<>>)
=============================================================================
