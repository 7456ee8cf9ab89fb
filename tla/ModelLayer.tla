---------------------------- MODULE ModelLayer ----------------------------
(* The model layer of mu-engine (mu_engine/providers): the warm in-process *)
(* models, a double-checked-locking singleton per model id; the catalog    *)
(* compiled into one flat list of deployments; and the ModelRouter façade, *)
(* which completes, streams, reranks and embeds, splitting an input that   *)
(* is longer than the group's context into windows.                        *)
(*                                                                         *)
(* A caller is a thread that builds a layer of its own (build_model_router *)
(* for one plane) and then makes calls on it.  The table of singletons and *)
(* litellm's map of custom handlers belong to the process and are shared.  *)
(* A step is what one thread does between two points where another thread  *)
(* may run: a read of the table, the locked section, each load.            *)
(*                                                                         *)
(* litellm is external: a call against a group is answered by some         *)
(* deployment of the group that can serve it, or fails.                    *)
EXTENDS Integers, Sequences, FiniteSets, SequencesExt

CONSTANTS
  Caller,          \* the threads that build a layer and use it
  Catalog,         \* the settings a layer may be built from
  Override,        \* per-call overrides of the model group; "" is none
  Request,         \* token counts of a call: what precedes the last user
                   \* message, that message, what follows it
  Headroom,        \* LongTextChunker(headroom_tokens)
  DefaultWindow,   \* RouterSettings.default_context_window
  MaxCalls,        \* calls made on the layers
  MaxFailures,     \* loads of weights that fail
  MaxClears        \* calls of WarmLocalSingleton.clear_all

ASSUME BoundsAssumption ==
  /\ Headroom \in Nat /\ DefaultWindow \in Nat
  /\ MaxCalls \in Nat /\ MaxFailures \in Nat /\ MaxClears \in Nat
\* Token counts; the settings list the warm models and the deployments.
ASSUME RequestAssumption == Request \subseteq [before : Nat, text : Nat, after : Nat]
ASSUME CatalogAssumption ==
  \A k \in Catalog :
    /\ k.warm \in Seq(Range(k.warm)) /\ k.deployments \in Seq(Range(k.deployments))
    /\ \A d \in Range(k.deployments) : d.max_input_tokens \in Int

VARIABLES
  catalog,         \* per caller, the settings its layer is built from
  instances,       \* WarmLocalSingleton._instances: model id -> object, 0 if absent
  heap,            \* the singleton objects ever allocated
  handlers,        \* litellm.custom_provider_map: (prefix, object) pairs
  pc,              \* per caller, the next step of the build
  obj,             \* per caller, the object under construction
  held,            \* per caller, the singletons its layer refers to
  call,            \* per caller, the call in progress or just ended
  emitted,         \* per caller, the degrade events of that call
  calls, failures, clears    \* counts, bounded above

vars == <<catalog, instances, heap, handlers, pc, obj, held, call, emitted,
          calls, failures, clears>>

----------------------------------------------------------------------------
(* The vocabulary: what the settings and the catalog records hold.         *)

\* Task(StrEnum)
Task == {"answer", "adjudicate", "hard_extract", "routine_extract",
         "summarize", "classify", "rerank", "embed"}

\* ModelKind as far as a singleton tells kinds apart
Kind == {"llm", "embed"}

\* WarmLocalConfig.model_id, a prefix and a name, of all that is kept warm
Keys == UNION {{w.model_id : w \in Range(k.warm) \cup {k.embedder}} : k \in Catalog}

LOCAL_ORDER == 1
REMOTE_ORDER == 2

\* LocalPriorityPolicy.prefers_local, order_for
prefers_local(k, t) == k.local_priority /\ t \in k.local_capable

order_for(k, isLocal, t) ==
  IF isLocal /\ prefers_local(k, t) THEN LOCAL_ORDER ELSE REMOTE_ORDER

----------------------------------------------------------------------------
(* L3: the group of a task.  L1: the catalog, validated and compiled.      *)

\* TaskClassMapper.group_for: an override, the global one, the task's own
\* field, the default class
group_for(k, t, override) ==
  CASE override # "" -> override
    [] override = "" /\ k.model_override # "" -> k.model_override
    [] OTHER -> IF k.task_groups[t] # "" THEN k.task_groups[t]
                ELSE k.task_groups["routine_extract"]

\* ProviderModelRegistry.__init__: the provider a key resolves to (the last
\* of that key, since a dict is built from the list)
Provider(k, key) ==
  k.providers[CHOOSE i \in DOMAIN k.providers :
     /\ k.providers[i].key = key
     /\ \A j \in DOMAIN k.providers : k.providers[j].key = key => j <= i]

ProviderKeys(k) == {p.key : p \in Range(k.providers)}

Deployments(k, g) == {d \in Range(k.deployments) : d.model_group = g}

GroupTasks(k, g) == {t \in Task : k.task_groups[t] = g}

\* ProviderModelRegistry._validate.  (The check for duplicate provider keys
\* compares a dict's size with the size of the set of its own keys, so it
\* never fails.)
_validate(k) ==
  /\ \A d \in Range(k.deployments) : d.provider_key \in ProviderKeys(k)
  /\ \A t \in Task \ {"embed"} : Deployments(k, k.task_groups[t]) # {}

\* ProviderModelRegistry._order_for: local if any task of the group prefers it
_order_for(k, d) ==
  IF \E t \in GroupTasks(k, d.model_group) :
        order_for(k, Provider(k, d.provider_key).is_local, t) = LOCAL_ORDER
  THEN LOCAL_ORDER ELSE REMOTE_ORDER

\* compile_model_list resolves a credential of every deployment's provider;
\* without an injected SecretResolver that raises
Resolvable(k) ==
  \A d \in Range(k.deployments) :
     Provider(k, d.provider_key).credential => k.has_resolver

\* One row of the model_list: the stamped order, unless extra_params sets one
Row(k, d) == [group |-> d.model_group, model_id |-> d.model_id,
              context |-> d.max_input_tokens,
              is_local |-> Provider(k, d.provider_key).is_local,
              inproc |-> Provider(k, d.provider_key).kind = "local_inproc",
              order |-> IF d.pinned # 0 THEN d.pinned ELSE _order_for(k, d)]

compile_model_list(k) == [i \in DOMAIN k.deployments |-> Row(k, k.deployments[i])]

\* registry.max_input_tokens and ModelRouter._max_input_tokens: the largest
\* declared context of the group (0 is undeclared), else the default
_max_input_tokens(k, g) ==
  LET declared == {d.max_input_tokens : d \in Deployments(k, g)} \ {0}
  IN  IF declared = {} THEN DefaultWindow
      ELSE CHOOSE m \in declared : \A n \in declared : n <= m

----------------------------------------------------------------------------
(* L6: the windows of a long text.                                         *)

Larger(a, b) == IF a >= b THEN a ELSE b

Smaller(a, b) == IF a <= b THEN a ELSE b

\* LongTextChunker.needs_chunking
needs_chunking(r, maxInput) == r.before + r.text + r.after > maxInput - Headroom

\* range(0, n, step) cut into slices of a sequence of n tokens
Slices(n, step) ==
  [i \in 1..((n + step - 1) \div step) |->
     SubSeq([j \in 1..n |-> j], (i - 1) * step + 1, Smaller(i * step, n))]

\* Slices that drop an incomplete tail
WholeSlices(n, step) ==
  [i \in 1..(n \div step) |->
     SubSeq([j \in 1..n |-> j], (i - 1) * step + 1, i * step)]

\* Mutant: windows that lose the tail of the text
LossyWindows(n, budget, codec) ==
  IF codec THEN WholeSlices(n, budget)
  ELSE IF n = 0 THEN <<<< >>>>
  ELSE Slices(n, Larger(1, (budget * 3) \div 4))

\* LongTextChunker._window_texts: by token ids, or by words at three quarters
\* of the budget when the codec is unavailable (then never no window at all)
_window_texts(n, budget, codec) ==
  IF codec THEN Slices(n, budget)
  ELSE IF n = 0 THEN <<<< >>>>
  ELSE Slices(n, Larger(1, (budget * 3) \div 4))

\* The budget of map_reduce
Budget(maxInput) == Larger(1, maxInput - Headroom)

----------------------------------------------------------------------------
(* L5: the warm singletons, and build_model_router around them.            *)

Blank(key, kind) ==
  [key |-> key, kind |-> kind, model |-> "none", tokenizer |-> FALSE,
   initialized |-> FALSE, loads |-> 0, epoch |-> clears]

NoCall == [op |-> "none", phase |-> "none", group |-> "",
           request |-> [before |-> 0, text |-> 0, after |-> 0], windows |-> << >>, sent |-> 0]

\* The configs a build turns into singletons: the warm models, the embedder
Wanted(c) == Append(catalog[c].warm, catalog[c].embedder)

\* The config the caller is at
Config(c) == Wanted(c)[Len(held[c]) + 1]

Goto(c, step) == pc' = [pc EXCEPT ![c] = step]

\* The step a build resumes at once n singletons are held: the registry is
\* validated and compiled after the warm models, before the embedder
Stage(c, n) == IF n = Len(catalog[c].warm) THEN "compile" ELSE "new"

Init ==
  /\ catalog \in [Caller -> Catalog]
  /\ instances = [key \in Keys |-> 0]
  /\ heap = << >> /\ handlers = << >>
  /\ pc = [c \in Caller |-> Stage(c, 0)]
  /\ obj = [c \in Caller |-> 0]
  /\ held = [c \in Caller |-> << >>]
  /\ call = [c \in Caller |-> NoCall]
  /\ emitted = [c \in Caller |-> << >>]
  /\ calls = 0 /\ failures = 0 /\ clears = 0

\* Registry, model list and embedder config, between the warm models and the
\* embedder; an invalid catalog fails the build
Compile(c) ==
  /\ pc[c] = "compile"
  /\ LET k == catalog[c]
     IN  Goto(c, IF /\ _validate(k) /\ Resolvable(k)
                    /\ k.embedder_known /\ k.embedder.kind = "embed"
                 THEN "new" ELSE "failed")
  /\ UNCHANGED <<catalog, instances, heap, handlers, obj, held, call, emitted, calls, failures, clears>>

\* WarmLocalSingleton.__new__: the look-up without the lock ...
NewLookup(c) ==
  /\ pc[c] = "new"
  /\ Goto(c, IF instances[Config(c).model_id] # 0 THEN "found" ELSE "lock")
  /\ UNCHANGED <<catalog, instances, heap, handlers, obj, held, call, emitted, calls, failures, clears>>

\* ... the second read of the table, a KeyError if it was cleared meanwhile ...
NewFound(c) ==
  /\ pc[c] = "found"
  /\ LET o == instances[Config(c).model_id]
     IN  IF o # 0 THEN Goto(c, "init") /\ obj' = [obj EXCEPT ![c] = o]
         ELSE Goto(c, "failed") /\ UNCHANGED obj
  /\ UNCHANGED <<catalog, instances, heap, handlers, held, call, emitted, calls, failures, clears>>

\* Allocate the object of a key and publish it in the table
Allocate(c, key) ==
  /\ heap' = Append(heap, Blank(key, Config(c).kind))
  /\ instances' = [instances EXCEPT ![key] = Len(heap')]
  /\ obj' = [obj EXCEPT ![c] = Len(heap')]

\* Mutant: the locked section without its second look
NoSecondLook(c, key) == Allocate(c, key)

\* The section under the lock: the table is read again
UnderLock(c, key) ==
  IF instances[key] # 0
  THEN obj' = [obj EXCEPT ![c] = instances[key]] /\ UNCHANGED <<heap, instances>>
  ELSE Allocate(c, key)

\* ... and the locked section; no other step of it can be observed
NewLocked(c) ==
  /\ pc[c] = "lock"
  /\ UnderLock(c, Config(c).model_id)
  /\ Goto(c, "init")
  /\ UNCHANGED <<catalog, handlers, held, call, emitted, calls, failures, clears>>

\* WarmLocalSingleton.__init__ runs on whatever __new__ returned: nothing to
\* do once _initialized is set
InitCheck(c) ==
  /\ pc[c] = "init"
  /\ Goto(c, IF heap[obj[c]].initialized THEN "own" ELSE "reset")
  /\ UNCHANGED <<catalog, instances, heap, handlers, obj, held, call, emitted, calls, failures, clears>>

\* The attributes assigned before the load
InitReset(c) ==
  /\ pc[c] = "reset"
  /\ heap' = [heap EXCEPT ![obj[c]].kind = Config(c).kind,
                          ![obj[c]].model = "none", ![obj[c]].tokenizer = FALSE]
  /\ Goto(c, "load")
  /\ UNCHANGED <<catalog, instances, handlers, obj, held, call, emitted, calls, failures, clears>>

\* _load: a causal model then its tokenizer, or an embedder
LoadModel(c) ==
  /\ pc[c] = "load"
  /\ heap' = [heap EXCEPT ![obj[c]].model = heap[obj[c]].kind, ![obj[c]].loads = @ + 1]
  /\ Goto(c, IF heap[obj[c]].kind = "embed" THEN "mark" ELSE "tokenizer")
  /\ UNCHANGED <<catalog, instances, handlers, obj, held, call, emitted, calls, failures, clears>>

LoadTokenizer(c) ==
  /\ pc[c] = "tokenizer"
  /\ heap' = [heap EXCEPT ![obj[c]].tokenizer = TRUE]
  /\ Goto(c, "mark")
  /\ UNCHANGED <<catalog, instances, handlers, obj, held, call, emitted, calls, failures, clears>>

\* A load raises: the constructor ends, the object stays in the table
LoadFails(c) ==
  /\ pc[c] \in {"load", "tokenizer"} /\ failures < MaxFailures
  /\ failures' = failures + 1
  /\ Goto(c, "failed")
  /\ UNCHANGED <<catalog, instances, heap, handlers, obj, held, call, emitted, calls, clears>>

InitMark(c) ==
  /\ pc[c] = "mark"
  /\ heap' = [heap EXCEPT ![obj[c]].initialized = TRUE]
  /\ Goto(c, "own")
  /\ UNCHANGED <<catalog, instances, handlers, obj, held, call, emitted, calls, failures, clears>>

\* A constructed singleton becomes part of the layer; the embedder's
\* dimension is read from its model, which raises if there is none
Own(c) ==
  /\ pc[c] = "own"
  /\ LET o == heap[obj[c]]
         last == Len(held[c]) = Len(catalog[c].warm)
     IN  IF last /\ ~(o.kind = "embed" /\ o.model = "embed")
         THEN Goto(c, "failed") /\ UNCHANGED held
         ELSE /\ held' = [held EXCEPT ![c] = Append(@, obj[c])]
              /\ Goto(c, IF last THEN "register" ELSE Stage(c, Len(held'[c])))
  /\ UNCHANGED <<catalog, instances, heap, handlers, obj, call, emitted, calls, failures, clears>>

\* LiteLLMRouterAdapter.__init__: the process-wide handler map is replaced
Register(c) ==
  /\ pc[c] = "register"
  /\ LET warm == catalog[c].warm
     IN  handlers' = IF warm = << >> THEN handlers
                     ELSE [i \in DOMAIN warm |-> <<warm[i].model_id[1], held[c][i]>>]
  /\ Goto(c, "ready")
  /\ UNCHANGED <<catalog, instances, heap, obj, held, call, emitted, calls, failures, clears>>

\* WarmLocalSingleton.clear_all, by anyone
ClearAll ==
  /\ clears < MaxClears
  /\ clears' = clears + 1
  /\ instances' = [key \in Keys |-> 0]
  /\ UNCHANGED <<catalog, heap, handlers, pc, obj, held, call, emitted, calls, failures>>

----------------------------------------------------------------------------
(* L2, external: which answers a call of the litellm Router may get.       *)

\* A warm object answers a completion, or raises
Generates(o) == heap[o].kind = "llm" /\ heap[o].model = "llm" /\ heap[o].tokenizer

\* A deployment under a custom prefix is served by the handler registered
\* for that prefix, any other by its endpoint
CanServe(row, size) ==
  /\ row.context = 0 \/ size <= row.context
  /\ row.inproc =>
       \E h \in Range(handlers) : h[1] = row.model_id[1] /\ Generates(h[2])

\* The outcomes of one call: it may always fail (every deployment down or
\* cooling), and succeeds only through a row of the group
Outcomes(c, g, size) ==
  {"error"} \cup
  (IF \E row \in Range(compile_model_list(catalog[c])) : row.group = g /\ CanServe(row, size)
   THEN {"ok"} ELSE {})

----------------------------------------------------------------------------
(* L7: the façade.                                                         *)

Idle(c) == pc[c] = "ready" /\ call[c].phase \in {"none", "ok", "unavailable", "raised", "cancelled"}

Started(c, entry) ==
  /\ Idle(c) /\ calls < MaxCalls
  /\ calls' = calls + 1
  /\ call' = [call EXCEPT ![c] = entry]
  /\ emitted' = [emitted EXCEPT ![c] = << >>]
  /\ UNCHANGED <<catalog, instances, heap, handlers, pc, obj, held, failures, clears>>

\* The call goes on to a phase, emitting the events given
Ends(c, phase, events) ==
  /\ call' = [call EXCEPT ![c].phase = phase]
  /\ emitted' = [emitted EXCEPT ![c] = @ \o events]
  /\ UNCHANGED <<catalog, instances, heap, handlers, pc, obj, held, calls, failures, clears>>

\* generate and complete up to the first model call: the group, its context,
\* and the windows if the request does not fit
Generate(c) ==
  \E t \in Task, override \in Override, r \in Request, codec \in BOOLEAN :
    LET g == group_for(catalog[c], t, override)
        maxInput == _max_input_tokens(catalog[c], g)
    IN Started(c,
         IF needs_chunking(r, maxInput)
         THEN LET w == _window_texts(r.text, Budget(maxInput), codec)
              IN [op |-> "generate", phase |-> IF w = << >> THEN "reduce" ELSE "map",
                  group |-> g, request |-> r, windows |-> w, sent |-> 0]
         ELSE [op |-> "generate", phase |-> "one_shot", group |-> g,
               request |-> r, windows |-> << >>, sent |-> 0])

\* Mutant: a failure that is announced by the map and by the call around it
AnnounceTwice(c, g, size, next) ==
  \E outcome \in Outcomes(c, g, size) :
    IF outcome = "ok" THEN next
    ELSE Ends(c, "unavailable", <<"model_group_unavailable", "model_group_unavailable">>)

\* _one_shot: an answer, or the group is announced unavailable and the call
\* raises ModelGroupUnavailableError
_one_shot(c, g, size, next) ==
  \E outcome \in Outcomes(c, g, size) :
    IF outcome = "ok" THEN next
    ELSE Ends(c, "unavailable", <<"model_group_unavailable">>)

OneShot(c) ==
  /\ call[c].phase = "one_shot"
  /\ LET r == call[c].request
     IN  _one_shot(c, call[c].group, r.before + r.text + r.after, Ends(c, "ok", << >>))

\* map_reduce: the windows one after another, each after the preamble; what
\* follows the last user message is in no window
MapCall(c) ==
  /\ call[c].phase = "map"
  /\ LET n == call[c].sent + 1
         r == call[c].request
         advance == /\ call' = [call EXCEPT ![c].sent = n,
                                   ![c].phase = IF n = Len(call[c].windows) THEN "reduce" ELSE "map"]
                    /\ UNCHANGED <<catalog, instances, heap, handlers, pc, obj, held,
                                   emitted, calls, failures, clears>>
     IN  _one_shot(c, call[c].group, r.before + Len(call[c].windows[n]), advance)

\* The reduce call goes to the summarising group whatever the override, with
\* one partial result (taken as one token) per window
ReduceCall(c) ==
  /\ call[c].phase = "reduce"
  /\ _one_shot(c, group_for(catalog[c], "summarize", ""), Len(call[c].windows) + 1,
               Ends(c, "ok", << >>))

\* stream: the opening call fails like any other; a failure between two
\* chunks reaches the consumer as it is
StreamOpen(c) ==
  \E t \in Task, override \in Override, r \in Request :
    Started(c, [op |-> "stream", phase |-> "open", group |-> group_for(catalog[c], t, override),
                request |-> r, windows |-> << >>, sent |-> 0])

StreamOpened(c) ==
  /\ call[c].phase = "open"
  /\ LET r == call[c].request
     IN  _one_shot(c, call[c].group, r.before + r.text + r.after, Ends(c, "chunks", << >>))

StreamEnds(c) ==
  /\ call[c].phase = "chunks"
  /\ \E phase \in {"ok", "raised"} : Ends(c, phase, << >>)

\* rerank: the group is not announced, the reranker is
Rerank(c) ==
  Started(c, [op |-> "rerank", phase |-> "rerank", group |-> group_for(catalog[c], "rerank", ""),
              request |-> [before |-> 0, text |-> 1, after |-> 0], windows |-> << >>, sent |-> 0])

Reranked(c) ==
  /\ call[c].phase = "rerank"
  /\ \E outcome \in Outcomes(c, call[c].group, 1) :
       IF outcome = "ok" THEN Ends(c, "ok", << >>)
       ELSE Ends(c, "unavailable", <<"surface_component_down">>)

\* embed: in a thread, on the layer's own singleton; no text, no call
Embed(c) ==
  \E n \in {0, 1} :
    Started(c, [op |-> "embed",
                phase |-> IF n = 0 THEN "ok" ELSE "embed", group |-> "",
                request |-> [before |-> 0, text |-> n, after |-> 0], windows |-> << >>, sent |-> 0])

Embedded(c) ==
  /\ call[c].phase = "embed"
  /\ LET o == heap[held[c][Len(held[c])]]
     IN  Ends(c, IF o.kind = "embed" /\ o.model = "embed" THEN "ok" ELSE "raised", << >>)

\* The awaiting task is cancelled: CancelledError is not an Exception, so it
\* passes every handler
Cancel(c) ==
  /\ call[c].phase \in {"one_shot", "map", "reduce", "open", "chunks", "rerank", "embed"}
  /\ Ends(c, "cancelled", << >>)

Build(c) ==
  \/ Compile(c) \/ NewLookup(c) \/ NewFound(c) \/ NewLocked(c) \/ InitCheck(c)
  \/ InitReset(c) \/ LoadModel(c) \/ LoadTokenizer(c) \/ LoadFails(c)
  \/ InitMark(c) \/ Own(c) \/ Register(c)

Use(c) ==
  \/ Generate(c) \/ OneShot(c) \/ MapCall(c) \/ ReduceCall(c)
  \/ StreamOpen(c) \/ StreamOpened(c) \/ StreamEnds(c)
  \/ Rerank(c) \/ Reranked(c) \/ Embed(c) \/ Embedded(c) \/ Cancel(c)

Next == ClearAll \/ \E c \in Caller : Build(c) \/ Use(c)

Spec == Init /\ [][Next]_vars

----------------------------------------------------------------------------
(* Properties.                                                             *)

Steps == {"new", "found", "lock", "init", "reset", "load", "tokenizer", "mark",
          "own", "compile", "register", "ready", "failed"}

\* What every variable ranges over; in particular a caller past __new__
\* refers to an object that exists, and its layer never holds more than the
\* configs it was built from.
TypeOK ==
  /\ catalog \in [Caller -> Catalog]
  /\ instances \in [Keys -> 0..Len(heap)]
  /\ \A o \in Range(heap) : o.key \in Keys /\ o.kind \in Kind /\ o.model \in Kind \cup {"none"}
  /\ \A h \in Range(handlers) : h[2] \in 1..Len(heap)
  /\ pc \in [Caller -> Steps]
  /\ \A c \in Caller :
       /\ obj[c] \in 0..Len(heap)
       /\ pc[c] \in {"init", "reset", "load", "tokenizer", "mark", "own"} => obj[c] # 0
       /\ held[c] \in Seq(1..Len(heap)) /\ Len(held[c]) <= Len(Wanted(c))
       /\ call[c].sent \in 0..Len(call[c].windows)
  /\ calls \in 0..MaxCalls /\ failures \in 0..MaxFailures /\ clears \in 0..MaxClears

\* Double-checked locking: between two calls of clear_all a model id has one
\* object, so every layer built meanwhile shares one copy of the weights,
\* however the constructors interleave (WarmLocalSingleton.__new__).
OneInstancePerKey ==
  \A i, j \in DOMAIN heap :
    heap[i].key = heap[j].key /\ heap[i].epoch = heap[j].epoch => i = j

\* No silent fallback: a call that raises ModelGroupUnavailableError announced
\* it exactly once, though a chunked call makes many model calls; a call that
\* returns announced nothing (model_router.py _one_shot, stream, rerank).
FailureIsAnnounced ==
  \A c \in Caller :
    /\ call[c].phase = "unavailable" => Len(emitted[c]) = 1
    /\ call[c].phase = "ok" => emitted[c] = << >>

\* A completion drawn from windows was drawn from all of the long message:
\* every window was answered before the reduce call, and the windows in their
\* order are the text (chunking.py _window_texts and map_reduce).
CompletionCoversInput ==
  \A c \in Caller :
    call[c].windows # << >> /\ call[c].phase \in {"reduce", "ok"} =>
      /\ call[c].sent = Len(call[c].windows)
      /\ FlattenSeq(call[c].windows) = [i \in 1..call[c].request.text |-> i]
============================================================================
