--------------------------- MODULE MCModelLayer ----------------------------
(***************************************************************************)
(* Small instances of ModelLayer: catalogs with and without a warm model,  *)
(* whole or wrong in one place, and requests shorter and longer than the   *)
(* context of the groups.                                                  *)
(***************************************************************************)
EXTENDS ModelLayer, TLC

MiniLM == [model_id |-> <<"minilm", "minilm">>, kind |-> "embed"]
Phi    == [model_id |-> <<"mu-local", "phi">>, kind |-> "llm"]

Azure == [key |-> "azure", kind |-> "remote", is_local |-> FALSE, credential |-> TRUE]
Warm  == [key |-> "mu-local", kind |-> "local_inproc", is_local |-> TRUE, credential |-> FALSE]

Dep(group, provider, id, context) ==
  [model_group |-> group, provider_key |-> provider, model_id |-> id,
   max_input_tokens |-> context, pinned |-> 0]

TaskGroups == [t \in Task |->
  IF t \in {"answer", "adjudicate", "hard_extract"} THEN "big"
  ELSE IF t = "embed" THEN "remote-embed" ELSE "small"]

Remote ==
  [providers |-> <<Azure>>,
   deployments |-> <<Dep("big", "azure", <<"azure", "big">>, 6), Dep("small", "azure", <<"azure", "small">>, 0)>>,
   warm |-> << >>, embedder |-> MiniLM, embedder_known |-> TRUE,
   task_groups |-> TaskGroups, model_override |-> "", has_resolver |-> TRUE,
   local_priority |-> TRUE, local_capable |-> {"embed", "rerank", "classify", "routine_extract", "summarize"}]

\* The small group is served by warm weights first, by the cloud after.
Local ==
  [Remote EXCEPT !.providers = <<Azure, Warm>>, !.warm = <<Phi>>,
     !.deployments = Append(@, Dep("small", "mu-local", Phi.model_id, 4))]

\* The reranking group has no deployment.
Incomplete == [Local EXCEPT !.task_groups = [TaskGroups EXCEPT !["rerank"] = "missing"]]

\* A credentialed provider, and nobody to resolve its credential.
Unresolved == [Remote EXCEPT !.has_resolver = FALSE]

\* Every call goes to one group, which the catalog does not have.
Overridden == [Remote EXCEPT !.model_override = "missing"]

Catalogs == {Remote, Local, Incomplete, Unresolved, Overridden}

Size(before, text, after) == [before |-> before, text |-> text, after |-> after]
Requests == {Size(1, 1, 0), Size(0, 5, 0), Size(1, 8, 1), Size(5, 0, 0)}
CallerSymmetry == Permutations(Caller)
=============================================================================
