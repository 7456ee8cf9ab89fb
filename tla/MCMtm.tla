------------------------------- MODULE MCMtm --------------------------------
(***************************************************************************)
(* Small instances of Mtm: two namespaces of one private partition, so     *)
(* that a search has to tell them apart, or one shared namespace whose     *)
(* points are readable by different principals.                            *)
(***************************************************************************)
EXTENDS Mtm, TLC

AllBackends == {"qdrant", "pgvector", "chroma", "faiss"}

\* One shared namespace, or two namespaces of one private partition.
Team    == [i \in 1..2 |-> "team"]
Private == (1 :> "mine") @@ (2 :> "yours")
TwoLayouts == {Team, Private}

\* The nearest points are not readable by bob.
Auth == (1 :> {"alice"}) @@ (2 :> {"alice", "bob"})
AllQueries  == {<<"team", {"bob"}>>, <<"team", Anyone>>, <<"yours", Anyone>>}
CallerSymmetry == Permutations(Caller)
=============================================================================
