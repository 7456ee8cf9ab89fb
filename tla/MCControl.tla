----------------------------- MODULE MCControl -----------------------------
(***************************************************************************)
(* Small instances of Control: two memories of one content, one memory     *)
(* under two contents and in two states, and bundles that pass and do not. *)
(***************************************************************************)
EXTENDS Control, TLC

Memory(id, grain, state) == [id |-> id, grain |-> grain, state |-> state]
Items == {Memory(1, 1, 1), Memory(1, 1, 2), Memory(2, 1, 1), Memory(1, 2, 1)}

Bundles == [ids : {"token", "free_text"}, hashes : {"hex"}, counts : {0}]
WorkerSymmetry == Permutations(Worker)
=============================================================================
