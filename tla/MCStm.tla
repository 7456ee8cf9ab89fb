------------------------------- MODULE MCStm --------------------------------
(***************************************************************************)
(* A small instance of Stm: three ids with equal created_at, one more than *)
(* the cap, one of which may be put again with a later created_at.         *)
(***************************************************************************)
EXTENDS Stm, TLC

Entry(id, created) == [id |-> id, created |-> created]
ThreeIds == {Entry(1, 1), Entry(1, 2), Entry(2, 1), Entry(3, 1)}
TaskSymmetry == Permutations(Task)
=============================================================================
