------------------------------ MODULE MCRecall ------------------------------
(***************************************************************************)
(* A small instance of Recall: a private fact and the one that supersedes  *)
(* it, a private copy of a shared memory, and two shared memories.         *)
(***************************************************************************)
EXTENDS Recall

Entry(id, hash, plane) == [id |-> id, hash |-> hash, plane |-> plane]
Paris  == Entry(1, "paris", "private")
Rome   == Entry(2, "rome", "private")
Pulled == Entry(3, "rules", "private")
Rules  == Entry(4, "rules", "shared")
Notes  == Entry(5, "notes", "shared")

AllMemories == {Paris, Rome, Pulled, Rules, Notes}
Planes(private, shared) == [p \in Plane |-> IF p = "private" THEN private ELSE shared]

\* The STM windows: empty, with the fact that is superseded, with the copy,
\* with both and with a shared row.
Windows == {Planes(private, shared) : private \in {<<>>, <<Pulled>>, <<Paris, Pulled>>},
                                      shared \in {<<>>, <<Notes>>}}
Points == Planes({Paris, Pulled}, {Rules, Notes})
Facts == Planes({Paris}, {Rules})
Multiple == 61 * 62 * 63 * 64
Equal == [c \in {"mtm", "ltm", "private", "shared"} |-> 1]
=============================================================================
