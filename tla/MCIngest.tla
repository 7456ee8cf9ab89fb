------------------------------ MODULE MCIngest ------------------------------
(***************************************************************************)
(* Small instances of Ingest.  The activities cover: an explicit promotion *)
(* and one by importance exactly at the threshold (6 tenths), the same     *)
(* content in two namespaces, one importance just below the threshold, and *)
(* a second submission under the source of another (a replayed offset).    *)
(***************************************************************************)
EXTENDS Ingest, TLC

Explicit == [source |-> "s1", text |-> "x", namespace |-> "alice",
             promote |-> TRUE, importance |-> 5]
AtThreshold == [source |-> "s2", text |-> "x", namespace |-> "bob",
                promote |-> FALSE, importance |-> 6]
BelowThreshold == [source |-> "s3", text |-> "y", namespace |-> "alice",
                   promote |-> FALSE, importance |-> 5]
ReusedOffset == [source |-> "s1", text |-> "y", namespace |-> "alice",
                 promote |-> FALSE, importance |-> 5]

SharedContent == {Explicit, AtThreshold}
AllKinds == {Explicit, AtThreshold, BelowThreshold, ReusedOffset}

CallerSymmetry == Permutations(Caller)
=============================================================================
