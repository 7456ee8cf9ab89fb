---------------------------- MODULE MCContainer -----------------------------
(***************************************************************************)
(* Small instances of Container: a unit of work next to a memory write     *)
(* scope or a read scope, and two degrades, one of them of SYNC-CLASS for  *)
(* its component only.                                                     *)
(***************************************************************************)
EXTENDS Container, TLC

MCTask == {"first", "second"}
MCKinds == {[t \in MCTask |-> IF t = "first" THEN "outbox" ELSE k] : k \in {"memory", "read"}}

MCEvent == {"ltm", "sync"}
MCEventType == [e \in MCEvent |-> Degraded]
MCComponent == ("ltm" :> "ltm") @@ ("sync" :> "device_sync")
MCReason == ("ltm" :> "ltm_unavailable") @@ ("sync" :> "server_unreachable")

\* A subclass of the mapped failure, and one that has no degrade path.
MCFailure == {<<"recall", "ltm", "TierRepositoryUnavailableError">>,
              <<"recall", "mtm", "StoreUnavailableError">>}
=============================================================================
