---------------------------- MODULE StateLedger ----------------------------
(***************************************************************************)
(* What the deploy-state store promises its callers: one record per        *)
(* release whose generation only grows.  A commit based on the record is   *)
(* one whole operation applied to it: a promotion pushes the serving build *)
(* into previousBuildId, a rollback swaps the two, and recording a failed  *)
(* promotion leaves both alone.  A commit based on no record, or on the    *)
(* file of a checkout, sets the record anew.  basis names what the last    *)
(* commit was based on: "cluster" for the record.                          *)
(***************************************************************************)
EXTENDS Naturals

CONSTANTS Builds, NoBuild

VARIABLES buildId, previousBuildId, generation, basis

record == <<buildId, previousBuildId, generation, basis>>

(* No record yet, or that of a first deploy. *)
Init ==
    /\ previousBuildId = NoBuild
    /\ basis = "none"
    /\ \/ buildId = NoBuild /\ generation = 0
       \/ buildId \in Builds /\ generation = 1

Promote == buildId' # buildId /\ previousBuildId' = buildId

Rollback ==
    /\ previousBuildId # NoBuild
    /\ buildId' = previousBuildId
    /\ previousBuildId' = buildId

RecordFailure == UNCHANGED <<buildId, previousBuildId>>

Commit ==
    /\ buildId # NoBuild
    /\ basis' = "cluster"
    /\ Promote \/ Rollback \/ RecordFailure

Restore == basis' \in {"local", "none"}

Next ==
    /\ generation' > generation
    /\ buildId' \in Builds
    /\ previousBuildId' \in Builds \cup {NoBuild}
    /\ Commit \/ Restore

Spec == Init /\ [][Next]_record
=============================================================================
