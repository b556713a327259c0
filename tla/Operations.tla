----------------------------- MODULE Operations -----------------------------
(***************************************************************************)
(* The commands an operator runs against one release, from several         *)
(* checkouts: deploy, rollback and destroy, with the managed cache.        *)
(* Preparations of two deploys overlap; any call of kubectl, helm or       *)
(* gcloud may fail and any command may be run again.                       *)
(***************************************************************************)
EXTENDS DestroyCommand

(* classifyLocalRollbackComposition: the checkout's plan must be the        *)
(* current or the target build's.                                           *)
LocalPlanAgrees(m, s) == Own(m) \subseteq {s.build, s.prev}

(* runRollback: both committed plans must be found, the target's pods, and the  *)
(* Service of each of its pools, whose selector the swap replaces.          *)
RollbackAllowed(m, s) ==
    /\ s # NoState /\ s.prev # NoBuild
    /\ LocalPlanAgrees(m, s)
    /\ \A b \in {s.build, s.prev} \ Own(m) : Plan(b) \in live
    /\ Deployment(s.prev) \in live
    /\ s.prev \in Wide => Stable \in live

(* runRevert moves traffic and the record as one step here; an HPA that the *)
(* parked build no longer has is created by kubectl autoscale, unlabelled,  *)
(* or not at all; the outgoing build's is deleted with a warning on failure. *)
Rollback(m) ==
    LET s == ReadState(m)
    IN /\ AllIdle
       /\ Begin(m)
       /\ RollbackAllowed(m, s)
       /\ state' = [build |-> s.prev, prev |-> s.build, gen |-> s.gen + 1, reverted |-> TRUE]
       /\ local' = [local EXCEPT ![m] = state']
       /\ said' = [said EXCEPT !.outcome = "none"]
       /\ \E gone \in {{}, {Hpa(s.build)}}, made \in {{}, {Hpa(s.prev)} \ live} :
             /\ live' = (live \ gone) \cup made
             /\ bare' = (bare \ gone) \cup made
             /\ kept' = kept \ (gone \cup made)
             /\ guarded' = guarded \ gone
       /\ UNCHANGED <<manifest, valkey, plan, cache, process, faults, torn, gitops>>

(* What migrate annotates: the versioned objects, by label.  Stable         *)
(* Services are left out on purpose, as part of every bundle.               *)
Versioned == {o \in live \ bare : o[1] \in {"deployment", "hpa", "secret", "snapshot", "plan"}}

(* runMigrate: every sweep succeeds, and the release is declared safe for a *)
(* reconciler; or one fails and the command says to run it again.           *)
Migrate(m) ==
    /\ AllIdle
    /\ Begin(m)
    /\ \/ /\ guarded' = guarded \cup Versioned
          /\ gitops' = "migrated"
          /\ UNCHANGED faults
       \/ /\ faults < MaxFaults
          /\ faults' = faults + 1
          /\ \E kind \in {"deployment", "hpa", "secret", "snapshot", "plan"} :
                guarded' = guarded \cup {o \in Versioned : o[1] # kind}
          /\ UNCHANGED gitops
    /\ UNCHANGED <<live, kept, bare, manifest, valkey, records, cache, process, torn, said>>

(* The first sync of a pruning reconciler (external) over a migrated        *)
(* release: a bundle with the serving build's pools is applied, and what it *)
(* does not render goes unless annotated; Helm's policy does not count.     *)
FirstSync(b) ==
    /\ gitops = "migrated"
    /\ AllIdle
    /\ state # NoState
    /\ b \in Wide <=> state.build \in Wide
    /\ live' = (live \cap (guarded \cup {Cloud})) \cup Chart(b)
    /\ kept' = kept \cap live'
    /\ bare' = bare \cap live'
    /\ guarded' = guarded \cup Chart(b)
    /\ manifest' = Chart(b)
    /\ gitops' = "synced"
    /\ UNCHANGED <<valkey, records, cache, process, runs, faults, torn, said>>

Next ==
    \/ \E m \in Machines, b \in Builds : DeployStart(m, b)
    \/ \E m \in Machines : DeployStep(m)
    \/ \E m \in Machines : CacheStep(m)
    \/ \E l \in Locations : InstanceReady(l)
    \/ \E m \in Machines : Rollback(m)
    \/ \E m \in Machines : Migrate(m)
    \/ \E b \in Builds : FirstSync(b)
    \/ \E m \in Machines : DestroyStart(m)
    \/ \E m \in Machines : DestroyStep(m)

Spec == Init /\ [][Next]_vars

-----------------------------------------------------------------------------
TypeOK ==
    /\ live \subseteq Objects /\ kept \subseteq Objects
    /\ bare \subseteq live /\ guarded \subseteq live /\ manifest \subseteq Objects
    /\ valkey \in {"none", "legacy", "foreign", "helm"}
    /\ state \in Record \cup {NoState}
    /\ local \in [Machines -> Record \cup {NoState}]
    /\ plan \in [Machines -> Builds \cup {NoBuild}]
    /\ claim \in Locations \cup {NoLoc}
    /\ instance \in [Locations -> {"none", "creating", "ready"}]
    /\ coords \in [Machines -> Locations \cup {NoLoc}]
    /\ pending \in [Machines -> BOOLEAN]

(* The recorded build can be started again at any time, and so can the      *)
(* rollback target a deploy recorded, through every failed, killed or       *)
(* repeated upgrade, every sweep and the first sync of a reconciler after a *)
(* completed migration; and no Deployment of the release ever lacks the     *)
(* dispatch Secret its pods read.                                           *)
BuildsWhole ==
    ~torn /\ state # NoState =>
        /\ Whole(state.build) \subseteq live
        /\ state.build \in Wide => Stable \in live
        /\ state.prev # NoBuild /\ ~state.reverted => Whole(state.prev) \subseteq live
        /\ \A b \in Builds : Deployment(b) \in live => Secret(b) \in live

(* What a release costs outside its cluster. *)
Remains ==
    (IF Cloud \in live THEN {"cloud"} ELSE {}) \cup {l \in Locations : instance[l] # "none"}

(* A destroy that reports success has left no object, no record and no     *)
(* local state; and of the cloud resources and the paid caches that the    *)
(* plans it loaded list, or without a plan the infrastructure file, it has *)
(* left only what it reports as skipped.  Only an unlabelled HPA whose     *)
(* Deployment was gone when the command began, left by a sweep or by an    *)
(* incomplete attempt, escapes it.  What neither lists is not looked for.  *)
DestroyHonest ==
    said.outcome = "complete" =>
        /\ state = NoState
        /\ live \subseteq said.strays \cup {Cloud}
        /\ Remains \cap said.listed \subseteq said.skipped
        /\ \E m \in Machines : local[m] = NoState /\ pc[m] = "idle"

(* "Report honestly what was removed vs what remains" (destroy.ts:1405):    *)
(* whatever remains outside the cluster is reported.  TLC refutes it: what  *)
(* neither plans nor infrastructure file list is not.                       *)
DestroyTellsAll == said.outcome = "complete" => Remains \subseteq said.skipped

(* A checkout's coordinates name the place.  The cluster's claim does not   *)
(* count: the cleanup of another checkout may delete it.                    *)
Named(l) == \E m \in Machines : coords[m] = l

(* No deploy, however it fails, is retried or overlaps another, loses a     *)
(* paid instance: one that exists, or whose creation lost its answer, is    *)
(* named by some checkout's own coordinates, which a retry works from.      *)
PaidCacheNamed ==
    [][\A l \in Locations :
          (instance'[l] # "none" /\ ~Named(l)') =>
              \/ instance[l] # "none" /\ ~Named(l)
              \/ \E m \in Machines : cmd[m].destroy]_vars
=============================================================================
