------------------------------ MODULE Release ------------------------------
(***************************************************************************)
(* What the commands of the CLI share: the objects of one release in its   *)
(* namespace, Helm's view of them, the deploy state in the cluster and in  *)
(* each checkout, and the managed cache with the places that name it.      *)
(* The commands are modelled in ManagedCache, DeployCommand and            *)
(* DestroyCommand; Operations composes them.                               *)
(***************************************************************************)
EXTENDS Naturals, FiniteSets

CONSTANTS
    Machines,       \* checkouts the CLI is run from, each with .k8s-adapter/
    Builds,
    Serving,        \* the build that serves initially
    Parked,         \* the rollback target it left at zero replicas
    NoBuild,
    NoState,
    Legacy,         \* builds whose pods read the one stable-named dispatch Secret
    Wide,           \* builds that have a second pool, with its stable Service
    Locations,      \* project and region a managed cache may live in
    NoLoc,
    LocationOf,     \* the cache each build's composition plan asks for
    Default,        \* project and region of the cluster itself
    MaxRuns,        \* bound: commands started
    MaxFaults       \* bound: calls that fail, or lose their answer

ASSUME ReleaseAssumption ==
    /\ Serving \in Builds /\ Parked \in Builds /\ Serving # Parked
    /\ NoBuild \notin Builds
    /\ Wide \subseteq Builds /\ Legacy \subseteq Builds
    /\ NoLoc \notin Locations /\ Default \in Locations /\ "cloud" \notin Locations
    /\ LocationOf \in [Builds -> Locations \cup {NoLoc}]
    /\ MaxRuns \in Nat /\ MaxFaults \in Nat

VARIABLES
    live,       \* objects of the release that exist
    kept,       \* those annotated helm.sh/resource-policy: keep
    bare,       \* HPAs without any label, created by a rollback
    guarded,    \* those annotated against a reconciler's prune, by migrate
    manifest,   \* objects of Helm's latest release
    valkey,     \* owner of the Secret <release>-valkey: none, legacy, foreign, helm
    state,      \* the deploy-state ConfigMap
    local,      \* state.json of each checkout
    plan,       \* the build whose composition plan the checkout holds
    claim,      \* the <release>-cache-identity ConfigMap
    instance,   \* the Memorystore instance of each location
    coords,     \* cacheProjectId and cacheRegion in infrastructure.json
    pending,    \* cacheProvisioningPending
    pc,         \* stage of the command run from each checkout
    cmd,        \* what that command holds in memory
    runs, faults, \* bounds
    torn,       \* history: a destroy has begun to delete objects or the record
    said,       \* history: how the last destroy ended, the HPAs nothing ties to the release,
                \* what its plans or its infrastructure file list, what it reports as skipped
    gitops      \* history: imperative, migrated (and not deployed since), synced

objects == <<live, kept, bare, guarded, manifest, valkey>>
records == <<state, local, plan>>
cache == <<claim, instance, coords, pending>>
process == <<pc, cmd>>
history == <<runs, faults, torn, said, gitops>>
vars == <<objects, records, cache, process, history>>

Deployment(b) == <<"deployment", b>>
Hpa(b) == <<"hpa", b>>
Secret(b) == <<"secret", IF b \in Legacy THEN NoBuild ELSE b>>
Plan(b) == <<"plan", b>>
Snapshot(b) == <<"snapshot", b>>
Stable == <<"stable", NoBuild>>           \* Service, PDB and policies of the second pool
Contributed == <<"contributed", NoBuild>> \* objects the target's components add
Cloud == <<"cloud", NoBuild>>             \* bucket, accounts and edge resources outside the cluster

Objects ==
    {"deployment", "hpa", "secret", "plan", "snapshot"} \X Builds
        \cup {Stable, Contributed, Cloud, <<"secret", NoBuild>>}

(* Plans, manifest snapshots and per-build Secrets are rendered with the    *)
(* keep policy; the legacy Secret is not.                                   *)
KeptAtBirth(b) ==
    {Plan(b), Snapshot(b)} \cup (IF b \in Legacy THEN {} ELSE {Secret(b)})

(* What the chart of build b renders. *)
Chart(b) ==
    {Deployment(b), Hpa(b), Secret(b), Contributed} \cup KeptAtBirth(b)
        \cup (IF b \in Wide THEN {Stable} ELSE {})

(* A build that can be started again: its pods, the Secret they read, its   *)
(* routing manifest and its composition plan.                               *)
Whole(b) == {Deployment(b), Secret(b), Plan(b), Snapshot(b)}

Record == [build: Builds, prev: Builds \cup {NoBuild}, gen: Nat, reverted: BOOLEAN]

ASSUME RecordAssumption == NoState \notin Record

Idle == [build |-> NoBuild, base |-> NoState, plans |-> {}, seen |-> {},
         loc |-> NoLoc, claimed |-> NoLoc, file |-> "none", failed |-> FALSE, destroy |-> FALSE]

(* readState: the newer of the two copies; a missing ConfigMap leaves the   *)
(* checkout's own file.                                                     *)
ReadState(m) ==
    IF state = NoState THEN local[m]
    ELSE IF local[m] # NoState /\ local[m].gen > state.gen THEN local[m]
    ELSE state

PrevOf(s) == IF s = NoState THEN NoBuild ELSE s.build

Go(m, stage) == pc' = [pc EXCEPT ![m] = stage]

Exit(m) ==
    /\ pc' = [pc EXCEPT ![m] = "idle"]
    /\ cmd' = [cmd EXCEPT ![m] = Idle]

(* A call of kubectl, helm or gcloud fails. *)
Fault ==
    /\ faults < MaxFaults
    /\ faults' = faults + 1
    /\ UNCHANGED <<runs, torn, said, gitops>>

AllIdle == \A m \in Machines : pc[m] = "idle"

Begin(m) ==
    /\ pc[m] = "idle"
    /\ runs < MaxRuns
    /\ gitops # "synced"
    /\ runs' = runs + 1

(* helm upgrade (external): what the last release rendered and the new one  *)
(* does not is deleted unless the live object carries the keep policy; the  *)
(* stable objects of a pool are rendered with an empty policy.              *)
Upgraded(b) ==
    /\ live' = (live \ ((manifest \ Chart(b)) \ kept)) \cup Chart(b)
    /\ kept' = (kept \ ({Stable} \cap Chart(b))) \cup KeptAtBirth(b)
    /\ manifest' = Chart(b)
    /\ valkey' = IF LocationOf[b] # NoLoc THEN "helm"
                 ELSE IF valkey = "helm" THEN "none" ELSE valkey
    /\ bare' = bare \cap live'
    /\ guarded' = guarded \cap live'

(* The order in which Helm applies the kinds of a chart. *)
HelmOrder == [secret |-> 1, plan |-> 2, snapshot |-> 2, stable |-> 3, deployment |-> 4,
              hpa |-> 5, contributed |-> 6]

(* A failed helm upgrade (external) has applied the first kinds of the      *)
(* chart and pruned nothing.  The next upgrade compares with the last       *)
(* deployed release, an uninstall takes the latest: the union stands for    *)
(* both.                                                                    *)
PartlyUpgraded(b) ==
    /\ \E reached \in 0..6 :
           LET applied == {o \in Chart(b) : HelmOrder[o[1]] <= reached} IN
           /\ live' = live \cup applied
           /\ kept' = (kept \ ({Stable} \cap applied)) \cup (KeptAtBirth(b) \cap applied)
    /\ manifest' = manifest \cup Chart(b)
    /\ valkey' \in {valkey, IF LocationOf[b] # NoLoc THEN "helm" ELSE valkey}
    /\ UNCHANGED <<bare, guarded>>

(* helm uninstall (external) leaves what carries the keep policy. *)
Uninstalled ==
    /\ live' = live \ (manifest \ kept)
    /\ manifest' = {}
    /\ valkey' = IF valkey = "helm" THEN "none" ELSE valkey
    /\ bare' = bare \cap live'
    /\ guarded' = guarded \cap live'
    /\ UNCHANGED kept

(* Deleted objects take their annotations with them. *)
Delete(gone) ==
    /\ live' = live \ gone
    /\ kept' = kept \ gone
    /\ bare' = bare \ gone
    /\ guarded' = guarded \ gone
    /\ UNCHANGED <<manifest, valkey>>

Init ==
    /\ live = (Chart(Serving) \cup Whole(Parked)) \cup {Cloud}
                 \cup (IF Parked \in Wide THEN {Stable} ELSE {})
    /\ kept = KeptAtBirth(Serving) \cup KeptAtBirth(Parked) \cup {Deployment(Parked)}
                 \cup (IF Parked \in Wide /\ Serving \notin Wide THEN {Stable} ELSE {})
    /\ bare = {}
    /\ guarded = {}
    /\ manifest = Chart(Serving)
    /\ valkey \in {"legacy", "foreign"}
    /\ state = [build |-> Serving, prev |-> Parked, gen |-> 2, reverted |-> FALSE]
    /\ \E owner \in Machines :
          /\ local = [m \in Machines |-> IF m = owner THEN state ELSE NoState]
          /\ plan = [m \in Machines |-> IF m = owner THEN Serving ELSE NoBuild]
    /\ claim = NoLoc
    /\ instance = [l \in Locations |-> "none"]
    /\ coords = [m \in Machines |-> NoLoc]
    /\ pending = [m \in Machines |-> FALSE]
    /\ pc = [m \in Machines |-> "idle"]
    /\ cmd = [m \in Machines |-> Idle]
    /\ runs = 0 /\ faults = 0 /\ torn = FALSE
    /\ said = [outcome |-> "none", strays |-> {}, listed |-> {}, skipped |-> {}]
    /\ gitops = "imperative"
=============================================================================
