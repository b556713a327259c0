------------------------------ MODULE Cutover ------------------------------
(***************************************************************************)
(* The promotion and rollback sequences of src/cutover/run.ts (runCutover, *)
(* runRevert) with the callers that feed them: the CLI deploy of           *)
(* src/cli/deploy.ts, the in-cluster Job of src/cutover/job-main.ts and    *)
(* the CLI rollback of src/cli/rollback.ts.  They share one release: the   *)
(* recorded state, the stable Services' selectors, the routing edge and    *)
(* one Deployment per build.                                               *)
(*                                                                         *)
(* A promotion of a build is identified with the build.  The record is the *)
(* state ConfigMap, read and written atomically: StateStore shows that     *)
(* concurrent writers implement that.  All builds have the same pools, and *)
(* each pool one stable Service.                                           *)
(***************************************************************************)
EXTENDS Integers, FiniteSets

CONSTANTS
    CliBuilds,    \* builds promoted by adapter-k8s deploy (Helm, then cutover)
    JobBuilds,    \* builds promoted by a reconciler's sync and a cutover Job
    Rollbacks,    \* adapter-k8s rollback commands
    Current,      \* the build serving initially
    Previous,     \* its rollback target, parked
    NoBuild,      \* null build id
    NoState,      \* null state
    NumServices,  \* stable Services, numbered in the order they are patched
    MaxRuns,      \* bound: runs of each promotion or rollback
    Exclusive,    \* TRUE: one command or Job at a time
    Lossy         \* TRUE: a request may be applied and its answer lost

Builds == CliBuilds \cup JobBuilds \cup {Current, Previous}
Promotions == CliBuilds \cup JobBuilds
Procs == Promotions \cup Rollbacks
Services == 1 .. NumServices

ASSUME CutoverAssumption ==
    /\ CliBuilds \cap JobBuilds = {}
    /\ Builds \cap Rollbacks = {}
    /\ Current # Previous
    /\ NoBuild \notin Builds
    /\ NumServices \in Nat \ {0}
    /\ MaxRuns \in Nat
    /\ Exclusive \in BOOLEAN
    /\ Lossy \in BOOLEAN

(* The fields of AdapterState the sequences decide on. *)
Record == [build: Builds, prev: Builds \cup {NoBuild}, gen: Nat,
           failed: SUBSET Builds]

ASSUME NoStateAssumption == NoState \notin Record

VARIABLES
    state,      \* the recorded deploy state
    sel,        \* the build each stable Service selects
    edge,       \* the build the routing tier (image and manifest) runs
    dep,        \* each build's pool Deployments: absent, parked at 0, up
    pc,         \* stage of each command or Job
    base,       \* the record it read at its start
    from,       \* the outgoing build
    snap,       \* the selectors it read
    at,         \* the Service it handles next
    done,       \* Services it has patched
    bad,        \* a selector read or patch failed
    runs,       \* how often it was started
    proven,     \* history: builds that passed their gates, or served initially
    clean,      \* history: no crash, lost answer, failed recovery or re-run
    recorded,   \* history: the builds the record has named
    again       \* history: a Job went on to promote a build recorded before

world == <<state, sel, edge, dep>>
memory == <<base, from, snap, at, done, bad>>
past == <<recorded, again>>
history == <<runs, proven, clean, past>>
vars == <<world, pc, memory, history>>

Stages == {"idle", "helm", "start", "forced", "scale", "gates", "recheck", "read", "edge",
           "patch", "unpatch", "restore", "commit", "poison", "park", "gc"}

Init ==
    /\ state = [build |-> Current, prev |-> Previous, gen |-> 1, failed |-> {}]
    /\ sel = [s \in Services |-> Current]
    /\ edge = Current
    /\ dep = [b \in Builds |-> IF b = Current THEN "up"
                               ELSE IF b = Previous THEN "parked" ELSE "none"]
    /\ pc = [p \in Procs |-> "idle"]
    /\ base = [p \in Procs |-> NoState]
    /\ from = [p \in Procs |-> NoBuild]
    /\ snap = [p \in Procs |-> [s \in Services |-> NoBuild]]
    /\ at = [p \in Procs |-> 1]
    /\ done = [p \in Procs |-> {}]
    /\ bad = [p \in Procs |-> FALSE]
    /\ runs = [p \in Procs |-> 0]
    /\ proven = {Current, Previous}
    /\ clean = TRUE
    /\ recorded = {Current, Previous}
    /\ again = FALSE

(* The build p moves traffic to. *)
To(p) == IF p \in Rollbacks THEN base[p].prev ELSE p

Go(p, stage) == pc' = [pc EXCEPT ![p] = stage]

(* The process exits; what it knew is gone. *)
End(p) ==
    /\ Go(p, "idle")
    /\ base' = [base EXCEPT ![p] = NoState]
    /\ from' = [from EXCEPT ![p] = NoBuild]
    /\ snap' = [snap EXCEPT ![p] = [s \in Services |-> NoBuild]]
    /\ at' = [at EXCEPT ![p] = 1]
    /\ done' = [done EXCEPT ![p] = {}]
    /\ bad' = [bad EXCEPT ![p] = FALSE]

(* A promotion that threw: a Job goes on to record the failed promotion,   *)
(* a CLI command exits.                                                     *)
Fail(p) ==
    \/ p \in JobBuilds /\ Go(p, "poison") /\ UNCHANGED memory
    \/ p \notin JobBuilds /\ End(p)

(* A promotion aborted before traffic moved: the edge goes back first      *)
(* (N25).  An aborted rollback has not touched the edge yet.               *)
Abort(p) ==
    \/ p \in Promotions /\ Go(p, "restore") /\ UNCHANGED memory
    \/ p \in Rollbacks /\ End(p)

AllIdle == \A p \in Procs : pc[p] = "idle"

MayStart(p) ==
    /\ pc[p] = "idle"
    /\ runs[p] < MaxRuns
    /\ Exclusive => AllIdle

(* Process p starts with record s, moving traffic away from build out. *)
Begin(p, s, out, stage) ==
    /\ base' = [base EXCEPT ![p] = s]
    /\ from' = [from EXCEPT ![p] = out]
    /\ Go(p, stage)
    /\ UNCHANGED <<snap, at, done, bad>>

Started(p) ==
    /\ runs' = [runs EXCEPT ![p] = @ + 1]
    /\ UNCHANGED <<proven, clean, past>>

-----------------------------------------------------------------------------
(* Starting *)

(* The last readServingState of a deploy before Helm.  A build id equal to  *)
(* the serving one is refused; with the state unavailable the serving build *)
(* is taken from the Service selectors if they agree and its Deployment     *)
(* exists.                                                                   *)
DeployStart(p) ==
    /\ p \in CliBuilds
    /\ MayStart(p)
    /\ \/ p # state.build /\ Begin(p, state, state.build, "helm")
       \/ \E b \in Builds \ {p} :
             /\ \A s \in Services : sel[s] = b
             /\ dep[b] # "none"
             /\ Begin(p, NoState, b, "helm")
    /\ Started(p)
    /\ UNCHANGED world

(* Fault: the selectors are rendered at the incoming build, as in a first   *)
(* deploy.                                                                  *)
Helm_RendersIncoming(p) ==
    /\ pc[p] = "helm"
    /\ sel' = [s \in Services |-> p]
    /\ edge' = p
    /\ dep' = [dep EXCEPT ![p] = "up"]
    /\ Go(p, "gates")
    /\ UNCHANGED <<state, memory, history>>

(* helm upgrade renders the stable selectors at activeBuildId, the outgoing *)
(* build as read, and overwrites whatever is live (three-way merge, or      *)
(* server-side apply with --force-conflicts).  What it prunes of the builds *)
(* it no longer renders is in DeployCommand.                                *)
Helm(p) ==
    /\ pc[p] = "helm"
    /\ sel' = [s \in Services |-> from[p]]
    /\ edge' = p
    /\ dep' = [dep EXCEPT ![p] = "up"]
    /\ Go(p, "gates")
    /\ UNCHANGED <<state, memory, history>>

(* A failed upgrade may have applied any part of the release. *)
HelmFails(p) ==
    /\ pc[p] = "helm"
    /\ \E applied \in SUBSET Services :
          sel' = [s \in Services |-> IF s \in applied THEN from[p] ELSE sel[s]]
    /\ edge' \in {edge, p}
    /\ dep' \in {dep, [dep EXCEPT ![p] = "up"]}
    /\ Go(p, "restore")
    /\ UNCHANGED <<state, memory, history>>

(* The reconciler applies a mode: job bundle: Deployments, routing manifest *)
(* and the Job itself.  With the ignore rules docs/gitops.md requires, the  *)
(* live selectors stay.                                                      *)
Sync(p) ==
    /\ p \in JobBuilds
    /\ MayStart(p)
    /\ runs[p] = 0
    /\ dep' = [dep EXCEPT ![p] = "up"]
    /\ edge' = p
    /\ Go(p, "start")
    /\ Started(p)
    /\ UNCHANGED <<state, sel, memory>>

(* forcePromotion: the bundle is applied again, its Job under another name. *)
ForceSync(p) ==
    /\ p \in JobBuilds
    /\ MayStart(p)
    /\ p \in state.failed
    /\ dep' = [dep EXCEPT ![p] = "up"]
    /\ edge' = p
    /\ Go(p, "forced")
    /\ Started(p)
    /\ UNCHANGED <<state, sel, memory>>

(* The Job controller starts another pod (backoffLimit), or an operator     *)
(* re-runs the Job: the bundle, and with it the edge, is not applied again. *)
JobRetry(p) ==
    /\ p \in JobBuilds
    /\ MayStart(p)
    /\ runs[p] > 0
    /\ Go(p, "start")
    /\ runs' = [runs EXCEPT ![p] = @ + 1]
    /\ clean' = FALSE
    /\ UNCHANGED <<world, memory, proven, past>>

(* isAlreadyPromoted: the record and every selector name the build. *)
IsAlreadyPromoted(p) ==
    /\ state.build = p
    /\ \A s \in Services : sel[s] = p

(* The outgoing build of buildCutoverInputsFromCluster; none when the       *)
(* record already names this build.                                         *)
Outgoing(p) == IF state.build = p THEN NoBuild ELSE state.build

(* The poison pill: only forcePromotion goes on with a failed build. *)
Poisoned(p) == pc[p] = "start" /\ p \in state.failed

(* jobMain up to runCutover, all from one read of the record: nothing to    *)
(* do, refused as a failed promotion, or on to the gates.                   *)
(* readPreviousReplicas wants the outgoing build at a positive count, or    *)
(* absent.                                                                  *)
JobStart(p) ==
    /\ pc[p] \in {"start", "forced"}
    /\ \/ IsAlreadyPromoted(p) /\ End(p) /\ UNCHANGED again
       \/ ~IsAlreadyPromoted(p) /\ Poisoned(p) /\ End(p) /\ UNCHANGED again
       \/ /\ ~IsAlreadyPromoted(p) /\ ~Poisoned(p)
          /\ Outgoing(p) # NoBuild => dep[Outgoing(p)] # "parked"
          /\ Begin(p, state, Outgoing(p), "gates")
          /\ again' = (again \/ p \in recorded)
    /\ UNCHANGED <<world, runs, proven, clean, recorded>>

(* The state, the composition plan or the outgoing replica count could not  *)
(* be read, or the count is zero: jobMain throws outside the block that     *)
(* restores the edge.                                                       *)
JobPreflightFails(p) ==
    /\ pc[p] \in {"start", "forced"}
    /\ End(p)
    /\ clean' = FALSE
    /\ UNCHANGED <<world, runs, proven, past>>

(* runRollback: the record names a rollback target whose Deployments exist. *)
RollbackStart(p) ==
    /\ p \in Rollbacks
    /\ MayStart(p)
    /\ state.prev # NoBuild
    /\ dep[state.prev] # "none"
    /\ Begin(p, state, state.build, "scale")
    /\ Started(p)
    /\ UNCHANGED world

(* runRevert step 1: scale the target to the current build's capacity. *)
ScaleUp(p) ==
    /\ pc[p] = "scale"
    /\ \/ /\ dep[To(p)] # "none"
          /\ dep' = [dep EXCEPT ![To(p)] = "up"]
          /\ Go(p, "gates")
          /\ UNCHANGED memory
       \/ End(p) /\ UNCHANGED dep
    /\ UNCHANGED <<state, sel, edge, history>>

-----------------------------------------------------------------------------
(* Gates *)

(* D1-D7 of a promotion, steps 2-3 of a rollback: the incoming build's pods *)
(* roll out, are registered and answer on /readyz at the wanted capacity.   *)
GatesPass(p) ==
    /\ pc[p] = "gates"
    /\ dep[To(p)] = "up"
    /\ proven' = proven \cup {To(p)}
    /\ Go(p, IF p \in Rollbacks THEN "read" ELSE "recheck")
    /\ UNCHANGED <<world, memory, runs, clean, past>>

GatesFail(p) ==
    /\ pc[p] = "gates"
    /\ Abort(p)
    /\ UNCHANGED <<world, history>>

(* The record is still the one p started from. *)
Unchanged(p) ==
    /\ base[p] # NoState
    /\ state.build = base[p].build
    /\ state.gen = base[p].gen
    /\ p \in Rollbacks => state.prev = base[p].prev

(* The re-read at the last read-only point, then prepareRetention.  A       *)
(* deploy that started without a record goes on if the state is still       *)
(* unavailable, and relies on E1's selector check.                          *)
Recheck(p) ==
    /\ pc[p] = "recheck"
    /\ Unchanged(p) \/ base[p] = NoState
    /\ Go(p, IF p \in Rollbacks THEN "edge" ELSE "read")
    /\ UNCHANGED <<world, memory, history>>

(* The record changed or is unreadable, or retention cannot be prepared. *)
RecheckFails(p) ==
    /\ pc[p] = "recheck"
    /\ Abort(p)
    /\ UNCHANGED <<world, history>>

-----------------------------------------------------------------------------
(* Traffic *)

(* E1's expectedCurrentBuildId; a rollback takes any selector. *)
Expected(p, b) == p \in Promotions /\ from[p] # NoBuild => b = from[p]

(* After the Service p has handled: the next one, or stage. *)
Advance(p, stage) ==
    IF at[p] < NumServices
    THEN at' = [at EXCEPT ![p] = @ + 1] /\ UNCHANGED pc
    ELSE at' = [at EXCEPT ![p] = 1] /\ Go(p, stage)

(* Every selector is read before any is changed (traffic.ts, both loops). *)
ReadSelector(p) ==
    LET b == sel[at[p]]
        failed == bad[p] \/ ~Expected(p, b)
    IN
    /\ pc[p] = "read"
    /\ snap' = [snap EXCEPT ![p][at[p]] = b]
    /\ bad' = [bad EXCEPT ![p] = failed]
    /\ Advance(p, IF p \in Rollbacks THEN "recheck"
                  ELSE IF failed THEN "restore" ELSE "patch")
    /\ UNCHANGED <<world, base, from, done, history>>

ReadSelectorFails(p) ==
    /\ pc[p] = "read"
    /\ \/ p \in Rollbacks /\ End(p)
       \/ /\ p \in Promotions
          /\ bad' = [bad EXCEPT ![p] = TRUE]
          /\ Advance(p, "restore")
          /\ UNCHANGED <<base, from, snap, done>>
    /\ UNCHANGED <<world, history>>

(* Rollback step 3b: the routing tier moves before the pools.  A failed     *)
(* rollout of it is undone, or not.                                         *)
MoveEdge(p) ==
    /\ pc[p] = "edge"
    /\ edge' = To(p)
    /\ Go(p, "patch")
    /\ UNCHANGED <<state, sel, dep, memory, history>>

MoveEdgeFails(p) ==
    /\ pc[p] = "edge"
    /\ \/ UNCHANGED <<edge, clean>>
       \/ edge' = To(p) /\ clean' = FALSE
    /\ End(p)
    /\ UNCHANGED <<state, sel, dep, runs, proven, past>>

(* Fault: one successful patch is taken for success. *)
AfterPatch_AnyPatched(p, patched, failed) ==
    IF patched # {} THEN "commit" ELSE "restore"

(* Fault: patches that succeeded are not swapped back. *)
AfterPatch_NoUndo(p, patched, failed) ==
    IF ~failed THEN "commit" ELSE "restore"

(* The stage after the last Service was tried. *)
AfterPatch(p, patched, failed) ==
    IF ~failed THEN "commit" ELSE IF patched = {} THEN "restore" ELSE "unpatch"

(* Fault: a plain patch, without the test operation. *)
Patch_Blind(p) ==
    /\ pc[p] = "patch"
    /\ sel' = [sel EXCEPT ![at[p]] = To(p)]
    /\ done' = [done EXCEPT ![p] = @ \cup {at[p]}]
    /\ Advance(p, AfterPatch(p, done'[p], bad[p]))
    /\ UNCHANGED <<state, edge, dep, base, from, snap, bad, history>>

(* replaceServiceSelector succeeded: compare-and-swap of one selector. *)
Patch(p) ==
    /\ pc[p] = "patch"
    /\ sel[at[p]] = snap[p][at[p]]
    /\ sel' = [sel EXCEPT ![at[p]] = To(p)]
    /\ done' = [done EXCEPT ![p] = @ \cup {at[p]}]
    /\ Advance(p, AfterPatch(p, done'[p], bad[p]))
    /\ UNCHANGED <<state, edge, dep, base, from, snap, bad, history>>

(* It failed, or its answer was lost after it was applied.  The loop goes   *)
(* on with the other Services.                                              *)
PatchFails(p) ==
    /\ pc[p] = "patch"
    /\ \/ UNCHANGED <<sel, clean>>
       \/ /\ Lossy
          /\ sel[at[p]] = snap[p][at[p]]
          /\ sel' = [sel EXCEPT ![at[p]] = To(p)]
          /\ clean' = FALSE
    /\ bad' = [bad EXCEPT ![p] = TRUE]
    /\ Advance(p, AfterPatch(p, done[p], TRUE))
    /\ UNCHANGED <<state, edge, dep, base, from, snap, done, runs, proven, past>>

NextPatched(p) == CHOOSE s \in done[p] : \A t \in done[p] : s <= t

(* One more of the patched Services has been dealt with. *)
Undone(p) ==
    /\ done' = [done EXCEPT ![p] = @ \ {NextPatched(p)}]
    /\ IF done'[p] = {} THEN Go(p, "restore") ELSE UNCHANGED pc
    /\ UNCHANGED <<state, edge, dep, base, from, snap, at, bad, runs, proven, past>>

(* Some patch failed: the others are swapped back, each with the same CAS. *)
Unpatch(p) ==
    LET s == NextPatched(p) IN
    /\ pc[p] = "unpatch"
    /\ sel[s] = To(p)
    /\ sel' = [sel EXCEPT ![s] = snap[p][s]]
    /\ Undone(p)
    /\ UNCHANGED clean

UnpatchFails(p) ==
    /\ pc[p] = "unpatch"
    /\ clean' = FALSE
    /\ Undone(p)
    /\ UNCHANGED sel

(* Fault: the pools stay, the edge is forgotten (before N25). *)
RestoreEdge_Forgotten(p) ==
    /\ pc[p] = "restore"
    /\ Fail(p)
    /\ UNCHANGED <<world, history>>

(* restoreEdgeToPreviousBuild of a promotion, the roll-forward of a         *)
(* rollback: the edge returns to the outgoing build if there is one.        *)
RestoreEdge(p) ==
    /\ pc[p] = "restore"
    /\ edge' = IF from[p] = NoBuild THEN edge ELSE from[p]
    /\ Fail(p)
    /\ UNCHANGED <<state, sel, dep, history>>

(* The restore failed before it changed anything, or its rollout did and    *)
(* could not be undone.                                                     *)
RestoreEdgeFails(p) ==
    /\ pc[p] = "restore"
    /\ from[p] # NoBuild
    /\ edge' \in {edge, from[p]}
    /\ clean' = FALSE
    /\ Fail(p)
    /\ UNCHANGED <<state, sel, dep, runs, proven, past>>

-----------------------------------------------------------------------------
(* Recording and cleaning up *)

(* S19: the record is past the one this write is based on. *)
MovedSince(p) == base[p] # NoState /\ state.gen > base[p].gen

(* The record E2 writes.  A promotion writes a fresh one; a rollback swaps  *)
(* the pointers and keeps the rest.                                         *)
Recorded(p) ==
    [build |-> To(p), prev |-> from[p], gen |-> state.gen + 1,
     failed |-> IF p \in Rollbacks THEN base[p].failed ELSE {}]

(* E2: the state is written immediately after the traffic has moved. *)
Commit(p) ==
    /\ pc[p] = "commit"
    /\ ~MovedSince(p)
    /\ state' = Recorded(p)
    /\ recorded' = recorded \cup {To(p)}
    /\ Go(p, "park")
    /\ UNCHANGED <<sel, edge, dep, memory, runs, proven, clean, again>>

(* The write was refused, failed, or was applied without an answer.         *)
(* Nothing is undone: the new build is serving.                             *)
CommitFails(p) ==
    /\ pc[p] = "commit"
    /\ \/ UNCHANGED <<state, recorded>>
       \/ /\ Lossy /\ ~MovedSince(p)
          /\ state' = Recorded(p)
          /\ recorded' = recorded \cup {To(p)}
    /\ clean' = FALSE
    /\ Fail(p)
    /\ UNCHANGED <<sel, edge, dep, runs, proven, again>>

(* recordFailedPromotion: the record read at the start, with this build     *)
(* among the failed ones; best effort.                                      *)
Poison(p) ==
    /\ pc[p] = "poison"
    /\ \/ /\ ~MovedSince(p)
          /\ p \notin base[p].failed
          /\ state' = [base[p] EXCEPT !.failed = @ \cup {p}, !.gen = state.gen + 1]
       \/ UNCHANGED state
    /\ End(p)
    /\ UNCHANGED <<sel, edge, dep, history>>

(* E5, and step 5 of a rollback: the outgoing build is scaled to zero; best *)
(* effort, and nothing with skipCleanup.                                    *)
Park(p) ==
    /\ pc[p] = "park"
    /\ \/ UNCHANGED dep
       \/ /\ from[p] # NoBuild
          /\ dep[from[p]] = "up"
          /\ dep' = [dep EXCEPT ![from[p]] = "parked"]
    /\ \/ p \in Promotions /\ Go(p, "gc") /\ UNCHANGED memory
       \/ End(p)
    /\ UNCHANGED <<state, sel, edge, history>>

(* Fault: only the current build is spared. *)
Superseded_Previous(p) == IF from[p] = NoBuild THEN {} ELSE Builds \ {To(p)}

(* Builds E6 deletes: neither current nor previous; none if the previous    *)
(* build is unknown.                                                        *)
Superseded(p) == IF from[p] = NoBuild THEN {} ELSE Builds \ {To(p), from[p]}

(* E6: superseded builds are deleted one by one, best effort. *)
GC(p) ==
    /\ pc[p] = "gc"
    /\ \E gone \in SUBSET Superseded(p) :
          dep' = [b \in Builds |-> IF b \in gone THEN "none" ELSE dep[b]]
    /\ End(p)
    /\ UNCHANGED <<state, sel, edge, history>>

-----------------------------------------------------------------------------
(* Ctrl-C, a killed CI runner or an evicted Job pod, between any two steps. *)
Crash(p) ==
    /\ pc[p] # "idle"
    /\ End(p)
    /\ clean' = FALSE
    /\ UNCHANGED <<world, runs, proven, past>>

Start(p) ==
    \/ DeployStart(p) \/ Helm(p) \/ HelmFails(p)
    \/ Sync(p) \/ ForceSync(p) \/ JobRetry(p) \/ JobStart(p) \/ JobPreflightFails(p)
    \/ RollbackStart(p) \/ ScaleUp(p)

Gate(p) == GatesPass(p) \/ GatesFail(p) \/ Recheck(p) \/ RecheckFails(p)

Switch(p) ==
    \/ ReadSelector(p) \/ ReadSelectorFails(p)
    \/ MoveEdge(p) \/ MoveEdgeFails(p)
    \/ Patch(p) \/ PatchFails(p) \/ Unpatch(p) \/ UnpatchFails(p)
    \/ RestoreEdge(p) \/ RestoreEdgeFails(p)

Finish(p) == Commit(p) \/ CommitFails(p) \/ Poison(p) \/ Park(p) \/ GC(p)

Next == \E p \in Procs : Start(p) \/ Gate(p) \/ Switch(p) \/ Finish(p) \/ Crash(p)

Spec == Init /\ [][Next]_vars

-----------------------------------------------------------------------------
(* Properties *)

(* Every variable has its type. *)
TypeOK ==
    /\ state \in Record
    /\ sel \in [Services -> Builds]
    /\ edge \in Builds
    /\ dep \in [Builds -> {"none", "parked", "up"}]
    /\ pc \in [Procs -> Stages]
    /\ base \in [Procs -> Record \cup {NoState}]
    /\ from \in [Procs -> Builds \cup {NoBuild}]
    /\ snap \in [Procs -> [Services -> Builds \cup {NoBuild}]]
    /\ at \in [Procs -> Services]
    /\ done \in [Procs -> SUBSET Services]
    /\ bad \in [Procs -> BOOLEAN]
    /\ runs \in [Procs -> Nat]
    /\ proven \subseteq Builds
    /\ clean \in BOOLEAN
    /\ recorded \subseteq Builds
    /\ again \in BOOLEAN

(* Every stable Service selects a build whose Deployments are up: parking,  *)
(* garbage collection, Helm's selector render and every undo leave traffic  *)
(* on running pods.                                                         *)
ServingBuildUp == \A s \in Services : dep[sel[s]] = "up"

(* The recorded serving build is running and the recorded rollback target   *)
(* still exists, after any failure: E5 and E6 run only after E2.            *)
RollbackTargetKept ==
    /\ dep[state.build] = "up"
    /\ state.prev # NoBuild => dep[state.prev] # "none"

(* The record only comes to name a build that every Service selects: "a     *)
(* failed deploy never records a never-serving build as current".           *)
CommitFollowsTraffic ==
    [][state'.build # state.build => \A s \in Services : sel[s] = state'.build]_vars

(* A selector is only ever pointed at a build that has passed its gates;    *)
(* Helm's render and the undo of a failed cutover included.                 *)
ProvenTraffic ==
    [][\A s \in Services : sel'[s] # sel[s] => sel'[s] \in proven]_vars

(* N25: as long as nothing crashed, no answer was lost, no recovery failed  *)
(* and no Job was re-run, every abort leaves edge, selectors and record on  *)
(* one build.                                                               *)
CleanAborts ==
    clean /\ AllIdle =>
        /\ edge = state.build
        /\ \A s \in Services : sel[s] = state.build

(* The selectors arbitrate between promotions: two that overlap never both  *)
(* see all their patches succeed and go on to record their build, however   *)
(* many pods their Jobs ran (backoffLimit).  The exception is a Job that    *)
(* promotes a build the record has named before: if it still does, the Job  *)
(* has no outgoing build and takes over any selector (Expected); if not, a  *)
(* Job that moves traffic away from the build mistakes the second promotion *)
(* for the first.                                                           *)
AtMostOneWinner ==
    ~again => \A p, q \in Promotions : pc[p] = "commit" /\ pc[q] = "commit" => p = q

(* Overlapping promotions that spoil each other's patches undo them: once   *)
(* all have ended, every Service selects the recorded build again; unless a *)
(* pod crashed, an answer was lost, an undo failed or a Job ran again.      *)
SelectorsConverge ==
    clean /\ ~again /\ AllIdle => \A s \in Services : sel[s] = state.build
=============================================================================
