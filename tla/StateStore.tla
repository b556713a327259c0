----------------------------- MODULE StateStore -----------------------------
(***************************************************************************)
(* The deploy-state store of src/cli/state.ts: one record naming the       *)
(* serving build and its rollback target, kept twice.  Every operator      *)
(* checkout has a local file; the release has one ConfigMap, written with  *)
(* a resourceVersion precondition.  In-cluster cutover Jobs use the        *)
(* ConfigMap alone (clusterOnly).  No lock is held between readState and   *)
(* writeState; they are minutes apart.                                     *)
(*                                                                         *)
(* Record fields: buildId, previousBuildId and generation are the code's;  *)
(* stamp stands for updatedAt (a unique logical clock value).  lineage and *)
(* origin are history: the stamps of the records this one was derived      *)
(* from, and which copy the writer's readState had returned.               *)
(***************************************************************************)
EXTENDS Integers, FiniteSets

CONSTANTS
    Operators,    \* CLI processes (deploy, rollback): local file and ConfigMap
    Jobs,         \* in-cluster cutover Jobs: the ConfigMap only
    Checkouts,    \* working directories holding a .k8s-adapter/state.json
    CheckoutOf,   \* the checkout each operator runs in
    Builds,       \* build ids
    NoBuild,      \* previousBuildId: null
    NoState,      \* readState's null: no record
    Corrupt,      \* a local file that exists but does not parse
    Seeded,       \* TRUE: the release has a committed record initially
    MaxWrites     \* bound: records stamped in one behaviour

Procs == Operators \cup Jobs

State == [buildId: Builds, previousBuildId: Builds \cup {NoBuild},
          generation: Nat, stamp: Nat, lineage: SUBSET Nat,
          origin: {"cluster", "local", "none"}]

ASSUME ConstantsAssumption ==
    /\ Operators \cap Jobs = {}
    /\ CheckoutOf \in [Operators -> Checkouts]
    /\ NoBuild \notin Builds
    /\ NoState \notin State
    /\ Corrupt \notin State \cup {NoState}
    /\ Seeded \in BOOLEAN
    /\ MaxWrites \in Nat

VARIABLES
    cluster,      \* body of the state ConfigMap, NoState when it does not exist
    rv,           \* its resourceVersion; 0 when it does not exist
    local,        \* local file of each checkout
    clock,        \* source of stamps
    wire,         \* kubectl replace/create requests the API server has not handled
    pc,           \* where each process is in readState / writeState
    localSeen,    \* local copy a process picked up before its await
    base,         \* the record readState returned to it
    baseFrom,     \* which copy that was
    target,       \* the stamped record it is writing
    seenRv,       \* resourceVersion it read for the write
    outcome       \* how its last operation ended

memory == <<localSeen, base, baseFrom, target, seenRv>>

vars == <<cluster, rv, local, clock, wire, pc, outcome, memory>>

Stages == {"idle", "readCluster", "holding", "readForWrite", "put",
           "awaitPut", "classify"}

Outcomes == {"none", "poisoning", "committed", "readFailed", "disagreement", "moved",
             "unreadable", "concurrent", "failed"}

Seed(b) == [buildId |-> b, previousBuildId |-> NoBuild, generation |-> 1,
            stamp |-> 1, lineage |-> {}, origin |-> "none"]

(* generationOf; a missing record contributes 0. *)
generationOf(s) == IF s \in State THEN s.generation ELSE 0

Max2(a, b) == IF a >= b THEN a ELSE b

Init ==
    /\ IF Seeded THEN \E b \in Builds : cluster = Seed(b) ELSE cluster = NoState
    /\ rv = IF Seeded THEN 1 ELSE 0
    /\ clock = IF Seeded THEN 1 ELSE 0
    /\ local = [c \in Checkouts |-> NoState]
    /\ wire = {}
    /\ pc = [p \in Procs |-> "idle"]
    /\ localSeen = [p \in Procs |-> NoState]
    /\ base = [p \in Procs |-> NoState]
    /\ baseFrom = [p \in Procs |-> "none"]
    /\ target = [p \in Procs |-> NoState]
    /\ seenRv = [p \in Procs |-> 0]
    /\ outcome = [p \in Procs |-> "none"]

-----------------------------------------------------------------------------
(* Reading *)

(* chooseNewerState: the higher generation wins; at equal generations equal *)
(* pointers mean the cluster's copy, and otherwise the build chain decides. *)
LocalIsNewer(l, c) ==
    \/ l.generation > c.generation
    \/ /\ l.generation = c.generation
       /\ <<l.buildId, l.previousBuildId>> # <<c.buildId, c.previousBuildId>>
       /\ l.previousBuildId = c.buildId

ClusterIsNewer(l, c) ==
    \/ c.generation > l.generation
    \/ /\ l.generation = c.generation
       /\ \/ <<l.buildId, l.previousBuildId>> = <<c.buildId, c.previousBuildId>>
          \/ l.previousBuildId # c.buildId /\ c.previousBuildId = l.buildId

(* A finished readState hands its caller record s, found in copy from. *)
Hold(p, s, from) ==
    /\ base' = [base EXCEPT ![p] = s]
    /\ baseFrom' = [baseFrom EXCEPT ![p] = from]
    /\ pc' = [pc EXCEPT ![p] = "holding"]
    /\ UNCHANGED <<outcome, localSeen, target, seenRv>>

(* The operation is over: it returned or threw, and its variables are gone. *)
End(p, result) ==
    /\ pc' = [pc EXCEPT ![p] = "idle"]
    /\ outcome' = [outcome EXCEPT ![p] = result]
    /\ localSeen' = [localSeen EXCEPT ![p] = NoState]
    /\ base' = [base EXCEPT ![p] = NoState]
    /\ baseFrom' = [baseFrom EXCEPT ![p] = "none"]
    /\ target' = [target EXCEPT ![p] = NoState]
    /\ seenRv' = [seenRv EXCEPT ![p] = 0]

(* writeState threw.  A CLI command exits; a Job goes on to record the      *)
(* failed promotion, once, with the record it read at its start.            *)
Fail(p, result) ==
    \/ /\ p \in Operators \/ outcome[p] = "poisoning"
       /\ End(p, result)
    \/ /\ p \in Jobs /\ outcome[p] # "poisoning"
       /\ pc' = [pc EXCEPT ![p] = "holding"]
       /\ outcome' = [outcome EXCEPT ![p] = result]
       /\ localSeen' = [localSeen EXCEPT ![p] = NoState]
       /\ target' = [target EXCEPT ![p] = NoState]
       /\ seenRv' = [seenRv EXCEPT ![p] = 0]
       /\ UNCHANGED <<base, baseFrom>>

(* What process p finds on its own disk: a Job consults no file. *)
OwnFile(p) == IF p \in Jobs THEN NoState ELSE local[CheckoutOf[p]]

(* readLocalStateQuiet: a corrupt file counts as none. *)
OwnFileQuiet(p) == IF OwnFile(p) = Corrupt THEN NoState ELSE OwnFile(p)

(* readState up to its await.  A corrupt local file throws                  *)
(* LocalStateReadError.                                                     *)
ReadLocal(p) ==
    /\ pc[p] = "idle"
    /\ \/ /\ OwnFile(p) # Corrupt
          /\ localSeen' = [localSeen EXCEPT ![p] = OwnFile(p)]
          /\ pc' = [pc EXCEPT ![p] = "readCluster"]
          /\ outcome' = [outcome EXCEPT ![p] = "none"]
          /\ UNCHANGED <<base, baseFrom, target, seenRv>>
       \/ OwnFile(p) = Corrupt /\ End(p, "readFailed")
    /\ UNCHANGED <<cluster, rv, local, clock, wire>>

(* The ConfigMap answered: reconcile the two copies. *)
ReadCluster(p) ==
    LET l == localSeen[p] IN
    /\ pc[p] = "readCluster"
    /\ \/ cluster = NoState /\ Hold(p, l, IF l = NoState THEN "none" ELSE "local")
       \/ cluster # NoState /\ l = NoState /\ Hold(p, cluster, "cluster")
       \/ /\ cluster # NoState /\ l # NoState
          /\ \/ LocalIsNewer(l, cluster) /\ Hold(p, l, "local")
             \/ ClusterIsNewer(l, cluster) /\ Hold(p, cluster, "cluster")
             \/ /\ ~LocalIsNewer(l, cluster) /\ ~ClusterIsNewer(l, cluster)
                /\ End(p, "disagreement")
    /\ UNCHANGED <<cluster, rv, local, clock, wire>>

(* kubectl failed: ClusterStateReadError, never "no state yet" (N20). *)
ReadClusterFails(p) ==
    /\ pc[p] = "readCluster"
    /\ End(p, "readFailed")
    /\ UNCHANGED <<cluster, rv, local, clock, wire>>

(* A deploy whose readState threw takes the serving build from the Service *)
(* selectors and carries on with no base record.                            *)
RecoverFromSelectors(p) ==
    /\ p \in Operators
    /\ pc[p] = "idle"
    /\ outcome[p] \in {"readFailed", "disagreement"}
    /\ pc' = [pc EXCEPT ![p] = "holding"]
    /\ outcome' = [outcome EXCEPT ![p] = "none"]
    /\ UNCHANGED <<cluster, rv, local, clock, wire, memory>>

-----------------------------------------------------------------------------
(* Writing *)

(* writeState called with build pointers b and prev; it first picks up the *)
(* local copy, then awaits the ConfigMap.                                   *)
BeginWrite(p, b, prev) ==
    /\ pc[p] = "holding"
    /\ target' = [target EXCEPT ![p] =
          [buildId |-> b, previousBuildId |-> prev, generation |-> 0,
           stamp |-> 0,
           lineage |-> IF base[p] = NoState THEN {}
                       ELSE base[p].lineage \cup {base[p].stamp},
           origin |-> baseFrom[p]]]
    /\ localSeen' = [localSeen EXCEPT ![p] = OwnFileQuiet(p)]
    /\ pc' = [pc EXCEPT ![p] = "readForWrite"]
    /\ UNCHANGED <<cluster, rv, local, clock, wire, base, baseFrom, seenRv>>

(* E2 of a deploy: the new build, with the build it replaced. *)
CommitDeploy(p, b) ==
    /\ outcome[p] = "none"
    /\ base[p] # NoState
    /\ b # base[p].buildId
    /\ BeginWrite(p, b, base[p].buildId)
    /\ UNCHANGED outcome

(* E2 with no base record: a first deploy, or the rollback pointer taken   *)
(* from the selectors.                                                      *)
CommitFirst(p, b, prev) ==
    /\ outcome[p] = "none"
    /\ base[p] = NoState
    /\ b # prev
    /\ BeginWrite(p, b, prev)
    /\ UNCHANGED outcome

(* runRevert's swap of the two pointers. *)
CommitRollback(p) ==
    /\ p \in Operators
    /\ base[p] # NoState
    /\ base[p].previousBuildId # NoBuild
    /\ BeginWrite(p, base[p].previousBuildId, base[p].buildId)
    /\ UNCHANGED outcome

(* recordFailedPromotion, when a gate or the E2 write of a Job threw: the   *)
(* body of the record read at its start, unchanged but for the poison pill. *)
RecordFailedPromotion(p) ==
    /\ p \in Jobs
    /\ base[p] # NoState
    /\ BeginWrite(p, base[p].buildId, base[p].previousBuildId)
    /\ outcome' = [outcome EXCEPT ![p] = "poisoning"]

(* Fault: only the resourceVersion guards a write. *)
MovedSince_Never(p, clusterGeneration) == FALSE

(* S19: the ConfigMap is past the generation this write is based on. *)
MovedSince(p, clusterGeneration) ==
    /\ base[p] # NoState
    /\ clusterGeneration > base[p].generation

(* Fault: the base generation is no floor (rollback before N69). *)
NextGeneration_NoFloor(p, clusterGeneration) ==
    Max2(generationOf(localSeen[p]), clusterGeneration) + 1

(* The generation floor (N21, N69): above all copies seen. *)
NextGeneration(p, clusterGeneration) ==
    Max2(Max2(generationOf(localSeen[p]), clusterGeneration),
         generationOf(base[p])) + 1

Stamped(p, clusterGeneration) ==
    [target[p] EXCEPT !.generation = NextGeneration(p, clusterGeneration),
                      !.stamp = clock + 1]

WriteLocal(p, s) ==
    local' = IF p \in Jobs THEN local
             ELSE [local EXCEPT ![CheckoutOf[p]] = s]

(* Fault: S19 is only checked once the local file is written. *)
ReadForWrite_RefuseLate(p) ==
    /\ pc[p] = "readForWrite"
    /\ clock < MaxWrites
    /\ clock' = clock + 1
    /\ LET s == Stamped(p, generationOf(cluster)) IN
       /\ WriteLocal(p, s)
       /\ \/ MovedSince(p, generationOf(cluster)) /\ Fail(p, "moved")
          \/ /\ ~MovedSince(p, generationOf(cluster))
             /\ target' = [target EXCEPT ![p] = s]
             /\ seenRv' = [seenRv EXCEPT ![p] = rv]
             /\ pc' = [pc EXCEPT ![p] = "put"]
             /\ UNCHANGED <<outcome, localSeen, base, baseFrom>>
    /\ UNCHANGED <<cluster, rv, wire>>

(* readClusterStateForWrite answered: refuse (S19) before any write, or    *)
(* stamp the record and rename it over the local file.                      *)
ReadForWrite(p) ==
    /\ pc[p] = "readForWrite"
    /\ \/ /\ MovedSince(p, generationOf(cluster))
          /\ Fail(p, "moved")
          /\ UNCHANGED <<local, clock>>
       \/ /\ ~MovedSince(p, generationOf(cluster))
          /\ clock < MaxWrites
          /\ LET s == Stamped(p, generationOf(cluster)) IN
             /\ target' = [target EXCEPT ![p] = s]
             /\ WriteLocal(p, s)
          /\ seenRv' = [seenRv EXCEPT ![p] = rv]
          /\ clock' = clock + 1
          /\ pc' = [pc EXCEPT ![p] = "put"]
          /\ UNCHANGED <<outcome, localSeen, base, baseFrom>>
    /\ UNCHANGED <<cluster, rv, wire>>

(* The read for the write failed.  A checkout still gets the new record,    *)
(* stamped over the base generation, and then the error; a Job writes       *)
(* nothing.                                                                  *)
ReadForWriteFails(p) ==
    /\ pc[p] = "readForWrite"
    /\ \/ p \in Jobs /\ UNCHANGED <<local, clock>>
       \/ /\ p \in Operators
          /\ clock < MaxWrites
          /\ WriteLocal(p, Stamped(p, 0))
          /\ clock' = clock + 1
    /\ Fail(p, "unreadable")
    /\ UNCHANGED <<cluster, rv, wire>>

(* kubectl replace (with the resourceVersion read) or create is started. *)
Put(p) ==
    /\ pc[p] = "put"
    /\ wire' = wire \cup {[proc |-> p, rv |-> seenRv[p], state |-> target[p]]}
    /\ pc' = [pc EXCEPT ![p] = "awaitPut"]
    /\ UNCHANGED <<cluster, rv, local, clock, outcome, memory>>

(* The API server handles a request: 409 unless the resourceVersion still  *)
(* matches.  A client that is still waiting gets the answer.               *)
Server(req) ==
    LET p == req.proc
        waiting == pc[p] = "awaitPut" /\ target[p] = req.state
    IN
    /\ wire' = wire \ {req}
    /\ \/ /\ req.rv = rv
          /\ cluster' = req.state
          /\ rv' = rv + 1
          /\ IF waiting THEN End(p, "committed")
                        ELSE UNCHANGED <<pc, outcome, memory>>
       \/ /\ req.rv # rv
          /\ pc' = IF waiting THEN [pc EXCEPT ![p] = "classify"] ELSE pc
          /\ UNCHANGED <<cluster, rv, outcome, memory>>
    /\ UNCHANGED <<local, clock>>

(* A request whose client is gone never reaches the server. *)
Drop(req) ==
    /\ ~(pc[req.proc] = "awaitPut" /\ target[req.proc] = req.state)
    /\ wire' = wire \ {req}
    /\ UNCHANGED <<cluster, rv, local, clock, pc, outcome, memory>>

(* execCaptureStdin's timeout kills kubectl while the request is on its     *)
(* way: Drop or Server decides, later, whether it was applied.              *)
PutTimeout(p) ==
    /\ pc[p] = "awaitPut"
    /\ pc' = [pc EXCEPT ![p] = "classify"]
    /\ UNCHANGED <<cluster, rv, local, clock, wire, outcome, memory>>

(* currentResourceVersion: a moved resourceVersion is reported as another   *)
(* deploy's commit, an unmoved one as a plain failure.                       *)
Classify(p) ==
    /\ pc[p] = "classify"
    /\ \/ rv # 0 /\ rv # seenRv[p] /\ Fail(p, "concurrent")
       \/ (rv = 0 \/ rv = seenRv[p]) /\ Fail(p, "failed")
    /\ UNCHANGED <<cluster, rv, local, clock, wire>>

ClassifyUnreadable(p) ==
    /\ pc[p] = "classify"
    /\ Fail(p, "failed")
    /\ UNCHANGED <<cluster, rv, local, clock, wire>>

-----------------------------------------------------------------------------
(* Environment *)

(* Ctrl-C, or a Job pod evicted: memory is gone, files and requests stay. *)
Crash(p) ==
    /\ pc[p] # "idle"
    /\ End(p, "none")
    /\ UNCHANGED <<cluster, rv, local, clock, wire>>

(* .k8s-adapter/ is gitignored: a fresh checkout has no file, and a         *)
(* half-restored one does not parse.                                        *)
LoseLocal(c) ==
    /\ local[c] \in State
    /\ \E left \in {NoState, Corrupt} : local' = [local EXCEPT ![c] = left]
    /\ UNCHANGED <<cluster, rv, clock, wire, pc, outcome, memory>>

Read(p) == ReadLocal(p) \/ ReadCluster(p) \/ ReadClusterFails(p)
             \/ RecoverFromSelectors(p)

Begin(p) ==
    \/ \E b \in Builds : CommitDeploy(p, b)
    \/ \E b \in Builds, prev \in Builds \cup {NoBuild} : CommitFirst(p, b, prev)
    \/ CommitRollback(p)
    \/ RecordFailedPromotion(p)

Write(p) == ReadForWrite(p) \/ ReadForWriteFails(p) \/ Put(p)
              \/ PutTimeout(p) \/ Classify(p) \/ ClassifyUnreadable(p)

Next ==
    \/ \E p \in Procs : Read(p) \/ Begin(p) \/ Write(p) \/ Crash(p)
    \/ \E req \in wire : Server(req) \/ Drop(req)
    \/ \E c \in Checkouts : LoseLocal(c)

Spec == Init /\ [][Next]_vars

-----------------------------------------------------------------------------
(* Properties *)

(* Every variable has its type. *)
TypeOK ==
    /\ cluster \in State \cup {NoState}
    /\ rv \in Nat
    /\ local \in [Checkouts -> State \cup {NoState, Corrupt}]
    /\ clock \in Nat
    /\ wire \subseteq [proc: Procs, rv: Nat, state: State]
    /\ pc \in [Procs -> Stages]
    /\ localSeen \in [Procs -> State \cup {NoState}]
    /\ base \in [Procs -> State \cup {NoState}]
    /\ baseFrom \in [Procs -> {"cluster", "local", "none"}]
    /\ target \in [Procs -> State \cup {NoState}]
    /\ seenRv \in [Procs -> Nat]
    /\ outcome \in [Procs -> Outcomes]

(* Record s may follow the ConfigMap's present record: a later generation,  *)
(* and a descendant if its writer's base was a ConfigMap record.             *)
Supersedes(s) ==
    /\ s.generation > generationOf(cluster)
    /\ s.origin = "cluster" /\ cluster \in State => cluster.stamp \in s.lineage

(* A base taken from the ConfigMap is its present record or an older one. *)
BaseFence ==
    \A p \in Procs : baseFrom[p] = "cluster" =>
        /\ base[p] \in State
        /\ cluster \in State
        /\ base[p].generation <= cluster.generation
        /\ base[p].generation = cluster.generation => base[p] = cluster

(* The body under construction descends from the base. *)
TargetFence ==
    \A p \in Procs : pc[p] = "readForWrite" =>
        /\ target[p] \in State
        /\ target[p].origin = baseFrom[p]
        /\ baseFrom[p] = "cluster" => base[p].stamp \in target[p].lineage

(* A write whose resourceVersion is still current may follow the present    *)
(* record, whether it is about to be sent ...                               *)
PutFence ==
    \A p \in Procs : pc[p] = "put" =>
        /\ target[p] \in State
        /\ seenRv[p] <= rv
        /\ seenRv[p] = rv => Supersedes(target[p])

(* ... or is on its way, its sender perhaps killed by a timeout or gone.    *)
WireFence ==
    \A req \in wire :
        /\ req.rv <= rv
        /\ req.rv = rv => Supersedes(req.state)

(* S19 together with N23 fence every write: the semantic generation check   *)
(* and the resourceVersion precondition leave no window between them.       *)
Fenced == BaseFence /\ TargetFence /\ PutFence /\ WireFence

(* N23 and S19: a record whose writer had read the ConfigMap's copy only    *)
(* ever replaces a record it descends from, so no commit made inside the    *)
(* writer's rollout window is overwritten and no build is orphaned.         *)
DescendsFromReplaced ==
    /\ cluster' # cluster
    /\ cluster # NoState
    /\ cluster'.origin = "cluster"
    => cluster.stamp \in cluster'.lineage

NoLostUpdate == [][DescendsFromReplaced]_vars

(* N21: the ConfigMap's generation only grows, whoever writes it and        *)
(* whatever its writer had read.                                            *)
GenerationGrows ==
    [][cluster' # cluster => generationOf(cluster') > generationOf(cluster)]_vars

(* N21 and N69: readState never returns a record that the other copy it     *)
(* looked at descends from, even when the last write reached only the local *)
(* file because the ConfigMap was unreadable.                               *)
NotSuperseded(s, other) == other \in State => s.stamp \notin other.lineage

ReadReturnsNewest ==
    [][\A p \in Procs :
          pc[p] = "readCluster" /\ pc'[p] = "holding" /\ base'[p] # NoState
          => NotSuperseded(base'[p], cluster) /\ NotSuperseded(base'[p], localSeen[p])]_vars

(* S19's order: a write that lost, or was refused, never leaves a local     *)
(* file that beats a commit it did not descend from.  (Each operator has    *)
(* its own checkout.)                                                       *)
LoserNeverWins ==
    \A c \in Checkouts :
        /\ local[c] \in State
        /\ local[c].origin = "cluster"
        /\ cluster \in State
        /\ local[c].generation > cluster.generation
        => cluster.stamp \in local[c].lineage

(* The ConfigMap as its readers see it, without its history. *)
Exists == cluster \in State

Ledger == INSTANCE StateLedger WITH
    buildId <- IF Exists THEN cluster.buildId ELSE NoBuild,
    previousBuildId <- IF Exists THEN cluster.previousBuildId ELSE NoBuild,
    generation <- generationOf(cluster),
    basis <- IF Exists THEN cluster.origin ELSE "none"

(* The store implements the ledger: whatever reads, writes, timeouts, lost  *)
(* answers and crashes of operators and Jobs overlap, every change of the   *)
(* ConfigMap by a writer that had read it is one whole operation applied to *)
(* the record it replaces, and any other change raises the generation.      *)
ImplementsLedger == Ledger!Spec
=============================================================================
