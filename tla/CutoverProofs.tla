--------------------------- MODULE CutoverProofs ---------------------------
(***************************************************************************)
(* Proofs about Cutover, for any number of Services, builds, commands and  *)
(* runs, with every failure the model has.                                 *)
(*                                                                         *)
(* The first part is about commands that are serialised, as                *)
(* docs/lifecycle.md asks (Exclusive): what each stage may rely on, and    *)
(* what an abort at that stage has to put back.  The second part is about  *)
(* cutover Jobs that overlap: the selectors arbitrate between them.        *)
(***************************************************************************)
EXTENDS Cutover, FiniteSetTheorems, TLAPS

-----------------------------------------------------------------------------
(***************************************************************************)
(* Commands one at a time                                                  *)
(***************************************************************************)

(* No other process is running. *)
OneAtATime == \A p, q \in Procs : pc[p] # "idle" /\ pc[q] # "idle" => p = q

(* A process that is not running, or has only started, remembers nothing.   *)
Reset(p) ==
    /\ base[p] = NoState
    /\ from[p] = NoBuild
    /\ snap[p] = [s \in Services |-> NoBuild]
    /\ at[p] = 1
    /\ done[p] = {}
    /\ bad[p] = FALSE

Rested(p) == pc[p] \in {"idle", "start", "forced"} => Reset(p)

(* Which kind of process a stage belongs to. *)
Role(p) ==
    /\ pc[p] = "helm" => p \in CliBuilds
    /\ pc[p] \in {"start", "forced", "poison"} => p \in JobBuilds
    /\ pc[p] \in {"scale", "edge"} => p \in Rollbacks
    /\ pc[p] = "gc" => p \in Promotions
    /\ pc[p] # "idle" => runs[p] > 0

(* The stages from the read of the record to its write. *)
Working == {"helm", "scale", "gates", "recheck", "read", "edge", "patch", "unpatch",
            "restore", "commit"}

(* What a process knows of the record is the record, until it writes it.    *)
(* Only a deploy goes on without one.                                       *)
Informed(p) ==
    /\ pc[p] \in Working /\ base[p] # NoState => base[p] = state
    /\ pc[p] \in Working \cup {"poison", "park", "gc"} /\ p \notin CliBuilds
           => base[p] # NoState
    /\ pc[p] = "poison" => base[p].gen <= state.gen
    /\ pc[p] = "poison" /\ base[p].gen = state.gen => base[p] = state

(* The outgoing build runs, has passed its gates, and is not the incoming   *)
(* one.  Only a Job of the recorded build has none.                         *)
OutgoingRuns(p) ==
    pc[p] \in Working =>
        /\ from[p] # NoBuild =>
               from[p] # To(p) /\ dep[from[p]] = "up" /\ from[p] \in proven
        /\ from[p] = NoBuild => p \in JobBuilds
        /\ p \in Rollbacks => base[p].prev \in Builds

(* Past its gates the incoming build runs. *)
IncomingRuns(p) ==
    pc[p] \in {"recheck", "read", "edge", "patch", "unpatch", "commit"} =>
        dep[To(p)] = "up" /\ To(p) \in proven

(* A selector that was read named a build that runs: an undo may return to  *)
(* it.                                                                      *)
SnapshotRuns(p) ==
    pc[p] \in {"recheck", "read", "edge", "patch", "unpatch"} =>
        \A s \in Services : snap[p][s] # NoBuild =>
            dep[snap[p][s]] = "up" /\ snap[p][s] \in proven

(* The patched Services select the incoming build, and a process that goes  *)
(* on to the record has patched all of them.                                *)
PatchedServe(p) ==
    /\ pc[p] \in {"helm", "scale", "gates", "recheck", "read", "edge"} => done[p] = {}
    /\ pc[p] \in {"helm", "scale", "gates", "recheck", "edge"} => at[p] = 1
    /\ pc[p] \in {"helm", "scale", "gates"} => \A s \in Services : snap[p][s] = NoBuild
    /\ pc[p] \in {"patch", "unpatch"} =>
           \A s \in done[p] : sel[s] = To(p) /\ snap[p][s] # NoBuild
    /\ pc[p] = "unpatch" => done[p] # {}
    /\ pc[p] = "patch" /\ ~bad[p] => \A s \in Services : s < at[p] => s \in done[p]
    /\ pc[p] = "commit" => \A s \in Services : sel[s] = To(p)

(* After E2 the record, the selectors and the process agree. *)
Agreed(p) ==
    pc[p] \in {"park", "gc"} =>
        /\ state.build = To(p) /\ state.prev = from[p]
        /\ \A s \in Services : sel[s] = To(p)

Settled == \A s \in Services : sel[s] = state.build

(* Where edge and selectors are while nothing went wrong, stage by stage.   *)
Tidy(p) ==
    /\ pc[p] \in Working => from[p] = state.build
    /\ pc[p] \in {"helm", "scale", "start", "forced", "gates", "recheck", "read", "edge",
                  "restore", "poison"} => Settled
    /\ pc[p] \in {"helm", "scale", "edge", "poison"} => edge = state.build
    /\ pc[p] \in {"start", "forced"} => edge = p
    /\ pc[p] = "start" => p \notin state.failed
    /\ pc[p] \in {"gates", "recheck", "read"} =>
           edge = IF p \in Rollbacks THEN state.build ELSE p
    /\ pc[p] \in {"patch", "unpatch", "commit", "park", "gc"} => edge = To(p)
    /\ pc[p] \in {"patch", "unpatch"} =>
           \A s \in Services : s \notin done[p] => sel[s] = state.build
    /\ pc[p] \in {"recheck", "read", "edge", "patch", "unpatch"} =>
           \A s \in Services : snap[p][s] # NoBuild => snap[p][s] = state.build

ProcInv(p) ==
    /\ Rested(p) /\ Role(p) /\ Informed(p) /\ OutgoingRuns(p) /\ IncomingRuns(p)
    /\ SnapshotRuns(p) /\ PatchedServe(p) /\ Agreed(p)
    /\ clean => Tidy(p)

(* The recorded build and its predecessor are two builds; the first runs,   *)
(* the second exists.                                                       *)
RecordSound ==
    /\ state.prev # state.build
    /\ state.build \in proven
    /\ RollbackTargetKept

(* Traffic goes to builds that run and have passed their gates. *)
TrafficSound == ServingBuildUp /\ \A s \in Services : sel[s] \in proven

(* A Job that recorded a failure was started. *)
FailedRan == \A p \in JobBuilds : p \in state.failed => runs[p] > 0

(* The inductive invariant of serialised commands. *)
SerialInv ==
    /\ TypeOK
    /\ OneAtATime
    /\ RecordSound /\ TrafficSound /\ FailedRan /\ CleanAborts
    /\ \A p \in Procs : ProcInv(p)

-----------------------------------------------------------------------------
(* Facts about the operators *)

(* A nonempty set of Service numbers has a least element: otherwise the     *)
(* numbers above it would map into themselves less the greatest.            *)
LEMMA LeastExists ==
    ASSUME NEW n \in Nat, NEW T, T \subseteq 1 .. n, T # {}
    PROVE  \E x \in T : \A y \in T : x <= y
<1> DEFINE U == {x \in 1 .. n : \E y \in T : y <= x}
<1> DEFINE f == [x \in U |-> x - 1]
<1> SUFFICES ASSUME \A x \in T : \E y \in T : y < x
             PROVE  FALSE
  OBVIOUS
<1>1. n \in U
  <2>1. PICK y \in T : TRUE
    OBVIOUS
  <2>2. y \in 1 .. n /\ y <= n /\ n \in 1 .. n
    BY <2>1
  <2> QED
    BY <2>1, <2>2
<1>2. ASSUME NEW x \in U PROVE x - 1 \in U \ {n}
  <2>1. PICK y \in T : y <= x
    OBVIOUS
  <2>2. PICK z \in T : z < y
    OBVIOUS
  <2>3. z <= x - 1 /\ x - 1 \in 1 .. n
    BY <2>1, <2>2
  <2> QED
    BY <2>3
<1>3. f \in Injection(U, U \ {n})
  <2>1. f \in [U -> U \ {n}]
    BY <1>2
  <2>2. \A a, b \in U : f[a] = f[b] => a = b
    OBVIOUS
  <2> QED
    BY <2>1, <2>2 DEF Injection, IsInjective
<1>4. IsFiniteSet(U)
  <2>1. U \in SUBSET (1 .. n)
    OBVIOUS
  <2>2. IsFiniteSet(1 .. n)
    BY FS_Interval
  <2> HIDE DEF U
  <2> QED
    BY <2>1, <2>2, FS_Subset
<1>5. Cardinality(U \ {n}) = Cardinality(U) - 1 /\ IsFiniteSet(U \ {n})
  BY <1>1, <1>4, FS_RemoveElement
<1>6. Cardinality(U) <= Cardinality(U \ {n})
  BY <1>3, <1>5, FS_Injection
<1> HIDE DEF U
<1> QED
  BY <1>4, <1>5, <1>6, FS_CardinalityType

(* The undo handles a Service that was patched. *)
LEMMA NextPatchedIsDone ==
    ASSUME NEW p, done[p] \subseteq Services, done[p] # {}
    PROVE  NextPatched(p) \in done[p]
<1>1. \E s \in done[p] : \A t \in done[p] : s <= t
  BY LeastExists, CutoverAssumption DEF Services
<1> QED
  BY <1>1 DEF NextPatched

(* What the typing of a step of p relies on. *)
Sensible(p) ==
    /\ pc[p] \in Working => To(p) \in Builds
    /\ pc[p] = "helm" => from[p] \in Builds /\ p \in Builds
    /\ pc[p] = "unpatch" => done[p] # {} /\ \A s \in done[p] : snap[p][s] \in Builds
    /\ pc[p] = "poison" => base[p] \in Record /\ p \in Builds
    /\ pc[p] \in Working /\ p \in Rollbacks => base[p] \in Record

(* The typing of the shared world, of the processes, of the history. *)
WorldOK ==
    /\ state \in Record
    /\ sel \in [Services -> Builds]
    /\ edge \in Builds
    /\ dep \in [Builds -> {"none", "parked", "up"}]

ProcOK ==
    /\ pc \in [Procs -> Stages]
    /\ base \in [Procs -> Record \cup {NoState}]
    /\ from \in [Procs -> Builds \cup {NoBuild}]
    /\ snap \in [Procs -> [Services -> Builds \cup {NoBuild}]]
    /\ at \in [Procs -> Services]
    /\ done \in [Procs -> SUBSET Services]
    /\ bad \in [Procs -> BOOLEAN]

HistoryOK ==
    /\ runs \in [Procs -> Nat]
    /\ proven \subseteq Builds
    /\ clean \in BOOLEAN

PastOK == recorded \subseteq Builds /\ again \in BOOLEAN

(* The type invariant in four parts, which the steps touch separately. *)
LEMMA TypeParts == TypeOK <=> WorldOK /\ ProcOK /\ HistoryOK /\ PastOK
  BY DEF TypeOK, WorldOK, ProcOK, HistoryOK, PastOK

(* The same of the next state. *)
LEMMA TypePartsPrimed == TypeOK' <=> WorldOK' /\ ProcOK' /\ HistoryOK' /\ PastOK'
  BY DEF TypeOK, WorldOK, ProcOK, HistoryOK, PastOK

(* There is a first Service, and each but the last has a successor. *)
LEMMA ServiceNumbers ==
    1 \in Services /\ \A s \in Services : s < NumServices => s + 1 \in Services
  BY CutoverAssumption DEF Services

(* A process that exits leaves a well-typed memory. *)
LEMMA EndTyped ==
    ASSUME ProcOK, NEW p \in Procs, End(p)
    PROVE  ProcOK'
  BY ServiceNumbers DEF ProcOK, End, Go, Stages

(* So does one that only moves to another stage. *)
LEMMA GoTyped ==
    ASSUME ProcOK, NEW p \in Procs, NEW stage \in Stages, Go(p, stage), UNCHANGED memory
    PROVE  ProcOK'
  BY DEF ProcOK, Go, memory

(* So does one that begins with a record and an outgoing build. *)
LEMMA BeginTyped ==
    ASSUME ProcOK, NEW p \in Procs, NEW s \in Record \cup {NoState},
           NEW out \in Builds \cup {NoBuild}, NEW stage \in Stages, Begin(p, s, out, stage)
    PROVE  ProcOK'
  BY DEF ProcOK, Begin, Go

(* The cursor stays among the Services. *)
LEMMA AdvanceTyped ==
    ASSUME ProcOK, NEW p \in Procs, NEW stage \in Stages, Advance(p, stage)
    PROVE  at' \in [Procs -> Services] /\ pc' \in [Procs -> Stages]
<1>1. at[p] \in Services
  BY DEF ProcOK
<1>2. CASE at[p] < NumServices
  <2>1. at[p] + 1 \in Services
    BY <1>1, <1>2, ServiceNumbers
  <2>2. at' = [at EXCEPT ![p] = at[p] + 1] /\ pc' = pc
    BY <1>2 DEF Advance
  <2> QED
    BY <2>1, <2>2 DEF ProcOK
<1>3. CASE ~(at[p] < NumServices)
  BY <1>3, ServiceNumbers DEF ProcOK, Advance, Go
<1> QED
  BY <1>2, <1>3

(* Its steps are well-typed then. *)
LEMMA Typing ==
    ASSUME TypeOK, NEW p \in Procs, Sensible(p),
           Start(p) \/ Gate(p) \/ Switch(p) \/ Finish(p) \/ Crash(p)
    PROVE  TypeOK'
<1> USE CutoverAssumption
<1>0. WorldOK /\ ProcOK /\ HistoryOK /\ PastOK
  BY TypeParts
<1>p. PastOK'
  <2>u. ASSUME UNCHANGED past PROVE PastOK'
    BY <1>0, <2>u DEF PastOK, past
  <2>1. CASE JobStart(p)
    <3>1. recorded' = recorded /\ (again' = again \/ again' = (again \/ p \in recorded))
      BY <2>1 DEF JobStart
    <3>2. again' \in BOOLEAN
      BY <1>0, <3>1, Zenon DEF PastOK
    <3> QED
      BY <1>0, <3>1, <3>2 DEF PastOK
  <2>2. CASE Commit(p) \/ CommitFails(p)
    <3>1. To(p) \in Builds
      BY <2>2 DEF Commit, CommitFails, Sensible, Working
    <3>2. again' = again /\ (recorded' = recorded \/ recorded' = recorded \cup {To(p)})
      BY <2>2 DEF Commit, CommitFails
    <3> QED
      BY <1>0, <3>1, <3>2 DEF PastOK
  <2>3. CASE ~(JobStart(p) \/ Commit(p) \/ CommitFails(p))
    <3>1. CASE Start(p) \/ Gate(p) \/ Crash(p)
      BY <2>u, <2>3, <3>1 DEF Start, Gate, Crash, DeployStart, Helm, HelmFails, Sync, ForceSync,
            JobRetry, JobPreflightFails, RollbackStart, ScaleUp, GatesPass, GatesFail,
            Recheck, RecheckFails, Started, history
    <3>2. CASE Switch(p)
      BY <2>u, <3>2 DEF Switch, ReadSelector, ReadSelectorFails, MoveEdge, MoveEdgeFails, Patch,
            PatchFails, Unpatch, UnpatchFails, Undone, RestoreEdge, RestoreEdgeFails, history
    <3>3. CASE Finish(p)
      BY <2>u, <2>3, <3>3 DEF Finish, Poison, Park, GC, history
    <3> QED
      BY <3>1, <3>2, <3>3
  <2> QED
    BY <2>1, <2>2, <2>3
<1> SUFFICES WorldOK' /\ ProcOK' /\ HistoryOK'
  BY <1>p, TypePartsPrimed
<1>w. ASSUME UNCHANGED world PROVE WorldOK'
  BY <1>0, <1>w DEF WorldOK, world
<1>h. ASSUME UNCHANGED history PROVE HistoryOK'
  BY <1>0, <1>h DEF HistoryOK, history
<1>g. ASSUME NEW stage \in Stages, Go(p, stage), UNCHANGED memory PROVE ProcOK'
  BY <1>0, <1>g, GoTyped
<1>e. ASSUME End(p) PROVE ProcOK'
  BY <1>0, <1>e, EndTyped
<1>f. ASSUME Fail(p) PROVE ProcOK'
  BY <1>e, <1>f, <1>g DEF Fail, Stages
<1>a. ASSUME Abort(p) PROVE ProcOK'
  BY <1>e, <1>a, <1>g DEF Abort, Stages
<1>s. ASSUME Started(p) PROVE HistoryOK'
  BY <1>0, <1>s DEF HistoryOK, Started
<1>1. CASE Start(p)
  <2>1. CASE DeployStart(p)
    <3>1. state \in Record \cup {NoState} /\ state.build \in Builds
      BY <1>0 DEF WorldOK, Record
    <3>2. "helm" \in Stages
      BY DEF Stages
    <3>3. ProcOK'
      BY <1>0, <2>1, <3>1, <3>2, BeginTyped DEF DeployStart
    <3> QED
      BY <2>1, <3>3, <1>w, <1>s DEF DeployStart
  <2>2. CASE Helm(p)
    BY <2>2, <1>0, <1>g, <1>h DEF Helm, Sensible, WorldOK, Stages
  <2>3. CASE HelmFails(p)
    BY <2>3, <1>0, <1>g, <1>h DEF HelmFails, Sensible, WorldOK, Stages
  <2>4. CASE Sync(p) \/ ForceSync(p)
    <3>1. p \in Builds
      BY <2>4 DEF Sync, ForceSync, Builds
    <3> QED
      BY <2>4, <3>1, <1>0, <1>g, <1>s DEF Sync, ForceSync, WorldOK, Stages
  <2>5. CASE JobRetry(p)
    <3>1. HistoryOK'
      <4>1. runs' = [runs EXCEPT ![p] = runs[p] + 1] /\ proven' = proven /\ clean' = FALSE
        BY <2>5 DEF JobRetry
      <4>2. runs' \in [Procs -> Nat]
        BY <4>1, <1>0 DEF HistoryOK
      <4>3. clean' \in BOOLEAN
        BY <4>1
      <4> QED
        BY <4>1, <4>2, <4>3, <1>0 DEF HistoryOK
    <3> QED
      BY <2>5, <3>1, <1>g, <1>w DEF JobRetry, Stages
  <2>6. CASE JobStart(p)
    <3>1. state \in Record \cup {NoState} /\ Outgoing(p) \in Builds \cup {NoBuild}
      BY <1>0 DEF WorldOK, Record, Outgoing
    <3>2. "gates" \in Stages
      BY DEF Stages
    <3>3. ProcOK'
      BY <1>0, <1>e, <2>6, <3>1, <3>2, BeginTyped DEF JobStart
    <3> QED
      BY <2>6, <3>3, <1>0, <1>w DEF JobStart, HistoryOK
  <2>7. CASE JobPreflightFails(p)
    BY <2>7, <1>0, <1>e, <1>w DEF JobPreflightFails, HistoryOK
  <2>8. CASE RollbackStart(p)
    <3>1. state \in Record \cup {NoState} /\ state.build \in Builds
      BY <1>0 DEF WorldOK, Record
    <3>2. "scale" \in Stages
      BY DEF Stages
    <3>3. ProcOK'
      BY <1>0, <2>8, <3>1, <3>2, BeginTyped DEF RollbackStart
    <3> QED
      BY <2>8, <3>3, <1>w, <1>s DEF RollbackStart
  <2>9. CASE ScaleUp(p)
    BY <2>9, <1>0, <1>e, <1>g, <1>h DEF ScaleUp, WorldOK, Stages
  <2> QED
    BY <1>1, <2>1, <2>2, <2>3, <2>4, <2>5, <2>6, <2>7, <2>8, <2>9 DEF Start
<1>2. CASE Gate(p)
  <2>1. CASE GatesPass(p)
    BY <2>1, <1>0, <1>g, <1>w DEF GatesPass, Sensible, Working, HistoryOK, Stages
  <2>2. CASE GatesFail(p) \/ RecheckFails(p)
    BY <2>2, <1>a, <1>w, <1>h DEF GatesFail, RecheckFails
  <2>3. CASE Recheck(p)
    BY <2>3, <1>g, <1>w, <1>h DEF Recheck, Stages
  <2> QED
    BY <1>2, <2>1, <2>2, <2>3 DEF Gate
<1>3. CASE Switch(p)
  <2>1. CASE ReadSelector(p)
    <3> DEFINE b == sel[at[p]]
               failed == bad[p] \/ ~Expected(p, b)
               stage == IF p \in Rollbacks THEN "recheck"
                        ELSE IF failed THEN "restore" ELSE "patch"
    <3>1. at[p] \in Services /\ b \in Builds
      BY <1>0 DEF WorldOK, ProcOK
    <3>2. failed \in BOOLEAN
      BY <1>0 DEF ProcOK, Expected
    <3>3. stage \in Stages /\ Advance(p, stage)
      BY <2>1 DEF ReadSelector, Stages
    <3>4. at' \in [Procs -> Services] /\ pc' \in [Procs -> Stages]
      BY <3>3, <1>0, AdvanceTyped
    <3>5. snap' = [snap EXCEPT ![p][at[p]] = b] /\ bad' = [bad EXCEPT ![p] = failed]
      BY <2>1 DEF ReadSelector
    <3>6. ProcOK'
      <4> HIDE DEF b, failed
      <4>1. snap' \in [Procs -> [Services -> Builds \cup {NoBuild}]]
        BY <1>0, <3>1, <3>5 DEF ProcOK
      <4>2. bad' \in [Procs -> BOOLEAN]
        BY <1>0, <3>2, <3>5 DEF ProcOK
      <4> QED
        BY <1>0, <2>1, <3>4, <4>1, <4>2 DEF ReadSelector, ProcOK
    <3> QED
      BY <2>1, <3>6, <1>w, <1>h DEF ReadSelector
  <2>2. CASE ReadSelectorFails(p)
    <3>1. ASSUME Advance(p, "restore") PROVE at' \in [Procs -> Services] /\ pc' \in [Procs -> Stages]
      <4>1. "restore" \in Stages
        BY DEF Stages
      <4> QED
        BY <1>0, <3>1, <4>1, AdvanceTyped
    <3>2. ProcOK'
      BY <2>2, <3>1, <1>0, <1>e DEF ReadSelectorFails, ProcOK
    <3> QED
      BY <2>2, <3>2, <1>w, <1>h DEF ReadSelectorFails
  <2>3. CASE MoveEdge(p)
    BY <2>3, <1>0, <1>g, <1>h DEF MoveEdge, Sensible, Working, WorldOK, Stages
  <2>4. CASE MoveEdgeFails(p)
    BY <2>4, <1>0, <1>e DEF MoveEdgeFails, Sensible, Working, WorldOK, HistoryOK
  <2>5. CASE Patch(p) \/ PatchFails(p)
    <3>1. \A d, f : AfterPatch(p, d, f) \in Stages
      BY DEF AfterPatch, Stages
    <3>2. To(p) \in Builds /\ at[p] \in Services
      BY <2>5, <1>0 DEF Patch, PatchFails, Sensible, Working, ProcOK
    <3>3. at' \in [Procs -> Services] /\ pc' \in [Procs -> Stages]
      BY <2>5, <1>0, <3>1, AdvanceTyped DEF Patch, PatchFails
    <3>4. ProcOK'
      <4>1. done' \in [Procs -> SUBSET Services]
        <5>1. \/ done' = [done EXCEPT ![p] = done[p] \cup {at[p]}]
              \/ done' = done
          BY <2>5 DEF Patch, PatchFails
        <5> QED
          BY <5>1, <1>0, <3>2 DEF ProcOK
      <4>2. bad' \in [Procs -> BOOLEAN]
        BY <2>5, <1>0 DEF Patch, PatchFails, ProcOK
      <4> QED
        BY <2>5, <1>0, <3>3, <4>1, <4>2 DEF Patch, PatchFails, ProcOK
    <3> QED
      BY <2>5, <1>0, <3>2, <3>4 DEF Patch, PatchFails, WorldOK, HistoryOK, history
  <2>6. CASE Unpatch(p) \/ UnpatchFails(p)
    <3>1. NextPatched(p) \in done[p] /\ snap[p][NextPatched(p)] \in Builds
      BY <2>6, <1>0, NextPatchedIsDone DEF Unpatch, UnpatchFails, Sensible, ProcOK
    <3>2. Undone(p)
      BY <2>6 DEF Unpatch, UnpatchFails
    <3>3. ProcOK'
      BY <1>0, <3>2 DEF Undone, ProcOK, Go, Stages
    <3>4. HistoryOK'
      BY <1>0, <2>6, <3>2 DEF Unpatch, UnpatchFails, Undone, HistoryOK
    <3>5. WorldOK'
      BY <1>0, <2>6, <3>1, <3>2 DEF Unpatch, UnpatchFails, Undone, WorldOK
    <3> QED
      BY <3>3, <3>4, <3>5
  <2>7. CASE RestoreEdge(p) \/ RestoreEdgeFails(p)
    BY <2>7, <1>0, <1>f, <1>h DEF RestoreEdge, RestoreEdgeFails, WorldOK, ProcOK, HistoryOK
  <2> QED
    BY <1>3, <2>1, <2>2, <2>3, <2>4, <2>5, <2>6, <2>7 DEF Switch
<1>4. CASE Finish(p)
  <2>1. ASSUME pc[p] = "commit" PROVE Recorded(p) \in Record
    BY <2>1, <1>0 DEF Recorded, Record, Sensible, Working, WorldOK, ProcOK
  <2>2. CASE Commit(p)
    BY <2>2, <2>1, <1>0, <1>g DEF Commit, WorldOK, HistoryOK, Stages
  <2>3. CASE CommitFails(p)
    BY <2>3, <2>1, <1>0, <1>f DEF CommitFails, WorldOK, HistoryOK
  <2>4. CASE Poison(p)
    <3>1. base[p] \in Record
      BY <2>4 DEF Poison, Sensible
    <3>2. state' \in Record
      <4>1. CASE UNCHANGED state
        BY <4>1, <1>0 DEF WorldOK
      <4>2. CASE state' = [base[p] EXCEPT !.failed = @ \cup {p}, !.gen = state.gen + 1]
        <5>1. p \in Builds /\ state.gen + 1 \in Nat
          BY <2>4, <1>0 DEF Poison, Sensible, WorldOK, Record
        <5>2. base[p].failed \cup {p} \in SUBSET Builds
          BY <5>1, <3>1 DEF Record
        <5> QED
          BY <4>2, <5>1, <5>2, <3>1 DEF Record
      <4> QED
        BY <2>4, <4>1, <4>2 DEF Poison
    <3> QED
      BY <2>4, <3>2, <1>0, <1>e, <1>h DEF Poison, WorldOK
  <2>5. CASE Park(p)
    BY <2>5, <1>0, <1>e, <1>g, <1>h DEF Park, WorldOK, Stages
  <2>6. CASE GC(p)
    BY <2>6, <1>0, <1>e, <1>h DEF GC, WorldOK
  <2> QED
    BY <1>4, <2>2, <2>3, <2>4, <2>5, <2>6 DEF Finish
<1>5. CASE Crash(p)
  BY <1>5, <1>0, <1>e, <1>w DEF Crash, HistoryOK
<1> QED
  BY <1>1, <1>2, <1>3, <1>4, <1>5

-----------------------------------------------------------------------------
(* Serialised commands *)

Step(p) == Start(p) \/ Gate(p) \/ Switch(p) \/ Finish(p) \/ Crash(p)

(* The invariant of serialised commands gives what the typing relies on. *)
LEMMA SerialSensible ==
    ASSUME SerialInv, NEW p \in Procs
    PROVE  Sensible(p)
<1> USE CutoverAssumption, NoStateAssumption
<1>0. ProcInv(p) /\ TypeOK
  BY DEF SerialInv
<1>1. pc[p] \in Working => To(p) \in Builds
  BY <1>0 DEF ProcInv, OutgoingRuns, To, Procs, Promotions, Builds
<1>2. pc[p] = "helm" => from[p] \in Builds /\ p \in Builds
  BY <1>0 DEF ProcInv, OutgoingRuns, Role, Working, TypeOK, Builds
<1>3. pc[p] = "unpatch" => done[p] # {} /\ \A s \in done[p] : snap[p][s] \in Builds
  BY <1>0 DEF ProcInv, PatchedServe, TypeOK
<1>4. pc[p] = "poison" => base[p] \in Record /\ p \in Builds
  BY <1>0 DEF ProcInv, Informed, Role, TypeOK, Builds
<1>5. pc[p] \in Working /\ p \in Rollbacks => base[p] \in Record
  BY <1>0 DEF ProcInv, Informed, TypeOK, Builds
<1> QED
  BY <1>1, <1>2, <1>3, <1>4, <1>5 DEF Sensible

(* A step of p leaves what the others know alone. *)
LEMMA Frame ==
    ASSUME TypeOK, NEW p \in Procs, NEW q \in Procs \ {p}, Step(p)
    PROVE  /\ pc'[q] = pc[q] /\ base'[q] = base[q] /\ from'[q] = from[q] /\ snap'[q] = snap[q]
           /\ at'[q] = at[q] /\ done'[q] = done[q] /\ bad'[q] = bad[q] /\ runs'[q] = runs[q]
<1>e. ASSUME End(p) \/ UNCHANGED memory
      PROVE  /\ base'[q] = base[q] /\ from'[q] = from[q] /\ snap'[q] = snap[q]
             /\ at'[q] = at[q] /\ done'[q] = done[q] /\ bad'[q] = bad[q]
  BY <1>e DEF End, memory, TypeOK
<1>g. ASSUME NEW stage, Go(p, stage) PROVE pc'[q] = pc[q]
  BY <1>g DEF Go, TypeOK
<1>h. End(p) => pc'[q] = pc[q]
  BY <1>g DEF End
<1>s. Started(p) => runs'[q] = runs[q]
  BY DEF Started, TypeOK
<1>b. ASSUME NEW r, NEW out, NEW stage, Begin(p, r, out, stage)
      PROVE  /\ pc'[q] = pc[q] /\ base'[q] = base[q] /\ from'[q] = from[q]
             /\ snap'[q] = snap[q] /\ at'[q] = at[q] /\ done'[q] = done[q] /\ bad'[q] = bad[q]
  BY <1>b, <1>g DEF Begin, TypeOK
<1>a. ASSUME NEW stage, Advance(p, stage) PROVE pc'[q] = pc[q] /\ at'[q] = at[q]
  BY <1>a DEF Advance, Go, TypeOK
<1>1. CASE Start(p)
  <2>1. CASE DeployStart(p) \/ RollbackStart(p)
    BY <2>1, <1>b, <1>s DEF DeployStart, RollbackStart
  <2>2. CASE Helm(p) \/ HelmFails(p) \/ Sync(p) \/ ForceSync(p) \/ ScaleUp(p)
    BY <2>2, <1>e, <1>g, <1>h, <1>s DEF Helm, HelmFails, Sync, ForceSync, ScaleUp, history
  <2>3. CASE JobRetry(p)
    BY <2>3, <1>e, <1>g DEF JobRetry, TypeOK
  <2>4. CASE JobStart(p) \/ JobPreflightFails(p)
    BY <2>4, <1>b, <1>e, <1>h DEF JobStart, JobPreflightFails, history
  <2> QED
    BY <1>1, <2>1, <2>2, <2>3, <2>4 DEF Start
<1>2. CASE Gate(p)
  BY <1>2, <1>e, <1>g, <1>h DEF Gate, GatesPass, GatesFail, Recheck, RecheckFails, Abort, history
<1>3. CASE Switch(p)
  <2>1. CASE ReadSelector(p) \/ ReadSelectorFails(p)
    BY <2>1, <1>a, <1>e, <1>h DEF ReadSelector, ReadSelectorFails, history, TypeOK
  <2>2. CASE MoveEdge(p) \/ MoveEdgeFails(p) \/ RestoreEdge(p) \/ RestoreEdgeFails(p)
    BY <2>2, <1>e, <1>g, <1>h DEF MoveEdge, MoveEdgeFails, RestoreEdge, RestoreEdgeFails, Fail,
       history
  <2>3. CASE Patch(p) \/ PatchFails(p)
    BY <2>3, <1>a DEF Patch, PatchFails, history, TypeOK
  <2>4. CASE Unpatch(p) \/ UnpatchFails(p)
    BY <2>4 DEF Unpatch, UnpatchFails, Undone, Go, TypeOK
  <2> QED
    BY <1>3, <2>1, <2>2, <2>3, <2>4 DEF Switch
<1>4. CASE Finish(p) \/ Crash(p)
  BY <1>4, <1>e, <1>g, <1>h
     DEF Finish, Commit, CommitFails, Poison, Park, GC, Crash, Fail, history
<1> QED
  BY <1>1, <1>2, <1>3, <1>4 DEF Step

(* A process that ended has nothing left to guarantee. *)
LEMMA EndInv ==
    ASSUME TypeOK, NEW p \in Procs, End(p)
    PROVE  ProcInv(p)' /\ pc'[p] = "idle"
<1>1. pc'[p] = "idle" /\ Reset(p)'
  BY DEF End, Go, Reset, TypeOK
<1> QED
  BY <1>1 DEF ProcInv, Rested, Role, Informed, OutgoingRuns, IncomingRuns, SnapshotRuns,
              PatchedServe, Agreed, Tidy, Working

(* Nor has one that was idle and stays so. *)
LEMMA IdleInv ==
    ASSUME TypeOK, NEW p \in Procs, NEW q \in Procs \ {p}, Step(p), ProcInv(q), pc[q] = "idle"
    PROVE  ProcInv(q)' /\ pc'[q] = "idle"
<1>1. pc'[q] = "idle" /\ Reset(q)'
  BY Frame DEF ProcInv, Rested, Reset
<1> QED
  BY <1>1 DEF ProcInv, Rested, Role, Informed, OutgoingRuns, IncomingRuns, SnapshotRuns,
              PatchedServe, Agreed, Tidy, Working

WorldInv == RecordSound /\ TrafficSound /\ FailedRan /\ CleanAborts

(* The steps that begin a command preserve the invariant. *)
LEMMA SerialStart ==
    ASSUME SerialInv, TypeOK', Exclusive, NEW p \in Procs, Start(p)
    PROVE  ProcInv(p)' /\ WorldInv'
<1> USE CutoverAssumption, NoStateAssumption
<1>e. ASSUME End(p) PROVE ProcInv(p)' /\ pc'[p] = "idle"
  BY <1>e, EndInv DEF SerialInv
<1> USE DEF ProcInv, Rested, Reset, Role, Informed, OutgoingRuns, IncomingRuns, SnapshotRuns,
            PatchedServe, Agreed, Tidy, Working, WorldInv, RecordSound, TrafficSound, FailedRan,
            RollbackTargetKept, ServingBuildUp, Settled, To
<1>0. TypeOK /\ ProcInv(p) /\ WorldInv
  BY DEF SerialInv
<1>n. Rollbacks \cap Promotions = {} /\ Promotions \subseteq Builds
  BY DEF Promotions, Builds
<1>c. MayStart(p) => (clean => edge = state.build /\ Settled)
  BY <1>0 DEF MayStart, CleanAborts
<1>d. ASSUME pc'[p] # "idle" PROVE CleanAborts'
  BY <1>d DEF CleanAborts, AllIdle
<1>1. CASE DeployStart(p)
  <2>1. PICK r \in {state, NoState}, out \in Builds \ {p} :
           /\ Begin(p, r, out, "helm")
           /\ r = state => out = state.build
           /\ r = NoState => \A s \in Services : sel[s] = out
    BY <1>0, <1>1 DEF DeployStart, TypeOK, Record
  <2>2. /\ pc'[p] = "helm" /\ base'[p] = r /\ from'[p] = out /\ snap'[p] = snap[p]
        /\ at'[p] = at[p] /\ done'[p] = done[p] /\ pc[p] = "idle" /\ runs'[p] > 0
    BY <1>0, <1>1, <2>1 DEF DeployStart, MayStart, Begin, Go, Started, TypeOK
  <2>3. 1 \in Services
    BY ServiceNumbers
  <2>4. dep[out] = "up" /\ out \in proven /\ (clean => out = state.build)
    BY <1>0, <1>1, <1>c, <2>1, <2>3 DEF DeployStart
  <2>5. ProcInv(p)'
    BY <1>0, <1>1, <1>c, <1>n, <2>1, <2>2, <2>4 DEF DeployStart, Started, world, Promotions
  <2>6. WorldInv'
    BY <1>0, <1>1, <1>d, <2>2 DEF DeployStart, Started, world, TypeOK
  <2> QED
    BY <2>5, <2>6
<1>2. CASE Helm(p)
  <2>1. /\ pc'[p] = "gates" /\ base'[p] = base[p] /\ from'[p] = from[p] /\ snap'[p] = snap[p]
        /\ at'[p] = at[p] /\ done'[p] = done[p] /\ runs'[p] = runs[p]
    BY <1>0, <1>2 DEF Helm, Go, memory, history, TypeOK
  <2>2. /\ p \in CliBuilds /\ p \in Builds /\ p \notin Rollbacks /\ p \notin JobBuilds
        /\ from[p] \in Builds /\ from[p] # p /\ dep[from[p]] = "up" /\ from[p] \in proven
    BY <1>0, <1>2, <1>n DEF Helm, Promotions, TypeOK
  <2>3. /\ \A b \in Builds : dep'[b] = dep[b] \/ dep'[b] = "up"
        /\ \A s \in Services : sel'[s] = from[p]
        /\ state' = state /\ edge' = p /\ proven' = proven /\ clean' = clean /\ runs' = runs
    BY <1>0, <1>2 DEF Helm, history, TypeOK
  <2>4. Informed(p)' /\ OutgoingRuns(p)' /\ PatchedServe(p)' /\ (clean' => Tidy(p)')
    BY <1>0, <1>2, <2>1, <2>2, <2>3 DEF Helm
  <2>5. ProcInv(p)'
    BY <1>0, <2>1, <2>4, <1>2 DEF Helm
  <2>6. RecordSound' /\ FailedRan'
    BY <1>0, <2>3 DEF TypeOK, Record
  <2>7. TrafficSound'
    BY <2>2, <2>3
  <2>8. WorldInv'
    BY <1>d, <2>1, <2>6, <2>7
  <2> QED
    BY <2>5, <2>8
<1>3. CASE HelmFails(p)
  <2>1. /\ pc'[p] = "restore" /\ base'[p] = base[p] /\ from'[p] = from[p] /\ snap'[p] = snap[p]
        /\ at'[p] = at[p] /\ done'[p] = done[p] /\ runs'[p] = runs[p]
    BY <1>0, <1>3 DEF HelmFails, Go, memory, history, TypeOK
  <2>2. ProcInv(p)'
    BY <1>0, <1>3, <1>n, <2>1 DEF HelmFails, history, TypeOK
  <2>3. WorldInv'
    <3>1. from[p] \in Builds /\ dep[from[p]] = "up" /\ from[p] \in proven
      BY <1>0, <1>3, <1>n DEF HelmFails, Promotions, TypeOK
    <3>2. /\ \A b \in Builds : dep'[b] = dep[b] \/ dep'[b] = "up"
          /\ \A s \in Services : sel'[s] \in {sel[s], from[p]} /\ sel[s] \in Builds
          /\ state' = state /\ proven' = proven /\ runs' = runs
      BY <1>0, <1>3 DEF HelmFails, history, TypeOK
    <3>3. RecordSound' /\ FailedRan'
      BY <1>0, <3>2 DEF TypeOK, Record
    <3>4. TrafficSound'
      BY <1>0, <3>1, <3>2
    <3> QED
      BY <1>d, <2>1, <3>3, <3>4
  <2> QED
    BY <2>2, <2>3
<1>4. CASE Sync(p) \/ ForceSync(p) \/ JobRetry(p)
  <2>1. /\ pc'[p] \in {"start", "forced"} /\ base'[p] = base[p] /\ from'[p] = from[p]
        /\ snap'[p] = snap[p] /\ bad'[p] = bad[p] /\ p \in JobBuilds
        /\ at'[p] = at[p] /\ done'[p] = done[p] /\ runs'[p] > 0 /\ pc[p] = "idle"
    BY <1>0, <1>4 DEF Sync, ForceSync, JobRetry, MayStart, Go, memory, Started, TypeOK
  <2>2. Reset(p)' /\ (pc'[p] = "start" /\ clean' => p \notin state.failed)
    BY <1>0, <1>4, <2>1 DEF Sync, ForceSync, JobRetry, Started, Go, TypeOK
  <2>3. ProcInv(p)'
    BY <1>0, <1>4, <1>c, <1>n, <2>1, <2>2 DEF Sync, ForceSync, JobRetry, Started, world
  <2>4. /\ state' = state /\ proven' = proven /\ sel' = sel
        /\ \A b \in Builds : dep'[b] = dep[b] \/ dep'[b] = "up"
        /\ runs' = [runs EXCEPT ![p] = runs[p] + 1]
    BY <1>0, <1>4 DEF Sync, ForceSync, JobRetry, Started, world, TypeOK
  <2>5. WorldInv'
    <3>1. \A q \in Procs : runs[q] > 0 => runs'[q] > 0
      BY <1>0, <2>4 DEF TypeOK
    <3>2. FailedRan'
      BY <1>0, <2>4, <3>1 DEF Procs, Promotions
    <3>3. RecordSound' /\ TrafficSound'
      BY <1>0, <2>4 DEF TypeOK, Record
    <3> QED
      BY <1>d, <2>1, <3>2, <3>3
  <2> QED
    BY <2>3, <2>5
<1>5. CASE JobStart(p)
  <2>1. CASE End(p)
    <3>1. clean => edge = state.build
      BY <1>0, <1>5, <2>1 DEF JobStart, IsAlreadyPromoted, Poisoned, Begin, End, Go, TypeOK
    <3>2. WorldInv'
      BY <1>0, <1>5, <3>1 DEF JobStart, world, history, CleanAborts
    <3> QED
      BY <1>0, <2>1, <3>2, <1>e
  <2>2. CASE Begin(p, state, Outgoing(p), "gates") /\ ~IsAlreadyPromoted(p)
    <3>1. /\ pc'[p] = "gates" /\ base'[p] = state /\ from'[p] = Outgoing(p)
          /\ snap'[p] = snap[p] /\ at'[p] = at[p] /\ done'[p] = done[p] /\ runs'[p] = runs[p]
      BY <1>0, <1>5, <2>2 DEF JobStart, Begin, Go, history, TypeOK
    <3>2. clean => Outgoing(p) = state.build
      BY <1>0, <1>5, <2>2 DEF JobStart, IsAlreadyPromoted, Outgoing
    <3>3. p \in JobBuilds /\ p \notin Rollbacks /\ state # NoState
      BY <1>0, <1>5, <1>n DEF JobStart, TypeOK, Promotions
    <3>4. ProcInv(p)'
      BY <1>0, <1>5, <1>n, <3>1, <3>2, <3>3 DEF JobStart, world, history, Outgoing
    <3>5. WorldInv'
      BY <1>0, <1>5, <1>d, <3>1 DEF JobStart, world, history
    <3> QED
      BY <3>4, <3>5
  <2> QED
    BY <1>5, <2>1, <2>2 DEF JobStart
<1>6. CASE JobPreflightFails(p)
  <2>1. WorldInv'
    BY <1>0, <1>6 DEF JobPreflightFails, world, CleanAborts
  <2> QED
    BY <1>0, <1>6, <2>1, <1>e DEF JobPreflightFails
<1>7. CASE RollbackStart(p)
  <2>1. /\ pc'[p] = "scale" /\ base'[p] = state /\ from'[p] = state.build /\ snap'[p] = snap[p]
        /\ at'[p] = at[p] /\ done'[p] = done[p] /\ pc[p] = "idle" /\ runs'[p] > 0
    BY <1>0, <1>7 DEF RollbackStart, MayStart, Begin, Go, Started, TypeOK
  <2>2. state.build \in Builds /\ state.prev \in Builds /\ state # NoState
    BY <1>0, <1>7 DEF RollbackStart, TypeOK, Record
  <2>3. ProcInv(p)'
    BY <1>0, <1>7, <1>c, <1>n, <2>1, <2>2 DEF RollbackStart, Started, world, Promotions
  <2>4. WorldInv'
    BY <1>0, <1>7, <1>d, <2>1 DEF RollbackStart, Started, world, TypeOK
  <2> QED
    BY <2>3, <2>4
<1>8. CASE ScaleUp(p)
  <2>1. CASE End(p) /\ UNCHANGED dep
    <3>1. WorldInv'
      BY <1>0, <1>8, <2>1 DEF ScaleUp, history, CleanAborts
    <3> QED
      BY <1>0, <2>1, <3>1, <1>e
  <2>2. CASE Go(p, "gates") /\ UNCHANGED memory /\ dep' = [dep EXCEPT ![To(p)] = "up"]
    <3>1. /\ pc'[p] = "gates" /\ base'[p] = base[p] /\ from'[p] = from[p] /\ snap'[p] = snap[p]
          /\ at'[p] = at[p] /\ done'[p] = done[p] /\ runs'[p] = runs[p]
      BY <1>0, <1>8, <2>2 DEF ScaleUp, Go, memory, history, TypeOK
    <3>2. \A b \in Builds : dep'[b] = dep[b] \/ dep'[b] = "up"
      BY <1>0, <2>2 DEF TypeOK
    <3>3. ProcInv(p)'
      <4>1. p \in Rollbacks /\ p \notin JobBuilds /\ p \notin CliBuilds
        BY <1>0, <1>8, <1>n DEF ScaleUp, Promotions
      <4>2. state' = state /\ sel' = sel /\ edge' = edge /\ proven' = proven /\ clean' = clean
        BY <1>8 DEF ScaleUp, history
      <4>3. Informed(p)' /\ PatchedServe(p)' /\ (clean' => Tidy(p)')
        BY <1>0, <1>8, <3>1, <4>1, <4>2 DEF ScaleUp
      <4>4. OutgoingRuns(p)'
        BY <1>0, <1>8, <3>1, <3>2, <4>1, <4>2 DEF ScaleUp, TypeOK
      <4> QED
        BY <1>0, <1>8, <3>1, <4>1, <4>3, <4>4 DEF ScaleUp
    <3>4. WorldInv'
      BY <1>0, <1>8, <1>d, <3>1, <3>2 DEF ScaleUp, history, TypeOK, Record
    <3> QED
      BY <3>3, <3>4
  <2> QED
    BY <1>8, <2>1, <2>2 DEF ScaleUp
<1> QED
  BY <1>1, <1>2, <1>3, <1>4, <1>5, <1>6, <1>7, <1>8 DEF Start
(* The gates, and the read that follows them, preserve the invariant. *)
LEMMA SerialGate ==
    ASSUME SerialInv, TypeOK', NEW p \in Procs, Gate(p)
    PROVE  ProcInv(p)' /\ WorldInv'
<1> USE CutoverAssumption, NoStateAssumption
<1>e. ASSUME End(p) PROVE ProcInv(p)' /\ pc'[p] = "idle"
  BY <1>e, EndInv DEF SerialInv
<1> USE DEF ProcInv, Rested, Reset, Role, Informed, OutgoingRuns, IncomingRuns, SnapshotRuns,
            PatchedServe, Agreed, Tidy, Working, WorldInv, RecordSound, TrafficSound, FailedRan,
            RollbackTargetKept, ServingBuildUp, Settled, To
<1>0. TypeOK /\ ProcInv(p) /\ WorldInv
  BY DEF SerialInv
<1>n. Rollbacks \cap Promotions = {} /\ Promotions \subseteq Builds
  BY DEF Promotions, Builds
<1>d. ASSUME pc'[p] # "idle" PROVE CleanAborts'
  BY <1>d DEF CleanAborts, AllIdle
<1>w. UNCHANGED world /\ runs' = runs /\ clean' = clean /\ proven \subseteq proven'
  BY <1>0 DEF Gate, GatesPass, GatesFail, Recheck, RecheckFails, history
<1>r. RecordSound' /\ TrafficSound' /\ FailedRan'
  BY <1>0, <1>w DEF world
<1>m. ASSUME NEW stage, Go(p, stage), UNCHANGED memory
      PROVE  /\ pc'[p] = stage /\ base'[p] = base[p] /\ from'[p] = from[p] /\ snap'[p] = snap[p]
             /\ at'[p] = at[p] /\ done'[p] = done[p]
  BY <1>0, <1>m DEF Go, memory, TypeOK
<1>1. CASE GatesPass(p)
  <2> DEFINE stage == IF p \in Rollbacks THEN "read" ELSE "recheck"
  <2>1. /\ pc'[p] = stage /\ base'[p] = base[p] /\ from'[p] = from[p] /\ snap'[p] = snap[p]
        /\ at'[p] = at[p] /\ done'[p] = done[p] /\ pc[p] = "gates"
    BY <1>1, <1>m DEF GatesPass
  <2>2. To(p)' = To(p) /\ dep'[To(p)] = "up" /\ To(p) \in proven'
    BY <1>1, <1>w, <2>1 DEF GatesPass, world
  <2>3. Informed(p)' /\ PatchedServe(p)'
    BY <1>0, <1>w, <2>1 DEF world
  <2>4. OutgoingRuns(p)' /\ IncomingRuns(p)' /\ SnapshotRuns(p)'
    BY <1>0, <1>w, <2>1, <2>2 DEF world
  <2>5. clean' => Tidy(p)'
    BY <1>0, <1>w, <2>1 DEF world
  <2>6. Rested(p)' /\ Role(p)' /\ Agreed(p)'
    BY <1>0, <1>w, <2>1
  <2> QED
    BY <1>d, <1>r, <2>1, <2>3, <2>4, <2>5, <2>6
<1>2. CASE GatesFail(p) \/ RecheckFails(p)
  <2>1. CASE p \in Promotions /\ Go(p, "restore") /\ UNCHANGED memory
    <3>1. /\ pc'[p] = "restore" /\ base'[p] = base[p] /\ from'[p] = from[p]
          /\ snap'[p] = snap[p] /\ at'[p] = at[p] /\ done'[p] = done[p]
          /\ pc[p] \in {"gates", "recheck"} /\ proven' = proven
      BY <1>2, <1>m, <2>1 DEF GatesFail, RecheckFails, history
    <3>2. ProcInv(p)'
      BY <1>0, <1>w, <3>1 DEF world
    <3> QED
      BY <1>d, <1>r, <3>1, <3>2
  <2>2. CASE p \in Rollbacks /\ End(p)
    <3>1. pc[p] \in {"gates", "recheck"}
      BY <1>2 DEF GatesFail, RecheckFails
    <3>2. CleanAborts'
      BY <1>0, <1>w, <2>2, <3>1 DEF CleanAborts, world
    <3> QED
      BY <1>0, <1>r, <2>2, <3>2, <1>e
  <2> QED
    BY <1>2, <2>1, <2>2 DEF GatesFail, RecheckFails, Abort
<1>3. CASE Recheck(p)
  <2> DEFINE stage == IF p \in Rollbacks THEN "edge" ELSE "read"
  <2>1. /\ pc'[p] = stage /\ base'[p] = base[p] /\ from'[p] = from[p] /\ snap'[p] = snap[p]
        /\ at'[p] = at[p] /\ done'[p] = done[p] /\ pc[p] = "recheck" /\ proven' = proven
    BY <1>3, <1>m DEF Recheck, history
  <2>2. Informed(p)' /\ PatchedServe(p)' /\ Rested(p)' /\ Role(p)' /\ Agreed(p)'
    BY <1>0, <1>w, <2>1 DEF world
  <2>3. OutgoingRuns(p)' /\ IncomingRuns(p)' /\ SnapshotRuns(p)'
    BY <1>0, <1>w, <2>1 DEF world
  <2>4. clean' => Tidy(p)'
    BY <1>0, <1>w, <2>1 DEF world
  <2> QED
    BY <1>d, <1>r, <2>1, <2>2, <2>3, <2>4
<1> QED
  BY <1>1, <1>2, <1>3 DEF Gate
(* The Service cursor: it moves on, or starts over at the next stage. *)
LEMMA AdvanceSteps ==
    ASSUME TypeOK, NEW p \in Procs, NEW stage, Advance(p, stage)
    PROVE  \/ at[p] < NumServices /\ at'[p] = at[p] + 1 /\ pc'[p] = pc[p]
           \/ at[p] = NumServices /\ at'[p] = 1 /\ pc'[p] = stage
<1>1. at[p] \in Services
  BY DEF TypeOK
<1>2. at[p] <= NumServices /\ at[p] \in Nat /\ NumServices \in Nat
  BY <1>1, CutoverAssumption DEF Services
<1>3. CASE at[p] < NumServices
  BY <1>3 DEF Advance, TypeOK
<1>4. CASE ~(at[p] < NumServices)
  <2>1. at[p] = NumServices
    BY <1>2, <1>4
  <2>2. at'[p] = 1 /\ pc'[p] = stage
    BY <1>4 DEF Advance, Go, TypeOK
  <2> QED
    BY <2>1, <2>2
<1> QED
  BY <1>3, <1>4

(* Moving traffic, and putting it back, preserves the invariant. *)
LEMMA SerialSwitch ==
    ASSUME SerialInv, TypeOK', NEW p \in Procs, Switch(p)
    PROVE  ProcInv(p)' /\ WorldInv'
<1> USE CutoverAssumption, NoStateAssumption
<1>e. ASSUME End(p) PROVE ProcInv(p)' /\ pc'[p] = "idle"
  BY <1>e, EndInv DEF SerialInv
<1> USE DEF ProcInv, Rested, Reset, Role, Informed, OutgoingRuns, IncomingRuns, SnapshotRuns,
            PatchedServe, Agreed, Tidy, Working, WorldInv, RecordSound, TrafficSound, FailedRan,
            RollbackTargetKept, ServingBuildUp, Settled, To
<1>0. TypeOK /\ ProcInv(p) /\ WorldInv
  BY DEF SerialInv
<1>n. Rollbacks \cap Promotions = {} /\ Promotions \subseteq Builds
  BY DEF Promotions, Builds
<1>d. ASSUME pc'[p] # "idle" PROVE CleanAborts'
  BY <1>d DEF CleanAborts, AllIdle
<1>w. state' = state /\ dep' = dep /\ runs' = runs /\ proven' = proven /\ (clean' => clean)
  <2>1. state' = state /\ dep' = dep /\ runs' = runs /\ proven' = proven
    BY DEF Switch, ReadSelector, ReadSelectorFails, MoveEdge, MoveEdgeFails, Patch, PatchFails,
           Unpatch, UnpatchFails, Undone, RestoreEdge, RestoreEdgeFails, history, world
  <2>2. clean' = clean \/ clean' = FALSE
    BY DEF Switch, ReadSelector, ReadSelectorFails, MoveEdge, MoveEdgeFails, Patch, PatchFails,
           Unpatch, UnpatchFails, Undone, RestoreEdge, RestoreEdgeFails, history, world
  <2> QED
    BY <2>1, <2>2
<1>r. RecordSound' /\ FailedRan'
  BY <1>0, <1>w
<1>1. CASE ReadSelector(p)
  <2> DEFINE b == sel[at[p]]
             failed == bad[p] \/ ~Expected(p, b)
             stage == IF p \in Rollbacks THEN "recheck"
                      ELSE IF failed THEN "restore" ELSE "patch"
  <2>1. /\ pc[p] = "read" /\ base'[p] = base[p] /\ from'[p] = from[p]
        /\ done'[p] = done[p] /\ UNCHANGED world /\ clean' = clean
    BY <1>1 DEF ReadSelector, history
  <2>2. b \in Builds /\ dep[b] = "up" /\ b \in proven /\ (clean => b = state.build)
    BY <1>0, <2>1 DEF TypeOK
  <2>3. \A s \in Services : snap'[p][s] = snap[p][s] \/ snap'[p][s] = b
    BY <1>0, <1>1 DEF ReadSelector, TypeOK
  <2>4. pc'[p] = "read" \/ (pc'[p] = stage /\ at'[p] = 1)
    <3>1. Advance(p, stage)
      BY <1>1 DEF ReadSelector
    <3> QED
      BY <1>0, <2>1, <3>1, AdvanceSteps
  <2>5. TrafficSound' /\ CleanAborts'
    BY <1>0, <1>d, <1>w, <2>1, <2>4 DEF world
  <2> HIDE DEF b, failed
  <2>6. Informed(p)' /\ PatchedServe(p)' /\ Rested(p)' /\ Role(p)' /\ Agreed(p)'
    <3>1. at'[p] \in Services /\ \A s \in Services : ~(s < 1)
      BY DEF TypeOK, Services
    <3> QED
      BY <1>0, <1>w, <2>1, <2>4, <3>1
  <2>7. OutgoingRuns(p)' /\ IncomingRuns(p)'
    BY <1>0, <1>w, <2>1, <2>4
  <2>8. SnapshotRuns(p)'
    BY <1>0, <1>w, <2>1, <2>2, <2>3, <2>4
  <2>9. clean' => Tidy(p)'
    BY <1>0, <1>w, <2>1, <2>2, <2>3, <2>4 DEF world
  <2> QED
    BY <1>r, <2>5, <2>6, <2>7, <2>8, <2>9
<1>2. CASE ReadSelectorFails(p)
  <2>1. UNCHANGED world /\ clean' = clean /\ pc[p] = "read"
    BY <1>2 DEF ReadSelectorFails, history
  <2>2. TrafficSound'
    BY <1>0, <1>w, <2>1 DEF world
  <2>3. CASE p \in Rollbacks /\ End(p)
    <3>1. CleanAborts'
      BY <1>0, <2>1, <2>3 DEF CleanAborts, world
    <3> QED
      BY <1>0, <1>r, <2>2, <2>3, <3>1, <1>e
  <2>4. CASE /\ p \in Promotions /\ Advance(p, "restore")
             /\ UNCHANGED <<base, from, snap, done>>
    <3>1. pc'[p] \in {"read", "restore"}
      BY <1>0, <2>1, <2>4, AdvanceSteps
    <3>2. ProcInv(p)'
      BY <1>0, <1>w, <2>1, <2>4, <3>1 DEF world
    <3> QED
      BY <1>d, <1>r, <2>2, <3>1, <3>2
  <2> QED
    BY <1>2, <2>3, <2>4 DEF ReadSelectorFails
<1>3. CASE MoveEdge(p)
  <2>1. /\ pc'[p] = "patch" /\ base'[p] = base[p] /\ from'[p] = from[p] /\ snap'[p] = snap[p]
        /\ at'[p] = at[p] /\ done'[p] = done[p] /\ pc[p] = "edge" /\ bad'[p] = bad[p]
        /\ sel' = sel /\ edge' = To(p) /\ clean' = clean
    BY <1>0, <1>3 DEF MoveEdge, Go, memory, history, TypeOK
  <2>2. at'[p] = 1 /\ \A s \in Services : ~(s < 1)
    BY <1>0, <2>1 DEF Services
  <2>3. Informed(p)' /\ PatchedServe(p)' /\ Rested(p)' /\ Role(p)' /\ Agreed(p)'
    BY <1>0, <1>w, <2>1, <2>2
  <2>4. OutgoingRuns(p)' /\ IncomingRuns(p)' /\ SnapshotRuns(p)'
    BY <1>0, <1>w, <2>1
  <2>5. clean' => Tidy(p)'
    BY <1>0, <1>w, <2>1
  <2>6. TrafficSound'
    BY <1>0, <1>w, <2>1
  <2> QED
    BY <1>d, <1>r, <2>1, <2>3, <2>4, <2>5, <2>6
<1>4. CASE MoveEdgeFails(p)
  <2>1. End(p) /\ sel' = sel /\ pc[p] = "edge" /\ (clean' => edge' = edge)
    BY <1>4 DEF MoveEdgeFails
  <2>2. TrafficSound' /\ CleanAborts'
    BY <1>0, <1>w, <2>1 DEF CleanAborts
  <2> QED
    BY <1>0, <1>r, <2>1, <2>2, <1>e
<1>5. CASE Patch(p) \/ PatchFails(p)
  <2>1. /\ pc[p] = "patch" /\ base'[p] = base[p] /\ from'[p] = from[p] /\ snap'[p] = snap[p]
        /\ edge' = edge /\ (bad'[p] = bad[p] \/ bad'[p] = TRUE)
    BY <1>0, <1>5 DEF Patch, PatchFails, TypeOK
  <2>2. To(p) \in Builds /\ dep[To(p)] = "up" /\ To(p) \in proven /\ To(p)' = To(p)
    BY <1>0, <2>1, <1>n, SerialSensible DEF Sensible
  <2>3. /\ at[p] \in Services
        /\ \A s \in Services : sel'[s] = sel[s] \/ sel'[s] = To(p)
        /\ \A s \in Services : s # at[p] => sel'[s] = sel[s]
    BY <1>0, <1>5 DEF Patch, PatchFails, TypeOK
  <2>4. TrafficSound'
    BY <1>0, <1>w, <2>2, <2>3
  <2>5. /\ Patch(p) => /\ done'[p] = done[p] \cup {at[p]} /\ sel'[at[p]] = To(p)
                       /\ bad'[p] = bad[p] /\ snap[p][at[p]] \in Builds /\ clean' = clean
        /\ PatchFails(p) => done'[p] = done[p] /\ bad'[p] = TRUE /\ (clean' => sel' = sel)
    BY <1>0, <2>3 DEF Patch, PatchFails, TypeOK, history
  <2>6. \/ at[p] < NumServices /\ at'[p] = at[p] + 1 /\ pc'[p] = "patch"
        \/ at[p] = NumServices /\ at'[p] = 1 /\ pc'[p] = AfterPatch(p, done'[p], bad'[p])
    <3>1. Advance(p, AfterPatch(p, done'[p], bad'[p]))
      BY <1>5, <2>5 DEF Patch, PatchFails
    <3> QED
      BY <1>0, <2>1, <3>1, AdvanceSteps
  <2>7. /\ pc'[p] \in {"patch", "commit", "restore", "unpatch"}
        /\ pc'[p] = "commit" => at[p] = NumServices /\ ~bad'[p]
        /\ pc'[p] = "restore" => done'[p] = {}
        /\ pc'[p] = "unpatch" => done'[p] # {}
    BY <2>6 DEF AfterPatch
  <2>8. \A s \in done'[p] : sel'[s] = To(p) /\ snap'[p][s] # NoBuild
    <3>1. \A s \in done[p] : s \in Services /\ sel[s] = To(p) /\ snap[p][s] # NoBuild
      BY <1>0, <2>1 DEF TypeOK
    <3>2. \A s \in done[p] : sel'[s] = To(p) /\ snap'[p][s] # NoBuild
      BY <2>1, <2>3, <3>1
    <3> QED
      BY <1>5, <2>1, <2>5, <3>2
  <2>9. ~bad'[p] => \A s \in Services : s <= at[p] => s \in done'[p]
    <3>1. \A s \in Services : s <= at[p] => s < at[p] \/ s = at[p]
      BY <2>3 DEF Services
    <3> QED
      BY <1>0, <1>5, <2>1, <2>5, <3>1
  <2>10. PatchedServe(p)'
    <3>1. pc'[p] = "patch" /\ ~bad'[p] => \A s \in Services : s < at'[p] => s \in done'[p]
      BY <2>3, <2>6, <2>9 DEF Services
    <3>2. pc'[p] = "commit" => \A s \in Services : sel'[s] = To(p)
      BY <2>7, <2>8, <2>9 DEF Services
    <3> QED
      BY <2>2, <2>7, <2>8, <3>1, <3>2
  <2>11. Informed(p)' /\ Rested(p)' /\ Role(p)' /\ Agreed(p)'
    BY <1>0, <1>w, <2>1, <2>7
  <2>12. OutgoingRuns(p)' /\ IncomingRuns(p)' /\ SnapshotRuns(p)'
    BY <1>0, <1>w, <2>1, <2>7
  <2>13. clean' => Tidy(p)'
    <3>1. clean' => \A s \in Services : s \notin done'[p] => sel'[s] = state.build
      BY <1>0, <1>5, <1>w, <2>1, <2>3, <2>5
    <3>2. clean' => from[p] = state.build /\ edge' = To(p)
      BY <1>0, <1>w, <2>1
    <3>3. clean' => \A s \in Services : snap'[p][s] # NoBuild => snap'[p][s] = state.build
      BY <1>0, <1>w, <2>1
    <3> QED
      BY <1>w, <2>1, <2>2, <2>7, <3>1, <3>2, <3>3
  <2> QED
    BY <1>d, <1>r, <2>4, <2>7, <2>10, <2>11, <2>12, <2>13
<1>6. CASE Unpatch(p) \/ UnpatchFails(p)
  <2> DEFINE n == NextPatched(p)
  <2>1. /\ pc[p] = "unpatch" /\ base'[p] = base[p] /\ from'[p] = from[p] /\ snap'[p] = snap[p]
        /\ edge' = edge /\ done'[p] = done[p] \ {n}
        /\ pc'[p] = (IF done'[p] = {} THEN "restore" ELSE "unpatch")
    BY <1>0, <1>6 DEF Unpatch, UnpatchFails, Undone, Go, TypeOK
  <2>2. n \in done[p] /\ n \in Services /\ snap[p][n] \in Builds
    BY <1>0, <2>1, NextPatchedIsDone DEF TypeOK
  <2> HIDE DEF n
  <2>3. \/ clean' = FALSE /\ sel' = sel
        \/ clean' = clean /\ sel' = [sel EXCEPT ![n] = snap[p][n]]
    BY <1>6 DEF Unpatch, UnpatchFails, n
  <2>4. TrafficSound'
    BY <1>0, <1>w, <2>1, <2>2, <2>3 DEF TypeOK
  <2>5. PatchedServe(p)'
    BY <1>0, <2>1, <2>2, <2>3 DEF TypeOK
  <2>6. Informed(p)' /\ Rested(p)' /\ Role(p)' /\ Agreed(p)'
    BY <1>0, <1>w, <2>1
  <2>7. OutgoingRuns(p)' /\ IncomingRuns(p)' /\ SnapshotRuns(p)'
    BY <1>0, <1>w, <2>1
  <2>8. clean' => Tidy(p)'
    <3>1. clean' => \A s \in Services : s \notin done'[p] => sel'[s] = state.build
      BY <1>0, <1>w, <2>1, <2>2, <2>3 DEF TypeOK
    <3> QED
      BY <1>0, <1>w, <2>1, <3>1
  <2> QED
    BY <1>d, <1>r, <2>1, <2>4, <2>5, <2>6, <2>7, <2>8
<1>7. CASE RestoreEdge(p) \/ RestoreEdgeFails(p)
  <2>1. /\ Fail(p) /\ sel' = sel /\ pc[p] = "restore"
        /\ clean' => edge' = IF from[p] = NoBuild THEN edge ELSE from[p]
    BY <1>7 DEF RestoreEdge, RestoreEdgeFails
  <2>2. TrafficSound'
    BY <1>0, <1>w, <2>1
  <2>3. clean' => edge' = state.build /\ Settled
    BY <1>0, <1>w, <2>1 DEF TypeOK, Record
  <2>4. CASE p \in JobBuilds /\ Go(p, "poison") /\ UNCHANGED memory
    <3>1. /\ pc'[p] = "poison" /\ base'[p] = base[p] /\ p \notin CliBuilds
      BY <1>0, <2>4 DEF Go, memory, TypeOK
    <3>2. base[p] = state
      BY <1>0, <2>1, <3>1
    <3>3. state.gen \in Nat /\ state # NoState
      BY <1>0 DEF TypeOK, Record
    <3>4. Informed(p)'
      BY <1>w, <3>1, <3>2, <3>3
    <3>5. ProcInv(p)'
      BY <1>0, <1>w, <2>1, <2>3, <2>4, <3>1, <3>4
    <3> QED
      BY <1>d, <1>r, <2>2, <3>1, <3>5
  <2>5. CASE End(p)
    <3>1. CleanAborts'
      BY <1>w, <2>1, <2>3 DEF CleanAborts
    <3> QED
      BY <1>0, <1>r, <2>2, <2>5, <3>1, <1>e
  <2> QED
    BY <2>1, <2>4, <2>5 DEF Fail
<1> QED
  BY <1>1, <1>2, <1>3, <1>4, <1>5, <1>6, <1>7 DEF Switch
(* Recording, cleaning up and crashing preserve the invariant. *)
LEMMA SerialFinish ==
    ASSUME SerialInv, TypeOK', NEW p \in Procs, Finish(p) \/ Crash(p)
    PROVE  ProcInv(p)' /\ WorldInv'
<1> USE CutoverAssumption, NoStateAssumption
<1>e. ASSUME End(p) PROVE ProcInv(p)' /\ pc'[p] = "idle"
  BY <1>e, EndInv DEF SerialInv
<1> USE DEF ProcInv, Rested, Reset, Role, Informed, OutgoingRuns, IncomingRuns, SnapshotRuns,
            PatchedServe, Agreed, Tidy, Working, WorldInv, RecordSound, TrafficSound, FailedRan,
            RollbackTargetKept, ServingBuildUp, Settled, To
<1>0. TypeOK /\ ProcInv(p) /\ WorldInv
  BY DEF SerialInv
<1>n. Rollbacks \cap Promotions = {} /\ Promotions \subseteq Builds
  BY DEF Promotions, Builds
<1>d. ASSUME pc'[p] # "idle" PROVE CleanAborts'
  BY <1>d DEF CleanAborts, AllIdle
<1>m. ASSUME NEW stage, Go(p, stage), UNCHANGED memory
      PROVE  pc'[p] = stage /\ base'[p] = base[p] /\ from'[p] = from[p]
  BY <1>0, <1>m DEF Go, memory, TypeOK
<1>s. state.gen \in Nat /\ state # NoState /\ state.failed \subseteq Builds
  BY <1>0 DEF TypeOK, Record
<1>t. ASSUME pc[p] = "commit"
      PROVE  /\ To(p) \in Builds /\ dep[To(p)] = "up" /\ To(p) \in proven
             /\ from[p] # To(p) /\ (from[p] # NoBuild => dep[from[p]] = "up")
             /\ \A s \in Services : sel[s] = To(p)
             /\ p \in Rollbacks => base[p] = state
             /\ p \notin CliBuilds => base[p] = state
  <2>1. To(p) \in Builds
    BY <1>t, SerialSensible DEF Sensible
  <2>2. p \in Rollbacks => p \notin CliBuilds
    BY DEF Builds
  <2> QED
    BY <1>0, <1>t, <2>1, <2>2
<1>u. ASSUME pc[p] = "commit", state' = Recorded(p), UNCHANGED <<sel, dep, proven, runs>>
      PROVE  RecordSound' /\ TrafficSound' /\ FailedRan'
  <2>1. state'.build = To(p) /\ state'.prev = from[p]
    BY <1>u DEF Recorded
  <2>2. state'.failed = IF p \in Rollbacks THEN state.failed ELSE {}
    BY <1>t, <1>u DEF Recorded
  <2>3. RecordSound'
    BY <1>t, <1>u, <2>1
  <2>4. FailedRan'
    BY <1>0, <1>u, <2>2
  <2> QED
    BY <1>0, <1>u, <2>3, <2>4
<1>1. CASE Commit(p)
  <2>1. /\ pc[p] = "commit" /\ state' = Recorded(p) /\ UNCHANGED <<sel, dep, proven, runs>>
        /\ clean' = clean /\ edge' = edge
    BY <1>1 DEF Commit, history
  <2>2. pc'[p] = "park" /\ base'[p] = base[p] /\ from'[p] = from[p]
    BY <1>1, <1>m DEF Commit
  <2>3. state'.build = To(p) /\ state'.prev = from[p]
    BY <2>1 DEF Recorded
  <2>4. Informed(p)' /\ Agreed(p)'
    BY <1>0, <1>t, <2>1, <2>2, <2>3
  <2>5. ProcInv(p)'
    BY <1>0, <2>1, <2>2, <2>4
  <2> QED
    BY <1>d, <1>u, <2>1, <2>2, <2>5
<1>2. CASE CommitFails(p)
  <2>1. /\ pc[p] = "commit" /\ state' \in {state, Recorded(p)}
        /\ UNCHANGED <<sel, dep, proven, runs>> /\ clean' = FALSE /\ Fail(p)
    BY <1>2 DEF CommitFails
  <2>2. RecordSound' /\ TrafficSound' /\ FailedRan'
    BY <1>0, <1>u, <2>1
  <2>3. CleanAborts'
    BY <2>1 DEF CleanAborts
  <2>4. CASE p \in JobBuilds /\ Go(p, "poison") /\ UNCHANGED memory
    <3>1. pc'[p] = "poison" /\ base'[p] = base[p] /\ from'[p] = from[p] /\ p \notin CliBuilds
      BY <1>m, <2>4
    <3>2. base[p] = state
      BY <1>t, <2>1, <3>1
    <3>3. state' = state \/ state'.gen = state.gen + 1
      BY <2>1 DEF Recorded
    <3>4. Informed(p)'
      BY <1>s, <3>1, <3>2, <3>3
    <3>5. ProcInv(p)'
      BY <1>0, <2>1, <2>4, <3>1, <3>4
    <3> QED
      BY <2>2, <2>3, <3>5
  <2>5. CASE End(p)
    BY <1>0, <2>2, <2>3, <2>5, <1>e
  <2> QED
    BY <2>1, <2>4, <2>5 DEF Fail
<1>3. CASE Poison(p)
  <2>1. /\ pc[p] = "poison" /\ End(p) /\ UNCHANGED <<sel, edge, dep, runs, proven, clean>>
        /\ p \in JobBuilds /\ p \notin CliBuilds /\ runs[p] > 0
    BY <1>0, <1>3 DEF Poison, history
  <2>2. CASE UNCHANGED state
    <3>1. RecordSound' /\ TrafficSound' /\ FailedRan' /\ CleanAborts'
      BY <1>0, <2>1, <2>2 DEF CleanAborts
    <3> QED
      BY <2>1, <3>1, <1>e
  <2>3. CASE /\ ~MovedSince(p)
             /\ state' = [base[p] EXCEPT !.failed = @ \cup {p}, !.gen = state.gen + 1]
    <3>1. base[p] # NoState /\ base[p].gen <= state.gen /\ base[p] \in Record
      BY <1>0, <2>1 DEF TypeOK
    <3>2. base[p].gen = state.gen
      BY <1>s, <2>3, <3>1 DEF MovedSince, Record
    <3>3. base[p] = state
      BY <1>0, <2>1, <3>2
    <3>4. /\ state'.build = state.build /\ state'.prev = state.prev
          /\ state'.failed = state.failed \cup {p}
      BY <2>3, <3>1, <3>3 DEF Record
    <3>5. RecordSound' /\ TrafficSound' /\ FailedRan' /\ CleanAborts'
      BY <1>0, <2>1, <3>4 DEF CleanAborts
    <3> QED
      BY <2>1, <3>5, <1>e
  <2> QED
    BY <1>3, <2>2, <2>3 DEF Poison
<1>4. CASE Park(p)
  <2>1. /\ pc[p] = "park" /\ UNCHANGED <<state, sel, edge, runs, proven, clean>>
    BY <1>4 DEF Park, history
  <2>2. /\ state.build = To(p) /\ state.prev = from[p] /\ from[p] # To(p)
        /\ \A s \in Services : sel[s] = To(p)
    BY <1>0, <2>1
  <2>3. /\ \A b \in Builds : b # from[p] => dep'[b] = dep[b]
        /\ from[p] # NoBuild => dep'[from[p]] # "none"
    BY <1>0, <1>4, <2>2 DEF Park, TypeOK
  <2>4. state.build \in Builds
    BY <1>0 DEF TypeOK, Record
  <2>5. RecordSound' /\ TrafficSound' /\ FailedRan'
    BY <1>0, <2>1, <2>2, <2>3, <2>4
  <2>6. clean => edge = state.build /\ Settled
    BY <1>0, <2>1, <2>2
  <2>7. CleanAborts'
    BY <2>1, <2>6 DEF CleanAborts
  <2>8. CASE p \in Promotions /\ Go(p, "gc") /\ UNCHANGED memory
    <3>1. pc'[p] = "gc" /\ base'[p] = base[p] /\ from'[p] = from[p]
      BY <1>m, <2>8
    <3>2. ProcInv(p)'
      BY <1>0, <2>1, <2>8, <3>1
    <3> QED
      BY <2>5, <2>7, <3>2
  <2>9. CASE End(p)
    BY <1>0, <2>5, <2>7, <2>9, <1>e
  <2> QED
    BY <1>4, <2>8, <2>9 DEF Park
<1>5. CASE GC(p)
  <2>1. pc[p] = "gc" /\ UNCHANGED <<state, sel, edge, runs, proven, clean>> /\ End(p)
    BY <1>5 DEF GC, history
  <2>2. /\ state.build = To(p) /\ state.prev = from[p]
        /\ \A s \in Services : sel[s] = To(p)
    BY <1>0, <2>1
  <2>3. PICK gone \in SUBSET Superseded(p) :
           dep' = [b \in Builds |-> IF b \in gone THEN "none" ELSE dep[b]]
    BY <1>5 DEF GC
  <2>4. state.build \in Builds /\ state.prev \in Builds \cup {NoBuild}
    BY <1>0 DEF TypeOK, Record
  <2>5. dep'[state.build] = dep[state.build] /\ (state.prev # NoBuild => dep'[state.prev] = dep[state.prev])
    <3>1. state.build \notin gone /\ state.prev \notin gone
      BY <2>2 DEF Superseded
    <3> QED
      BY <2>3, <2>4, <3>1
  <2>6. RecordSound' /\ TrafficSound' /\ FailedRan'
    BY <1>0, <2>1, <2>2, <2>4, <2>5
  <2>7. CleanAborts'
    BY <1>0, <2>1, <2>2 DEF CleanAborts
  <2> QED
    BY <1>0, <2>1, <2>6, <2>7, <1>e
<1>6. CASE Crash(p)
  <2>1. RecordSound' /\ TrafficSound' /\ FailedRan' /\ CleanAborts'
    BY <1>0, <1>6 DEF Crash, world, CleanAborts
  <2> QED
    BY <1>0, <1>6, <2>1, <1>e DEF Crash
<1> QED
  BY <1>1, <1>2, <1>3, <1>4, <1>5, <1>6 DEF Finish

(* Every step of serialised commands preserves the invariant. *)
LEMMA SerialStep ==
    ASSUME SerialInv, Exclusive, [Next]_vars
    PROVE  SerialInv'
<1>1. CASE UNCHANGED vars
  BY <1>1 DEF vars, world, memory, history, past, SerialInv, TypeOK, OneAtATime, RecordSound,
              TrafficSound, FailedRan, CleanAborts, AllIdle, ProcInv, Rested, Reset, Role, Informed,
              OutgoingRuns, IncomingRuns, SnapshotRuns, PatchedServe, Agreed, Tidy, Settled, To,
              RollbackTargetKept, ServingBuildUp
<1>2. ASSUME NEW p \in Procs, Step(p) PROVE SerialInv'
  <2>1. TypeOK'
    BY <1>2, Typing, SerialSensible DEF SerialInv, Step
  <2>2. ProcInv(p)' /\ WorldInv'
    BY <1>2, <2>1, SerialStart, SerialGate, SerialSwitch, SerialFinish DEF Step
  <2>3. \A q \in Procs \ {p} : pc[q] = "idle"
    <3>1. pc[p] # "idle" \/ AllIdle
      BY <1>2 DEF Step, Start, Gate, Switch, Finish, Crash, DeployStart, Helm, HelmFails, Sync,
                  ForceSync, JobRetry, JobStart, JobPreflightFails, RollbackStart, ScaleUp,
                  GatesPass, GatesFail, Recheck, RecheckFails, ReadSelector, ReadSelectorFails,
                  MoveEdge, MoveEdgeFails, Patch, PatchFails, Unpatch, UnpatchFails, RestoreEdge,
                  RestoreEdgeFails, Commit, CommitFails, Poison, Park, GC, MayStart
    <3> QED
      BY <3>1 DEF SerialInv, OneAtATime, AllIdle
  <2>4. \A q \in Procs \ {p} : ProcInv(q)' /\ pc'[q] = "idle"
    BY <1>2, <2>3, IdleInv DEF SerialInv
  <2>5. OneAtATime'
    BY <2>4 DEF OneAtATime
  <2>6. \A q \in Procs : ProcInv(q)'
    BY <2>2, <2>4
  <2> QED
    BY <2>1, <2>2, <2>5, <2>6 DEF SerialInv, WorldInv
<1> QED
  BY <1>1, <1>2 DEF Next, Step

(* The release before any command satisfies the invariant. *)
LEMMA SerialInit == Init => SerialInv
<1> USE CutoverAssumption, NoStateAssumption
<1> SUFFICES ASSUME Init PROVE SerialInv
  OBVIOUS
<1>1. Current \in Builds /\ Previous \in Builds
  BY DEF Builds
<1>2. TypeOK
  <2>1. WorldOK
    BY <1>1 DEF Init, WorldOK, Record
  <2>2. ProcOK
    BY ServiceNumbers DEF Init, ProcOK, Stages
  <2>3. HistoryOK
    BY <1>1 DEF Init, HistoryOK
  <2>4. PastOK
    BY <1>1 DEF Init, PastOK
  <2> QED
    BY <2>1, <2>2, <2>3, <2>4, TypeParts
<1>3. OneAtATime
  BY DEF Init, OneAtATime
<1>4. RecordSound /\ TrafficSound /\ FailedRan /\ CleanAborts
  BY <1>1 DEF Init, RecordSound, TrafficSound, FailedRan, CleanAborts, RollbackTargetKept,
              ServingBuildUp
<1>5. ASSUME NEW p \in Procs PROVE ProcInv(p)
  <2>1. pc[p] = "idle" /\ Reset(p)
    BY DEF Init, Reset
  <2> QED
    BY <2>1 DEF ProcInv, Rested, Role, Informed, OutgoingRuns, IncomingRuns, SnapshotRuns,
                PatchedServe, Agreed, Tidy, Working
<1> QED
  BY <1>2, <1>3, <1>4, <1>5 DEF SerialInv
(* Serialised deploys, Jobs and rollbacks keep the invariant: what a stage  *)
(* of run.ts relies on is what the stages before it have left.              *)
THEOREM SerialInvariant ==
    ASSUME Exclusive PROVE Spec => []SerialInv
<1>1. Init => SerialInv
  BY SerialInit
<1>2. SerialInv /\ [Next]_vars => SerialInv'
  BY SerialStep
<1> QED
  BY <1>1, <1>2, PTL DEF Spec

(* Whatever fails or crashes in between, every stable Service selects a     *)
(* build that runs: no park, garbage collection, Helm render or undo takes  *)
(* the pods away from under a selector.                                     *)
THEOREM SerialServing ==
    ASSUME Exclusive PROVE Spec => []ServingBuildUp
<1>1. SerialInv => ServingBuildUp
  BY DEF SerialInv, TrafficSound
<1> QED
  BY <1>1, SerialInvariant, PTL

(* The recorded build runs and its rollback target exists, after any        *)
(* failure: E5 and E6 follow E2.                                            *)
THEOREM SerialRollbackTarget ==
    ASSUME Exclusive PROVE Spec => []RollbackTargetKept
<1>1. SerialInv => RollbackTargetKept
  BY DEF SerialInv, RecordSound
<1> QED
  BY <1>1, SerialInvariant, PTL

(* N25: an abort that nothing disturbed leaves edge, selectors and record   *)
(* on one build, at whichever stage it happened.                            *)
THEOREM SerialAborts ==
    ASSUME Exclusive PROVE Spec => []CleanAborts
<1>1. SerialInv => CleanAborts
  BY DEF SerialInv
<1> QED
  BY <1>1, SerialInvariant, PTL

(* Which steps write the record's build: E2, when every Service selects the *)
(* build it records; a failed promotion is recorded without moving it.      *)
LEMMA RecordSteps ==
    ASSUME SerialInv, NEW p \in Procs, Step(p), state'.build # state.build
    PROVE  \A s \in Services : sel[s] = state'.build
<1>0. TypeOK /\ ProcInv(p)
  BY DEF SerialInv
<1>1. CASE Commit(p) \/ CommitFails(p)
  <2>1. pc[p] = "commit" /\ state'.build = To(p)
    BY <1>1 DEF Commit, CommitFails, Recorded
  <2> QED
    BY <1>0, <2>1 DEF ProcInv, PatchedServe
<1>2. CASE Poison(p)
  <2>1. /\ pc[p] = "poison" /\ ~MovedSince(p)
        /\ state' = [base[p] EXCEPT !.failed = @ \cup {p}, !.gen = state.gen + 1]
    BY <1>2 DEF Poison
  <2>2. p \in JobBuilds /\ p \notin CliBuilds
    BY <1>0, <2>1, CutoverAssumption DEF ProcInv, Role
  <2>3. base[p] # NoState /\ base[p].gen <= state.gen
    BY <1>0, <2>1, <2>2 DEF ProcInv, Informed
  <2>4. base[p] \in Record /\ base[p].gen \in Nat /\ state.gen \in Nat
    BY <1>0, <2>3 DEF TypeOK, Record
  <2>5. base[p] = state
    BY <1>0, <2>1, <2>3, <2>4 DEF ProcInv, Informed, MovedSince
  <2>6. state'.build = state.build
    BY <2>1, <2>4, <2>5 DEF Record
  <2> QED
    BY <2>6
<1>3. CASE ~(Commit(p) \/ CommitFails(p) \/ Poison(p))
  BY <1>3 DEF Step, Start, Gate, Switch, Finish, Crash, DeployStart, Helm, HelmFails, Sync,
              ForceSync, JobRetry, JobStart, JobPreflightFails, RollbackStart, ScaleUp,
              GatesPass, GatesFail, Recheck, RecheckFails, ReadSelector, ReadSelectorFails,
              MoveEdge, MoveEdgeFails, Patch, PatchFails, Unpatch, UnpatchFails, Undone,
              RestoreEdge, RestoreEdgeFails, Park, GC, world
<1> QED
  BY <1>1, <1>2, <1>3

(* The record only comes to name a build that every Service selects: a      *)
(* failed deploy never records a build that did not serve.                  *)
THEOREM SerialCommit ==
    ASSUME Exclusive PROVE Spec => CommitFollowsTraffic
<1>1. SerialInv /\ [Next]_vars
        => [state'.build # state.build => \A s \in Services : sel[s] = state'.build]_vars
  BY RecordSteps DEF Next, Step
<1> QED
  BY <1>1, SerialInvariant, PTL DEF Spec, CommitFollowsTraffic

(* Which steps point a selector elsewhere: Helm at the outgoing build, a    *)
(* patch at the incoming one, an undo at what was read.                     *)
LEMMA SelectorSteps ==
    ASSUME SerialInv, NEW p \in Procs, Step(p), NEW s \in Services, sel'[s] # sel[s]
    PROVE  sel'[s] \in proven
<1>0. TypeOK /\ ProcInv(p)
  BY DEF SerialInv
<1>1. CASE Helm(p) \/ HelmFails(p)
  <2>1. pc[p] = "helm" /\ sel'[s] = from[p] /\ p \in CliBuilds
    BY <1>0, <1>1 DEF Helm, HelmFails, ProcInv, Role
  <2> QED
    BY <1>0, <2>1, CutoverAssumption DEF ProcInv, OutgoingRuns, Working
<1>2. CASE Patch(p) \/ PatchFails(p)
  <2>1. pc[p] = "patch" /\ sel'[s] = To(p)
    BY <1>0, <1>2 DEF Patch, PatchFails, TypeOK
  <2> QED
    BY <1>0, <2>1 DEF ProcInv, IncomingRuns
<1>3. CASE Unpatch(p)
  <2>1. pc[p] = "unpatch" /\ done[p] # {} /\ done[p] \subseteq Services
    BY <1>0, <1>3 DEF Unpatch, ProcInv, PatchedServe, TypeOK
  <2>2. NextPatched(p) \in done[p]
    BY <2>1, NextPatchedIsDone
  <2>3. s = NextPatched(p) /\ sel'[s] = snap[p][s]
    BY <1>0, <1>3 DEF Unpatch, TypeOK
  <2> QED
    BY <1>0, <2>1, <2>2, <2>3 DEF ProcInv, PatchedServe, SnapshotRuns
<1>4. CASE ~(Helm(p) \/ HelmFails(p) \/ Patch(p) \/ PatchFails(p) \/ Unpatch(p))
  BY <1>4 DEF Step, Start, Gate, Switch, Finish, Crash, DeployStart, Sync,
              ForceSync, JobRetry, JobStart, JobPreflightFails, RollbackStart, ScaleUp,
              GatesPass, GatesFail, Recheck, RecheckFails, ReadSelector, ReadSelectorFails,
              MoveEdge, MoveEdgeFails, UnpatchFails, RestoreEdge, RestoreEdgeFails,
              Commit, CommitFails, Poison, Park, GC, world
<1> QED
  BY <1>1, <1>2, <1>3, <1>4

(* A selector is only ever pointed at a build that has passed its gates.    *)
THEOREM SerialTraffic ==
    ASSUME Exclusive PROVE Spec => ProvenTraffic
<1>1. SerialInv /\ [Next]_vars
        => [\A s \in Services : sel'[s] # sel[s] => sel'[s] \in proven]_vars
  BY SelectorSteps DEF Next, Step
<1> QED
  BY <1>1, SerialInvariant, PTL DEF Spec, ProvenTraffic
-----------------------------------------------------------------------------
(***************************************************************************)
(* Jobs that overlap                                                       *)
(***************************************************************************)

(* Any number of bundles are applied side by side, each Job runs any number *)
(* of pods, and no CLI command interferes: Helm's render does not compare.  *)
JobsAlone == CliBuilds = {} /\ Rollbacks = {}

(* The stages in which a Job has changed selectors. *)
Sent == {"patch", "unpatch", "commit"}

(* The stages of a Job between its start and its write of the record. *)
Promoting == {"gates", "recheck", "read", "patch", "unpatch", "restore", "commit"}

(* A build the record has never named is not what any Job moves traffic     *)
(* away from; and a Job promotes no other.                                  *)
Unrecorded(p) ==
    /\ p \notin recorded => state.build # p /\ \A q \in JobBuilds : from[q] # p
    /\ pc[p] \in Promoting => p \notin recorded

(* What a Job read of the record is the record or is older. *)
JobBase(p) ==
    /\ pc[p] \in {"gates", "recheck", "read", "patch", "unpatch", "restore", "commit", "poison"}
           => base[p] # NoState /\ from[p] = base[p].build
    /\ base[p] # NoState => base[p].gen <= state.gen
    /\ base[p] # NoState /\ base[p].gen = state.gen => base[p].build = state.build

(* The cursor, and what it has passed. *)
Cursor(p) ==
    /\ pc[p] \notin {"read", "patch"} => at[p] = 1
    /\ pc[p] \in {"gates", "recheck", "read", "restore"} => done[p] = {}
    /\ pc[p] = "read" /\ ~bad[p] => \A s \in Services : s < at[p] => snap[p][s] = from[p]
    /\ pc[p] = "patch" => \A s \in Services : snap[p][s] = from[p]
    /\ pc[p] = "patch" /\ ~bad[p] => \A s \in Services : s < at[p] => s \in done[p]
    /\ pc[p] = "unpatch" => done[p] # {}
    /\ pc[p] = "commit" => done[p] = Services

(* The Services a Job has patched select it, until it undoes them.          *)
Held(p) ==
    pc[p] \in Sent => \A s \in done[p] : sel[s] = p /\ snap[p][s] = from[p]

(* A Job holds a Service only while the record is the one it moves away     *)
(* from.                                                                    *)
Outstanding(p) == pc[p] \in Sent /\ done[p] # {} => from[p] = state.build

(* A Service that selects a Job's outgoing build selects the recorded one:  *)
(* traffic does not return to a superseded build.                           *)
Ahead(p) == \A s \in Services : sel[s] = from[p] => from[p] = state.build

JobOK(p) ==
    /\ pc[p] \notin {"helm", "scale", "edge"}
    /\ Rested(p) /\ Unrecorded(p) /\ JobBase(p) /\ Cursor(p) /\ Held(p) /\ Outstanding(p)
    /\ Ahead(p)

(* While nothing went wrong, a Service that does not select the recorded    *)
(* build is held by a Job that will record its build or undo the patch.     *)
Owned ==
    clean => \A s \in Services :
        sel[s] = state.build \/ \E p \in JobBuilds : pc[p] \in Sent /\ s \in done[p]

(* The invariant of Jobs that overlap, inductive as long as none promotes a *)
(* recorded build again.                                                    *)
JobInv == TypeOK /\ Owned /\ \A p \in JobBuilds : JobOK(p)

(* Every process is then a Job, a promotion and a build. *)
LEMMA JobProcs ==
    ASSUME JobsAlone
    PROVE  Procs = JobBuilds /\ JobBuilds \subseteq Builds /\ Promotions = JobBuilds
  BY DEF JobsAlone, Procs, Promotions, Builds

(* The invariant of Jobs gives what the typing relies on. *)
LEMMA JobSensible ==
    ASSUME JobsAlone, JobInv, NEW p \in JobBuilds
    PROVE  Sensible(p) /\ To(p) = p
<1> USE CutoverAssumption, NoStateAssumption, JobProcs DEF JobsAlone
<1>0. TypeOK /\ JobOK(p)
  BY DEF JobInv
<1>1. To(p) = p
  BY DEF To
<1>2. pc[p] = "unpatch" => done[p] # {} /\ \A s \in done[p] : snap[p][s] \in Builds
  <2> SUFFICES ASSUME pc[p] = "unpatch"
               PROVE  done[p] # {} /\ \A s \in done[p] : snap[p][s] \in Builds
    OBVIOUS
  <2>1. base[p] \in Record /\ from[p] = base[p].build
    BY <1>0 DEF JobOK, JobBase, TypeOK
  <2>2. from[p] \in Builds
    BY <2>1 DEF Record
  <2> QED
    BY <1>0, <2>2 DEF JobOK, Held, Cursor, Sent
<1>3. pc[p] = "poison" => base[p] \in Record
  BY <1>0 DEF JobOK, JobBase, TypeOK
<1> QED
  BY <1>0, <1>1, <1>2, <1>3 DEF Sensible, JobOK

(* What a Job's step does to the record, to the selectors and to its own    *)
(* outgoing build: all that the other Jobs can notice.                      *)
JobMoves(p) ==
    /\ \/ state' = state
       \/ state'.gen = state.gen + 1 /\ state'.build = state.build
       \/ state'.gen = state.gen + 1 /\ state'.build = p /\ pc[p] = "commit"
    /\ \/ sel' = sel
       \/ \E s \in Services : /\ sel' = [sel EXCEPT ![s] = p]
                              /\ pc[p] = "patch" /\ sel[s] = from[p]
       \/ \E s \in Services : /\ sel' = [sel EXCEPT ![s] = from[p]]
                              /\ pc[p] = "unpatch" /\ s \in done[p]
    /\ from'[p] \in {from[p], NoBuild, state.build}
    /\ recorded' = recorded \/ (recorded' = recorded \cup {p} /\ pc[p] = "commit")

(* Every step of a Job does no more than that. *)
LEMMA JobStepMoves ==
    ASSUME JobsAlone, JobInv, NEW p \in JobBuilds, Step(p)
    PROVE  JobMoves(p)
<1> USE CutoverAssumption, NoStateAssumption, JobProcs DEF JobsAlone
<1>0. TypeOK /\ JobOK(p) /\ To(p) = p
  BY JobSensible DEF JobInv
<1>e. End(p) => from'[p] = NoBuild
  BY <1>0 DEF End, TypeOK
<1>f. Fail(p) => from'[p] \in {from[p], NoBuild}
  BY <1>e DEF Fail, memory
<1>1. CASE Start(p) \/ Gate(p) \/ Crash(p)
  <2>1. state' = state /\ sel' = sel /\ recorded' = recorded
    BY <1>0, <1>1 DEF Start, Gate, Crash, DeployStart, Helm, HelmFails, Sync, ForceSync,
          JobRetry, JobStart, JobPreflightFails, RollbackStart, ScaleUp, GatesPass, GatesFail,
          Recheck, RecheckFails, Started, world, history, past, JobOK
  <2>2. \A r, out, stage : Begin(p, r, out, stage) => from'[p] = out
    BY <1>0 DEF Begin, TypeOK
  <2>3. from'[p] \in {from[p], NoBuild, state.build}
    BY <1>0, <1>1, <1>e, <2>2
       DEF Start, Gate, Crash, DeployStart, Helm, HelmFails, Sync, ForceSync, JobOK,
           JobRetry, JobStart, JobPreflightFails, RollbackStart, ScaleUp, GatesPass, GatesFail,
           Recheck, RecheckFails, memory, Abort, Outgoing
  <2> QED
    BY <2>1, <2>3 DEF JobMoves
<1>2. CASE Switch(p)
  <2>1. state' = state /\ recorded' = recorded
    BY <1>2 DEF Switch, ReadSelector, ReadSelectorFails, MoveEdge, MoveEdgeFails, Patch,
          PatchFails, Unpatch, UnpatchFails, Undone, RestoreEdge, RestoreEdgeFails, world,
          history, past
  <2>2. from'[p] \in {from[p], NoBuild}
    BY <1>2, <1>e, <1>f DEF Switch, ReadSelector, ReadSelectorFails, MoveEdge, MoveEdgeFails, Patch,
          PatchFails, Unpatch, UnpatchFails, Undone, RestoreEdge, RestoreEdgeFails, memory
  <2>3. CASE Patch(p) \/ PatchFails(p)
    <3>1. pc[p] = "patch" /\ at[p] \in Services /\ snap[p][at[p]] = from[p]
      BY <1>0, <2>3 DEF Patch, PatchFails, JobOK, Cursor, TypeOK
    <3>2. sel' = sel \/ (sel' = [sel EXCEPT ![at[p]] = p] /\ sel[at[p]] = from[p])
      BY <1>0, <2>3, <3>1 DEF Patch, PatchFails
    <3> QED
      BY <2>1, <2>2, <3>1, <3>2 DEF JobMoves
  <2>4. CASE Unpatch(p)
    <3>1. pc[p] = "unpatch" /\ done[p] # {} /\ done[p] \subseteq Services
      BY <1>0, <2>4 DEF Unpatch, JobOK, Cursor, TypeOK
    <3>2. NextPatched(p) \in done[p]
      BY <3>1, NextPatchedIsDone
    <3>3. sel' = [sel EXCEPT ![NextPatched(p)] = from[p]]
      BY <1>0, <2>4, <3>1, <3>2 DEF Unpatch, JobOK, Held, Sent
    <3> QED
      BY <2>1, <2>2, <3>1, <3>2, <3>3 DEF JobMoves
  <2>5. CASE ~(Patch(p) \/ PatchFails(p) \/ Unpatch(p))
    <3>1. sel' = sel
      BY <1>2, <2>5 DEF Switch, ReadSelector, ReadSelectorFails, MoveEdge, MoveEdgeFails,
            UnpatchFails, RestoreEdge, RestoreEdgeFails, world
    <3> QED
      BY <2>1, <2>2, <3>1 DEF JobMoves
  <2> QED
    BY <2>3, <2>4, <2>5
<1>3. CASE Finish(p)
  <2>1. sel' = sel
    BY <1>3 DEF Finish, Commit, CommitFails, Poison, Park, GC
  <2>2. from'[p] \in {from[p], NoBuild}
    BY <1>3, <1>e, <1>f DEF Finish, Commit, CommitFails, Poison, Park, GC, memory
  <2>3. CASE Commit(p) \/ CommitFails(p)
    BY <1>0, <2>1, <2>2, <2>3 DEF Commit, CommitFails, Recorded, JobMoves
  <2>4. CASE Poison(p)
    <3>1. base[p] # NoState /\ base[p] \in Record /\ state \in Record /\ base[p].gen <= state.gen
      BY <1>0, <2>4 DEF Poison, JobOK, JobBase, TypeOK
    <3>2. ~MovedSince(p) => base[p].build = state.build
      BY <1>0, <3>1 DEF MovedSince, JobOK, JobBase, Record
    <3>3. state' = state \/ (state'.gen = state.gen + 1 /\ state'.build = state.build)
      BY <2>4, <3>1, <3>2 DEF Poison, Record
    <3> QED
      BY <2>1, <2>2, <2>4, <3>3 DEF Poison, history, past, JobMoves
  <2>5. CASE Park(p) \/ GC(p)
    BY <2>1, <2>2, <2>5 DEF Park, GC, history, past, JobMoves
  <2> QED
    BY <1>3, <2>3, <2>4, <2>5 DEF Finish
<1> QED
  BY <1>1, <1>2, <1>3 DEF Step

(* None of it disturbs another Job. *)
LEMMA OtherJobs ==
    ASSUME JobsAlone, JobInv, NEW p \in JobBuilds, Step(p), NEW q \in JobBuilds \ {p}
    PROVE  JobOK(q)'
<1> USE CutoverAssumption, NoStateAssumption, JobProcs
<1>0. TypeOK /\ JobOK(p) /\ JobOK(q)
  BY DEF JobInv
<1>1. /\ pc'[q] = pc[q] /\ base'[q] = base[q] /\ from'[q] = from[q] /\ snap'[q] = snap[q]
      /\ at'[q] = at[q] /\ done'[q] = done[q] /\ bad'[q] = bad[q]
  BY <1>0, Frame
<1>2. JobMoves(p)
  BY JobStepMoves
<1>3. \A r \in JobBuilds \ {p} : from'[r] = from[r]
  BY <1>0, Frame
<1>4. Unrecorded(q)'
  <2>1. state'.build # state.build => state'.build = p
    BY <1>2 DEF JobMoves
  <2>2. from'[p] \in {from[p], NoBuild, state.build} /\ q # NoBuild
    BY <1>2 DEF JobMoves
  <2> QED
    BY <1>0, <1>1, <1>2, <1>3, <2>1, <2>2 DEF Unrecorded, JobOK, JobMoves
<1>5. JobBase(q)'
  <2>1. state.gen \in Nat /\ (base[q] # NoState => base[q].gen \in Nat)
    BY <1>0 DEF TypeOK, Record
  <2> QED
    BY <1>0, <1>1, <1>2, <2>1 DEF JobBase, JobOK, JobMoves
<1>6. Cursor(q)' /\ Rested(q)'
  BY <1>0, <1>1 DEF Cursor, Rested, Reset, JobOK
<1>7. Held(q)'
  <2> SUFFICES ASSUME pc[q] \in Sent, NEW s \in done[q]
               PROVE  sel'[s] = q /\ snap[q][s] = from[q]
    BY <1>1 DEF Held
  <2>1. s \in Services /\ sel[s] = q /\ snap[q][s] = from[q] /\ from[p] # q
    BY <1>0 DEF TypeOK, JobOK, Held, Unrecorded, Sent, Promoting
  <2>2. s \in done[p] /\ pc[p] = "unpatch" => sel[s] = p
    BY <1>0 DEF JobOK, Held, Sent
  <2>3. sel'[s] = sel[s]
    BY <1>0, <1>2, <2>1, <2>2 DEF JobMoves, TypeOK
  <2> QED
    BY <2>1, <2>3
<1>8. Outstanding(q)'
  <2> SUFFICES ASSUME pc[q] \in Sent, done[q] # {}
               PROVE  from[q] = state'.build
    BY <1>1 DEF Outstanding
  <2>1. PICK s \in done[q] : s \in Services /\ sel[s] = q
    BY <1>0 DEF TypeOK, JobOK, Held
  <2>2. pc[p] # "commit"
    BY <1>0, <2>1 DEF JobOK, Held, Cursor, Sent
  <2>3. state'.build = state.build
    BY <1>2, <2>2 DEF JobMoves
  <2> QED
    BY <1>0, <2>3 DEF JobOK, Outstanding
<1>9. Ahead(q)'
  <2> SUFFICES ASSUME NEW s \in Services, sel'[s] = from[q]
               PROVE  from[q] = state'.build
    BY <1>1 DEF Ahead
  <2>1. CASE pc[p] = "commit"
    <3>1. sel' = sel /\ sel[s] = p
      BY <1>0, <1>2, <2>1 DEF JobMoves, JobOK, Held, Cursor, Sent
    <3>2. from[q] # p
      BY <1>0, <2>1 DEF JobOK, Unrecorded, Promoting
    <3> QED
      BY <3>1, <3>2
  <2>2. CASE pc[p] # "commit"
    <3>1. state'.build = state.build
      BY <1>2, <2>2 DEF JobMoves
    <3>2. CASE sel'[s] = sel[s]
      BY <1>0, <3>1, <3>2 DEF JobOK, Ahead
    <3>3. CASE sel'[s] = p /\ pc[p] = "patch"
      BY <1>0, <3>3 DEF JobOK, Unrecorded, Promoting
    <3>4. CASE sel'[s] = from[p] /\ pc[p] = "unpatch"
      BY <1>0, <3>1, <3>4 DEF JobOK, Outstanding, Cursor, Sent
    <3> QED
      BY <1>0, <1>2, <3>2, <3>3, <3>4 DEF JobMoves, TypeOK
  <2> QED
    BY <2>1, <2>2
<1> QED
  BY <1>0, <1>1, <1>4, <1>5, <1>6, <1>7, <1>8, <1>9 DEF JobOK

(* A Job's steps other than its write of the record keep what is known of   *)
(* recorded builds.                                                         *)
LEMMA StaysUnrecorded ==
    ASSUME JobsAlone, JobInv, NEW p \in JobBuilds, Step(p), pc[p] # "commit",
           pc'[p] \in Promoting => p \notin recorded
    PROVE  Unrecorded(p)'
<1>1. JobMoves(p) /\ p # NoBuild
  BY JobStepMoves, JobProcs, CutoverAssumption
<1>2. recorded' = recorded
  BY <1>1 DEF JobMoves
<1>3. ASSUME p \notin recorded
      PROVE  state'.build # p /\ \A q \in JobBuilds : from'[q] # p
  <2>1. state.build # p /\ \A q \in JobBuilds : from[q] # p
    BY <1>3 DEF JobInv, JobOK, Unrecorded
  <2>2. state'.build # p /\ from'[p] # p
    BY <1>1, <2>1 DEF JobMoves
  <2>3. \A q \in JobBuilds \ {p} : from'[q] = from[q]
    BY Frame, JobProcs DEF JobInv
  <2> QED
    BY <2>1, <2>2, <2>3
<1> QED
  BY <1>2, <1>3 DEF Unrecorded

(* A Job that ended has nothing left to guarantee. *)
LEMMA JobEnds ==
    ASSUME JobsAlone, JobInv, TypeOK', NEW p \in JobBuilds, Step(p), End(p), pc[p] # "commit"
    PROVE  JobOK(p)' /\ pc'[p] = "idle"
<1> USE CutoverAssumption, NoStateAssumption, JobProcs
<1>1. pc'[p] = "idle" /\ Reset(p)' /\ from'[p] = NoBuild /\ base'[p] = NoState /\ at'[p] = 1
  BY DEF End, Go, Reset, JobInv, TypeOK
<1>2. Unrecorded(p)'
  BY <1>1, StaysUnrecorded DEF Promoting
<1>3. \A s \in Services : sel'[s] # NoBuild
  BY DEF TypeOK
<1> QED
  BY <1>1, <1>2, <1>3 DEF JobOK, Rested, JobBase, Cursor, Held, Outstanding, Ahead, Sent

(* A Job killed before its write of the record leaves nothing either.       *)
LEMMA CrashEnds ==
    ASSUME JobsAlone, JobInv, TypeOK', NEW p \in JobBuilds, Crash(p)
    PROVE  JobOK(p)' /\ Owned'
<1> USE CutoverAssumption, NoStateAssumption, JobProcs
<1>1. /\ pc'[p] = "idle" /\ Reset(p)' /\ from'[p] = NoBuild /\ base'[p] = NoState /\ at'[p] = 1
      /\ state' = state /\ recorded' = recorded /\ clean' = FALSE
  BY DEF Crash, End, Go, Reset, JobInv, TypeOK, world, past
<1>2. Unrecorded(p)'
  <2>1. \A q \in JobBuilds \ {p} : from'[q] = from[q]
    BY Frame DEF JobInv, Step
  <2> QED
    BY <1>1, <2>1 DEF JobInv, JobOK, Unrecorded, Promoting
<1>3. \A s \in Services : sel'[s] # NoBuild
  BY DEF TypeOK
<1> QED
  BY <1>1, <1>2, <1>3
     DEF JobOK, Rested, JobBase, Cursor, Held, Outstanding, Ahead, Sent, Owned

(* Ownership of the Services outlasts a step that leaves them alone. *)
LEMMA StaysOwned ==
    ASSUME JobsAlone, JobInv, NEW p \in JobBuilds, Step(p), sel' = sel,
           clean' => clean /\ state'.build = state.build,
           clean' /\ pc[p] \in Sent /\ done[p] # {} => pc'[p] \in Sent /\ done[p] \subseteq done'[p]
    PROVE  Owned'
<1> SUFFICES ASSUME clean', NEW s \in Services, sel[s] # state.build
             PROVE  \E q \in JobBuilds : pc'[q] \in Sent /\ s \in done'[q]
  BY DEF Owned
<1>1. PICK q \in JobBuilds : pc[q] \in Sent /\ s \in done[q]
  BY DEF JobInv, Owned
<1>2. q # p => pc'[q] = pc[q] /\ done'[q] = done[q]
  BY Frame, JobProcs DEF JobInv
<1> QED
  BY <1>1, <1>2

(* A Job's own steps preserve what it guarantees: starting and gates. *)
LEMMA JobStarts ==
    ASSUME JobsAlone, JobInv, TypeOK', ~again', NEW p \in JobBuilds,
           Start(p) \/ Gate(p) \/ Crash(p)
    PROVE  JobOK(p)' /\ Owned'
<1> USE CutoverAssumption, NoStateAssumption, JobProcs DEF JobsAlone
<1>0. TypeOK /\ JobOK(p) /\ To(p) = p /\ Step(p)
  BY JobSensible DEF JobInv, Step
<1>w. state' = state /\ sel' = sel
  BY <1>0 DEF Start, Gate, Crash, DeployStart, Helm, HelmFails, Sync, ForceSync,
        JobRetry, JobStart, JobPreflightFails, RollbackStart, ScaleUp, GatesPass, GatesFail,
        Recheck, RecheckFails, world, JobOK
<1>1. CASE Sync(p) \/ ForceSync(p) \/ JobRetry(p)
  <2>1. /\ pc[p] = "idle" /\ pc'[p] \in {"start", "forced"}
        /\ base'[p] = base[p] /\ from'[p] = from[p] /\ snap'[p] = snap[p]
        /\ at'[p] = at[p] /\ done'[p] = done[p] /\ bad'[p] = bad[p] /\ (clean' => clean)
    BY <1>0, <1>1 DEF Sync, ForceSync, JobRetry, MayStart, Started, Go, memory, TypeOK
  <2>2. Reset(p) /\ Reset(p)'
    BY <1>0, <2>1 DEF JobOK, Rested, Reset
  <2>3. Unrecorded(p)'
    BY <1>0, <2>1, StaysUnrecorded DEF Promoting
  <2>4. Owned'
    BY <1>0, <1>w, <2>1, StaysOwned DEF Sent
  <2>5. Ahead(p)'
    BY <1>0, <1>w, <2>1 DEF Ahead, JobOK
  <2> QED
    BY <1>0, <1>w, <2>1, <2>2, <2>3, <2>4, <2>5
       DEF JobOK, Rested, Reset, JobBase, Cursor, Held, Outstanding, Sent
<1> DEFINE Leaves == /\ End(p)
                     /\ clean' = FALSE \/ (pc[p] \notin Sent /\ clean' = clean)
<1>2. CASE Leaves /\ pc[p] # "commit"
  <2>1. JobOK(p)'
    BY <1>0, <1>2, JobEnds
  <2>2. Owned'
    BY <1>0, <1>2, <1>w, StaysOwned
  <2> QED
    BY <2>1, <2>2
<1>3. CASE JobStart(p) /\ Begin(p, state, Outgoing(p), "gates")
  <2>1. /\ pc[p] \in {"start", "forced"} /\ pc'[p] = "gates" /\ base'[p] = state
        /\ from'[p] = Outgoing(p) /\ snap'[p] = snap[p] /\ at'[p] = at[p]
        /\ done'[p] = done[p] /\ bad'[p] = bad[p] /\ clean' = clean
    BY <1>0, <1>3 DEF JobStart, Begin, Go, TypeOK
  <2>a. p \notin recorded
    <3>1. JobStart(p) /\ ~End(p)
      BY <1>0, <1>3, <2>1 DEF End, Go, TypeOK
    <3> QED
      BY <3>1 DEF JobStart
  <2>2. Outgoing(p) = state.build /\ state # NoState /\ state.gen \in Nat
    BY <1>0, <2>a DEF JobOK, Unrecorded, Outgoing, TypeOK, Record
  <2>3. Unrecorded(p)'
    BY <1>0, <2>1, <2>a, StaysUnrecorded
  <2>4. Owned'
    BY <1>0, <1>w, <2>1, StaysOwned DEF Sent
  <2>5. Reset(p)
    BY <1>0, <2>1 DEF JobOK, Rested
  <2>6. JobBase(p)' /\ Ahead(p)'
    BY <1>w, <2>1, <2>2 DEF JobBase, Ahead
  <2> QED
    BY <1>0, <2>1, <2>3, <2>4, <2>5, <2>6
       DEF JobOK, Rested, Reset, Cursor, Held, Outstanding, Sent
<1>4. CASE GatesPass(p) \/ Recheck(p) \/ GatesFail(p) \/ RecheckFails(p)
  <2>1. /\ pc[p] \in {"gates", "recheck"} /\ pc'[p] \in {"recheck", "read", "restore"}
        /\ base'[p] = base[p] /\ from'[p] = from[p] /\ snap'[p] = snap[p]
        /\ at'[p] = at[p] /\ done'[p] = done[p] /\ bad'[p] = bad[p] /\ clean' = clean
    BY <1>0, <1>4 DEF GatesPass, Recheck, GatesFail, RecheckFails, Abort, Go, memory, history,
       TypeOK
  <2>2. Unrecorded(p)'
    BY <1>0, <2>1, StaysUnrecorded DEF JobOK, Unrecorded, Promoting
  <2>3. Owned'
    BY <1>0, <1>w, <2>1, StaysOwned DEF Sent
  <2>4. JobBase(p)' /\ Ahead(p)'
    BY <1>0, <1>w, <2>1 DEF JobOK, JobBase, Ahead
  <2>5. Cursor(p)'
    <3>1. at'[p] = 1 /\ \A s \in Services : ~(s < 1)
      BY <1>0, <2>1 DEF JobOK, Cursor, Services
    <3> QED
      BY <1>0, <2>1, <3>1 DEF JobOK, Cursor
  <2> QED
    BY <1>0, <2>1, <2>2, <2>3, <2>4, <2>5 DEF JobOK, Rested, Held, Outstanding, Sent
<1>5. CASE Crash(p)
  BY <1>5, CrashEnds
<1>6. JobPreflightFails(p) => Leaves /\ pc[p] # "commit"
  BY DEF JobPreflightFails, Sent
<1>7. JobStart(p) /\ End(p) => Leaves /\ pc[p] # "commit"
  BY DEF JobStart, Sent
<1> QED
  BY <1>0, <1>1, <1>2, <1>3, <1>4, <1>5, <1>6, <1>7
     DEF Start, Gate, DeployStart, RollbackStart, Helm, HelmFails, ScaleUp, JobStart, JobOK

(* Moving traffic and undoing it. *)
LEMMA JobSwitches ==
    ASSUME JobsAlone, JobInv, TypeOK', NEW p \in JobBuilds, Switch(p)
    PROVE  JobOK(p)' /\ Owned'
<1> USE CutoverAssumption, NoStateAssumption, JobProcs DEF JobsAlone
<1>0. TypeOK /\ JobOK(p) /\ To(p) = p /\ Step(p)
  BY JobSensible DEF JobInv, Step
<1>w. state' = state
  BY DEF Switch, ReadSelector, ReadSelectorFails, MoveEdge, MoveEdgeFails, Patch, PatchFails,
         Unpatch, UnpatchFails, Undone, RestoreEdge, RestoreEdgeFails, world
<1>m. pc[p] \in {"read", "patch", "unpatch", "restore"}
  BY <1>0 DEF Switch, ReadSelector, ReadSelectorFails, MoveEdge, MoveEdgeFails, Patch, PatchFails,
         Unpatch, UnpatchFails, RestoreEdge, RestoreEdgeFails, JobOK
<1>u. Unrecorded(p)'
  BY <1>0, <1>m, StaysUnrecorded DEF JobOK, Unrecorded, Promoting
<1>f. base[p] # NoState /\ from[p] = base[p].build /\ from[p] \in Builds /\ from[p] # p
  BY <1>0, <1>m DEF JobOK, JobBase, TypeOK, Record, Unrecorded, Promoting
<1>1. CASE ReadSelector(p) \/ ReadSelectorFails(p)
  <2>1. /\ pc[p] = "read" /\ base'[p] = base[p] /\ from'[p] = from[p] /\ sel' = sel
        /\ done'[p] = done[p] /\ clean' = clean
    BY <1>0, <1>1 DEF ReadSelector, ReadSelectorFails, world, history
  <2>2. at[p] \in Services /\ done[p] = {}
    BY <1>0, <2>1 DEF JobOK, Cursor, TypeOK
  <2>3. \/ at[p] < NumServices /\ at'[p] = at[p] + 1 /\ pc'[p] = "read"
        \/ /\ at[p] = NumServices /\ at'[p] = 1
           /\ pc'[p] \in {"restore", "patch"} /\ (pc'[p] = "patch" => ~bad'[p])
    <3>1. CASE ReadSelector(p)
      <4>1. Advance(p, IF bad'[p] THEN "restore" ELSE "patch")
        BY <1>0, <3>1 DEF ReadSelector, TypeOK
      <4> QED
        BY <1>0, <2>1, <4>1, AdvanceSteps
    <3>2. CASE ReadSelectorFails(p)
      BY <1>0, <2>1, <3>2, AdvanceSteps DEF ReadSelectorFails
    <3> QED
      BY <1>1, <3>1, <3>2
  <2>4. ~bad'[p] => \A s \in Services : s <= at[p] => snap'[p][s] = from[p]
    <3> SUFFICES ASSUME ~bad'[p], NEW s \in Services, s <= at[p]
                 PROVE  snap'[p][s] = from[p]
      OBVIOUS
    <3>1. ReadSelector(p)
      BY <1>0, <1>1 DEF ReadSelectorFails, TypeOK
    <3>2. ~bad[p] /\ sel[at[p]] = from[p] /\ snap' = [snap EXCEPT ![p][at[p]] = sel[at[p]]]
      BY <1>0, <1>f, <3>1 DEF ReadSelector, Expected, TypeOK
    <3>3. s < at[p] \/ s = at[p]
      BY <2>2 DEF Services
    <3>4. s < at[p] => snap[p][s] = from[p]
      BY <1>0, <2>1, <3>2 DEF JobOK, Cursor
    <3> QED
      BY <1>0, <2>2, <3>2, <3>3, <3>4 DEF TypeOK
  <2>5. Cursor(p)'
    <3>1. pc'[p] = "read" /\ ~bad'[p] => \A s \in Services : s < at'[p] => snap'[p][s] = from[p]
      BY <2>2, <2>3, <2>4 DEF Services
    <3>2. pc'[p] = "patch" => \A s \in Services : snap'[p][s] = from[p] /\ ~(s < at'[p])
      BY <2>2, <2>3, <2>4 DEF Services
    <3> QED
      BY <2>1, <2>2, <2>3, <3>1, <3>2 DEF Cursor
  <2>6. JobBase(p)' /\ Ahead(p)'
    BY <1>0, <1>w, <1>f, <2>1 DEF JobOK, JobBase, Ahead
  <2>7. Held(p)' /\ Outstanding(p)'
    BY <2>1, <2>2 DEF Held, Outstanding
  <2>8. Owned'
    BY <1>0, <1>w, <2>1, StaysOwned DEF Sent
  <2> QED
    BY <1>0, <1>w, <1>u, <2>1, <2>3, <2>5, <2>6, <2>7, <2>8 DEF JobOK, Rested
<1>2. CASE Patch(p) \/ PatchFails(p)
  <2>1. /\ pc[p] = "patch" /\ base'[p] = base[p] /\ from'[p] = from[p] /\ snap'[p] = snap[p]
    BY <1>0, <1>2 DEF Patch, PatchFails
  <2>2. at[p] \in Services /\ \A s \in Services : snap[p][s] = from[p]
    BY <1>0, <2>1 DEF JobOK, Cursor, TypeOK
  <2>3. /\ Patch(p) => /\ done'[p] = done[p] \cup {at[p]} /\ sel[at[p]] = from[p]
                       /\ sel' = [sel EXCEPT ![at[p]] = p]
                       /\ bad'[p] = bad[p] /\ clean' = clean
        /\ PatchFails(p) => /\ done'[p] = done[p] /\ bad'[p] = TRUE /\ (clean' => sel' = sel /\ clean)
                            /\ sel' = sel \/ sel' = [sel EXCEPT ![at[p]] = p]
    <3>1. ASSUME PatchFails(p)
          PROVE  /\ bad'[p] = TRUE
                 /\ (clean' = clean /\ sel' = sel)
                    \/ (clean' = FALSE /\ sel' = [sel EXCEPT ![at[p]] = p])
      BY <1>0, <3>1 DEF PatchFails, TypeOK
    <3>2. ASSUME Patch(p)
          PROVE  done'[p] = done[p] \cup {at[p]} /\ bad'[p] = bad[p] /\ clean' = clean
      BY <1>0, <3>2 DEF Patch, TypeOK, history
    <3>3. PatchFails(p) => done'[p] = done[p]
      BY DEF PatchFails
    <3>4. Patch(p) => sel[at[p]] = from[p] /\ sel' = [sel EXCEPT ![at[p]] = p]
      BY <1>0, <2>2 DEF Patch
    <3>5. PatchFails(p) => sel' = sel \/ sel' = [sel EXCEPT ![at[p]] = p]
      BY <3>1
    <3>6. PatchFails(p) => bad'[p] = TRUE /\ (clean' => sel' = sel /\ clean)
      BY <3>1
    <3> QED
      BY <3>2, <3>3, <3>4, <3>5, <3>6
  <2>4. \A s \in Services : sel'[s] = sel[s] \/ sel'[s] = p
    BY <1>0, <1>2, <2>2, <2>3 DEF TypeOK
  <2>5. \/ at[p] < NumServices /\ at'[p] = at[p] + 1 /\ pc'[p] = "patch"
        \/ at[p] = NumServices /\ at'[p] = 1 /\ pc'[p] = AfterPatch(p, done'[p], bad'[p])
    <3>1. Advance(p, AfterPatch(p, done'[p], bad'[p]))
      BY <1>2, <2>3 DEF Patch, PatchFails
    <3> QED
      BY <1>0, <2>1, <3>1, AdvanceSteps
  <2>6. /\ pc'[p] \in {"patch", "commit", "restore", "unpatch"}
        /\ pc'[p] \notin {"patch"} => at[p] = NumServices /\ at'[p] = 1
        /\ pc'[p] = "commit" => ~bad'[p]
        /\ pc'[p] = "restore" => done'[p] = {}
        /\ pc'[p] = "unpatch" => done'[p] # {}
    BY <2>5 DEF AfterPatch
  <2>7. ~bad'[p] => \A s \in Services : s <= at[p] => s \in done'[p]
    <3>1. \A s \in Services : s <= at[p] => s < at[p] \/ s = at[p]
      BY <2>2 DEF Services
    <3> QED
      BY <1>0, <1>2, <2>1, <2>3, <3>1 DEF JobOK, Cursor
  <2>8. Cursor(p)'
    <3>1. pc'[p] = "patch" /\ ~bad'[p] => \A s \in Services : s < at'[p] => s \in done'[p]
      BY <2>2, <2>5, <2>7 DEF Services
    <3>2. pc'[p] = "commit" => done'[p] = Services
      <4>1. done'[p] \subseteq Services
        BY DEF TypeOK
      <4>2. \A s \in Services : s <= NumServices
        BY DEF Services
      <4> QED
        BY <2>6, <2>7, <4>1, <4>2
    <3> QED
      BY <2>1, <2>2, <2>6, <3>1, <3>2 DEF Cursor
  <2>9. Held(p)'
    <3>1. \A s \in done[p] : s \in Services /\ sel[s] = p /\ snap[p][s] = from[p]
      BY <1>0, <2>1 DEF JobOK, Held, Sent, TypeOK
    <3>2. \A s \in done'[p] : sel'[s] = p
      BY <1>0, <1>2, <2>2, <2>3, <2>4, <3>1 DEF TypeOK
    <3>3. \A s \in done'[p] : snap'[p][s] = from[p]
      BY <2>1, <2>2 DEF TypeOK
    <3> QED
      BY <2>1, <3>2, <3>3 DEF Held
  <2>10. Outstanding(p)'
    <3>1. done'[p] # {} => from[p] = state.build
      BY <1>0, <1>2, <2>1, <2>2, <2>3 DEF JobOK, Outstanding, Ahead, Sent
    <3> QED
      BY <1>w, <2>1, <3>1 DEF Outstanding
  <2>11. JobBase(p)' /\ Ahead(p)'
    BY <1>0, <1>w, <1>f, <2>1, <2>4 DEF JobOK, JobBase, Ahead
  <2>12. Owned'
    <3>1. CASE Patch(p)
      <4> SUFFICES ASSUME clean', NEW s \in Services, sel'[s] # state.build
                   PROVE  \E q \in JobBuilds : pc'[q] \in Sent /\ s \in done'[q]
        BY <1>w DEF Owned
      <4>1. pc'[p] \in Sent /\ at[p] \in done'[p]
        BY <2>3, <2>6, <3>1 DEF Sent
      <4>2. CASE s = at[p]
        BY <4>1, <4>2
      <4>3. CASE s # at[p]
        <5>1. sel'[s] = sel[s] /\ clean
          BY <1>0, <2>3, <3>1, <4>3 DEF TypeOK
        <5>2. PICK q \in JobBuilds : pc[q] \in Sent /\ s \in done[q]
          BY <5>1 DEF JobInv, Owned
        <5>3. q # p => pc'[q] = pc[q] /\ done'[q] = done[q]
          BY <1>0, Frame
        <5> QED
          BY <2>3, <3>1, <4>1, <5>2, <5>3
      <4> QED
        BY <4>2, <4>3
    <3>2. CASE PatchFails(p) /\ ~clean'
      BY <3>2 DEF Owned
    <3>3. CASE PatchFails(p) /\ clean'
      BY <1>0, <1>w, <2>3, <2>6, <3>3, StaysOwned DEF Sent
    <3> QED
      BY <1>2, <3>1, <3>2, <3>3
  <2> QED
    BY <1>0, <1>w, <1>u, <2>1, <2>6, <2>8, <2>9, <2>10, <2>11, <2>12 DEF JobOK, Rested
<1>3. CASE Unpatch(p) \/ UnpatchFails(p)
  <2> DEFINE n == NextPatched(p)
  <2>1. /\ pc[p] = "unpatch" /\ base'[p] = base[p] /\ from'[p] = from[p] /\ snap'[p] = snap[p]
        /\ done'[p] = done[p] \ {n} /\ at'[p] = at[p]
        /\ pc'[p] = (IF done'[p] = {} THEN "restore" ELSE "unpatch")
    BY <1>0, <1>3 DEF Unpatch, UnpatchFails, Undone, Go, TypeOK
  <2>2. done[p] # {} /\ from[p] = state.build
    BY <1>0, <2>1 DEF JobOK, Cursor, Outstanding, Sent
  <2>3. n \in done[p] /\ n \in Services /\ snap[p][n] = from[p]
    BY <1>0, <2>1, <2>2, NextPatchedIsDone DEF TypeOK, JobOK, Held, Sent
  <2> HIDE DEF n
  <2>4. \/ clean' = FALSE /\ sel' = sel
        \/ clean' = clean /\ sel' = [sel EXCEPT ![n] = from[p]]
    BY <1>3, <2>3 DEF Unpatch, UnpatchFails, n
  <2>5. \A s \in Services : s # n => sel'[s] = sel[s]
    BY <1>0, <2>3, <2>4 DEF TypeOK
  <2>6. Held(p)'
    <3>1. \A s \in done'[p] : s \in Services /\ s # n /\ sel[s] = p /\ snap[p][s] = from[p]
      BY <1>0, <2>1 DEF JobOK, Held, Sent, TypeOK
    <3> QED
      BY <2>1, <2>5, <3>1 DEF Held
  <2>7. Cursor(p)' /\ JobBase(p)' /\ Outstanding(p)' /\ Ahead(p)'
    BY <1>0, <1>w, <1>f, <2>1, <2>2 DEF JobOK, Cursor, JobBase, Outstanding, Ahead
  <2>8. Owned'
    <3> SUFFICES ASSUME clean', NEW s \in Services, sel'[s] # state.build
                 PROVE  \E q \in JobBuilds : pc'[q] \in Sent /\ s \in done'[q]
      BY <1>w DEF Owned
    <3>1. s # n /\ sel'[s] = sel[s] /\ clean
      BY <1>0, <2>2, <2>3, <2>4, <2>5 DEF TypeOK
    <3>2. PICK q \in JobBuilds : pc[q] \in Sent /\ s \in done[q]
      BY <3>1 DEF JobInv, Owned
    <3>3. q # p => pc'[q] = pc[q] /\ done'[q] = done[q]
      BY <1>0, Frame
    <3>4. q = p => pc'[q] \in Sent /\ s \in done'[q]
      BY <2>1, <3>1, <3>2 DEF Sent
    <3> QED
      BY <3>2, <3>3, <3>4
  <2> QED
    BY <1>0, <1>w, <1>u, <2>1, <2>6, <2>7, <2>8 DEF JobOK, Rested
<1>4. CASE RestoreEdge(p) \/ RestoreEdgeFails(p)
  <2>1. pc[p] = "restore" /\ sel' = sel /\ Fail(p) /\ (clean' = clean \/ clean' = FALSE)
    BY <1>4 DEF RestoreEdge, RestoreEdgeFails, history
  <2>2. /\ pc'[p] = "poison" /\ base'[p] = base[p] /\ from'[p] = from[p]
        /\ at'[p] = at[p] /\ done'[p] = done[p]
    BY <1>0, <2>1 DEF Fail, Go, memory, TypeOK
  <2>3. Owned'
    BY <1>0, <1>w, <2>1, StaysOwned DEF Sent
  <2>4. Cursor(p)' /\ JobBase(p)' /\ Outstanding(p)' /\ Ahead(p)' /\ Held(p)'
    BY <1>0, <1>w, <1>f, <2>1, <2>2 DEF JobOK, Cursor, JobBase, Outstanding, Ahead, Held, Sent
  <2> QED
    BY <1>0, <1>w, <1>u, <2>1, <2>2, <2>3, <2>4 DEF JobOK, Rested
<1> QED
  BY <1>0, <1>1, <1>2, <1>3, <1>4 DEF Switch, MoveEdge, MoveEdgeFails, JobOK

(* Writing the record and cleaning up. *)
LEMMA JobFinishes ==
    ASSUME JobsAlone, JobInv, TypeOK', NEW p \in JobBuilds, Finish(p)
    PROVE  JobOK(p)' /\ Owned'
<1> USE CutoverAssumption, NoStateAssumption, JobProcs DEF JobsAlone
<1>0. TypeOK /\ JobOK(p) /\ To(p) = p /\ Step(p)
  BY JobSensible DEF JobInv, Step
<1>w. sel' = sel
  BY DEF Finish, Commit, CommitFails, Poison, Park, GC
<1>m. ASSUME NEW stage, Go(p, stage), UNCHANGED memory
      PROVE  /\ pc'[p] = stage /\ base'[p] = base[p] /\ from'[p] = from[p]
             /\ at'[p] = at[p] /\ done'[p] = done[p]
  BY <1>0, <1>m DEF Go, memory, TypeOK
<1>s. state.gen \in Nat /\ (base[p] # NoState => base[p].gen \in Nat)
  BY <1>0 DEF TypeOK, Record
<1>c. ASSUME pc[p] = "commit"
      PROVE  (\A s \in Services : sel[s] = p) /\ from[p] # p
  BY <1>0, <1>c DEF JobOK, Cursor, Held, Unrecorded, Sent, Promoting
<1>1. CASE Commit(p) \/ CommitFails(p)
  <2>1. /\ pc[p] = "commit"
        /\ \/ state' = state /\ recorded' = recorded
           \/ /\ state'.gen = state.gen + 1 /\ state'.build = p
              /\ recorded' = recorded \cup {p}
        /\ Commit(p) => state'.build = p
        /\ CommitFails(p) => clean' = FALSE
    BY <1>0, <1>1 DEF Commit, CommitFails, Recorded
  <2>2. /\ pc'[p] \in {"park", "poison"} /\ base'[p] = base[p] /\ from'[p] = from[p]
        /\ at'[p] = at[p] /\ done'[p] = done[p]
    BY <1>1, <1>m DEF Commit, CommitFails, Fail
  <2>3. Owned'
    BY <1>c, <1>w, <1>1, <2>1 DEF Owned
  <2>4. JobBase(p)'
    BY <1>0, <1>s, <2>1, <2>2 DEF JobOK, JobBase
  <2>5. Unrecorded(p)'
    <3>1. \A q \in JobBuilds \ {p} : from'[q] = from[q]
      BY <1>0, Frame
    <3> QED
      BY <1>0, <2>1, <2>2, <3>1 DEF JobOK, Unrecorded, Promoting
  <2>6. Ahead(p)'
    BY <1>c, <1>w, <2>1, <2>2 DEF Ahead
  <2>7. Cursor(p)' /\ Held(p)' /\ Outstanding(p)'
    BY <1>0, <2>1, <2>2 DEF JobOK, Cursor, Held, Outstanding, Sent
  <2> QED
    BY <1>0, <1>w, <2>1, <2>2, <2>3, <2>4, <2>5, <2>6, <2>7 DEF JobOK, Rested
<1>2. CASE Park(p) /\ Go(p, "gc") /\ UNCHANGED memory
  <2>1. pc[p] = "park" /\ state' = state /\ clean' = clean
    BY <1>2 DEF Park, history
  <2>2. /\ pc'[p] = "gc" /\ base'[p] = base[p] /\ from'[p] = from[p]
        /\ at'[p] = at[p] /\ done'[p] = done[p]
    BY <1>2, <1>m
  <2>3. Owned'
    BY <1>0, <1>w, <2>1, StaysOwned DEF Sent
  <2>4. Unrecorded(p)'
    BY <1>0, <2>1, <2>2, StaysUnrecorded DEF Promoting
  <2> QED
    BY <1>0, <1>w, <2>1, <2>2, <2>3, <2>4
       DEF JobOK, Rested, JobBase, Cursor, Held, Outstanding, Ahead, Sent
<1>3. CASE End(p) /\ (Poison(p) \/ Park(p) \/ GC(p))
  <2>1. pc[p] \in {"poison", "park", "gc"} /\ clean' = clean
    BY <1>3 DEF Poison, Park, GC, history
  <2>2. state'.build = state.build
    BY <1>0, <2>1, JobStepMoves DEF JobMoves
  <2>3. Owned'
    BY <1>0, <1>w, <2>1, <2>2, StaysOwned DEF Sent
  <2> QED
    BY <1>0, <1>3, <2>1, <2>3, JobEnds
<1> QED
  BY <1>1, <1>2, <1>3 DEF Finish, Poison, Park, GC

(* Every step of Jobs that overlap preserves the invariant, unless it goes  *)
(* on with a recorded build.                                                *)
LEMMA JobStep ==
    ASSUME JobsAlone, JobInv, ~again', [Next]_vars
    PROVE  JobInv'
<1>1. CASE UNCHANGED vars
  BY <1>1 DEF vars, world, memory, history, past, JobInv, TypeOK, Owned, JobOK, Rested, Reset,
              Unrecorded, JobBase, Cursor, Held, Outstanding, Ahead
<1>2. ASSUME NEW p \in JobBuilds, Step(p) PROVE JobInv'
  <2>1. TypeOK'
    BY <1>2, Typing, JobSensible, JobProcs DEF JobInv, Step
  <2>2. JobOK(p)' /\ Owned'
    BY <1>2, <2>1, JobStarts, JobSwitches, JobFinishes DEF Step
  <2>3. \A q \in JobBuilds \ {p} : JobOK(q)'
    BY <1>2, OtherJobs
  <2> QED
    BY <2>1, <2>2, <2>3 DEF JobInv
<1> QED
  BY <1>1, <1>2, JobProcs DEF Next, Step

(* What happened stays in the history. *)
LEMMA AgainStays == ASSUME again, [Next]_vars PROVE again'
<1>1. CASE UNCHANGED vars
  BY <1>1 DEF vars, history, past
<1>2. ASSUME NEW p \in Procs, Step(p) PROVE again'
  <2>1. CASE Start(p) \/ Gate(p) \/ Crash(p)
    BY <2>1 DEF Start, Gate, Crash, DeployStart, Helm, HelmFails, Sync, ForceSync,
          JobRetry, JobStart, JobPreflightFails, RollbackStart, ScaleUp, GatesPass, GatesFail,
          Recheck, RecheckFails, Started, history, past
  <2>2. CASE Switch(p)
    BY <2>2 DEF Switch, ReadSelector, ReadSelectorFails, MoveEdge, MoveEdgeFails, Patch,
          PatchFails, Unpatch, UnpatchFails, Undone, RestoreEdge, RestoreEdgeFails, history, past
  <2>3. CASE Finish(p)
    BY <2>3 DEF Finish, Commit, CommitFails, Poison, Park, GC, history, past
  <2> QED
    BY <1>2, <2>1, <2>2, <2>3 DEF Step
<1> QED
  BY <1>1, <1>2 DEF Next, Step

(* The release before any bundle is applied satisfies it. *)
LEMMA JobInit == ASSUME JobsAlone, Init PROVE JobInv
<1> USE CutoverAssumption, NoStateAssumption, JobProcs
<1>1. TypeOK
  BY SerialInit DEF SerialInv
<1>2. Owned
  BY DEF Init, Owned
<1>3. ASSUME NEW p \in JobBuilds PROVE JobOK(p)
  <2>1. /\ pc[p] = "idle" /\ Reset(p)
        /\ from[p] = NoBuild /\ base[p] = NoState /\ at[p] = 1
    BY DEF Init, Reset
  <2>2. Unrecorded(p)
    BY DEF Init, Unrecorded, Promoting
  <2>3. \A s \in Services : sel[s] # NoBuild
    BY <1>1 DEF TypeOK
  <2> QED
    BY <2>1, <2>2, <2>3
       DEF JobOK, Rested, JobBase, Cursor, Held, Outstanding, Ahead, Sent
<1> QED
  BY <1>1, <1>2, <1>3 DEF JobInv

(* However many Jobs overlap, crash, lose answers and run again, the        *)
(* invariant holds until one promotes a recorded build again.               *)
THEOREM JobInvariant ==
    ASSUME JobsAlone PROVE Spec => [](~again => JobInv)
<1>1. Init => (~again => JobInv)
  BY JobInit
<1>2. (~again => JobInv) /\ [Next]_vars => (~again => JobInv)'
  BY JobStep, AgainStays
<1> QED
  BY <1>1, <1>2, PTL DEF Spec

(* The selectors arbitrate: of the Jobs that overlap at most one finds all  *)
(* its patches applied and goes on to the record, for any number of pods    *)
(* per Job, until a Job promotes a build that was recorded before.          *)
THEOREM JobsOneWinner ==
    ASSUME JobsAlone PROVE Spec => []AtMostOneWinner
<1>1. (~again => JobInv) => AtMostOneWinner
  <2> SUFFICES ASSUME JobInv, NEW p \in JobBuilds, NEW q \in JobBuilds,
                      pc[p] = "commit", pc[q] = "commit"
               PROVE  p = q
    BY JobProcs DEF AtMostOneWinner
  <2>1. 1 \in done[p] /\ 1 \in done[q]
    BY ServiceNumbers DEF JobInv, JobOK, Cursor
  <2>2. sel[1] = p /\ sel[1] = q
    BY <2>1 DEF JobInv, JobOK, Held, Sent
  <2> QED
    BY <2>2
<1> QED
  BY <1>1, JobInvariant, PTL

(* Once the Jobs have ended, the patches of those that lost are undone and  *)
(* every Service selects the recorded build.                                *)
THEOREM JobsConverge ==
    ASSUME JobsAlone PROVE Spec => []SelectorsConverge
<1>1. (~again => JobInv) => SelectorsConverge
  BY JobProcs DEF JobInv, Owned, SelectorsConverge, AllIdle, Sent
<1> QED
  BY <1>1, JobInvariant, PTL

=============================================================================
