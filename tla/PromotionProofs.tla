--------------------------- MODULE PromotionProofs ---------------------------
(***************************************************************************)
(* What a promotion or rollback may rely on while the cluster moves, proved *)
(* for any Services, capacities, windows, clock and number of commands and  *)
(* failures: traffic always has a backend, a command that ends in good      *)
(* order leaves nothing half done, the scheduled cleanup spares what serves *)
(* or is about to, and forwarding to the standby finds it there.            *)
(***************************************************************************)
EXTENDS Promotion, WellFoundedInduction, TLAPS

(* The stages of a command, in the order of the code. *)
Opening == {"protect", "widen", "rollout", "serving", "edge"}
Closing == {"complete", "reproject", "rearm"}
Moving == {"switch", "undo"}
RunStages == Opening \cup Closing \cup Moving \cup
    {"scale", "warm", "ready", "recheck", "publish", "project", "arm", "read", "commit",
     "unwarm", "park"}

(* Stages before any selector is patched. *)
BeforeSwitch == RunStages \ (Moving \cup Closing \cup {"commit", "unwarm", "park"})

CallStages == {"plan", "label", "stage", "poll", "recover", "ok", "failed"}

State == [build: Builds, prev: Builds \cup {NoBuild}]

Run ==
    [stage: RunStages, at: Services, kind: {"deploy", "rollback"}, from: Builds, to: Builds,
     base: State, warmed: SUBSET Services, orig: [Services -> Selector],
     patched: SUBSET Services, bad: BOOLEAN, json: [Builds -> Deadline],
     target: [Services -> 0 .. Capacity]]

Call ==
    [stage: CallStages, svc: Services, from: Selector, to: Selector, key: Nat, steady: BOOLEAN]

(* A cleanup run under way. *)
Cleaning ==
    [stage: {"deployments", "services", "hpas", "verify", "patch"}, at: Nat,
     st: [build: Builds, prev: Builds],
     found: SUBSET (Builds \X Services), fresh: SUBSET (Builds \X Services)]

(* The types, with those the type invariant leaves out. *)
TrafficTypes ==
    /\ svc \in [Services -> Selector]
    /\ note \in [Services -> BOOLEAN]
    /\ label \in [Services -> [Builds -> SUBSET Nat]]
    /\ lb \in [Services -> SUBSET Builds] /\ gfe \in [Services -> SUBSET Builds]
    /\ keys \in Nat
    /\ call = NoCall \/ call \in Call

CapacityTypes ==
    /\ rep \in [Builds -> [Services -> 0 .. Capacity]]
    /\ ready \in [Builds -> [Services -> 0 .. Capacity]]
    /\ \A b \in Builds, s \in Services : ready[b][s] <= rep[b][s]
    /\ hpa \in [Builds -> [Services -> {"none", "chart", "raised", "widened"}]]

RetentionTypes ==
    /\ now \in 0 .. MaxTime
    /\ st \in State /\ st.prev # st.build
    /\ marker \in [Builds -> [Services -> Deadline]]
    /\ idx \in [Builds -> Deadline] /\ proj \in [Builds -> Deadline]
    /\ cron = CronIdle \/ cron \in Cleaning

RunTypes == run = NoRun \/ run \in Run

Types == TrafficTypes /\ CapacityTypes /\ RetentionTypes /\ RunTypes

(* The command moves the release from the recorded build to the other one, *)
(* and after its commit the record says so.                                *)
Aims ==
    ~Idle =>
      /\ run.from # run.to
      /\ IF run.stage \in Closing \cup {"park"} \/ (run.stage = "unwarm" /\ ~run.bad)
         THEN st = [build |-> run.to, prev |-> run.from]
         ELSE st.build = run.from /\ run.base = st
      /\ run.stage \in Closing \cup {"commit", "park"} => ~run.bad
      /\ run.stage = "undo" => run.bad

(* A call is made by a command that moves selectors. *)
Called == call # NoCall => ~Idle /\ run.stage \in Moving

(* Stages in which the index published for the incoming build stands. *)
Published ==
    \/ run.stage \in {"project", "arm", "read", "commit"} \cup Moving \cup Closing
    \/ run.stage = "unwarm" /\ ~run.bad

(* The marker of the build that is to serve is renewed, and no marker      *)
(* expires while selectors move.                                           *)
Fenced ==
    ~Idle =>
      /\ \A s \in Services : run.stage # "protect" \/ s < run.at => marker[run.to][s] > now
      /\ Published => idx[run.to] > now
      /\ \A s \in Services :
            run.stage \in {"read", "commit"} \cup Moving \/ (run.stage = "arm" /\ s < run.at)
                => marker[run.from][s] = idx[run.to]

(* What the cleanup saw and nobody has touched since. *)
Sparing ==
    /\ cron # CronIdle => cron.at <= now /\ cron.st.prev # cron.st.build
    /\ \A d \in cron.fresh : /\ cron.stage \in {"services", "hpas", "verify", "patch"}
                             /\ d[1] = cron.st.prev
                             /\ marker[d[1]][d[2]] <= cron.at
    /\ cron.fresh # {} /\ cron.stage \in {"hpas", "verify", "patch"} =>
          \A s \in Services : svc[s].ver = cron.st.build
    /\ cron.fresh # {} /\ cron.stage = "patch" => st = cron.st

Peer == CHOOSE b \in Builds : b # st.build

(* No deadline lies beyond the preparation window. *)
Ceiling == \A b \in Builds : idx[b] <= now + PrepWindow /\ proj[b] <= now + PrepWindow

(* The standby's markers outlast what the serving pods may forward to it. *)
Outlasts ==
    st.prev # NoBuild =>
      /\ idx[st.build] # 0
      /\ \A s \in Services : idx[st.build] <= marker[Peer][s] /\ proj[st.build] <= marker[Peer][s]

(* So a standby without replicas is one nothing is forwarded to. *)
Standing ==
    \A s \in Services :
      /\ rep[st.build][s] > 0
      /\ rep[Peer][s] = 0 => idx[st.build] <= now /\ proj[st.build] <= now

(* Stages in which the incoming build has been seen running. *)
SeenRunning ==
    run.stage \notin {"protect", "widen", "rollout"} \cup
                     (IF run.kind = "rollback" THEN {"scale"} ELSE {})

(* Stages in which its pods have the index mounted. *)
Mounted ==
    \/ run.stage \in {"arm", "read", "commit", "complete", "rearm"} \cup Moving
    \/ run.stage = "unwarm" /\ ~run.bad

(* What a command has made sure of for the incoming build. *)
Prepared ==
    ~Idle =>
      /\ Published => idx[run.to] >= now + Grace
      /\ SeenRunning => \A s \in Services : rep[run.to][s] > 0
      /\ Mounted => proj[run.to] = idx[run.to]

Retained == Ceiling /\ Outlasts /\ Standing /\ Prepared

(* Raised bounds are known to the command that has to restore them, but for *)
(* those raised by a patch that reported an error.                          *)
Warmth ==
    /\ ~Idle /\ (run.stage \in Opening \/ run.kind = "rollback") => run.warmed = {}
    /\ ~Idle /\ run.stage \in {"edge", "warm"} => run.kind = "deploy"
    /\ ~killed => \A b \in Builds, s \in Services : hpa[b][s] = "raised" /\ <<b, s>> \notin untold =>
          ~Idle /\ b = run.to /\ s \in run.warmed /\ run.stage \notin Closing \cup {"park"}

Plain(selector) == selector.ver # AnyVersion /\ selector.keys = {}

(* Without a kill a Service is on one build, but for the overlap of the    *)
(* call in progress and the ones a call said it could not restore.         *)
Tidy ==
    ~killed => \A s \in Services \ unsure :
      /\ \/ Plain(svc[s]) /\ ~note[s]
         \/ /\ call # NoCall /\ call.svc = s /\ call.stage \in {"poll", "recover"}
            /\ svc[s] = Overlap /\ note[s]
      /\ ~Idle => Plain(run.orig[s])
      /\ call # NoCall /\ call.svc = s => Plain(call.from) /\ Plain(call.to)

(* A command remembers the selectors as they are until it moves them. *)
Untouched == ~Idle /\ run.stage \in BeforeSwitch => run.orig = svc /\ run.patched = {}

(* It moves them in order. *)
Switching ==
    ~Idle /\ run.stage = "switch" =>
      /\ \A s \in Services : s > run.at => svc[s] = run.orig[s]
      /\ \A s \in run.patched : s < run.at
      /\ call = NoCall => svc[run.at] = run.orig[run.at]
      /\ call # NoCall => /\ call.svc = run.at /\ call.from = run.orig[run.at]
                          /\ call.to = Target(run.orig[run.at], run.to)

(* It undoes only what it moved. *)
Moved ==
    /\ ~Idle /\ run.stage \in Moving =>
          \A s \in run.patched : (call # NoCall => call.svc # s) =>
              svc[s] = Target(run.orig[s], run.to)
    /\ ~Idle /\ run.stage = "undo" /\ call # NoCall =>
          /\ call.svc \in run.patched
          /\ call.from = Target(run.orig[call.svc], run.to) /\ call.to = run.orig[call.svc]

(* Where a call has its Service. *)
OnCourse ==
    call # NoCall =>
      /\ call.stage \in {"plan", "label", "stage"} => svc[call.svc] = call.from
      /\ call.stage = "poll" => svc[call.svc] \in {call.from, Overlap}
      /\ call.stage = "recover" => svc[call.svc] \in {call.from, Overlap, call.to}
      /\ call.stage = "ok" => svc[call.svc] = call.to
      /\ call.stage \in {"label", "stage", "poll", "recover"} => call.svc \in NegServices

(* The temporary label of a call is in no selector yet. *)
FreshKeys ==
    /\ \A s \in Services : \A k \in svc[s].keys : k <= keys
    /\ ~Idle => \A s \in Services : \A k \in run.orig[s].keys : k <= keys
    /\ call # NoCall => /\ call.key = keys
                        /\ \A k \in call.from.keys \cup call.to.keys : k < keys

(* A generic Service never sees one. *)
Generic ==
    \A s \in Services \ NegServices :
      /\ svc[s].keys = {} /\ svc[s].ver \in Builds
      /\ ~Idle => run.orig[s].keys = {} /\ run.orig[s].ver \in Builds

(* Where the selectors are while a command moves them. *)
Selectors == Untouched /\ Switching /\ Moved /\ OnCourse /\ FreshKeys /\ Generic

(* A build that carries the traffic of a Service under a selector. *)
Carries(b, s, selector) ==
    b \in Matches(s, selector) /\ (s \in NegServices => b \in lb[s] /\ b \in gfe[s])

(* Who carries the traffic of a Service that lost no pods and whose finished *)
(* switch was not taken back.  A call can go back to the original selector  *)
(* as long as the Service has that selector or the overlap.                 *)
Carried ==
    \A s \in Services \ (hurt \cup abrupt) :
      /\ \E b \in Builds : Carries(b, s, svc[s])
      /\ ~Idle /\ run.stage \notin {"protect", "scale", "widen", "rollout"} =>
            ready[run.to][s] > 0
      /\ ~Idle /\ run.kind = "deploy" /\ run.stage = "scale" => ready[run.to][s] > 0
      /\ ~Idle /\ run.stage \in Moving /\ s \notin NegServices =>
            Matches(s, run.orig[s]) # {}
      /\ call # NoCall /\ call.svc = s =>
            /\ call.stage \in {"stage", "poll", "recover"} /\ svc[s] \in {call.from, Overlap} =>
                  \E b \in Builds : Carries(b, s, call.from) /\ call.key \in label[s][b]
            /\ call.stage \in {"label", "stage", "poll"} => Matches(s, call.to) # {}

-----------------------------------------------------------------------------
(* Frames and types *)

USE DEF retentionVars, deployments, overlapVars, traffic, balancer, told, bookkeeping, Pools

(* Steps that move the command and nothing else, but for faults and history. *)
Decides ==
    \/ RollbackStart \/ Rollout \/ EdgeGates \/ EdgeGatesFail \/ EarlyFailure \/ ReadyGate
    \/ ServingGate \/ Recheck \/ LateFailure \/ AwaitIndex \/ ReadSelectors \/ UndoDone
    \/ CommitFails \/ UnwarmFails \/ AwaitFinalIndex \/ CompleteFails \/ SkipCleanup
    \/ WidenHpaWarns \/ Killed

(* Those that write the record, a marker or the index. *)
Records == Protect \/ Publish \/ Arm \/ Commit \/ Complete \/ Rearm

(* Those that change an autoscaler and no Deployment. *)
Bounds == WidenHpa \/ WarmHpa \/ WarmHpaFails \/ Unwarm \/ ParkFails

(* Those that scale one Deployment. *)
Scales == ScaleUp \/ ScaleToTarget \/ Park

(* Those that open and close a call. *)
Calls == SwitchOpen \/ SwitchClose \/ UndoOpen \/ UndoClose

(* The load balancer. *)
Balances == \E s \in NegServices : LbAttach(s) \/ LbDetach(s) \/ GfeSync(s)

(* Pods and autoscalers. *)
Replicates == \/ \E b \in Builds : PodsStart(b) \/ Autoscale(b)
              \/ \E b \in Builds, s \in Services : PodsLost(b, s)

(* What runs beside the command. *)
Beside == UNCHANGED <<run, bookkeeping>>

(* Every step is of one of these groups. *)
LEMMA StepGroups ==
  ASSUME [Next]_vars
  PROVE  \/ DeployStart \/ Decides \/ Records \/ Bounds \/ Scales \/ Calls
         \/ Balances /\ UNCHANGED <<retentionVars, run, bookkeeping>>
         \/ Replicates \/ Tick
         \/ Busy /\ OverlapStep /\ UNCHANGED <<retentionVars, run, bookkeeping>>
         \/ (CronStep \/ CronFails \/ Project) /\ Beside
         \/ UNCHANGED vars
BY DEF Next, RunStep, Decides, Records, Bounds, Scales, Calls, Balances, Replicates, Beside

(* A step that only decides leaves the cluster alone. *)
LEMMA DecidesFrame ==
  ASSUME Decides
  PROVE  UNCHANGED <<now, st, rep, hpa, marker, idx, proj, cron, svc, note, label, ready, changed,
                     lb, gfe, keys, unsure, abrupt, hurt, untold>>
         /\ (call' = call \/ call' = NoCall)
BY DEF Decides, RollbackStart, Rollout, EdgeGates, EdgeGatesFail, EarlyFailure, ReadyGate,
       ServingGate, Recheck, LateFailure, AwaitIndex, ReadSelectors, UndoDone, CommitFails,
       UnwarmFails, AwaitFinalIndex, CompleteFails, SkipCleanup, WidenHpaWarns, Killed, Exit

(* One that writes records leaves traffic and pods alone. *)
LEMMA RecordsFrame ==
  ASSUME Records
  PROVE  UNCHANGED <<now, rep, hpa, proj, svc, note, label, ready, changed, lb, gfe, call, keys,
                     unsure, abrupt, faults, runs, killed, hurt, untold>>
BY DEF Records, Protect, Publish, Arm, Commit, Complete, Rearm

(* One that writes autoscalers leaves pods, traffic and retention alone. *)
LEMMA BoundsFrame ==
  ASSUME Bounds
  PROVE  UNCHANGED <<now, st, rep, marker, idx, proj, cron, svc, note, label, ready, changed,
                     lb, gfe, keys, unsure, abrupt, runs, killed, hurt>>
         /\ (call' = call \/ call' = NoCall)
BY DEF Bounds, WidenHpa, WarmHpa, WarmHpaFails, Unwarm, ParkFails, Exit

(* One that scales leaves selectors and retention alone. *)
LEMMA ScalesFrame ==
  ASSUME Scales
  PROVE  UNCHANGED <<now, st, marker, idx, proj, svc, note, lb, gfe, keys, unsure, abrupt, faults,
                     runs, killed, hurt, untold>> /\ (call' = call \/ call' = NoCall)
BY DEF Scales, ScaleUp, ScaleToTarget, Park, Exit

(* Opening and closing a call touches nothing in the cluster. *)
LEMMA CallsFrame ==
  ASSUME Calls
  PROVE  UNCHANGED <<now, st, rep, hpa, marker, idx, proj, cron, svc, note, label, ready, changed,
                     lb, gfe, abrupt, faults, runs, killed, hurt, untold>>
BY DEF Calls, SwitchOpen, SwitchClose, UndoOpen, UndoClose, Open

(* The steps of a call. *)
LEMMA OverlapFrame ==
  ASSUME OverlapStep
  PROVE  UNCHANGED <<ready, lb, gfe, keys>>
BY DEF OverlapStep, SwapGeneric, SwapGenericFails, Discover, LabelPods, LabelFails, StageOverlap,
       StageOverlapFails, Poll, FinishOverlap, PollFails, Recover, RecoverFails

(* The load balancer's own steps. *)
LEMMA BalancesFrame ==
  ASSUME Balances
  PROVE  UNCHANGED <<svc, note, label, ready, changed, call, keys, unsure, abrupt, faults>>
BY DEF Balances, LbAttach, LbDetach, GfeSync

(* Pods come and go. *)
LEMMA ReplicatesFrame ==
  ASSUME Replicates
  PROVE  UNCHANGED <<now, st, hpa, marker, idx, proj, svc, note, lb, gfe, call, keys, unsure, abrupt,
                     run, runs, killed, untold>>
BY DEF Replicates, PodsStart, PodsLost, Autoscale

(* The cleanup and kubelet. *)
LEMMA CronFrame ==
  ASSUME CronStep \/ CronFails \/ Project
  PROVE  UNCHANGED <<now, st, hpa, marker, idx, svc, note, lb, gfe, call, keys, unsure, abrupt>>
BY DEF CronStep, CronStart, CronListDeployments, CronListServices, CronListHpas, CronVerify,
       CronScale, CronFails, Project

(* The two builds. *)
LEMMA TwoBuilds ==
  /\ Old \in Builds /\ New \in Builds /\ Old # New
  /\ \A b, c, d \in Builds : b # c => d = b \/ d = c
BY PromotionAssumption

(* A set of numbers has a least one. *)
LEMMA MinOfNat ==
  ASSUME NEW S, S \subseteq Nat, S # {}
  PROVE  \E x \in S : \A y \in S : x <= y
<1>1. IsWellFoundedOn(OpToRel(<, Nat), Nat)
  BY NatLessThanWellFounded, Zenon
<1>2. PICK x \in S : \A y \in S : ~(<<y, x>> \in OpToRel(<, Nat))
  BY <1>1, WFMin, Zenon
<1>3. \A y \in S : ~(y < x)
  BY <1>2 DEF OpToRel
<1> QED
  BY <1>3

(* The initial state has its types. *)
LEMMA TypesInit == Init => Types
<1> SUFFICES ASSUME Init PROVE Types
  OBVIOUS
<1> USE PromotionAssumption, OverlapAssumption, RetentionAssumption DEF Init
<1>1. TrafficTypes
  <2>1. ForBuild(Old) \in Selector
    BY DEF ForBuild, Selector
  <2> QED
    BY <2>1 DEF TrafficTypes, Services
<1>2. CapacityTypes
  BY DEF CapacityTypes, Services
<1>3. RetentionTypes
  <2>1. 0 \in Deadline
    BY DEF Deadline
  <2> QED
    BY <2>1 DEF RetentionTypes, State
<1>4. RunTypes
  BY DEF RunTypes
<1> QED
  BY <1>1, <1>2, <1>3, <1>4 DEF Types

(* A table with one cell replaced. *)
LEMMA CellReplaced ==
  ASSUME NEW A, NEW B, NEW C, NEW f \in [A -> [B -> C]], NEW a \in A, NEW b \in B, NEW v \in C
  PROVE  /\ [f EXCEPT ![a][b] = v] \in [A -> [B -> C]]
         /\ \A x \in A, y \in B :
               [f EXCEPT ![a][b] = v][x][y] = IF x = a /\ y = b THEN v ELSE f[x][y]
OBVIOUS

(* One with one row replaced. *)
LEMMA RowReplaced ==
  ASSUME NEW A, NEW B, NEW C, NEW f \in [A -> [B -> C]], NEW a \in A, NEW g \in [B -> C]
  PROVE  /\ [f EXCEPT ![a] = g] \in [A -> [B -> C]]
         /\ \A x \in A, y \in B :
               [f EXCEPT ![a] = g][x][y] = IF x = a THEN g[y] ELSE f[x][y]
OBVIOUS

(* Pods that lost their labels. *)
LEMMA LabelsDropped ==
  ASSUME label \in [Services -> [Builds -> SUBSET Nat]], NEW b \in Builds, NEW s \in Services
  PROVE  /\ [label EXCEPT ![s][b] = {}] \in [Services -> [Builds -> SUBSET Nat]]
         /\ \A t \in Services, c \in Builds :
               [label EXCEPT ![s][b] = {}][t][c] = IF t = s /\ c = b THEN {} ELSE label[t][c]
OBVIOUS

(* A call that goes on keeps its types. *)
LEMMA CallGoesOn ==
  ASSUME call \in Call, NEW stage \in CallStages, NEW steady \in BOOLEAN
  PROVE  [call EXCEPT !.stage = stage] \in Call /\ [call EXCEPT !.steady = steady] \in Call
BY DEF Call

(* The selectors a call works with. *)
LEMMA CallSelectors ==
  ASSUME call \in Call
  PROVE  /\ call.svc \in Services /\ call.from \in Selector /\ call.to \in Selector
         /\ call.key \in Nat /\ call.stage \in CallStages /\ Overlap \in Selector
BY DEF Call, Overlap, Selector

(* So is the selector of another build. *)
LEMMA TargetSelector ==
  ASSUME NEW from \in Selector, NEW b \in Builds
  PROVE  /\ Target(from, b) \in Selector
         /\ Target(from, b).ver = b /\ Target(from, b).keys = from.keys
BY DEF Target, Selector

(* A running command's memory. *)
LEMMA RunFields ==
  ASSUME RunTypes, ~Idle
  PROVE  /\ run \in Run /\ run.stage \in RunStages /\ run.at \in Services /\ run.from \in Builds
         /\ run.to \in Builds /\ run.orig \in [Services -> Selector]
         /\ run.patched \in SUBSET Services /\ run.warmed \in SUBSET Services
         /\ run.bad \in BOOLEAN /\ run.kind \in {"deploy", "rollback"}
         /\ run.target \in [Services -> 0 .. Capacity] /\ run.base \in State
         /\ run.json \in [Builds -> Deadline]
BY DEF RunTypes, Idle, NoRun, Run

(* The cleanup run in progress and what it saw. *)
LEMMA CronFields ==
  ASSUME RetentionTypes
  PROVE  /\ cron.fresh \subseteq Builds \X Services /\ cron.found \subseteq Builds \X Services
         /\ cron.stage = "idle" <=> cron = CronIdle
         /\ cron = CronIdle => cron.fresh = {}
         /\ cron # CronIdle => cron \in Cleaning /\ cron.at \in Nat
                              /\ cron.st.prev \in Builds /\ cron.st.build \in Builds
BY DEF RetentionTypes, CronIdle, Cleaning

(* It forgets Deployments that others touched. *)
LEMMA CronForgets ==
  ASSUME RetentionTypes, NEW X \in SUBSET cron.fresh, cron' = [cron EXCEPT !.fresh = X]
  PROVE  /\ cron' = CronIdle \/ cron' \in Cleaning
         /\ cron'.stage = cron.stage /\ cron'.fresh = X /\ cron'.found = cron.found
         /\ cron' = CronIdle <=> cron = CronIdle
         /\ cron # CronIdle => cron'.at = cron.at /\ cron'.st = cron.st
<1>1. CASE cron = CronIdle
  BY <1>1 DEF CronIdle
<1>2. CASE cron \in Cleaning
  BY <1>2 DEF CronIdle, Cleaning
<1> QED
  BY <1>1, <1>2 DEF RetentionTypes

(* The steps of a call keep the types. *)
LEMMA OverlapTypes ==
  ASSUME TrafficTypes, Busy, OverlapStep
  PROVE  TrafficTypes'
<1> USE DEF TrafficTypes
<1>0. call \in Call /\ UNCHANGED <<lb, gfe, keys>>
  BY OverlapFrame DEF Busy, NoCall
<1>1. /\ call.svc \in Services /\ call.from \in Selector /\ call.to \in Selector
      /\ call.key \in Nat /\ Overlap \in Selector
  BY <1>0, CallSelectors
<1>2. call' = NoCall \/ call' \in Call
  <2>1. \/ \E stage \in CallStages : call' = [call EXCEPT !.stage = stage]
        \/ \E steady \in BOOLEAN : call' = [call EXCEPT !.steady = steady]
    <3>1. CASE Poll
      <4>1. Healthy \in BOOLEAN
        BY DEF Healthy
      <4> QED
        BY <3>1, <4>1, Zenon DEF Poll
    <3>2. CASE ~Poll
      <4>1. \E stage \in CallStages : Stage(stage)
        BY <3>2 DEF OverlapStep, SwapGeneric, SwapGenericFails, Discover, LabelPods, LabelFails,
               StageOverlap, StageOverlapFails, FinishOverlap, PollFails, Recover,
               RecoverFails, CallStages
      <4> QED
        BY <4>1 DEF Stage
    <3> QED
      BY <3>1, <3>2
  <2>2. "ok" \in CallStages
    BY DEF CallStages
  <2> QED
    BY <1>0, <2>1, <2>2, CallGoesOn, Zenon
<1>3. svc' \in [Services -> Selector]
  <2>1. svc' = svc \/ \E f \in Selector : svc' = [svc EXCEPT ![call.svc] = f]
    BY <1>1 DEF OverlapStep, SwapGeneric, SwapGenericFails, Discover, LabelPods, LabelFails,
           StageOverlap, StageOverlapFails, Poll, FinishOverlap, PollFails, Recover, RecoverFails,
           Swap
  <2> QED
    BY <2>1
<1>4. note' \in [Services -> BOOLEAN]
  <2>1. note' = note \/ \E v \in BOOLEAN : note' = [note EXCEPT ![call.svc] = v]
    BY DEF OverlapStep, SwapGeneric, SwapGenericFails, Discover, LabelPods, LabelFails,
           StageOverlap, StageOverlapFails, Poll, FinishOverlap, PollFails, Recover, RecoverFails
  <2> QED
    BY <2>1
<1>5. label' \in [Services -> [Builds -> SUBSET Nat]]
  <2>1. CASE UNCHANGED label
    BY <2>1
  <2>2. CASE LabelPods
    BY <2>2, <1>1 DEF LabelPods
  <2>3. CASE LabelFails
    <3>1. PICK b \in Builds :
             \/ UNCHANGED label
             \/ label' = [label EXCEPT ![call.svc][b] = label[call.svc][b] \cup {call.key}]
      BY <2>3, TwoBuilds DEF LabelFails
    <3>2. label[call.svc][b] \cup {call.key} \in SUBSET Nat
      BY <1>1
    <3> HIDE DEF TrafficTypes
    <3>3. [label EXCEPT ![call.svc][b] = label[call.svc][b] \cup {call.key}]
             \in [Services -> [Builds -> SUBSET Nat]]
      BY <3>2, <1>1, CellReplaced, Zenon DEF TrafficTypes
    <3> QED
      BY <3>1, <3>3, Zenon DEF TrafficTypes
  <2>4. CASE Cleanup
    BY <2>4, <1>1 DEF Cleanup
  <2> QED
    BY <2>1, <2>2, <2>3, <2>4
    DEF OverlapStep, SwapGeneric, SwapGenericFails, Discover, StageOverlap, StageOverlapFails, Poll,
        FinishOverlap, PollFails, Recover, RecoverFails
<1> QED
  BY <1>0, <1>2, <1>3, <1>4, <1>5

(* So do all other steps. *)
LEMMA TrafficTypesStep ==
  ASSUME Types, [Next]_vars
  PROVE  TrafficTypes'
<1> USE DEF TrafficTypes, Types
<1>1. CASE DeployStart
  BY <1>1 DEF DeployStart
<1>2. CASE Decides
  BY <1>2, DecidesFrame
<1>3. CASE Records
  BY <1>3, RecordsFrame
<1>4. CASE Bounds
  BY <1>4, BoundsFrame
<1>5. CASE Scales
  <2>1. label' \in [Services -> [Builds -> SUBSET Nat]]
    <3>1. label' = label \/ \E b \in Builds, s \in Services : label' = [label EXCEPT ![s][b] = {}]
      <4>1. Scales => ~Idle
        BY DEF Scales, ScaleUp, ScaleToTarget, Park, Idle
      <4> QED
        BY <1>5, <4>1, RunFields DEF Scales, ScaleUp, ScaleToTarget, Park, Scale
    <3> SUFFICES ASSUME NEW b \in Builds, NEW s \in Services, label' = [label EXCEPT ![s][b] = {}]
                 PROVE  label' \in [Services -> [Builds -> SUBSET Nat]]
      BY <3>1
    <3>2. label \in [Services -> [Builds -> SUBSET Nat]]
      OBVIOUS
    <3> HIDE DEF TrafficTypes, Types
    <3> QED
      BY <3>2, LabelsDropped, Zenon
  <2> QED
    BY <1>5, <2>1, ScalesFrame
<1>6. CASE Calls
  <2>1. UNCHANGED <<svc, note, label, lb, gfe>>
    BY <1>6, CallsFrame
  <2>2. (call' = NoCall \/ call' \in Call) /\ keys' \in Nat
    <3>1. CASE SwitchClose \/ UndoClose
      BY <3>1 DEF SwitchClose, UndoClose
    <3>2. CASE SwitchOpen \/ UndoOpen
      <4>1. ~Idle
        BY <3>2 DEF SwitchOpen, UndoOpen, Idle
      <4>2. PICK s \in Services, from \in Selector, to \in Selector : Open(s, from, to)
        <5>1. CASE SwitchOpen
          BY <5>1, <4>1, RunFields, TargetSelector DEF SwitchOpen
        <5>2. CASE UndoOpen
          <6>1. DEFINE s == CHOOSE x \in run.patched : \A y \in run.patched : x <= y
          <6>2. s \in Services
            <7>1. run.patched # {} /\ run.patched \subseteq Services
              BY <5>2, <4>1, RunFields DEF UndoOpen
            <7>2. \E x \in run.patched : \A y \in run.patched : x <= y
              <8>1. run.patched \subseteq Nat
                BY <7>1, OverlapAssumption DEF Services
              <8> QED
                BY <7>1, <8>1, MinOfNat
            <7> QED
              BY <7>1, <7>2
          <6>3. Open(s, Target(run.orig[s], run.to), run.orig[s])
            BY <5>2 DEF UndoOpen
          <6> QED
            BY <6>2, <6>3, <4>1, RunFields, TargetSelector
        <5> QED
          BY <3>2, <5>1, <5>2
      <4> QED
        BY <4>2 DEF Open, Call, CallStages
    <3> QED
      BY <1>6, <3>1, <3>2 DEF Calls
  <2> QED
    BY <2>1, <2>2
<1>7. CASE Balances /\ UNCHANGED <<retentionVars, run, bookkeeping>>
  <2>1. lb' \in [Services -> SUBSET Builds] /\ gfe' \in [Services -> SUBSET Builds]
    <3>1. PICK s \in Services : LbAttach(s) \/ LbDetach(s) \/ GfeSync(s)
      BY <1>7, OverlapAssumption DEF Balances
    <3>2. Selected(s) \subseteq Builds
      BY DEF Selected, Matches
    <3>3. \/ \E f \in SUBSET Builds : lb' = [lb EXCEPT ![s] = f] /\ gfe' = gfe
          \/ lb' = lb /\ gfe' = [gfe EXCEPT ![s] = lb[s]]
      <4>1. lb[s] \cup Selected(s) \in SUBSET Builds /\ lb[s] \cap Selected(s) \in SUBSET Builds
        BY <3>2
      <4> QED
        BY <3>1, <4>1 DEF LbAttach, LbDetach, GfeSync
    <3> QED
      BY <3>3
  <2> QED
    BY <1>7, <2>1, BalancesFrame
<1>8. CASE Replicates
  <2>1. label' \in [Services -> [Builds -> SUBSET Nat]]
    <3>1. label' = label \/ \E b \in Builds, s \in Services : label' = [label EXCEPT ![s][b] = {}]
      BY <1>8 DEF Replicates, PodsStart, PodsLost, Autoscale
    <3> SUFFICES ASSUME NEW b \in Builds, NEW s \in Services, label' = [label EXCEPT ![s][b] = {}]
                 PROVE  label' \in [Services -> [Builds -> SUBSET Nat]]
      BY <3>1
    <3>2. label \in [Services -> [Builds -> SUBSET Nat]]
      OBVIOUS
    <3> HIDE DEF TrafficTypes, Types
    <3> QED
      BY <3>2, LabelsDropped, Zenon
  <2> QED
    BY <1>8, <2>1, ReplicatesFrame
<1>9. CASE Tick
  BY <1>9 DEF Tick
<1>10. CASE Busy /\ OverlapStep
  BY <1>10, OverlapTypes
<1>11. CASE (CronStep \/ CronFails \/ Project) /\ Beside
  <2>1. label' = label \/ \E d \in cron.fresh : label' = [label EXCEPT ![d[2]][d[1]] = {}]
    BY <1>11 DEF CronStep, CronStart, CronListDeployments, CronListServices, CronListHpas,
           CronVerify, CronScale, CronFails, Project, Unmoved
  <2>2. label' \in [Services -> [Builds -> SUBSET Nat]]
    <3>1. \A d \in cron.fresh : d[1] \in Builds /\ d[2] \in Services
      BY CronFields
    <3> SUFFICES ASSUME NEW d \in cron.fresh, label' = [label EXCEPT ![d[2]][d[1]] = {}]
                 PROVE  label' \in [Services -> [Builds -> SUBSET Nat]]
      BY <2>1
    <3>2. label \in [Services -> [Builds -> SUBSET Nat]]
      OBVIOUS
    <3> HIDE DEF TrafficTypes, Types
    <3> QED
      BY <3>1, <3>2, LabelsDropped, Zenon
  <2> QED
    BY <1>11, <2>2, CronFrame
<1>12. CASE UNCHANGED vars
  BY <1>12 DEF vars
<1> QED
  BY <1>1, <1>2, <1>3, <1>4, <1>5, <1>6, <1>7, <1>8, <1>9, <1>10, <1>11, <1>12, StepGroups

(* Steps of a command are steps of a running one, with a memory. *)
LEMMA RunsWhen ==
  ASSUME Types, Records \/ Bounds \/ Scales \/ Calls
  PROVE  ~Idle /\ run.at \in Services /\ run.from \in Builds /\ run.to \in Builds /\ run \in Run
<1>1. ~Idle
  BY DEF Idle, Records, Protect, Publish, Arm, Commit, Complete, Rearm,
         Bounds, WidenHpa, WarmHpa, WarmHpaFails, Unwarm, ParkFails,
         Scales, ScaleUp, ScaleToTarget, Park,
         Calls, SwitchOpen, SwitchClose, UndoOpen, UndoClose
<1> QED
  BY <1>1, RunFields DEF Types

(* The replicas a command asks for. *)
LEMMA ScaleTargets ==
  ASSUME Types, Scales
  PROVE  \/ \E b \in Builds, n \in 1 .. Capacity : Scale(b, run.at, n)
         \/ ScaleToTarget /\ UNCHANGED <<rep, ready, changed, label, cron>>
<1> USE PromotionAssumption DEF Types, CapacityTypes
<1>1. run.at \in Services /\ run.from \in Builds /\ run.to \in Builds /\ run \in Run
  BY RunsWhen
<1>2. CASE ScaleUp
  <2>1. rep[run.from][run.at] \in 0 .. Capacity
    BY <1>1
  <2>2. RollbackCapacity(LiveCapacity(run.at)) \in 1 .. Capacity
    BY <2>1 DEF RollbackCapacity, LiveCapacity
  <2> QED
    BY <1>1, <1>2, <2>2 DEF ScaleUp
<1>3. CASE ScaleToTarget
  <2>1. run.target[run.at] \in 0 .. Capacity /\ rep[run.to][run.at] \in 0 .. Capacity
    BY <1>1 DEF Run
  <2>2. CASE rep[run.to][run.at] < run.target[run.at]
    <3>1. run.target[run.at] \in 1 .. Capacity
      BY <2>1, <2>2
    <3> QED
      BY <1>3, <1>1, <3>1 DEF ScaleToTarget
  <2> QED
    BY <1>3, <2>2 DEF ScaleToTarget
<1>4. CASE Park
  <2>1. Standby \in 1 .. Capacity
    BY DEF Standby
  <2> QED
    BY <1>1, <1>4, <2>1 DEF Park
<1> QED
  BY <1>2, <1>3, <1>4 DEF Scales

(* A count of pods replaced. *)
LEMMA CountReplaced ==
  ASSUME NEW f \in [Builds -> [Services -> 0 .. Capacity]], NEW b \in Builds, NEW s \in Services,
         NEW n \in 0 .. Capacity, NEW g, g = [f EXCEPT ![b][s] = n]
  PROVE  /\ g \in [Builds -> [Services -> 0 .. Capacity]]
         /\ \A c \in Builds, t \in Services : g[c][t] = IF c = b /\ t = s THEN n ELSE f[c][t]
OBVIOUS

(* What one scaling does to replicas and pods. *)
LEMMA ScaleEffect ==
  ASSUME CapacityTypes, NEW b \in Builds, NEW s \in Services, NEW n \in 0 .. Capacity,
         rep' = [rep EXCEPT ![b][s] = n],
         ready' = [ready EXCEPT ![b][s] = IF @ > n THEN n ELSE @]
  PROVE  /\ rep' \in [Builds -> [Services -> 0 .. Capacity]]
         /\ ready' \in [Builds -> [Services -> 0 .. Capacity]]
         /\ \A c \in Builds, t \in Services :
              /\ rep'[c][t] = IF c = b /\ t = s THEN n ELSE rep[c][t]
              /\ ready'[c][t] = IF c = b /\ t = s /\ ready[b][s] > n THEN n ELSE ready[c][t]
              /\ ready'[c][t] <= rep'[c][t]
<1>0. rep \in [Builds -> [Services -> 0 .. Capacity]] /\ ready \in [Builds -> [Services -> 0 .. Capacity]]
  BY DEF CapacityTypes
<1>1. ready[b][s] \in 0 .. Capacity
  BY <1>0
<1>3. PICK m \in 0 .. Capacity : m = (IF ready[b][s] > n THEN n ELSE ready[b][s]) /\ m <= n
  BY <1>1, PromotionAssumption
<1>4. ready' = [ready EXCEPT ![b][s] = m]
  BY <1>0, <1>3
<1>5. /\ rep' \in [Builds -> [Services -> 0 .. Capacity]]
      /\ \A c \in Builds, t \in Services : rep'[c][t] = IF c = b /\ t = s THEN n ELSE rep[c][t]
  BY <1>0, CountReplaced
<1>6. /\ ready' \in [Builds -> [Services -> 0 .. Capacity]]
      /\ \A c \in Builds, t \in Services :
             ready'[c][t] = IF c = b /\ t = s THEN m ELSE ready[c][t]
  BY <1>0, <1>4, CountReplaced
<1> QED
  BY <1>3, <1>5, <1>6 DEF CapacityTypes

(* What an autoscaler may ask for. *)
LEMMA FloorRange ==
  ASSUME Types, NEW b \in Builds, NEW s \in Services
  PROVE  /\ Floor(b, s) \in 0 .. Capacity
         /\ Floor(b, s) = 0 <=> rep[b][s] = 0
         /\ rep[b][s] \in 0 .. Capacity
<1>1. rep[b][s] \in 0 .. Capacity
  BY DEF Types, CapacityTypes
<1> QED
  BY <1>1, PromotionAssumption DEF Floor

(* What the autoscalers of a build do. *)
LEMMA AutoscaleEffect ==
  ASSUME Types, NEW b \in Builds, Autoscale(b)
  PROVE  /\ rep' \in [Builds -> [Services -> 0 .. Capacity]]
         /\ ready' \in [Builds -> [Services -> 0 .. Capacity]]
         /\ \A c \in Builds, t \in Services :
              /\ rep'[c][t] = IF c = b THEN Floor(b, t) ELSE rep[c][t]
              /\ ready'[c][t] = IF c = b /\ ready[b][t] > Floor(b, t) THEN Floor(b, t)
                                ELSE ready[c][t]
              /\ ready'[c][t] <= rep'[c][t]
<1> DEFINE low == [t \in Services |-> Floor(b, t)]
           few == [t \in Services |-> IF ready[b][t] > Floor(b, t) THEN Floor(b, t) ELSE ready[b][t]]
<1>0. \A c \in Builds, t \in Services :
         ready[c][t] \in 0 .. Capacity /\ ready[c][t] <= rep[c][t]
  BY DEF Types, CapacityTypes
<1>1. \A t \in Services : Floor(b, t) \in 0 .. Capacity
  BY FloorRange
<1>2. low \in [Services -> 0 .. Capacity] /\ few \in [Services -> 0 .. Capacity]
  BY <1>0, <1>1
<1>3. \A t \in Services : few[t] <= low[t]
  BY <1>0, <1>1, PromotionAssumption
<1>4. rep' = [rep EXCEPT ![b] = low] /\ ready' = [ready EXCEPT ![b] = few]
  BY DEF Autoscale, Pools, Types, CapacityTypes
<1> HIDE DEF low, few
<1>5. /\ rep' \in [Builds -> [Services -> 0 .. Capacity]]
      /\ \A c \in Builds, t \in Services : rep'[c][t] = IF c = b THEN low[t] ELSE rep[c][t]
  BY <1>2, <1>4, RowReplaced DEF Types, CapacityTypes
<1>6. /\ ready' \in [Builds -> [Services -> 0 .. Capacity]]
      /\ \A c \in Builds, t \in Services : ready'[c][t] = IF c = b THEN few[t] ELSE ready[c][t]
  BY <1>2, <1>4, RowReplaced DEF Types, CapacityTypes
<1>7. \A c \in Builds, t \in Services : ready'[c][t] <= rep'[c][t]
  BY <1>0, <1>3, <1>5, <1>6
<1> QED
  BY <1>5, <1>6, <1>7 DEF low, few

(* What the cleanup's patch does. *)
LEMMA CronScaleEffect ==
  ASSUME Types, CronScale, rep' # rep \/ ready' # ready \/ label' # label
  PROVE  \E d \in cron.fresh :
           /\ d = <<d[1], d[2]>> /\ d[1] \in Builds /\ d[2] \in Services /\ cron.stage = "patch"
           /\ rep' = [rep EXCEPT ![d[1]][d[2]] = 0]
           /\ ready' = [ready EXCEPT ![d[1]][d[2]] = 0]
           /\ label' = [label EXCEPT ![d[2]][d[1]] = {}]
           /\ changed' = [changed EXCEPT ![d[2]] = @ \cup Noticed(d[1], d[2])]
           /\ cron'.fresh = cron.fresh \ {d}
<1> DEFINE d == CHOOSE x \in cron.found : \A y \in cron.found : x[2] <= y[2]
<1>1. Unmoved(d)
  BY DEF CronScale
<1>2. d \in cron.fresh
  BY <1>1 DEF Unmoved
<1>3. d = <<d[1], d[2]>> /\ d[1] \in Builds /\ d[2] \in Services
  <2> HIDE DEF d
  <2> QED
    BY <1>2, CronFields DEF Types
<1>4. cron'.fresh = cron.fresh \ {d} /\ cron.stage = "patch"
  <2>1. cron \in Cleaning
    BY CronFields DEF Types, CronScale
  <2> QED
    BY <2>1 DEF CronScale, Cleaning
<1> QED
  BY <1>1, <1>2, <1>3, <1>4 DEF CronScale

(* What Helm's install does to the incoming build. *)
LEMMA InstallEffect ==
  ASSUME Types, DeployStart
  PROVE  /\ rep' \in [Builds -> [Services -> 0 .. Capacity]]
         /\ ready' \in [Builds -> [Services -> 0 .. Capacity]]
         /\ hpa' \in [Builds -> [Services -> {"none", "chart", "raised", "widened"}]]
         /\ \A c \in Builds, t \in Services :
              /\ rep'[c][t] = IF c = New THEN ChartMin ELSE rep[c][t]
              /\ ready'[c][t] = IF c = New /\ ready[New][t] > ChartMin THEN ChartMin
                                ELSE ready[c][t]
              /\ ready'[c][t] <= rep'[c][t]
              /\ hpa'[c][t] = IF c = New THEN "chart" ELSE hpa[c][t]
<1> DEFINE low == [t \in Services |-> ChartMin]
           few == [t \in Services |-> IF ready[New][t] > ChartMin THEN ChartMin ELSE ready[New][t]]
           plain == [t \in Services |-> "chart"]
<1>0. New \in Builds /\ \A c \in Builds, t \in Services :
         ready[c][t] \in 0 .. Capacity /\ ready[c][t] <= rep[c][t]
  BY TwoBuilds DEF Types, CapacityTypes
<1>1. ChartMin \in 0 .. Capacity
  BY PromotionAssumption
<1>2. /\ low \in [Services -> 0 .. Capacity] /\ few \in [Services -> 0 .. Capacity]
      /\ plain \in [Services -> {"none", "chart", "raised", "widened"}]
  BY <1>0, <1>1
<1>3. \A t \in Services : few[t] <= low[t]
  BY <1>0, <1>1, PromotionAssumption
<1>4. /\ rep' = [rep EXCEPT ![New] = low] /\ ready' = [ready EXCEPT ![New] = few]
      /\ hpa' = [hpa EXCEPT ![New] = plain]
  BY <1>0 DEF DeployStart, Types, CapacityTypes
<1> HIDE DEF low, few, plain
<1>5. /\ rep' \in [Builds -> [Services -> 0 .. Capacity]]
      /\ \A c \in Builds, t \in Services : rep'[c][t] = IF c = New THEN low[t] ELSE rep[c][t]
  BY <1>0, <1>2, <1>4, RowReplaced DEF Types, CapacityTypes
<1>6. /\ ready' \in [Builds -> [Services -> 0 .. Capacity]]
      /\ \A c \in Builds, t \in Services : ready'[c][t] = IF c = New THEN few[t] ELSE ready[c][t]
  BY <1>0, <1>2, <1>4, RowReplaced DEF Types, CapacityTypes
<1>7. /\ hpa' \in [Builds -> [Services -> {"none", "chart", "raised", "widened"}]]
      /\ \A c \in Builds, t \in Services : hpa'[c][t] = IF c = New THEN plain[t] ELSE hpa[c][t]
  BY <1>0, <1>2, <1>4, RowReplaced DEF Types, CapacityTypes
<1>8. \A c \in Builds, t \in Services : ready'[c][t] <= rep'[c][t]
  BY <1>0, <1>3, <1>5, <1>6
<1> QED
  BY <1>5, <1>6, <1>7, <1>8 DEF low, few, plain

(* What a command does to the autoscalers. *)
LEMMA BoundsEffect ==
  ASSUME Types, Bounds \/ Park
  PROVE  /\ hpa' \in [Builds -> [Services -> {"none", "chart", "raised", "widened"}]]
         /\ \/ hpa' = hpa
            \/ \E v \in {"none", "widened", "raised"} :
                  LET b == IF v = "none" THEN run.from ELSE run.to IN
                  \A c \in Builds, t \in Services :
                     hpa'[c][t] = IF c = b /\ t = run.at THEN v ELSE hpa[c][t]
            \/ Unwarm
<1>1. run.at \in Services /\ run.from \in Builds /\ run.to \in Builds /\ run \in Run
  BY RunsWhen DEF Scales
<1>2. hpa \in [Builds -> [Services -> {"none", "chart", "raised", "widened"}]]
  BY DEF Types, CapacityTypes
<1>3. CASE Unwarm
  <2>1. run.warmed \in SUBSET Services
    BY <1>1 DEF Run
  <2> QED
    BY <1>1, <1>2, <1>3 DEF Unwarm
<1>4. CASE ~Unwarm
  <2>1. \/ hpa' = hpa
        \/ \E v \in {"none", "widened", "raised"} :
              hpa' = [hpa EXCEPT ![IF v = "none" THEN run.from ELSE run.to][run.at] = v]
    BY <1>4 DEF Bounds, WidenHpa, WarmHpa, WarmHpaFails, ParkFails, Park
  <2> QED
    BY <1>1, <1>2, <2>1
<1> QED
  BY <1>3, <1>4

(* Capacities keep their types. *)
LEMMA CapacityTypesStep ==
  ASSUME Types, [Next]_vars
  PROVE  CapacityTypes'
<1>0. CapacityTypes
  BY DEF Types
<1>1. CASE DeployStart
  BY <1>1, InstallEffect DEF CapacityTypes
<1>2. CASE Decides
  BY <1>0, <1>2, DecidesFrame DEF CapacityTypes
<1>3. CASE Records
  BY <1>0, <1>3, RecordsFrame DEF CapacityTypes
<1>4. CASE Bounds
  BY <1>0, <1>4, BoundsFrame, BoundsEffect DEF CapacityTypes
<1>5. CASE Scales
  <2>1. hpa' \in [Builds -> [Services -> {"none", "chart", "raised", "widened"}]]
    <3>1. CASE Park
      BY <3>1, BoundsEffect
    <3>2. CASE ~Park
      BY <1>0, <1>5, <3>2 DEF Scales, ScaleUp, ScaleToTarget, CapacityTypes
    <3> QED
      BY <3>1, <3>2
  <2>2. CASE UNCHANGED <<rep, ready>>
    BY <1>0, <2>1, <2>2 DEF CapacityTypes
  <2>3. CASE \E b \in Builds, n \in 1 .. Capacity : Scale(b, run.at, n)
    <3>1. PICK b \in Builds, n \in 0 .. Capacity : Scale(b, run.at, n)
      BY <2>3
    <3>2. run.at \in Services
      BY <1>5, RunsWhen
    <3>3. /\ rep' = [rep EXCEPT ![b][run.at] = n]
          /\ ready' = [ready EXCEPT ![b][run.at] = IF @ > n THEN n ELSE @]
      BY <3>1 DEF Scale
    <3> QED
      BY <1>0, <2>1, <3>2, <3>3, ScaleEffect DEF CapacityTypes
  <2> QED
    BY <1>5, <2>2, <2>3, ScaleTargets
<1>6. CASE Calls
  BY <1>0, <1>6, CallsFrame DEF CapacityTypes
<1>7. CASE Balances /\ UNCHANGED <<retentionVars, run, bookkeeping>>
  BY <1>0, <1>7, BalancesFrame DEF CapacityTypes
<1>8. CASE Replicates
  <2>1. CASE \E b \in Builds : PodsStart(b)
    BY <1>0, <2>1 DEF PodsStart, CapacityTypes
  <2>2. CASE \E b \in Builds : Autoscale(b)
    BY <1>0, <1>8, <2>2, AutoscaleEffect, ReplicatesFrame DEF CapacityTypes
  <2>3. CASE \E b \in Builds, s \in Services : PodsLost(b, s)
    BY <1>0, <2>3, PromotionAssumption DEF PodsLost, CapacityTypes
  <2> QED
    BY <1>8, <2>1, <2>2, <2>3 DEF Replicates
<1>9. CASE Tick
  BY <1>0, <1>9 DEF Tick, CapacityTypes
<1>10. CASE Busy /\ OverlapStep /\ UNCHANGED <<retentionVars, run, bookkeeping>>
  BY <1>0, <1>10, OverlapFrame DEF CapacityTypes
<1>11. CASE (CronStep \/ CronFails \/ Project) /\ Beside
  <2>1. CASE UNCHANGED <<rep, ready>>
    BY <1>0, <1>11, <2>1, CronFrame DEF CapacityTypes
  <2>2. CASE rep' # rep \/ ready' # ready
    <3>1. CronScale
      BY <1>11, <2>2 DEF CronStep, CronStart, CronListDeployments, CronListServices, CronListHpas,
           CronVerify, CronFails, Project
    <3>2. PICK b \in Builds, s \in Services :
             /\ rep' = [rep EXCEPT ![b][s] = 0]
             /\ ready' = [ready EXCEPT ![b][s] = 0]
      BY <3>1, <2>2, CronScaleEffect
    <3>3. 0 \in 0 .. Capacity
      BY PromotionAssumption
    <3>4. /\ rep \in [Builds -> [Services -> 0 .. Capacity]]
          /\ ready \in [Builds -> [Services -> 0 .. Capacity]]
          /\ \A c \in Builds, t \in Services : ready[c][t] <= rep[c][t]
      BY <1>0 DEF CapacityTypes
    <3>5. /\ rep' \in [Builds -> [Services -> 0 .. Capacity]]
          /\ \A c \in Builds, t \in Services : rep'[c][t] = IF c = b /\ t = s THEN 0 ELSE rep[c][t]
      BY <3>2, <3>3, <3>4, CountReplaced
    <3>6. /\ ready' \in [Builds -> [Services -> 0 .. Capacity]]
          /\ \A c \in Builds, t \in Services :
                ready'[c][t] = IF c = b /\ t = s THEN 0 ELSE ready[c][t]
      BY <3>2, <3>3, <3>4, CountReplaced
    <3> QED
      BY <1>0, <1>11, <3>4, <3>5, <3>6, CronFrame DEF CapacityTypes
  <2> QED
    BY <2>1, <2>2
<1>12. CASE UNCHANGED vars
  BY <1>0, <1>12 DEF vars, CapacityTypes
<1> QED
  BY <1>1, <1>2, <1>3, <1>4, <1>5, <1>6, <1>7, <1>8, <1>9, <1>10, <1>11, <1>12, StepGroups

(* Deadlines never pass their ceiling. *)
LEMMA DeadlineRange ==
  ASSUME RetentionTypes
  PROVE  now + PrepWindow \in Deadline /\ now + Grace \in Deadline /\ 0 \in Deadline
BY RetentionAssumption DEF RetentionTypes, Deadline

(* What a command does to the index. *)
LEMMA IndexEffect ==
  ASSUME Types, Publish \/ Complete, run.from # run.to
  PROVE  /\ idx' \in [Builds -> Deadline]
         /\ Publish => /\ idx'[run.to] = now + PrepWindow
                       /\ idx'[run.from] = IF idx[run.from] = 0 THEN now + PrepWindow
                                           ELSE idx[run.from]
         /\ ~Publish => /\ idx'[run.to] = now + Grace
                        /\ idx'[run.from] = idx[run.from]
<1>1. run.from \in Builds /\ run.to \in Builds
  BY RunsWhen DEF Records
<1>2. idx \in [Builds -> Deadline]
  BY DEF Types, RetentionTypes
<1>3. now + PrepWindow \in Deadline /\ now + Grace \in Deadline
  BY DeadlineRange DEF Types
<1>4. CASE Publish
  BY <1>1, <1>2, <1>3, <1>4 DEF Publish, PublishIndex
<1>5. CASE Complete /\ ~Publish
  BY <1>1, <1>2, <1>3, <1>5 DEF Complete, FinalizeIndex
<1> QED
  BY <1>4, <1>5

(* What a command does to the markers. *)
LEMMA MarkerEffect ==
  ASSUME Types, Protect \/ Arm \/ Rearm
  PROVE  /\ marker' \in [Builds -> [Services -> Deadline]]
         /\ \E b \in Builds, d \in Deadline :
              /\ b = (IF Protect THEN run.to ELSE run.from)
              /\ d = (IF Protect THEN now + PrepWindow ELSE idx[run.to])
              /\ \A c \in Builds, t \in Services :
                    marker'[c][t] = IF c = b /\ t = run.at THEN d ELSE marker[c][t]
              /\ cron' = Touched(cron, b, run.at)
<1>1. run.from \in Builds /\ run.to \in Builds /\ run.at \in Services
  BY RunsWhen DEF Records
<1>2. marker \in [Builds -> [Services -> Deadline]] /\ idx \in [Builds -> Deadline]
  BY DEF Types, RetentionTypes
<1>3. now + PrepWindow \in Deadline
  BY DeadlineRange DEF Types
<1>4. CASE Protect
  <2>1. marker' = [marker EXCEPT ![run.to][run.at] = now + PrepWindow]
        /\ cron' = Touched(cron, run.to, run.at)
    BY <1>4 DEF Protect, SetMarker
  <2> QED
    BY <1>1, <1>2, <1>3, <1>4, <2>1
<1>5. CASE ~Protect
  <2>1. marker' = [marker EXCEPT ![run.from][run.at] = idx[run.to]]
        /\ cron' = Touched(cron, run.from, run.at)
    BY <1>5 DEF Arm, Rearm, SetMarker
  <2> QED
    BY <1>1, <1>2, <1>5, <2>1
<1> QED
  BY <1>4, <1>5

(* What the cleanup saw changes at the steps of others only by forgetting.  *)
LEMMA CronForgetting ==
  ASSUME Types, [Next]_vars, ~((CronStep \/ CronFails) /\ Beside)
  PROVE  \E X \in SUBSET cron.fresh : cron' = [cron EXCEPT !.fresh = X]
<1>0. cron = [cron EXCEPT !.fresh = cron.fresh]
  <2>1. cron = CronIdle \/ cron \in Cleaning
    BY DEF Types, RetentionTypes
  <2>2. CASE cron = CronIdle
    BY <2>2 DEF CronIdle
  <2>3. CASE cron \in Cleaning
    BY <2>3 DEF Cleaning
  <2> QED
    BY <2>1, <2>2, <2>3
<1>1. CASE UNCHANGED cron
  BY <1>0, <1>1
<1>2. CASE DeployStart
  BY <1>2 DEF DeployStart
<1>3. CASE Scales
  BY <1>0, <1>3, ScaleTargets DEF Scale, Touched
<1>4. CASE Protect \/ Arm \/ Rearm
  BY <1>4 DEF Protect, Arm, Rearm, SetMarker, Touched
<1>5. CASE \E b \in Builds : Autoscale(b)
  BY <1>5 DEF Autoscale
<1>6. CASE Records /\ ~(Protect \/ Arm \/ Rearm)
  BY <1>1, <1>6 DEF Records, Publish, Commit, Complete
<1>7. CASE Replicates /\ ~(\E b \in Builds : Autoscale(b))
  BY <1>1, <1>7 DEF Replicates, PodsStart, PodsLost
<1>8. CASE Project
  BY <1>1, <1>8 DEF Project
<1>9. CASE Decides \/ Bounds \/ Calls \/ Tick \/ UNCHANGED vars
  BY <1>1, <1>9, DecidesFrame, BoundsFrame, CallsFrame DEF Tick, vars
<1> QED
  BY <1>1, <1>2, <1>3, <1>4, <1>5, <1>6, <1>7, <1>8, <1>9, StepGroups

(* The cleanup run in progress keeps its types. *)
LEMMA CronTypesStep ==
  ASSUME Types, [Next]_vars
  PROVE  cron' = CronIdle \/ cron' \in Cleaning
<1>0. RetentionTypes
  BY DEF Types
<1>1. CASE ~((CronStep \/ CronFails) /\ Beside)
  <2>1. PICK X \in SUBSET cron.fresh : cron' = [cron EXCEPT !.fresh = X]
    BY <1>1, CronForgetting
  <2> QED
    BY <1>0, <2>1, CronForgets
<1>2. CASE CronStart
  BY <1>0, <1>2 DEF CronStart, Cleaning, RetentionTypes, State
<1>3. CASE (CronStep \/ CronFails) /\ ~CronStart
  <2>1. cron \in Cleaning
    BY <1>0, <1>3, CronFields DEF CronStep, CronListDeployments, CronListServices, CronListHpas,
           CronVerify, CronScale, CronFails
  <2>2. CASE CronListDeployments
    <3>1. cron.st.prev \in Builds
      BY <2>1 DEF Cleaning
    <3> DEFINE listed == {<<cron.st.prev, s>> : s \in {p \in Services : Expired(cron.st.prev, p, cron.at)}}
    <3>2. listed \in SUBSET (Builds \X Services)
      BY <3>1
    <3>3. cron' = IF listed = {} THEN CronIdle
                  ELSE [cron EXCEPT !.stage = "services", !.found = listed, !.fresh = listed]
      BY <2>2 DEF CronListDeployments
    <3> HIDE DEF listed
    <3> QED
      BY <2>1, <3>2, <3>3 DEF Cleaning
  <2>3. CASE CronListServices
    BY <2>1, <2>3 DEF CronListServices, Cleaning
  <2>4. CASE CronListHpas
    <3>1. PICK free \in SUBSET cron.found :
             cron' = IF free = {} THEN CronIdle ELSE [cron EXCEPT !.stage = "verify", !.found = free]
      BY <2>4 DEF CronListHpas
    <3> QED
      BY <2>1, <3>1 DEF Cleaning
  <2>5. CASE CronVerify
    BY <2>1, <2>5 DEF CronVerify, Cleaning
  <2>6. CASE CronScale
    <3>1. PICK X \in SUBSET cron.found, Y \in SUBSET cron.fresh :
             cron' = [cron EXCEPT !.stage = "verify", !.found = X, !.fresh = Y]
      BY <2>6 DEF CronScale
    <3> QED
      BY <2>1, <3>1 DEF Cleaning
  <2>7. CASE CronFails
    BY <2>7 DEF CronFails
  <2> QED
    BY <1>3, <2>2, <2>3, <2>4, <2>5, <2>6, <2>7 DEF CronStep
<1> QED
  BY <1>1, <1>2, <1>3

(* The record, markers and index keep their types. *)
LEMMA RetentionTypesStep ==
  ASSUME Types, Aims, [Next]_vars
  PROVE  RetentionTypes'
<1>0. RetentionTypes
  BY DEF Types
<1>c. cron' = CronIdle \/ cron' \in Cleaning
  BY CronTypesStep
<1>1. CASE UNCHANGED <<now, st, marker, idx, proj>>
  BY <1>0, <1>1, <1>c DEF RetentionTypes
<1>2. CASE DeployStart
  BY <1>1, <1>2 DEF DeployStart
<1>3. CASE Decides \/ Bounds \/ Scales \/ Calls \/ Replicates \/ UNCHANGED vars
  BY <1>1, <1>3, DecidesFrame, BoundsFrame, ScalesFrame, CallsFrame, ReplicatesFrame DEF vars
<1>4. CASE Records
  <2>1. run.from \in Builds /\ run.to \in Builds /\ run.from # run.to
    BY <1>4, RunsWhen DEF Aims
  <2>2. CASE Publish \/ Complete
    <3>1. UNCHANGED <<now, st, marker, proj>>
      BY <2>2 DEF Publish, Complete
    <3> QED
      BY <1>0, <1>c, <2>1, <2>2, <3>1, IndexEffect DEF RetentionTypes
  <2>3. CASE Protect \/ Arm \/ Rearm
    <3>1. UNCHANGED <<now, st, idx, proj>>
      BY <2>3 DEF Protect, Arm, Rearm
    <3> QED
      BY <1>0, <1>c, <2>3, <3>1, MarkerEffect DEF RetentionTypes
  <2>4. CASE Commit
    BY <1>0, <1>c, <2>1, <2>4 DEF Commit, RetentionTypes, State
  <2> QED
    BY <1>4, <2>2, <2>3, <2>4 DEF Records
<1>5. CASE Tick
  BY <1>0, <1>5, <1>c, RetentionAssumption DEF Tick, RetentionTypes
<1>6. CASE (CronStep \/ CronFails \/ Project) /\ Beside
  <2>1. CASE Project
    BY <1>0, <1>c, <2>1 DEF Project, RetentionTypes
  <2>2. CASE (CronStep \/ CronFails) /\ ~Project
    BY <1>1, <2>2 DEF CronStep, CronStart, CronListDeployments, CronListServices, CronListHpas,
       CronVerify, CronScale, CronFails
  <2> QED
    BY <1>6, <2>1, <2>2
<1> QED
  BY <1>1, <1>2, <1>3, <1>4, <1>5, <1>6, StepGroups

(* A command that starts has its memory. *)
LEMMA RunStarts ==
  ASSUME Types, DeployStart \/ RollbackStart
  PROVE  /\ run' \in Run /\ run'.stage = "protect" /\ run'.at = 1 /\ run'.from = st.build
         /\ run'.to = (IF DeployStart THEN New ELSE st.prev)
         /\ run'.kind = (IF DeployStart THEN "deploy" ELSE "rollback")
         /\ run'.base = st /\ run'.warmed = {} /\ run'.orig = svc /\ run'.patched = {} /\ ~run'.bad
<1>1. rep[st.build] \in [Services -> 0 .. Capacity] /\ st \in State /\ st.build \in Builds
  BY DEF Types, CapacityTypes, RetentionTypes, State
<1>2. svc \in [Services -> Selector] /\ idx \in [Builds -> Deadline]
  BY DEF Types, TrafficTypes, RetentionTypes
<1>3. 1 \in Services /\ "protect" \in RunStages
  BY OverlapAssumption DEF Services, RunStages, Opening
<1>4. CASE DeployStart
  <2>1. run' = [stage |-> "protect", at |-> 1, kind |-> "deploy", from |-> st.build,
                to |-> New, base |-> st, warmed |-> {}, orig |-> svc, patched |-> {},
                bad |-> FALSE, json |-> idx, target |-> rep[st.build]]
    BY <1>4 DEF DeployStart
  <2> QED
    BY <1>1, <1>2, <1>3, <1>4, <2>1, TwoBuilds DEF Run
<1>5. CASE ~DeployStart
  <2>1. run' = [stage |-> "protect", at |-> 1, kind |-> "rollback", from |-> st.build,
                to |-> st.prev, base |-> st, warmed |-> {}, orig |-> svc, patched |-> {},
                bad |-> FALSE, json |-> idx, target |-> rep[st.build]]
    BY <1>5 DEF RollbackStart
  <2>2. st.prev \in Builds
    BY <1>1, <1>5 DEF RollbackStart, State
  <2> QED
    BY <1>1, <1>2, <1>3, <1>5, <2>1, <2>2 DEF Run
<1> QED
  BY <1>4, <1>5

(* The next stage, or the next pool. *)
LEMMA GoTypes ==
  ASSUME run \in Run, NEW stage \in RunStages, Go(stage) \/ Advance(stage)
  PROVE  run' \in Run /\ run'.from = run.from /\ run'.to = run.to /\ run'.kind = run.kind
         /\ run'.base = run.base /\ run'.warmed = run.warmed /\ run'.orig = run.orig
         /\ run'.patched = run.patched /\ run'.bad = run.bad /\ run'.json = run.json
         /\ run'.target = run.target
         /\ \/ run'.stage = stage /\ run'.at = 1
               /\ (Go(stage) \/ \A s \in Services : s <= run.at)
            \/ ~Go(stage) /\ run'.stage = run.stage /\ run'.at = run.at + 1
<1>1. 1 \in Services /\ (run.at < NumServices => run.at + 1 \in Services)
      /\ run.at \in Services /\ (run.at >= NumServices => \A s \in Services : s <= run.at)
  BY OverlapAssumption DEF Services, Run
<1>2. CASE Go(stage)
  BY <1>1, <1>2 DEF Go, Run
<1>3. CASE ~Go(stage)
  <2>1. run.at < NumServices /\ run' = [run EXCEPT !.at = @ + 1]
    BY <1>3 DEF Advance
  <2> QED
    BY <1>1, <1>3, <2>1 DEF Run
<1> QED
  BY <1>2, <1>3

(* Steps of a command that is under way. *)
Continues ==
    \/ RunStep /\ ~(DeployStart \/ RollbackStart)
    \/ Killed

(* The ways a command ends. *)
Ends ==
    \/ EdgeGatesFail \/ EarlyFailure \/ SkipCleanup \/ Killed
    \/ (Unwarm \/ UnwarmFails) /\ run.bad
    \/ Park \/ ParkFails

(* A command that goes on keeps its memory, its kind and its aim. *)
LEMMA RunContinues ==
  ASSUME Types, Continues
  PROVE  /\ ~Idle
         /\ \/ Ends /\ run' = NoRun /\ call' = NoCall
            \/ run' \in Run /\ run'.from = run.from /\ run'.to = run.to /\ run'.kind = run.kind
               /\ run'.base = run.base
<1>0. ~Idle
  BY DEF Idle, Continues, RunStep, Protect, ScaleUp, WidenHpa, WidenHpaWarns,
    Rollout, EdgeGates, EdgeGatesFail, EarlyFailure,
    WarmHpa, WarmHpaFails, ScaleToTarget, ReadyGate, ServingGate, Recheck, LateFailure,
    Publish, AwaitIndex, Arm, ReadSelectors, SwitchOpen, SwitchClose,
    UndoOpen, UndoClose, UndoDone, Commit, CommitFails, Unwarm, UnwarmFails,
    Complete, AwaitFinalIndex, Rearm, CompleteFails, Park, ParkFails, SkipCleanup, Killed
<1>1. run \in Run /\ run.at \in Services /\ run.at \in Nat
  BY <1>0, RunFields, OverlapAssumption DEF Types, Services
<1>2. 1 \in Services /\ (run.at # NumServices => run.at + 1 \in Services)
      /\ (run.at < NumServices => run.at # NumServices)
  BY <1>1, OverlapAssumption DEF Services
<1>3. svc \in [Services -> Selector] /\ idx' \in [Builds -> Deadline]
  <2>1. CASE Publish \/ Complete
    <3>1. run.from \in Builds /\ run.to \in Builds /\ now + PrepWindow \in Deadline
          /\ now + Grace \in Deadline /\ idx \in [Builds -> Deadline]
      BY <1>1, DeadlineRange DEF Types, RetentionTypes, Run
    <3> QED
      BY <2>1, <3>1 DEF Publish, PublishIndex, Complete, FinalizeIndex, Types, TrafficTypes
  <2>2. CASE ~(Publish \/ Complete)
    <3>1. UNCHANGED idx
      <4>1. \/ DeployStart \/ Decides \/ Records \/ Bounds \/ Scales \/ Calls
        BY DEF Continues, RunStep, Decides, Records, Bounds, Scales, Calls
      <4> QED
        BY <2>2, <4>1, DecidesFrame, BoundsFrame, ScalesFrame, CallsFrame
        DEF DeployStart, Records, Protect, Arm, Commit, Rearm
    <3> QED
      BY <3>1 DEF Types, TrafficTypes, RetentionTypes
  <2> QED
    BY <2>1, <2>2
<1>4. CASE EdgeGatesFail \/ EarlyFailure \/ SkipCleanup \/ Killed
  <2>1. run' = NoRun /\ call' = NoCall
    BY <1>4 DEF EdgeGatesFail, EarlyFailure, SkipCleanup, Killed, Exit
  <2> QED
    BY <1>0, <1>4, <2>1 DEF Ends
<1> USE DEF RunStages, Opening, Closing, Moving
<1>5. CASE Protect \/ WidenHpa \/ WidenHpaWarns \/ Rollout \/ EdgeGates \/ ScaleToTarget
           \/ ReadyGate \/ Recheck \/ AwaitIndex \/ Arm \/ UndoDone \/ Commit \/ AwaitFinalIndex
           \/ Rearm \/ CompleteFails
  <2>1. \E stage \in RunStages : Go(stage) \/ Advance(stage)
    BY <1>5 DEF Protect, WidenHpa, WidenHpaWarns, Rollout, EdgeGates, ScaleToTarget,
           ReadyGate, Recheck, AwaitIndex, Arm, UndoDone, Commit, AwaitFinalIndex,
           Rearm, CompleteFails
  <2> QED
    BY <1>0, <1>1, <2>1, GoTypes
<1>6. CASE LateFailure \/ WarmHpaFails \/ CommitFails
  BY <1>0, <1>1, <1>2, <1>6 DEF LateFailure, WarmHpaFails, CommitFails, Run
<1>7. CASE Publish \/ Complete
  BY <1>0, <1>1, <1>3, <1>7 DEF Publish, Complete, Run
<1>8. CASE ServingGate \/ ReadSelectors
  <2>1. svc \in [Services -> Selector]
    BY DEF Types, TrafficTypes
  <2>2. CASE ServingGate
    BY <1>0, <1>1, <1>2, <2>1, <2>2 DEF ServingGate, Run
  <2>3. CASE ReadSelectors
    <3>1. \/ run' = [run EXCEPT !.stage = "unwarm", !.bad = TRUE, !.at = 1]
          \/ run' = [run EXCEPT !.stage = "switch", !.at = 1, !.orig = svc]
          \/ run' = [run EXCEPT !.stage = "switch", !.at = 1, !.orig = run.orig]
      BY <2>3 DEF ReadSelectors
    <3> QED
      BY <1>0, <1>1, <1>2, <2>1, <3>1 DEF Run
  <2> QED
    BY <1>8, <2>2, <2>3
<1>9. CASE SwitchOpen \/ UndoOpen
  BY <1>0, <1>1, <1>9 DEF SwitchOpen, UndoOpen
<1>10. CASE SwitchClose
  BY <1>0, <1>1, <1>2, <1>10 DEF SwitchClose, Run
<1>11. CASE UndoClose
  BY <1>0, <1>1, <1>11 DEF UndoClose, Run
<1>12. CASE Unwarm \/ UnwarmFails
  <2>1. CASE run.bad
    <3>1. run' = NoRun /\ call' = NoCall
      BY <1>12, <2>1 DEF Unwarm, UnwarmFails, Exit
    <3> QED
      BY <1>0, <1>12, <2>1, <3>1 DEF Ends
  <2>2. CASE ~run.bad
    BY <1>0, <1>1, <1>12, <2>2, GoTypes DEF Unwarm, UnwarmFails
  <2> QED
    BY <2>1, <2>2
<1>13. CASE Park \/ ParkFails
  <2>1. \/ run' = NoRun /\ call' = NoCall
        \/ run' = [run EXCEPT !.at = @ + 1] /\ run.at < NumServices
    BY <1>13 DEF Park, ParkFails, Exit
  <2>2. Ends
    BY <1>13 DEF Ends
  <2> QED
    BY <1>0, <1>1, <1>2, <2>1, <2>2 DEF Run
<1>14. CASE WarmHpa
  BY <1>0, <1>1, <1>2, <1>14 DEF WarmHpa, Run
<1>15. CASE ScaleUp
  <2>1. rep[run.from][run.at] \in 0 .. Capacity
    BY <1>1 DEF Types, CapacityTypes, Run
  <2>2. PICK n \in 0 .. Capacity : n = RollbackCapacity(LiveCapacity(run.at))
    BY <2>1, PromotionAssumption DEF RollbackCapacity, LiveCapacity
  <2>3. run' = [run EXCEPT !.target[run.at] = n,
                               !.stage = IF run.at = NumServices THEN "widen" ELSE @,
                               !.at = IF run.at = NumServices THEN 1 ELSE @ + 1]
    BY <1>15, <2>2 DEF ScaleUp
  <2> QED
    BY <1>0, <1>1, <1>2, <2>3 DEF Run
<1> QED
  BY <1>4, <1>5, <1>6, <1>7, <1>8, <1>9, <1>10, <1>11, <1>12, <1>13, <1>14, <1>15
  DEF Continues, RunStep

(* Steps of the cluster, of the cleanup and of the call in progress. *)
Others ==
    \/ Balances /\ UNCHANGED <<retentionVars, run, bookkeeping>>
    \/ Replicates \/ Tick
    \/ Busy /\ OverlapStep /\ UNCHANGED <<retentionVars, run, bookkeeping>>
    \/ (CronStep \/ CronFails \/ Project) /\ Beside
    \/ UNCHANGED vars

(* Every step starts a command, continues it, or runs beside it. *)
LEMMA CommandSteps ==
  ASSUME [Next]_vars
  PROVE  DeployStart \/ RollbackStart \/ Continues \/ Others
BY DEF Next, Continues, RunStep, Others, Balances, Replicates, Beside

(* What runs beside a command leaves it and the records alone. *)
LEMMA OthersFrame ==
  ASSUME Others
  PROVE  UNCHANGED <<run, runs, killed, untold, st, hpa, marker, idx>> /\ (Tick \/ UNCHANGED now)
<1>1. CASE Tick
  BY <1>1 DEF Tick
<1>2. CASE UNCHANGED vars
  BY <1>2 DEF vars
<1> QED
  BY <1>1, <1>2, ReplicatesFrame, CronFrame DEF Others, Beside

(* Of the steps of a command those that write records change the rest. *)
LEMMA CommandFrame ==
  ASSUME Continues
  PROVE  /\ UNCHANGED <<now, proj, svc, note, lb, gfe, hurt>>
         /\ Records \/ UNCHANGED <<st, marker, idx>>
<1>1. Decides \/ Records \/ Bounds \/ Scales \/ Calls
  BY DEF Continues, RunStep, Decides, Records, Bounds, Scales, Calls
<1> QED
  BY <1>1, DecidesFrame, RecordsFrame, BoundsFrame, ScalesFrame, CallsFrame

(* All types are kept. *)
LEMMA TypesStep ==
  ASSUME Types, Aims, [Next]_vars
  PROVE  Types'
<1>1. RunTypes'
  <2>1. CASE DeployStart \/ RollbackStart
    BY <2>1, RunStarts DEF RunTypes
  <2>2. CASE Continues
    BY <2>2, RunContinues DEF RunTypes
  <2>3. CASE Others
    BY <2>3, OthersFrame DEF Types, RunTypes
  <2> QED
    BY <2>1, <2>2, <2>3, CommandSteps
<1> QED
  BY <1>1, TrafficTypesStep, CapacityTypesStep, RetentionTypesStep DEF Types

-----------------------------------------------------------------------------
(* What the command aims at *)

(* From one stage to the next, and from one pool to the next. *)
Onto(a, b) == run.stage = a /\ run'.stage = b /\ run'.at = 1
Along(a, b) ==
    /\ run.stage = a
    /\ \/ run'.stage = a /\ run'.at = run.at + 1
       \/ run'.stage = b /\ run'.at = 1 /\ \A s \in Services : s <= run.at

(* What a command remembers of the selectors and the bounds it raised. *)
Memory == run'.orig = run.orig /\ run'.patched = run.patched /\ run'.warmed = run.warmed
Intent == run'.bad = run.bad

(* How a command moves on. *)
LEMMA AdvanceMoves ==
  ASSUME run \in Run, NEW b
  PROVE  /\ Advance(b) => Along(run.stage, b) /\ Memory /\ Intent
         /\ Go(b) => Onto(run.stage, b) /\ Memory /\ Intent
<1>1. run.at \in Services /\ (~(run.at < NumServices) => \A s \in Services : s <= run.at)
  BY OverlapAssumption DEF Services, Run
<1> QED
  BY <1>1 DEF Advance, Go, Run, Along, Onto, Memory, Intent

(* The stages in order, and what each step remembers. *)
LEMMA StageGraph ==
  ASSUME Types, Continues, run' # NoRun
  PROVE  \/ Protect /\ Along("protect", IF run.kind = "deploy" THEN "rollout" ELSE "scale")
            /\ Memory /\ Intent
         \/ ScaleUp /\ Along("scale", "widen") /\ Memory /\ Intent /\ run.kind = "rollback"
         \/ (WidenHpa \/ WidenHpaWarns) /\ Along("widen", "rollout") /\ Memory /\ Intent
         \/ Rollout /\ Onto("rollout", IF run.kind = "deploy" THEN "edge" ELSE "serving")
            /\ Memory /\ Intent
         \/ EdgeGates /\ Onto("edge", "warm") /\ Memory /\ Intent
         \/ WarmHpa /\ Along("warm", "scale") /\ run'.orig = run.orig /\ run'.patched = run.patched
            /\ run'.warmed = (IF ChartMin < run.target[run.at] THEN run.warmed \cup {run.at}
                              ELSE run.warmed) /\ Intent
         \/ WarmHpaFails /\ run.stage = "warm" /\ run'.stage = "unwarm" /\ Memory /\ run'.bad
         \/ ScaleToTarget /\ Along("scale", "ready") /\ Memory /\ Intent /\ run.kind = "deploy"
         \/ ReadyGate /\ Onto("ready", "recheck") /\ Memory /\ Intent
         \/ ServingGate /\ Onto("serving", "recheck") /\ run'.orig = svc
            /\ run'.patched = run.patched /\ run'.warmed = run.warmed /\ Intent
         \/ Recheck /\ Onto("recheck", "publish") /\ Memory /\ Intent
         \/ LateFailure /\ run.stage \in {"ready", "recheck", "publish", "project", "arm"}
            /\ run'.stage = "unwarm" /\ Memory /\ run'.bad
         \/ Publish /\ run.stage = "publish" /\ run'.stage = "project" /\ Memory /\ Intent
         \/ AwaitIndex /\ Onto("project", "arm") /\ Memory /\ Intent
         \/ Arm /\ Along("arm", "read") /\ Memory /\ Intent
         \/ ReadSelectors /\ Onto("read", "unwarm") /\ Memory /\ run'.bad
         \/ ReadSelectors /\ Onto("read", "switch") /\ run'.patched = run.patched
            /\ run'.orig = (IF run.kind = "deploy" THEN svc ELSE run.orig)
            /\ run'.warmed = run.warmed /\ Intent
         \/ ((SwitchOpen /\ run.stage = "switch") \/ (UndoOpen /\ run.stage = "undo")) /\ run' = run
         \/ SwitchClose /\ run.stage = "switch" /\ run'.orig = run.orig /\ run'.warmed = run.warmed
            /\ run'.patched = (IF call.stage = "ok" THEN run.patched \cup {run.at} ELSE run.patched)
            /\ run'.bad = (run.bad \/ call.stage = "failed")
            /\ \/ run'.stage = "switch" /\ run'.at = run.at + 1
               \/ run'.stage = (IF run'.bad THEN "undo" ELSE "commit") /\ run'.at = 1
                  /\ \A s \in Services : s <= run.at
         \/ UndoClose /\ run.stage = "undo" /\ run'.stage = "undo" /\ run'.orig = run.orig
            /\ run'.warmed = run.warmed /\ run'.patched = run.patched \ {call.svc} /\ Intent
         \/ UndoDone /\ Onto("undo", "unwarm") /\ Memory /\ Intent
         \/ Commit /\ Onto("commit", "unwarm") /\ Memory /\ Intent
         \/ CommitFails /\ Onto("commit", "unwarm") /\ Memory /\ run'.bad
         \/ (Unwarm \/ UnwarmFails) /\ Onto("unwarm", "complete") /\ ~run.bad /\ Memory /\ Intent
         \/ Complete /\ run.stage = "complete" /\ run'.stage = "reproject" /\ Memory /\ Intent
         \/ AwaitFinalIndex /\ Onto("reproject", "rearm") /\ Memory /\ Intent
         \/ Rearm /\ Along("rearm", "park") /\ Memory /\ Intent
         \/ CompleteFails /\ run.stage \in Closing /\ Onto(run.stage, "park") /\ Memory /\ Intent
         \/ (Park \/ ParkFails) /\ run.stage = "park" /\ run'.stage = "park"
            /\ run'.at = run.at + 1 /\ Memory /\ Intent
<1>1. run \in Run /\ run.at \in Services
  BY RunContinues, RunFields DEF Types
<1>2. /\ run.at # NumServices => run.at < NumServices
      /\ run.at >= NumServices => \A s \in Services : s <= run.at
      /\ run.at = NumServices => run.at >= NumServices
      /\ ~(run.at < NumServices) => run.at >= NumServices
  BY <1>1, OverlapAssumption DEF Services
<1>3. ~(EdgeGatesFail \/ EarlyFailure \/ SkipCleanup \/ Killed)
  BY DEF EdgeGatesFail, EarlyFailure, SkipCleanup, Killed, Exit
<1> USE DEF Onto, Along, Memory, Intent
<1>4. ASSUME NEW a, NEW b, run.stage = a, Advance(b)
      PROVE  Along(a, b) /\ Memory /\ Intent
  BY <1>1, <1>4, AdvanceMoves
<1>5. ASSUME NEW a, NEW b, run.stage = a, Go(b)
      PROVE  Onto(a, b) /\ Memory /\ Intent
  BY <1>1, <1>5, AdvanceMoves
<1>6. CASE Protect
  BY <1>4, <1>6, Zenon DEF Protect
<1>7. CASE WidenHpa \/ WidenHpaWarns \/ ScaleToTarget \/ Arm \/ Rearm
  BY <1>4, <1>7, Zenon DEF WidenHpa, WidenHpaWarns, ScaleToTarget, Arm, Rearm
<1>8. CASE Rollout
  BY <1>5, <1>8, Zenon DEF Rollout
<1>9. CASE EdgeGates \/ ReadyGate \/ Recheck \/ AwaitIndex
  BY <1>5, <1>9, Zenon DEF EdgeGates, ReadyGate, Recheck, AwaitIndex
<1>23. CASE UndoDone \/ Commit \/ AwaitFinalIndex
  BY <1>5, <1>23, Zenon DEF UndoDone, Commit, AwaitFinalIndex
<1>10. CASE CompleteFails
  BY <1>5, <1>10, Zenon DEF CompleteFails, Closing
<1>11. CASE Unwarm \/ UnwarmFails
  <2>1. ~run.bad /\ Go("complete") /\ run.stage = "unwarm"
    BY <1>11 DEF Unwarm, UnwarmFails, Exit
  <2> QED
    BY <1>5, <1>11, <2>1
<1>12. CASE ScaleUp
  BY <1>1, <1>2, <1>12 DEF ScaleUp, Run
<1>13. CASE WarmHpa
  BY <1>1, <1>2, <1>13 DEF WarmHpa, Run
<1>14. CASE LateFailure
  BY <1>1, <1>14 DEF LateFailure, Run
<1>15. CASE WarmHpaFails \/ CommitFails
  BY <1>1, <1>15 DEF WarmHpaFails, CommitFails, Run
<1>16. CASE ServingGate
  BY <1>1, <1>16 DEF ServingGate, Run
<1>17. CASE ReadSelectors
  BY <1>1, <1>17 DEF ReadSelectors, Run
<1>18. CASE Publish \/ Complete
  BY <1>1, <1>18 DEF Publish, Complete, Run
<1>19. CASE SwitchOpen \/ UndoOpen
  <2> HIDE DEF Onto, Along, Memory, Intent
  <2>1. SwitchOpen => run.stage = "switch" /\ run' = run
    BY DEF SwitchOpen
  <2>2. UndoOpen => run.stage = "undo" /\ run' = run
    BY DEF UndoOpen
  <2>3. ((SwitchOpen /\ run.stage = "switch") \/ (UndoOpen /\ run.stage = "undo")) /\ run' = run
    BY <1>19, <2>1, <2>2
  <2> QED
    BY <2>3
<1>20. CASE SwitchClose
  BY <1>1, <1>2, <1>20 DEF SwitchClose, Run
<1>21. CASE UndoClose
  BY <1>1, <1>21 DEF UndoClose, Run
<1>22. CASE Park \/ ParkFails
  <2>1. run' = [run EXCEPT !.at = @ + 1] /\ run.stage = "park"
    BY <1>22 DEF Park, ParkFails, Exit
  <2> QED
    BY <1>1, <1>22, <2>1 DEF Run
<1> QED
  BY <1>3, <1>6, <1>7, <1>8, <1>9, <1>10, <1>11, <1>12, <1>13, <1>14, <1>15, <1>16, <1>17, <1>18,
     <1>19, <1>20, <1>21, <1>22, <1>23
  DEF Continues, RunStep

(* The stage a step of a command leads to. *)
LEMMA StageMoves ==
  ASSUME Types, Aims, Continues, run' # NoRun
  PROVE  /\ run'.stage \in RunStages
         /\ run'.stage \in Closing =>
               run.stage \in Closing \/ (run.stage = "unwarm" /\ ~run.bad)
         /\ run'.stage = "park" => run.stage \in Closing \cup {"park"}
         /\ run'.stage = "unwarm" =>
               \/ run'.bad /\ run.stage \notin Closing \cup {"park", "unwarm"}
               \/ Commit
         /\ run'.stage = "commit" => ~run'.bad /\ run.stage = "switch"
         /\ run'.stage = "undo" => run'.bad
         /\ run.stage \in Closing \cup {"park"} => run'.bad = run.bad
         /\ run.stage \in Closing => run'.stage \in Closing \cup {"park"}
         /\ run.stage = "park" => run'.stage = "park"
         /\ run.stage = "unwarm" => run'.stage = "complete" /\ ~run'.bad
         /\ run.stage = "undo" => run'.bad = run.bad
<1>1. run' \in Run /\ ~Idle
  BY RunContinues
<1>2. run'.stage \in RunStages /\ (run.stage = "undo" => run.bad)
  BY <1>1 DEF Run, Aims
<1> QED
  BY <1>2, StageGraph DEF Onto, Along, Memory, Intent, Closing

(* The aim is kept. *)
LEMMA AimsStep ==
  ASSUME Types, Aims, [Next]_vars
  PROVE  Aims'
<1>1. CASE DeployStart \/ RollbackStart
  <2>1. st' = st
    BY <1>1 DEF DeployStart, RollbackStart
  <2>2. run'.from # run'.to
    BY <1>1, RunStarts DEF DeployStart, RollbackStart, Types, RetentionTypes, State
  <2> QED
    BY <1>1, <2>1, <2>2, RunStarts DEF Aims, Closing, Idle
<1>2. CASE Continues /\ run' # NoRun /\ ~Commit
  <2>1. st' = st
    BY <1>2, CommandFrame DEF Records, Protect, Publish, Arm, Complete, Rearm
  <2>2. run' \in Run /\ run'.from = run.from /\ run'.to = run.to /\ run'.base = run.base /\ ~Idle
    BY <1>2, RunContinues
  <2>3. ~Idle'
    BY <2>2 DEF Idle, Run, RunStages, Opening, Closing, Moving
  <2>4. run.stage \in RunStages /\ run.bad \in BOOLEAN /\ run'.bad \in BOOLEAN
    BY <2>2, RunFields DEF Types, Run
  <2> QED
    BY <1>2, <2>1, <2>2, <2>3, <2>4, StageMoves DEF Aims, Closing
<1>3. CASE Commit
  <2>1. ~Idle /\ run \in Run /\ Go("unwarm") /\ st' = [build |-> run.to, prev |-> run.from]
    BY <1>3, RunsWhen DEF Commit, Records
  <2>2. /\ run'.stage = "unwarm" /\ run'.bad = run.bad /\ run'.from = run.from /\ run'.to = run.to
    BY <2>1 DEF Go, Run
  <2> QED
    BY <1>3, <2>1, <2>2 DEF Aims, Commit, Closing
<1>4. CASE run' = NoRun
  BY <1>4 DEF Aims, Idle, NoRun
<1>5. CASE Others
  BY <1>5, OthersFrame DEF Aims, Idle
<1> QED
  BY <1>1, <1>2, <1>3, <1>4, <1>5, CommandSteps

-----------------------------------------------------------------------------
(* Markers and deadlines *)

(* A stage in which a build is published follows another one, or publishing. *)
LEMMA PublishedFrom ==
  ASSUME Types, Aims, Continues, run' # NoRun, Published', ~Publish
  PROVE  Published
<1>1. ~Idle /\ (run.stage = "undo" => run.bad)
  BY RunContinues DEF Aims
<1> QED
  BY <1>1, StageGraph DEF Onto, Along, Memory, Intent, Closing, Moving, Published, Aims

(* The renewed marker and the published deadline lie ahead. *)
LEMMA FencedStep ==
  ASSUME Types, Aims, Fenced, [Next]_vars
  PROVE  Fenced'
<1>0. /\ now \in Nat /\ now \in 0 .. MaxTime /\ idx \in [Builds -> Deadline]
      /\ \A b \in Builds : idx[b] \in Nat
      /\ \A b \in Builds, s \in Services : marker[b][s] \in Nat
  BY RetentionAssumption DEF Types, RetentionTypes, Deadline
<1>1. CASE DeployStart \/ RollbackStart
  <2>1. run'.stage = "protect" /\ run'.at = 1 /\ \A s \in Services : ~(s < 1)
    BY <1>1, RunStarts DEF Services
  <2> QED
    BY <2>1 DEF Fenced, Published, Moving, Closing
<1>2. CASE run' = NoRun
  BY <1>2 DEF Fenced, Idle, NoRun
<1>3. CASE Others /\ UNCHANGED now
  BY <1>3, OthersFrame DEF Fenced, Published, Idle
<1>4. CASE Tick
  <2>1. UNCHANGED <<marker, idx, run>> /\ now' = now + 1
    BY <1>4 DEF Tick
  <2>2. SUFFICES ASSUME ~Idle PROVE Fenced'
    BY <2>1 DEF Fenced, Idle
  <2>3. run.to \in Builds /\ run.from \in Builds /\ run.bad \in BOOLEAN
    BY <2>2, RunFields DEF Types
  <2>4. Published => now + 1 < idx[run.to]
    <3>1. Published => InWindow
      BY DEF Published, InWindow, Moving, Closing
    <3>2. Published => now + 1 + Grace <= idx[run.to]
      BY <1>4, <3>1 DEF Tick
    <3> QED
      BY <1>0, <2>3, <3>2, RetentionAssumption
  <2>5. \A s \in Services : run.stage # "protect" \/ s < run.at => now + 1 < marker[run.to][s]
    <3>1. \A s \in Services : marker[run.to][s] = 0 \/ now + 1 < marker[run.to][s]
      BY <1>4, <2>2 DEF Tick
    <3> QED
      BY <1>0, <2>2, <2>3, <3>1 DEF Fenced
  <2>6. \A s \in Services :
            run.stage \in {"read", "commit"} \cup Moving \/ (run.stage = "arm" /\ s < run.at)
                => marker[run.from][s] = idx[run.to]
    BY <2>2 DEF Fenced
  <2>7. /\ \A s \in Services : run.stage # "protect" \/ s < run.at => marker[run.to][s] > now + 1
        /\ Published => idx[run.to] > now + 1
    BY <1>0, <2>3, <2>4, <2>5
  <2> QED
    BY <2>1, <2>6, <2>7 DEF Fenced, Published
<1>5. CASE Continues /\ run' # NoRun
  <2>1. /\ ~Idle /\ run' \in Run /\ run'.from = run.from /\ run'.to = run.to
        /\ run.from # run.to /\ (run.stage = "undo" => run.bad)
        /\ run.from \in Builds /\ run.to \in Builds
    BY <1>5, RunContinues, RunFields DEF Aims, Types
  <2>2. run.at \in Services /\ run.at \in Nat
    BY <2>1, RunFields DEF Types, Services
  <2>3. CASE ~Records
    <3>1. UNCHANGED <<now, marker, idx>> /\ ~Protect /\ ~Arm /\ ~Publish
      BY <1>5, <2>3, CommandFrame DEF Records
    <3>2. Published' => Published
      BY <1>5, <3>1, PublishedFrom
    <3>3. run.stage # "protect" /\ run'.stage # "protect" /\ run'.stage # "read"
      BY <1>5, <3>1, StageGraph DEF Onto, Along, Closing
    <3>4. run'.stage \in {"commit"} \cup Moving => run.stage \in {"read"} \cup Moving
      BY <1>5, <3>1, StageGraph DEF Onto, Along, Closing, Moving
    <3>5. run'.stage = "arm" => run'.at = 1
      BY <1>5, <3>1, StageGraph DEF Onto, Along, Closing
    <3>6. \A s \in Services : ~(s < 1)
      BY DEF Services
    <3>7. ~Idle'
      BY <2>1 DEF Idle, Run, RunStages, Opening, Closing, Moving
    <3> QED
      BY <2>1, <3>1, <3>2, <3>3, <3>4, <3>5, <3>6, <3>7 DEF Fenced
  <2>4. CASE Protect
    <3>1. run.stage = "protect" /\ UNCHANGED <<now, idx>>
      BY <2>4, RecordsFrame DEF Protect, Records
    <3>2. Along("protect", IF run.kind = "deploy" THEN "rollout" ELSE "scale")
      BY <1>5, <2>4, <3>1, StageGraph DEF Onto, Along, Closing
    <3>3. \A s \in Services :
             marker'[run.to][s] = IF s = run.at THEN now + PrepWindow ELSE marker[run.to][s]
      BY <2>1, <2>4, MarkerEffect
    <3>4. \A s \in Services : run'.stage # "protect" \/ s < run'.at => s < run.at \/ s = run.at
      BY <2>2, <3>2 DEF Along, Services
    <3>5. now + PrepWindow > now
      BY <1>0, RetentionAssumption
    <3>6. run'.stage \in {"protect", "rollout", "scale"}
      BY <3>2 DEF Along
    <3> QED
      BY <2>1, <3>1, <3>3, <3>4, <3>5, <3>6 DEF Fenced, Published, Closing, Moving
  <2>5. CASE Publish
    <3>1. run.stage = "publish" /\ UNCHANGED <<now, marker>>
      BY <2>5 DEF Publish
    <3>2. idx'[run.to] = now + PrepWindow
      BY <2>1, <2>5, IndexEffect
    <3>3. run'.stage = "project"
      BY <2>1, <2>5, RunFields DEF Publish, Run, Types
    <3> QED
      BY <1>0, <2>1, <3>1, <3>2, <3>3, RetentionAssumption DEF Fenced, Closing, Moving
  <2>6. CASE Arm
    <3>1. run.stage = "arm" /\ UNCHANGED <<now, idx>>
      BY <2>6 DEF Arm
    <3>2. Along("arm", "read") /\ ~Protect
      <4>1. ~Protect
        BY <3>1 DEF Protect
      <4> QED
        BY <2>1, <2>6, <3>1, <4>1, AdvanceMoves, RunFields DEF Arm, Types
    <3>3. \A s \in Services :
             /\ marker'[run.from][s] = IF s = run.at THEN idx[run.to] ELSE marker[run.from][s]
             /\ marker'[run.to][s] = marker[run.to][s]
      BY <2>1, <2>6, <3>2, MarkerEffect
    <3>4. \A s \in Services : run'.stage # "arm" \/ s < run'.at => s < run.at \/ s = run.at
      BY <2>2, <3>2 DEF Along, Services
    <3>5. run'.stage \in {"arm", "read"}
      BY <3>2 DEF Along
    <3> QED
      BY <2>1, <3>1, <3>3, <3>4, <3>5 DEF Fenced, Published, Closing, Moving
  <2>7. CASE Commit
    <3>1. run.stage = "commit" /\ UNCHANGED <<now, marker, idx>>
      BY <2>7 DEF Commit
    <3>2. run'.stage = "unwarm"
      BY <1>5, <2>7, <3>1, StageGraph DEF Onto, Along, Closing
    <3> QED
      BY <2>1, <3>1, <3>2 DEF Fenced, Published, Closing, Moving
  <2>8. CASE Complete
    <3>1. run.stage = "complete" /\ UNCHANGED <<now, marker>> /\ ~Publish
      BY <2>8 DEF Complete, Publish
    <3>2. idx'[run.to] = now + Grace
      BY <2>1, <2>8, <3>1, IndexEffect
    <3>3. run'.stage = "reproject"
      BY <2>1, <2>8, RunFields DEF Complete, Run, Types
    <3> QED
      BY <1>0, <2>1, <3>1, <3>2, <3>3, RetentionAssumption DEF Fenced, Closing, Moving
  <2>9. CASE Rearm
    <3>1. run.stage = "rearm" /\ UNCHANGED <<now, idx>> /\ ~Protect
      BY <2>9 DEF Rearm, Protect
    <3>2. run'.stage \in {"rearm", "park"}
      BY <1>5, <2>9, <3>1, StageGraph DEF Onto, Along, Closing
    <3>3. \A s \in Services : marker'[run.to][s] = marker[run.to][s]
      BY <2>1, <2>9, <3>1, MarkerEffect
    <3> QED
      BY <2>1, <3>1, <3>2, <3>3 DEF Fenced, Published, Closing, Moving
  <2> QED
    BY <2>3, <2>4, <2>5, <2>6, <2>7, <2>8, <2>9 DEF Records
<1> QED
  BY <1>1, <1>2, <1>3, <1>4, <1>5, CommandSteps, OthersFrame

(* Calls are opened and closed while selectors move. *)
LEMMA CalledStep ==
  ASSUME Types, Called, [Next]_vars
  PROVE  Called'
<1>1. CASE DeployStart \/ RollbackStart
  BY <1>1 DEF DeployStart, RollbackStart, Called, Idle, Moving
<1>2. CASE Continues
  <2>1. CASE run' = NoRun
    <3>1. NoRun \notin Run
      BY DEF NoRun, Run, RunStages, Opening, Closing, Moving
    <3> QED
      BY <1>2, <2>1, <3>1, RunContinues DEF Called
  <2>2. CASE run' # NoRun
    <3>1. run' \in Run /\ run \in Run /\ ~Idle
      BY <1>2, <2>2, RunContinues, RunFields DEF Types
    <3>2. ~Idle'
      BY <3>1 DEF Idle, Run, RunStages, Opening, Closing, Moving
    <3>3. CASE Calls
      <4>1. \/ call' = NoCall
            \/ run' = run /\ run.stage \in Moving
        BY <3>3 DEF Calls, SwitchOpen, SwitchClose, UndoOpen, UndoClose, Moving
      <4> QED
        BY <3>2, <4>1 DEF Called
    <3>4. CASE ~Calls
      <4>1. call' = call \/ call' = NoCall
        BY <1>2, <3>4, DecidesFrame, RecordsFrame, BoundsFrame, ScalesFrame
        DEF Continues, RunStep, Decides, Records, Bounds, Scales, Calls
      <4>2. call # NoCall => ~UndoDone
        BY DEF UndoDone, Types, TrafficTypes, Call, CallStages
      <4>3. call # NoCall => run'.stage \in Moving \/ call' = NoCall
        BY <1>2, <2>2, <3>4, <4>2, StageGraph DEF Called, Moving, Onto, Along, Closing, Calls
      <4> QED
        BY <3>2, <4>1, <4>3 DEF Called
    <3> QED
      BY <3>3, <3>4
  <2> QED
    BY <2>1, <2>2
<1>3. CASE Others
  <2>1. call' = NoCall => Called'
    BY DEF Called
  <2>2. call # NoCall \/ call' = call
    BY <1>3, ReplicatesFrame, BalancesFrame, CronFrame DEF Others, Busy, NoCall, Tick, vars
  <2> QED
    BY <1>3, <2>1, <2>2, OthersFrame DEF Called, Idle
<1> QED
  BY <1>1, <1>2, <1>3, CommandSteps

-----------------------------------------------------------------------------
(* The scheduled cleanup *)

(* Nothing the cleanup saw is still untouched while selectors move or the   *)
(* record is written.                                                       *)
LEMMA NothingFresh ==
  ASSUME Types, Aims, Fenced, Sparing, ~Idle, run.stage \in {"read", "commit"} \cup Moving
  PROVE  cron.fresh = {}
<1> SUFFICES ASSUME NEW d \in cron.fresh PROVE FALSE
  OBVIOUS
<1>1. d[1] \in Builds /\ d[2] \in Services /\ cron # CronIdle /\ cron.at \in Nat
  BY CronFields DEF Types
<1>2. marker[d[1]][d[2]] <= cron.at /\ cron.at <= now
  BY <1>1 DEF Sparing
<1>3. d[1] = run.from \/ d[1] = run.to
  BY <1>1, TwoBuilds, RunFields DEF Types, Aims
<1>4. idx[run.to] > now /\ marker[run.from][d[2]] = idx[run.to] /\ marker[run.to][d[2]] > now
  BY <1>1 DEF Fenced, Published, Moving
<1>5. marker[d[1]][d[2]] \in Nat /\ now \in Nat
  BY <1>1, RetentionAssumption DEF Types, RetentionTypes, Deadline
<1>6. marker[d[1]][d[2]] > now
  BY <1>3, <1>4
<1> QED
  BY <1>1, <1>2, <1>5, <1>6

(* What others do leaves what the cleanup saw true. *)
LEMMA SparingBeside ==
  ASSUME Types, Aims, Fenced, Called, Sparing, [Next]_vars, ~((CronStep \/ CronFails) /\ Beside)
  PROVE  Sparing'
<1>0. RetentionTypes
  BY DEF Types
<1>1. PICK X \in SUBSET cron.fresh : cron' = [cron EXCEPT !.fresh = X]
  BY CronForgetting
<1>2. /\ cron'.stage = cron.stage /\ cron'.fresh = X
      /\ cron' = CronIdle <=> cron = CronIdle
      /\ cron # CronIdle => cron'.at = cron.at /\ cron'.st = cron.st
  BY <1>0, <1>1, CronForgets
<1>3. now' \in Nat /\ now \in Nat /\ now <= now'
  <2>1. now \in Nat
    BY <1>0, RetentionAssumption DEF RetentionTypes
  <2>2. now' = now \/ now' = now + 1
    BY CommandSteps, CommandFrame, OthersFrame DEF DeployStart, RollbackStart, Tick
  <2> QED
    BY <2>1, <2>2
<1>4. \A d \in X : marker'[d[1]][d[2]] = marker[d[1]][d[2]]
  <2>1. CASE marker' = marker
    BY <2>1
  <2>2. CASE marker' # marker
    <3>1. Protect \/ Arm \/ Rearm
      BY <2>2, CommandSteps, CommandFrame, OthersFrame
      DEF DeployStart, RollbackStart, Records, Publish, Commit, Complete
    <3>2. PICK b \in Builds, v \in Deadline :
            /\ \A c \in Builds, t \in Services :
                  marker'[c][t] = IF c = b /\ t = run.at THEN v ELSE marker[c][t]
            /\ cron' = Touched(cron, b, run.at)
      BY <3>1, MarkerEffect
    <3>3. cron'.fresh = cron.fresh \ {<<b, run.at>>}
      <4>1. cron' = [cron EXCEPT !.fresh = cron.fresh \ {<<b, run.at>>}]
        BY <3>2 DEF Touched
      <4> QED
        BY <1>0, <4>1, CronForgets
    <3>4. \A d \in X : /\ d = <<d[1], d[2]>> /\ d[1] \in Builds /\ d[2] \in Services
                       /\ d # <<b, run.at>>
      BY <1>0, <1>2, <3>3, CronFields
    <3> QED
      BY <3>2, <3>4
  <2> QED
    BY <2>1, <2>2
<1>5. X # {} => svc' = svc
  <2>1. svc' # svc => Busy
    BY CommandSteps, CommandFrame, ReplicatesFrame, BalancesFrame, CronFrame
    DEF DeployStart, RollbackStart, Others, Tick, vars
  <2>2. Busy => ~Idle /\ run.stage \in Moving
    BY DEF Busy, NoCall, Called
  <2> QED
    BY <2>1, <2>2, NothingFresh
<1>6. X # {} => st' = st
  <2>1. st' # st => ~Idle /\ run.stage = "commit"
    BY CommandSteps, CommandFrame, OthersFrame
    DEF DeployStart, RollbackStart, Records, Publish, Commit, Complete, Protect, Arm, Rearm, Idle
  <2> QED
    BY <2>1, NothingFresh
<1>7. cron # CronIdle => cron.at \in Nat
  BY <1>0, CronFields
<1>8. X # {} => cron # CronIdle
  BY <1>0, CronFields
<1>9. cron' # CronIdle => cron'.at <= now' /\ cron'.st.prev # cron'.st.build
  BY <1>2, <1>3, <1>7 DEF Sparing
<1>10. \A d \in cron'.fresh : /\ cron'.stage \in {"services", "hpas", "verify", "patch"}
                             /\ d[1] = cron'.st.prev
                             /\ marker'[d[1]][d[2]] <= cron'.at
  BY <1>2, <1>4, <1>8 DEF Sparing
<1>11. cron'.fresh # {} /\ cron'.stage \in {"hpas", "verify", "patch"} =>
          \A s \in Services : svc'[s].ver = cron'.st.build
  BY <1>2, <1>5, <1>8 DEF Sparing
<1>12. cron'.fresh # {} /\ cron'.stage = "patch" => st' = cron'.st
  BY <1>2, <1>6, <1>8 DEF Sparing
<1> QED
  BY <1>9, <1>10, <1>11, <1>12 DEF Sparing

(* So do its own reads. *)
LEMMA SparingStep ==
  ASSUME Types, Aims, Fenced, Called, Sparing, [Next]_vars
  PROVE  Sparing'
<1>0. RetentionTypes /\ now \in Nat
  BY RetentionAssumption DEF Types, RetentionTypes
<1>1. CASE ~((CronStep \/ CronFails) /\ Beside)
  BY <1>1, SparingBeside
<1>2. CASE CronFails
  BY <1>2 DEF CronFails, Sparing, CronIdle
<1>3. CASE CronStart
  BY <1>0, <1>3 DEF CronStart, Sparing, RetentionTypes
<1>4. CASE CronStep /\ ~CronStart
  <2>1. cron \in Cleaning
    BY <1>0, <1>4, CronFields DEF CronStep, CronListDeployments, CronListServices, CronListHpas,
           CronVerify, CronScale
  <2>2. UNCHANGED <<now, st, marker, svc>>
    BY <1>4, CronFrame
  <2>3. CASE cron' = CronIdle
    BY <2>3 DEF Sparing, CronIdle
  <2>4. cron # CronIdle
    BY <2>1 DEF Cleaning, CronIdle
  <2>5. CASE CronListDeployments /\ cron' # CronIdle
    <3> DEFINE listed == {<<cron.st.prev, s>> : s \in {p \in Services : Expired(cron.st.prev, p, cron.at)}}
    <3>1. cron' = [cron EXCEPT !.stage = "services", !.found = listed, !.fresh = listed]
      BY <2>5 DEF CronListDeployments
    <3>2. \A d \in listed : d[1] = cron.st.prev /\ marker[d[1]][d[2]] <= cron.at
      BY DEF Expired
    <3> HIDE DEF listed
    <3>3. cron'.stage = "services" /\ cron'.fresh = listed /\ cron'.at = cron.at /\ cron'.st = cron.st
      BY <2>1, <3>1 DEF Cleaning
    <3> QED
      BY <2>2, <2>4, <3>2, <3>3 DEF Sparing
  <2>6. CASE CronListServices /\ cron' # CronIdle
    <3>1. /\ cron'.stage = "hpas" /\ cron'.fresh = cron.fresh /\ cron'.at = cron.at
          /\ cron'.st = cron.st /\ TrafficSettled
      BY <2>1, <2>6 DEF CronListServices, Cleaning
    <3> QED
      BY <2>2, <2>4, <3>1 DEF Sparing, TrafficSettled
  <2>7. CASE CronListHpas /\ cron' # CronIdle
    <3>1. /\ cron'.stage = "verify" /\ cron'.fresh = cron.fresh /\ cron'.at = cron.at
          /\ cron'.st = cron.st /\ cron.stage = "hpas"
      BY <2>1, <2>7 DEF CronListHpas, Cleaning
    <3> QED
      BY <2>2, <2>4, <3>1 DEF Sparing
  <2>8. CASE CronVerify /\ cron' # CronIdle
    <3>1. /\ cron'.stage = "patch" /\ cron'.fresh = cron.fresh /\ cron'.at = cron.at
          /\ cron'.st = cron.st /\ st = cron.st /\ cron.stage = "verify"
      BY <2>1, <2>8 DEF CronVerify, Cleaning
    <3> QED
      BY <2>2, <2>4, <3>1 DEF Sparing
  <2>9. CASE CronScale
    <3>1. /\ cron'.stage = "verify" /\ cron'.fresh \subseteq cron.fresh /\ cron'.at = cron.at
          /\ cron'.st = cron.st /\ cron.stage = "patch"
      BY <2>1, <2>9 DEF CronScale, Cleaning
    <3> QED
      BY <2>2, <2>4, <3>1 DEF Sparing
  <2> QED
    BY <1>4, <2>3, <2>5, <2>6, <2>7, <2>8, <2>9 DEF CronStep
<1> QED
  BY <1>1, <1>2, <1>3, <1>4

(* The cleanup retires nothing that serves or is about to. *)
LEMMA SparesServing ==
  ASSUME Types, Fenced, Sparing, CronScale,
         NEW b \in Builds, NEW s \in Services, rep'[b][s] = 0, rep[b][s] > 0
  PROVE  /\ \A t \in Services : b \notin Selected(t)
         /\ Idle \/ run.to # b \/ run.stage = "protect"
         /\ <<b, s>> \in cron.fresh /\ st.prev = b /\ st.build # b /\ marker[b][s] <= now
<1>0. rep[b][s] \in 0 .. Capacity /\ rep \in [Builds -> [Services -> 0 .. Capacity]]
  BY DEF Types, CapacityTypes
<1>1. rep' # rep
  BY <1>0, PromotionAssumption
<1>2. PICK d \in cron.fresh :
         /\ d = <<d[1], d[2]>> /\ d[1] \in Builds /\ d[2] \in Services /\ cron.stage = "patch"
         /\ rep' = [rep EXCEPT ![d[1]][d[2]] = 0]
  BY <1>1, CronScaleEffect
<1>3. d = <<b, s>>
  <2>1. d[1] = b /\ d[2] = s
    <3>1. 0 \in 0 .. Capacity
      BY PromotionAssumption
    <3>2. \A c \in Builds, t \in Services :
             rep'[c][t] = IF c = d[1] /\ t = d[2] THEN 0 ELSE rep[c][t]
      BY <1>0, <1>2, <3>1, CountReplaced
    <3> QED
      BY <1>0, <3>2, PromotionAssumption
  <2> QED
    BY <1>2, <2>1
<1>4. /\ cron # CronIdle /\ b = cron.st.prev /\ st = cron.st /\ marker[b][s] <= cron.at
      /\ cron.at <= now /\ cron.at \in Nat /\ st.build # b
      /\ \A t \in Services : svc[t].ver = st.build
  BY <1>2, <1>3, CronFields DEF Types, Sparing
<1>5. marker[b][s] <= now /\ ~(marker[b][s] > now)
  BY <1>4, RetentionAssumption DEF Types, RetentionTypes, Deadline
<1>6. \A t \in Services : b \notin Selected(t)
  <2>1. st.build \in Builds /\ st.build # AnyVersion
    BY OverlapAssumption DEF Types, RetentionTypes, State
  <2> QED
    BY <1>4, <2>1 DEF Selected, Matches
<1>7. Idle \/ run.to # b \/ run.stage = "protect"
  BY <1>5 DEF Fenced
<1> QED
  BY <1>2, <1>3, <1>4, <1>5, <1>6, <1>7

-----------------------------------------------------------------------------
(* Retention *)

(* The other build. *)
LEMMA PeerIs ==
  ASSUME Types
  PROVE  /\ Peer \in Builds /\ Peer # st.build /\ st.build \in Builds
         /\ \A b \in Builds : b # st.build => b = Peer
<1>1. st.build \in Builds
  BY DEF Types, RetentionTypes, State
<1>2. \E b \in Builds : b # st.build
  BY <1>1, TwoBuilds
<1>3. Peer \in Builds /\ Peer # st.build
  BY <1>2 DEF Peer
<1> QED
  BY <1>1, <1>3, TwoBuilds

(* A step writes one of clock, record, markers, index and mounted index. *)
LEMMA RetentionCases ==
  ASSUME [Next]_vars
  PROVE  \/ Tick \/ Publish \/ Complete \/ Commit \/ Protect \/ Arm \/ Rearm
         \/ Project /\ Beside
         \/ UNCHANGED <<now, st, marker, idx, proj>>
<1>1. CASE DeployStart \/ RollbackStart
  BY <1>1 DEF DeployStart, RollbackStart
<1>2. CASE Continues
  BY <1>2, CommandFrame DEF Records
<1>3. CASE Others
  <2>1. CASE Balances /\ UNCHANGED <<retentionVars, run, bookkeeping>>
    BY <2>1
  <2>2. CASE Replicates
    BY <2>2, ReplicatesFrame
  <2>3. CASE UNCHANGED vars
    BY <2>3 DEF vars
  <2>4. CASE CronStep \/ CronFails
    BY <2>4 DEF CronStep, CronStart, CronListDeployments, CronListServices, CronListHpas,
       CronVerify, CronScale, CronFails
  <2> QED
    BY <1>3, <2>1, <2>2, <2>3, <2>4 DEF Others
<1> QED
  BY <1>1, <1>2, <1>3, CommandSteps

(* Only the cleanup takes the last replica. *)
LEMMA ReplicasStay ==
  ASSUME Types, [Next]_vars, NEW b \in Builds, NEW s \in Services, rep[b][s] > 0
  PROVE  rep'[b][s] > 0 \/ (CronScale /\ Beside /\ rep'[b][s] = 0)
<1>0. CapacityTypes /\ CapacityTypes'
  BY CapacityTypesStep DEF Types
<1>1. CASE rep' = rep
  BY <1>1
<1>2. CASE DeployStart
  BY <1>2, InstallEffect, PromotionAssumption
<1>3. CASE Scales /\ rep' # rep
  <2>1. PICK c \in Builds, n \in 1 .. Capacity : Scale(c, run.at, n)
    BY <1>3, ScaleTargets
  <2>2. run.at \in Services /\ n \in 0 .. Capacity /\ n > 0
    BY <1>3, <2>1, RunsWhen, PromotionAssumption
  <2>3. /\ rep' = [rep EXCEPT ![c][run.at] = n]
        /\ ready' = [ready EXCEPT ![c][run.at] = IF @ > n THEN n ELSE @]
    BY <2>1 DEF Scale
  <2>4. rep'[b][s] = IF b = c /\ s = run.at THEN n ELSE rep[b][s]
    BY <1>0, <2>2, <2>3, ScaleEffect
  <2> QED
    BY <2>2, <2>4
<1>4. CASE Replicates
  <2>1. CASE \E c \in Builds : Autoscale(c)
    <3>1. PICK c \in Builds : Autoscale(c)
      BY <2>1
    <3>2. rep'[b][s] = IF b = c THEN Floor(c, s) ELSE rep[b][s]
      BY <3>1, AutoscaleEffect
    <3>3. Floor(b, s) \in 0 .. Capacity /\ Floor(b, s) # 0
      BY FloorRange, PromotionAssumption
    <3> QED
      BY <3>2, <3>3, PromotionAssumption
  <2>2. CASE ~(\E c \in Builds : Autoscale(c))
    BY <1>1, <1>4, <2>2 DEF Replicates, PodsStart, PodsLost
  <2> QED
    BY <2>1, <2>2
<1>5. CASE (CronStep \/ CronFails \/ Project) /\ Beside /\ rep' # rep
  <2>1. CronScale
    BY <1>5 DEF CronStep, CronStart, CronListDeployments, CronListServices, CronListHpas,
       CronVerify, CronFails, Project
  <2>2. rep'[b][s] \in 0 .. Capacity
    BY <1>0 DEF CapacityTypes
  <2> QED
    BY <1>5, <2>1, <2>2, PromotionAssumption
<1>6. CASE Decides \/ Records \/ Bounds \/ Calls
  BY <1>1, <1>6, DecidesFrame, RecordsFrame, BoundsFrame, CallsFrame
<1>7. CASE Tick \/ UNCHANGED vars
  BY <1>1, <1>7 DEF Tick, vars
<1> QED
  BY <1>1, <1>2, <1>3, <1>4, <1>5, <1>6, <1>7, StepGroups

(* The numbers retention works with. *)
LEMMA RetentionNumbers ==
  ASSUME Types
  PROVE  /\ now \in Nat /\ PrepWindow \in Nat /\ Grace \in Nat /\ PrepWindow > 0 /\ Grace > 0
         /\ idx \in [Builds -> Deadline] /\ proj \in [Builds -> Deadline]
         /\ \A b \in Builds : idx[b] \in Nat /\ proj[b] \in Nat
         /\ \A b \in Builds, s \in Services : marker[b][s] \in Nat
BY RetentionAssumption DEF Types, RetentionTypes, Deadline

(* What the step of a command means for the record. *)
LEMMA AimedBuilds ==
  ASSUME Types, Aims, ~Idle
  PROVE  /\ run.from \in Builds /\ run.to \in Builds /\ run.from # run.to
         /\ run.stage \in Closing \cup {"park"} => st.build = run.to /\ Peer = run.from
         /\ run.stage \notin Closing \cup {"park", "unwarm"} => st.build = run.from /\ Peer = run.to
<1>1. run.from \in Builds /\ run.to \in Builds /\ run.from # run.to
  BY RunFields DEF Types, Aims
<1>2. CASE run.stage \in Closing \cup {"park"}
  <2>1. st.build = run.to
    BY <1>2 DEF Aims, Closing
  <2> QED
    BY <1>1, <1>2, <2>1, PeerIs DEF Closing
<1>3. CASE run.stage \notin Closing \cup {"park", "unwarm"}
  <2>1. st.build = run.from
    BY <1>3 DEF Aims
  <2> QED
    BY <1>1, <1>3, <2>1, PeerIs
<1>4. CASE run.stage = "unwarm"
  BY <1>1, <1>4 DEF Closing
<1> QED
  BY <1>1, <1>2, <1>3, <1>4

(* The ceiling moves with the clock. *)
LEMMA CeilingStep ==
  ASSUME Types, Aims, Ceiling, [Next]_vars, Grace <= PrepWindow
  PROVE  Ceiling'
<1>1. CASE UNCHANGED <<now, idx, proj>>
  BY <1>1 DEF Ceiling
<1>2. CASE Tick
  <2>1. UNCHANGED <<idx, proj>> /\ now' = now + 1
    BY <1>2 DEF Tick
  <2> QED
    BY <2>1, RetentionNumbers DEF Ceiling
<1>3. CASE Publish \/ Complete
  <2>1. UNCHANGED <<now, proj>> /\ ~Idle
    BY <1>3 DEF Publish, Complete, Idle
  <2>2. run.from \in Builds /\ run.to \in Builds /\ run.from # run.to
    BY <2>1, AimedBuilds
  <2>3. \A b \in Builds : idx'[b] \in {idx[b], now + PrepWindow, now + Grace}
    BY <1>3, <2>2, IndexEffect, TwoBuilds
  <2> QED
    BY <2>1, <2>3, RetentionNumbers DEF Ceiling
<1>4. CASE Project
  BY <1>4 DEF Project, Ceiling
<1>5. CASE Commit \/ Protect \/ Arm \/ Rearm
  BY <1>1, <1>5, RecordsFrame DEF Records, Commit, Protect, Arm, Rearm
<1> QED
  BY <1>1, <1>2, <1>3, <1>4, <1>5, RetentionCases

(* The standby's markers keep outlasting the index. *)
LEMMA OutlastsStep ==
  ASSUME Types, Aims, Fenced, Ceiling, Outlasts, Prepared, [Next]_vars, Grace <= PrepWindow
  PROVE  Outlasts'
<1>1. CASE UNCHANGED <<st, marker, idx, proj>>
  BY <1>1 DEF Outlasts, Peer
<1>2. CASE Tick
  BY <1>1, <1>2 DEF Tick
<1>3. CASE Project
  <2>1. UNCHANGED <<st, marker, idx>> /\ proj' = idx
    BY <1>3 DEF Project
  <2> QED
    BY <2>1 DEF Outlasts, Peer
<1>4. CASE Publish
  <2>1. ~Idle /\ UNCHANGED <<st, marker, proj, now>> /\ run.stage = "publish"
    BY <1>4 DEF Publish, Idle
  <2>2. st.build = run.from /\ run.from # run.to
    BY <2>1, AimedBuilds DEF Closing
  <2>3. st.prev # NoBuild => idx'[st.build] = idx[st.build]
    BY <1>4, <2>2, IndexEffect DEF Outlasts
  <2> QED
    BY <2>1, <2>3 DEF Outlasts, Peer
<1>5. CASE Complete
  <2>1. ~Idle /\ UNCHANGED <<st, marker, proj, now>> /\ run.stage = "complete"
    BY <1>5 DEF Complete, Idle
  <2>2. st.build = run.to /\ Peer = run.from /\ run.from # run.to /\ run.to \in Builds
        /\ run.from \in Builds /\ st.prev # NoBuild
    <3>1. st.prev = run.from
      BY <2>1 DEF Aims, Closing
    <3> QED
      BY <2>1, <3>1, AimedBuilds, RetentionAssumption DEF Closing
  <2>3. ~Publish
    BY <2>1 DEF Publish
  <2>4. idx'[run.to] = now + Grace
    BY <1>5, <2>2, <2>3, IndexEffect
  <2>5. idx[run.to] >= now + Grace
    BY <2>1 DEF Prepared, Published, Closing
  <2>6. \A s \in Services : now + Grace <= marker[Peer][s]
    BY <2>2, <2>5, RetentionNumbers DEF Outlasts
  <2> QED
    BY <2>1, <2>2, <2>4, <2>6, RetentionNumbers DEF Outlasts, Peer
<1>6. CASE Commit
  <2>1. ~Idle /\ UNCHANGED <<marker, idx, proj, now>> /\ run.stage = "commit"
        /\ st' = [build |-> run.to, prev |-> run.from]
    BY <1>6 DEF Commit, Idle
  <2>2. run.to \in Builds /\ run.from \in Builds /\ run.from # run.to
    BY <2>1, AimedBuilds
  <2>3. Types'
    BY TypesStep
  <2>4. Peer' \in Builds /\ Peer' # st'.build /\ \A b \in Builds : b # st'.build => b = Peer'
    BY <2>3, PeerIs DEF Peer, Types, TrafficTypes, CapacityTypes, RetentionTypes, RunTypes
  <2>5. Peer' = run.from
    BY <2>1, <2>2, <2>4
  <2>6. idx[run.to] > now /\ proj[run.to] = idx[run.to]
        /\ \A s \in Services : marker[run.from][s] = idx[run.to]
    BY <2>1 DEF Fenced, Prepared, Published, Mounted
  <2> QED
    BY <2>1, <2>2, <2>5, <2>6, RetentionNumbers DEF Outlasts
<1>7. CASE Protect
  <2>1. ~Idle /\ UNCHANGED <<st, idx, proj, now>> /\ run.stage = "protect"
    BY <1>7 DEF Protect, Idle
  <2>2. Peer = run.to /\ run.to \in Builds /\ st.build \in Builds
    BY <2>1, AimedBuilds, PeerIs DEF Closing
  <2>3. \A s \in Services : marker'[Peer][s] = now + PrepWindow \/ marker'[Peer][s] = marker[Peer][s]
    BY <1>7, <2>2, MarkerEffect
  <2> QED
    BY <2>1, <2>2, <2>3 DEF Outlasts, Ceiling, Peer
<1>8. CASE Arm
  <2>1. ~Idle /\ UNCHANGED <<st, idx, proj, now>> /\ run.stage = "arm" /\ ~Protect
    BY <1>8 DEF Arm, Protect, Idle
  <2>2. Peer = run.to /\ run.to \in Builds /\ run.from # run.to
    BY <2>1, AimedBuilds DEF Closing
  <2>3. \A s \in Services : marker'[Peer][s] = marker[Peer][s]
    BY <1>8, <2>1, <2>2, MarkerEffect
  <2> QED
    BY <2>1, <2>2, <2>3 DEF Outlasts, Peer
<1>9. CASE Rearm
  <2>1. ~Idle /\ UNCHANGED <<st, idx, proj, now>> /\ run.stage = "rearm" /\ ~Protect
    BY <1>9 DEF Rearm, Protect, Idle
  <2>2. st.build = run.to /\ Peer = run.from /\ run.to \in Builds /\ run.from \in Builds
    BY <2>1, AimedBuilds DEF Closing
  <2>3. \A s \in Services : marker'[Peer][s] = idx[run.to] \/ marker'[Peer][s] = marker[Peer][s]
    BY <1>9, <2>1, <2>2, MarkerEffect
  <2>4. proj[run.to] = idx[run.to]
    BY <2>1 DEF Prepared, Mounted
  <2> QED
    BY <2>1, <2>2, <2>3, <2>4, RetentionNumbers DEF Outlasts, Peer
<1> QED
  BY <1>1, <1>2, <1>3, <1>4, <1>5, <1>6, <1>7, <1>8, <1>9, RetentionCases

(* The serving build keeps its replicas, the standby while it is needed. *)
LEMMA StandingStep ==
  ASSUME Types, Aims, Fenced, Sparing, Outlasts, Standing, Prepared, [Next]_vars
  PROVE  Standing'
<1>0. Peer \in Builds /\ Peer # st.build /\ st.build \in Builds
      /\ \A b \in Builds : b # st.build => b = Peer
  BY PeerIs
<1>t. CapacityTypes /\ CapacityTypes' /\ \A b \in Builds, s \in Services : rep'[b][s] \in Nat
  BY CapacityTypesStep, PromotionAssumption DEF Types, CapacityTypes
<1>1. ASSUME NEW s \in Services
      PROVE  /\ rep'[st.build][s] > 0
             /\ rep'[Peer][s] = 0 => idx[st.build] <= now /\ proj[st.build] <= now
  <2>1. rep[st.build][s] > 0
    BY DEF Standing
  <2>2. rep'[st.build][s] > 0
    BY <1>0, <2>1, ReplicasStay, SparesServing
  <2>3. CASE rep[Peer][s] = 0
    BY <2>2, <2>3 DEF Standing
  <2>4. CASE rep[Peer][s] # 0 /\ rep'[Peer][s] = 0
    <3>1. rep[Peer][s] > 0
      BY <1>0, <2>4, PromotionAssumption DEF Types, CapacityTypes
    <3>2. CronScale
      BY <1>0, <2>4, <3>1, ReplicasStay
    <3>3. st.prev = Peer /\ marker[Peer][s] <= now
      BY <1>0, <2>4, <3>1, <3>2, SparesServing
    <3>4. idx[st.build] <= marker[Peer][s] /\ proj[st.build] <= marker[Peer][s]
      BY <1>0, <3>3, RetentionAssumption DEF Outlasts
    <3> QED
      BY <1>0, <2>2, <3>3, <3>4, RetentionNumbers
  <2> QED
    BY <2>2, <2>3, <2>4
<1>2. CASE UNCHANGED <<now, st, idx, proj>>
  BY <1>1, <1>2 DEF Standing, Peer
<1>3. CASE Tick
  <2>1. UNCHANGED <<st, idx, proj>> /\ now' = now + 1
    BY <1>3 DEF Tick
  <2>2. idx[st.build] <= now => idx[st.build] <= now + 1
    BY <1>0, RetentionNumbers
  <2>3. proj[st.build] <= now => proj[st.build] <= now + 1
    BY <1>0, RetentionNumbers
  <2> QED
    BY <1>1, <2>1, <2>2, <2>3 DEF Standing, Peer
<1>4. CASE Publish
  <2>1. ~Idle /\ UNCHANGED <<st, proj, now, rep>> /\ run.stage = "publish"
    BY <1>4 DEF Publish, Idle
  <2>2. Peer = run.to
    BY <2>1, AimedBuilds DEF Closing
  <2>3. \A s \in Services : rep'[Peer][s] > 0
    BY <2>1, <2>2 DEF Prepared, SeenRunning
  <2> QED
    BY <1>1, <1>t, <2>1, <2>3, <1>0 DEF Standing, Peer
<1>5. CASE Complete
  <2>1. ~Idle /\ UNCHANGED <<st, proj, now, rep>> /\ run.stage = "complete"
    BY <1>5 DEF Complete, Idle
  <2>2. Peer = run.from /\ st.build = run.to
    BY <2>1, AimedBuilds DEF Closing
  <2>3. idx[st.build] > now
    BY <2>1, <2>2 DEF Fenced, Published, Closing
  <2>4. \A s \in Services : rep'[Peer][s] # 0
    BY <1>0, <1>1, <2>3, RetentionNumbers
  <2> QED
    BY <1>1, <2>1, <2>4 DEF Standing, Peer
<1>6. CASE Commit
  <2>1. ~Idle /\ UNCHANGED <<idx, proj, now, rep>> /\ run.stage = "commit"
        /\ st' = [build |-> run.to, prev |-> run.from]
    BY <1>6 DEF Commit, Idle
  <2>2. run.to \in Builds /\ run.from \in Builds /\ run.from # run.to /\ st.build = run.from
    BY <2>1, AimedBuilds DEF Closing
  <2>3. \E b \in Builds : b # st'.build
    BY <2>1, <2>2
  <2>4. Peer' \in Builds /\ Peer' # st'.build
    BY <2>3 DEF Peer
  <2>5. Peer' = run.from
    BY <2>1, <2>2, <2>4, TwoBuilds
  <2>6. \A s \in Services : rep[run.to][s] > 0 /\ rep[run.from][s] # 0
    BY <2>1, <2>2 DEF Prepared, SeenRunning, Standing
  <2> QED
    BY <2>1, <2>5, <2>6 DEF Standing
<1>7. CASE Project
  <2>1. UNCHANGED <<now, st, idx>> /\ proj' = idx
    BY <1>7 DEF Project
  <2> QED
    BY <1>1, <2>1 DEF Standing, Peer
<1>8. CASE Protect \/ Arm \/ Rearm
  BY <1>2, <1>8 DEF Protect, Arm, Rearm
<1> QED
  BY <1>2, <1>3, <1>4, <1>5, <1>6, <1>7, <1>8, RetentionCases

(* A later stage in which the incoming build has been seen running follows  *)
(* an earlier one, or the rollout wait.                                     *)
LEMMA SeenFrom ==
  ASSUME Types, Continues, run' # NoRun, SeenRunning', ~Rollout
  PROVE  SeenRunning
<1>1. run'.kind = run.kind /\ run.kind \in {"deploy", "rollback"}
  BY RunContinues, RunFields DEF Types
<1> QED
  BY <1>1, StageGraph DEF Onto, Along, Closing, SeenRunning

(* The mounted index is known from the wait for it on. *)
LEMMA MountedFrom ==
  ASSUME Types, Aims, Continues, run' # NoRun, Mounted'
  PROVE  Mounted \/ AwaitIndex \/ AwaitFinalIndex
<1>1. ~Idle /\ (run.stage = "undo" => run.bad)
  BY RunContinues DEF Aims
<1> QED
  BY <1>1, StageGraph DEF Onto, Along, Closing, Moving, Mounted, Memory, Intent

(* What the command made sure of stays true. *)
LEMMA PreparedStep ==
  ASSUME Types, Aims, Fenced, Sparing, Prepared, [Next]_vars, Grace <= PrepWindow
  PROVE  Prepared'
<1>t. CapacityTypes /\ CapacityTypes'
  BY CapacityTypesStep DEF Types
<1>1. CASE DeployStart \/ RollbackStart
  <2>1. run'.stage = "protect"
    BY <1>1, RunStarts
  <2> QED
    BY <2>1 DEF Prepared, Published, SeenRunning, Mounted, Closing, Moving
<1>2. CASE run' = NoRun
  BY <1>2 DEF Prepared, Idle, NoRun
<1>3. CASE Others
  <2>1. UNCHANGED <<run, idx>>
    BY <1>3, OthersFrame
  <2>2. SUFFICES ASSUME ~Idle PROVE Prepared'
    BY <2>1 DEF Prepared, Idle
  <2>3. run.to \in Builds
    BY <2>2, AimedBuilds
  <2>4. Published => idx[run.to] >= now' + Grace
    <3>1. CASE Tick
      <4>1. now' = now + 1 /\ (Published => now + 1 + Grace <= idx[run.to])
        BY <3>1 DEF Tick, Published, InWindow, Moving, Closing
      <4> QED
        BY <2>3, <4>1, RetentionNumbers
    <3>2. CASE now' = now
      BY <2>2, <3>2 DEF Prepared
    <3> QED
      BY <1>3, <3>1, <3>2, OthersFrame
  <2>5. SeenRunning => \A s \in Services : rep'[run.to][s] > 0
    <3> SUFFICES ASSUME SeenRunning, NEW s \in Services PROVE rep'[run.to][s] > 0
      OBVIOUS
    <3>1. rep[run.to][s] > 0 /\ run.stage # "protect"
      BY <2>2 DEF Prepared, SeenRunning
    <3> QED
      BY <2>2, <2>3, <3>1, ReplicasStay, SparesServing
  <2>6. Mounted => proj'[run.to] = idx[run.to]
    <3>1. CASE proj' = proj
      BY <2>2, <3>1 DEF Prepared
    <3>2. CASE proj' # proj
      <4>1. proj' = idx
        <5>1. Project \/ UNCHANGED proj
          BY <1>3, ReplicatesFrame DEF Others, Tick, CronStep, CronStart, CronListDeployments,
             CronListServices, CronListHpas, CronVerify, CronScale, CronFails, vars
        <5> QED
          BY <3>2, <5>1 DEF Project
      <4> QED
        BY <4>1
    <3> QED
      BY <3>1, <3>2
  <2> QED
    BY <2>1, <2>4, <2>5, <2>6 DEF Prepared, Published, SeenRunning, Mounted
<1>4. CASE Continues /\ run' # NoRun
  <2>1. ~Idle /\ run'.to = run.to /\ UNCHANGED <<now, proj>>
    BY <1>4, RunContinues, CommandFrame
  <2>2. run.to \in Builds /\ run.from \in Builds /\ run.from # run.to
    BY <2>1, AimedBuilds
  <2>3. Published' => idx'[run.to] >= now + Grace
    <3>1. CASE Publish
      <4>1. idx'[run.to] = now + PrepWindow
        BY <2>2, <3>1, IndexEffect
      <4> QED
        BY <4>1, RetentionNumbers
    <3>2. CASE Complete
      <4>1. ~Publish
        BY <3>2 DEF Complete, Publish
      <4>2. idx'[run.to] = now + Grace
        BY <2>2, <3>2, <4>1, IndexEffect
      <4> QED
        BY <4>2, RetentionNumbers
    <3>3. CASE ~(Publish \/ Complete)
      <4>1. idx' = idx
        BY <1>4, <3>3, CommandFrame DEF Records, Protect, Arm, Commit, Rearm
      <4>2. Published' => Published
        BY <1>4, <3>3, PublishedFrom
      <4> QED
        BY <2>1, <4>1, <4>2 DEF Prepared
    <3> QED
      BY <3>1, <3>2, <3>3
  <2>4. SeenRunning' => \A s \in Services : rep'[run.to][s] > 0
    <3> SUFFICES ASSUME SeenRunning', NEW s \in Services PROVE rep'[run.to][s] > 0
      OBVIOUS
    <3>1. CASE Rollout
      <4>1. ready[run.to][s] > 0 /\ ready[run.to][s] = rep[run.to][s] /\ rep' = rep
        BY <3>1 DEF Rollout
      <4> QED
        BY <4>1
    <3>2. CASE ~Rollout
      <4>1. SeenRunning
        BY <1>4, <3>2, SeenFrom
      <4>2. rep[run.to][s] > 0 /\ run.stage # "protect"
        BY <2>1, <4>1 DEF Prepared, SeenRunning
      <4> QED
        BY <2>1, <2>2, <4>2, ReplicasStay, SparesServing
    <3> QED
      BY <3>1, <3>2
  <2>5. Mounted' => proj'[run.to] = idx'[run.to]
    <3>1. CASE AwaitIndex \/ AwaitFinalIndex
      BY <3>1 DEF AwaitIndex, AwaitFinalIndex, IndexProjected
    <3>2. CASE ~(AwaitIndex \/ AwaitFinalIndex) /\ (Publish \/ Complete)
      <4>1. run'.stage \in {"project", "reproject"}
        BY <2>1, <3>2, RunFields DEF Publish, Complete, Run, Types
      <4> QED
        BY <4>1 DEF Mounted, Moving
    <3>3. CASE ~(AwaitIndex \/ AwaitFinalIndex \/ Publish \/ Complete)
      <4>1. idx' = idx
        BY <1>4, <3>3, CommandFrame DEF Records, Protect, Arm, Commit, Rearm
      <4>2. Mounted' => Mounted
        BY <1>4, <3>3, MountedFrom
      <4> QED
        BY <2>1, <4>1, <4>2 DEF Prepared
    <3> QED
      BY <3>1, <3>2, <3>3
  <2> QED
    BY <2>1, <2>3, <2>4, <2>5 DEF Prepared
<1> QED
  BY <1>1, <1>2, <1>3, <1>4, CommandSteps

-----------------------------------------------------------------------------
(* Bounds and selectors a command leaves behind *)

(* How a command ends. *)
LEMMA RunEnds ==
  ASSUME Types, Continues, run' = NoRun
  PROVE  ~Idle /\ Ends /\ call' = NoCall
<1>1. ~(run' \in Run)
  BY DEF NoRun, Run, RunStages, Opening, Closing, Moving
<1> QED
  BY <1>1, RunContinues

(* What restoring does. *)
LEMMA UnwarmEffect ==
  ASSUME Types, Unwarm
  PROVE  \A c \in Builds, t \in Services :
            hpa'[c][t] = IF c = run.to /\ t \in run.warmed THEN "chart" ELSE hpa[c][t]
<1>1. run.to \in Builds /\ run.warmed \in SUBSET Services
  BY RunsWhen, RunFields DEF Bounds, Types
<1>2. hpa \in [Builds -> [Services -> {"none", "chart", "raised", "widened"}]]
  BY DEF Types, CapacityTypes
<1> QED
  BY <1>1, <1>2 DEF Unwarm

(* A command forgets no bound that was raised behind its back; the next     *)
(* deploy installs the chart's.                                             *)
LEMMA UntoldStays ==
  ASSUME Continues
  PROVE  untold \subseteq untold'
<1>1. CASE Bounds
  BY <1>1 DEF Bounds, WidenHpa, WarmHpa, WarmHpaFails, Unwarm, ParkFails
<1> QED
  BY <1>1, DecidesFrame, RecordsFrame, ScalesFrame, CallsFrame
  DEF Continues, RunStep, Decides, Records, Bounds, Scales, Calls

(* Raised bounds stay known. *)
LEMMA WarmthStep ==
  ASSUME Types, Aims, Warmth, [Next]_vars
  PROVE  Warmth'
<1>1. CASE DeployStart
  <2>1. Idle /\ run'.warmed = {} /\ run'.stage = "protect" /\ killed' = killed
        /\ untold' = untold \ ({New} \X Services)
    BY <1>1, RunStarts DEF DeployStart
  <2>2. \A c \in Builds, t \in Services : hpa'[c][t] = IF c = New THEN "chart" ELSE hpa[c][t]
    BY <1>1, InstallEffect
  <2> QED
    BY <2>1, <2>2 DEF Warmth
<1>2. CASE RollbackStart
  <2>1. Idle /\ run'.warmed = {} /\ run'.stage = "protect" /\ UNCHANGED <<killed, hpa, untold>>
    BY <1>2, RunStarts DEF RollbackStart
  <2> QED
    BY <2>1 DEF Warmth
<1>3. CASE Others
  BY <1>3, OthersFrame DEF Warmth, Idle
<1>4. CASE Continues /\ run' = NoRun
  <2>1. ~Idle /\ Ends /\ Idle'
    BY <1>4, RunEnds DEF NoRun, Idle
  <2>2. SUFFICES ASSUME ~killed', NEW b \in Builds, NEW s \in Services, hpa'[b][s] = "raised",
                        <<b, s>> \notin untold, <<b, s>> \notin untold'
                 PROVE  FALSE
    BY <1>4, <2>1, UntoldStays DEF Warmth
  <2>3. CASE EdgeGatesFail \/ EarlyFailure
    <3>1. run.warmed = {} /\ UNCHANGED <<hpa, killed>>
      <4>1. run.stage \in Opening \/ run.kind = "rollback"
        BY <2>1, <2>3, RunFields DEF EdgeGatesFail, EarlyFailure, Opening, Types
      <4> QED
        BY <2>1, <2>3, <4>1 DEF Warmth, EdgeGatesFail, EarlyFailure
    <3> QED
      BY <2>2, <3>1 DEF Warmth
  <2>4. CASE SkipCleanup \/ Park \/ ParkFails
    <3>1. run.stage = "park" /\ UNCHANGED killed
      BY <2>4 DEF SkipCleanup, Park, ParkFails
    <3>2. hpa' = hpa \/ hpa' = [hpa EXCEPT ![run.from][run.at] = "none"]
      BY <2>4 DEF SkipCleanup, Park, ParkFails
    <3>3. hpa[b][s] = "raised"
      <4>1. run.from \in Builds /\ run.at \in Services
        BY <2>1, RunFields DEF Types
      <4>2. hpa \in [Builds -> [Services -> {"none", "chart", "raised", "widened"}]]
        BY DEF Types, CapacityTypes
      <4> QED
        BY <2>2, <3>2, <4>1, <4>2
    <3> QED
      BY <2>2, <3>1, <3>3 DEF Warmth
  <2>5. CASE Killed \/ UnwarmFails
    BY <2>2, <2>5 DEF Killed, UnwarmFails
  <2>6. CASE Unwarm
    <3>1. UNCHANGED killed
      BY <2>6 DEF Unwarm
    <3>2. hpa[b][s] = "raised" /\ ~(b = run.to /\ s \in run.warmed)
      BY <2>2, <2>6, UnwarmEffect
    <3> QED
      BY <2>2, <3>1, <3>2 DEF Warmth
  <2> QED
    BY <2>1, <2>3, <2>4, <2>5, <2>6 DEF Ends
<1>5. CASE Continues /\ run' # NoRun
  <2>1. ~Idle /\ run'.to = run.to /\ run'.kind = run.kind /\ run.kind \in {"deploy", "rollback"}
        /\ run' \in Run /\ run.to \in Builds /\ run.at \in Services /\ run.from \in Builds
        /\ run.warmed \in SUBSET Services
    BY <1>5, RunContinues, RunFields DEF Types
  <2>2. ~Idle'
    BY <2>1 DEF Idle, Run, RunStages, Opening, Closing, Moving
  <2>3. run'.stage \in {"edge", "warm"} => run.kind = "deploy"
    BY <1>5, <2>1, StageGraph DEF Onto, Along, Closing, Warmth
  <2>4. run'.stage \in Opening \/ run.kind = "rollback" => run'.warmed = {}
    <3>1. CASE WarmHpa
      <4>1. run.stage = "warm"
        BY <3>1 DEF WarmHpa
      <4>2. run.kind = "deploy"
        BY <2>1, <4>1 DEF Warmth
      <4>3. run'.stage \in {"warm", "scale", "unwarm"}
        BY <1>5, <4>1, StageGraph DEF Onto, Along, Closing
      <4> QED
        BY <4>2, <4>3 DEF Opening
    <3>2. CASE ~WarmHpa
      <4>1. run'.warmed = run.warmed
        BY <1>5, <3>2, StageGraph DEF Memory
      <4>2. run'.stage \in Opening => run.stage \in Opening \/ run.kind = "rollback"
        BY <1>5, <3>2, StageGraph DEF Onto, Along, Closing, Opening
      <4> QED
        BY <2>1, <4>1, <4>2 DEF Warmth
    <3> QED
      BY <3>1, <3>2
  <2>5. SUFFICES ASSUME ~killed', NEW b \in Builds, NEW s \in Services, hpa'[b][s] = "raised",
                        <<b, s>> \notin untold, <<b, s>> \notin untold'
                 PROVE  b = run'.to /\ s \in run'.warmed /\ run'.stage \notin Closing \cup {"park"}
    BY <1>5, <2>1, <2>2, <2>3, <2>4, UntoldStays DEF Warmth
  <2>6. ~UnwarmFails /\ killed' = killed
    <3>1. ~Killed /\ ~UnwarmFails
      BY <2>5 DEF Killed, UnwarmFails
    <3> QED
      BY <1>5, <3>1, RecordsFrame, BoundsFrame, ScalesFrame, CallsFrame
      DEF Continues, RunStep, Records, Bounds, Scales, Calls, Rollout, EdgeGates, EdgeGatesFail,
          EarlyFailure, ReadyGate, ServingGate, Recheck, LateFailure, AwaitIndex, ReadSelectors,
          UndoDone, CommitFails, AwaitFinalIndex, CompleteFails, SkipCleanup, WidenHpaWarns
  <2>7. CASE Unwarm
    <3>1. hpa[b][s] = "raised" /\ ~(b = run.to /\ s \in run.warmed)
      BY <2>5, <2>7, UnwarmEffect
    <3> QED
      BY <2>5, <2>6, <3>1 DEF Warmth
  <2>8. CASE WarmHpa
    <3>1. run.stage = "warm" /\ run'.stage \in {"warm", "scale"}
          /\ run'.warmed = (IF ChartMin < run.target[run.at] THEN run.warmed \cup {run.at}
                            ELSE run.warmed)
      BY <2>1, <2>8, RunFields DEF WarmHpa, Run, Types
    <3>2. hpa' = IF ChartMin < run.target[run.at] THEN [hpa EXCEPT ![run.to][run.at] = "raised"]
                 ELSE hpa
      BY <2>8 DEF WarmHpa
    <3>3. hpa[b][s] = "raised" \/ (b = run.to /\ s = run.at /\ ChartMin < run.target[run.at])
      BY <2>1, <2>5, <3>2 DEF Types, CapacityTypes
    <3> QED
      BY <2>1, <2>5, <2>6, <3>1, <3>3 DEF Warmth, Closing
  <2>9. CASE ~WarmHpa /\ ~Unwarm
    <3>1. run'.warmed = run.warmed
      BY <1>5, <2>9, StageGraph DEF Memory
    <3>2. hpa[b][s] = "raised"
      <4>1. \/ hpa' = hpa \/ hpa' = [hpa EXCEPT ![run.from][run.at] = "none"]
            \/ hpa' = [hpa EXCEPT ![run.to][run.at] = "widened"]
            \/ /\ hpa' = [hpa EXCEPT ![run.to][run.at] = "raised"]
               /\ ~(b = run.to /\ s = run.at)
        <5>1. CASE Bounds
          BY <2>5, <2>9, <5>1 DEF Bounds, WidenHpa, WarmHpaFails, ParkFails
        <5>2. CASE Scales
          BY <5>2 DEF Scales, ScaleUp, ScaleToTarget, Park
        <5>3. CASE Decides \/ Records \/ Calls
          BY <5>3, DecidesFrame, RecordsFrame, CallsFrame
        <5> QED
          BY <1>5, <5>1, <5>2, <5>3
          DEF Continues, RunStep, Decides, Records, Bounds, Scales, Calls
      <4> QED
        BY <2>1, <2>5, <4>1 DEF Types, CapacityTypes
    <3>3. b = run.to /\ s \in run.warmed /\ run.stage \notin Closing \cup {"park"}
      BY <2>5, <2>6, <3>2 DEF Warmth
    <3>4. run'.stage \notin Closing \cup {"park"}
      BY <1>5, <2>6, <2>9, <3>3, StageGraph DEF Onto, Along, Closing
    <3> QED
      BY <2>1, <3>1, <3>3, <3>4
  <2> QED
    BY <2>7, <2>8, <2>9
<1> QED
  BY <1>1, <1>2, <1>3, <1>4, <1>5, CommandSteps

(* The least member of the Services to undo. *)
LEMMA UndoNext ==
  ASSUME Types, UndoOpen
  PROVE  \E s \in run.patched : s \in Services /\ Open(s, Target(run.orig[s], run.to), run.orig[s])
<1>1. ~Idle
  BY DEF UndoOpen, Idle
<1> DEFINE s == CHOOSE x \in run.patched : \A y \in run.patched : x <= y
<1>2. run.patched # {} /\ run.patched \subseteq Services /\ run.patched \subseteq Nat
  <2>1. run.patched \subseteq Services /\ Services \subseteq Nat
    BY <1>1, RunFields, OverlapAssumption DEF Types, Services
  <2> QED
    BY <2>1 DEF UndoOpen
<1>3. \E x \in run.patched : \A y \in run.patched : x <= y
  BY <1>2, MinOfNat
<1>4. s \in run.patched /\ s \in Services
  BY <1>2, <1>3
<1>5. Open(s, Target(run.orig[s], run.to), run.orig[s])
  BY DEF UndoOpen
<1> QED
  BY <1>4, <1>5

(* The other build's selector is as plain as the one it was made from. *)
LEMMA PlainTarget ==
  ASSUME NEW from \in Selector, Plain(from), NEW b \in Builds
  PROVE  Plain(Target(from, b))
BY TargetSelector, OverlapAssumption DEF Plain

(* From one stage of a call to the next, the rest of the call unchanged. *)
CallMoves(a, b) ==
    /\ call.stage = a /\ call'.stage = b
    /\ call'.svc = call.svc /\ call'.from = call.from /\ call'.to = call.to /\ call'.key = call.key

(* The stages of a call, and what each does to its Service. *)
LEMMA CallGraph ==
  ASSUME call \in Call, OverlapStep
  PROVE  \/ SwapGeneric /\ CallMoves("plan", "ok") /\ call.svc \notin NegServices
            /\ svc[call.svc] = call.from /\ svc' = [svc EXCEPT ![call.svc] = call.to]
            /\ UNCHANGED <<note, label, told>>
         \/ (SwapGenericFails \/ Discover) /\ CallMoves("plan", "failed")
            /\ UNCHANGED <<svc, note, label, told>>
         \/ Discover /\ CallMoves("plan", "label") /\ UNCHANGED <<svc, note, label, told>>
            /\ call.svc \in NegServices /\ Matches(call.svc, call.to) # {}
         \/ LabelPods /\ CallMoves("label", "stage") /\ UNCHANGED <<svc, note, told>>
         \/ LabelFails /\ CallMoves("label", "failed") /\ UNCHANGED <<svc, note, told>>
         \/ StageOverlap /\ (CallMoves("stage", "poll") \/ CallMoves("stage", "recover"))
            /\ svc[call.svc] = call.from /\ svc' = [svc EXCEPT ![call.svc] = Overlap]
            /\ note' = [note EXCEPT ![call.svc] = TRUE] /\ UNCHANGED <<label, told>>
         \/ StageOverlapFails /\ CallMoves("stage", "recover") /\ UNCHANGED <<svc, note, label, told>>
         \/ Poll /\ CallMoves("poll", "poll") /\ UNCHANGED <<svc, note, label, told>>
         \/ FinishOverlap /\ svc[call.svc] = Overlap /\ svc' = [svc EXCEPT ![call.svc] = call.to]
            /\ note' = [note EXCEPT ![call.svc] = FALSE] /\ UNCHANGED told
            /\ \/ CallMoves("poll", "ok") /\ Cleanup
               \/ CallMoves("poll", "recover") /\ "final" \in LostAnswers /\ UNCHANGED label
         \/ PollFails /\ CallMoves("poll", "recover") /\ UNCHANGED <<svc, note, label, told>>
         \/ Recover /\ CallMoves("recover", "failed") /\ Cleanup /\ UNCHANGED unsure
            /\ \/ svc[call.svc] = call.from /\ UNCHANGED <<svc, note, abrupt>>
               \/ svc[call.svc] # call.from /\ svc' = [svc EXCEPT ![call.svc] = call.from]
                  /\ \/ svc[call.svc] = Overlap /\ note' = [note EXCEPT ![call.svc] = FALSE]
                        /\ UNCHANGED abrupt
                     \/ svc[call.svc] = call.to /\ UNCHANGED note
                        /\ abrupt' = abrupt \cup {call.svc}
         \/ RecoverFails /\ CallMoves("recover", "failed") /\ UNCHANGED <<svc, note, label>>
            /\ unsure' = unsure \cup {call.svc} /\ UNCHANGED abrupt
<1>1. ASSUME NEW a, NEW b, call.stage = a, Stage(b)
      PROVE  CallMoves(a, b)
  BY <1>1 DEF Stage, CallMoves, Call
<1>2. CASE SwapGeneric
  BY <1>1, <1>2 DEF SwapGeneric, Swap
<1>3. CASE SwapGenericFails
  BY <1>1, <1>3 DEF SwapGenericFails
<1>4. CASE Discover
  BY <1>1, <1>4 DEF Discover
<1>5. CASE LabelPods
  BY <1>1, <1>5 DEF LabelPods
<1>6. CASE LabelFails
  BY <1>1, <1>6 DEF LabelFails
<1>7. CASE StageOverlap
  BY <1>1, <1>7 DEF StageOverlap, Swap
<1>8. CASE StageOverlapFails
  BY <1>1, <1>8 DEF StageOverlapFails
<1>9. CASE Poll
  <2>1. CallMoves("poll", "poll") /\ UNCHANGED <<svc, note, label, told>>
    BY <1>9 DEF Poll, CallMoves, Call
  <2> QED
    BY <1>9, <2>1
<1>10. CASE FinishOverlap
  BY <1>1, <1>10 DEF FinishOverlap, Swap, Stable
<1>11. CASE PollFails
  BY <1>1, <1>11 DEF PollFails
<1>12. CASE Recover
  BY <1>1, <1>12 DEF Recover
<1>13. CASE RecoverFails
  BY <1>1, <1>13 DEF RecoverFails
<1> QED
  BY <1>2, <1>3, <1>4, <1>5, <1>6, <1>7, <1>8, <1>9, <1>10, <1>11, <1>12, <1>13 DEF OverlapStep

(* A call keeps to its Service. *)
LEMMA CallKeeps ==
  ASSUME call \in Call, OverlapStep, TrafficTypes
  PROVE  /\ call'.svc = call.svc /\ call'.from = call.from /\ call'.to = call.to
         /\ call'.key = call.key /\ Overlap' = Overlap /\ call' # NoCall
         /\ \A s \in Services : s # call.svc => svc'[s] = svc[s] /\ note'[s] = note[s]
         /\ \A s \in unsure : s \in unsure'
<1>1. \E a, b \in CallStages : CallMoves(a, b)
  BY CallGraph DEF CallStages
<1>2. /\ call'.svc = call.svc /\ call'.from = call.from /\ call'.to = call.to
      /\ call'.key = call.key /\ call' # NoCall
  BY <1>1 DEF CallMoves, NoCall, CallStages
<1>3. Overlap' = Overlap
  BY <1>2 DEF Overlap
<1>4. call.svc \in Services
  BY CallSelectors
<1>5. \A s \in Services : s # call.svc => svc'[s] = svc[s] /\ note'[s] = note[s]
  BY <1>4, CallGraph DEF TrafficTypes
<1>6. \A s \in unsure : s \in unsure'
  BY CallGraph
<1> QED
  BY <1>2, <1>3, <1>5, <1>6

(* A call ends with its Service on one build, or says so. *)
LEMMA TidyOverlap ==
  ASSUME Types, Tidy, Busy, OverlapStep, UNCHANGED <<run, killed>>
  PROVE  Tidy'
<1> SUFFICES ASSUME ~killed, NEW s \in Services \ unsure'
             PROVE  /\ \/ Plain(svc'[s]) /\ ~note'[s]
                       \/ /\ call' # NoCall /\ call'.svc = s /\ call'.stage \in {"poll", "recover"}
                          /\ svc'[s] = Overlap' /\ note'[s]
                    /\ ~Idle' => Plain(run'.orig[s])
                    /\ call' # NoCall /\ call'.svc = s => Plain(call'.from) /\ Plain(call'.to)
  BY DEF Tidy
<1>1. call \in Call /\ call # NoCall
  BY DEF Busy, NoCall, Types, TrafficTypes
<1>2. /\ call.svc \in Services /\ call.from \in Selector /\ call.to \in Selector
      /\ call.key \in Nat /\ Overlap \in Selector /\ ~Plain(Overlap)
  BY <1>1, CallSelectors DEF Overlap, Plain
<1>3. /\ call'.svc = call.svc /\ call'.from = call.from /\ call'.to = call.to /\ Overlap' = Overlap
      /\ call' # NoCall
  BY <1>1, CallKeeps DEF Types
<1>4. s \notin unsure
  BY <1>1, CallKeeps DEF Types
<1>5. /\ ~Idle' => Plain(run'.orig[s])
      /\ call' # NoCall /\ call'.svc = s => Plain(call'.from) /\ Plain(call'.to)
  BY <1>1, <1>3, <1>4 DEF Tidy, Idle
<1>6. CASE s # call.svc
  <2>1. svc'[s] = svc[s] /\ note'[s] = note[s]
    BY <1>1, <1>6, CallKeeps DEF Types
  <2> QED
    BY <1>1, <1>4, <1>5, <1>6, <2>1 DEF Tidy
<1>7. CASE s = call.svc
  <2>1. svc \in [Services -> Selector] /\ note \in [Services -> BOOLEAN]
    BY DEF Types, TrafficTypes
  <2>2. Plain(call.from) /\ Plain(call.to)
    BY <1>1, <1>4, <1>7 DEF Tidy
  <2>3. \/ Plain(svc[s]) /\ ~note[s]
        \/ call.stage \in {"poll", "recover"} /\ svc[s] = Overlap /\ note[s]
    BY <1>1, <1>4, <1>7 DEF Tidy
  <2>5. \/ Plain(svc'[s]) /\ ~note'[s]
        \/ call'.stage \in {"poll", "recover"} /\ svc'[s] = Overlap /\ note'[s]
    BY <1>1, <1>2, <1>7, <2>1, <2>2, <2>3, CallGraph DEF CallMoves
  <2> QED
    BY <1>3, <1>5, <1>7, <2>5
<1> QED
  BY <1>6, <1>7

(* Steps other than those of the call leave selectors and notes alone. *)
LEMMA SelectorFrame ==
  ASSUME [Next]_vars
  PROVE  \/ Busy /\ OverlapStep /\ UNCHANGED <<run, killed>>
         \/ UNCHANGED <<svc, note>>
<1>1. CASE DeployStart \/ RollbackStart
  BY <1>1 DEF DeployStart, RollbackStart
<1>2. CASE Continues
  BY <1>2, CommandFrame
<1>3. CASE Others
  BY <1>3, ReplicatesFrame, BalancesFrame, CronFrame DEF Others, Tick, vars
<1> QED
  BY <1>1, <1>2, <1>3, CommandSteps

(* The Services stay tidy but for the call in progress. *)
LEMMA TidyStep ==
  ASSUME Types, Aims, Called, Tidy, [Next]_vars
  PROVE  Tidy'
<1>0. /\ svc \in [Services -> Selector] /\ note \in [Services -> BOOLEAN]
      /\ (call = NoCall \/ call \in Call)
  BY DEF Types, TrafficTypes
<1>1. CASE Busy /\ OverlapStep /\ UNCHANGED <<run, killed>>
  BY <1>1, TidyOverlap
<1>2. CASE DeployStart \/ RollbackStart
  <2>1. Idle /\ UNCHANGED <<svc, note, call, unsure, killed>> /\ run'.orig = svc
    BY <1>2, RunStarts DEF DeployStart, RollbackStart
  <2>2. call = NoCall
    BY <2>1 DEF Called
  <2> QED
    BY <2>1, <2>2 DEF Tidy
<1>3. CASE Others /\ UNCHANGED <<svc, note>>
  <2>1. UNCHANGED <<run, killed>>
    BY <1>3, OthersFrame
  <2>2. CASE UNCHANGED <<call, unsure>>
    BY <1>3, <2>1, <2>2 DEF Tidy, Idle, Overlap
  <2>3. CASE ~UNCHANGED <<call, unsure>>
    <3>1. Busy /\ OverlapStep
      BY <1>3, <2>3, ReplicatesFrame, BalancesFrame, CronFrame DEF Others, Tick, vars
    <3> QED
      BY <1>1, <2>1, <3>1
  <2> QED
    BY <2>2, <2>3
<1>4. CASE Continues
  <2>0. UNCHANGED <<svc, note>> /\ ~Idle /\ run \in Run /\ run.orig \in [Services -> Selector]
        /\ run.to \in Builds /\ run.at \in Services
    BY <1>4, CommandFrame, RunContinues, RunFields DEF Types
  <2>1. CASE killed'
    BY <2>1 DEF Tidy
  <2>2. ~killed' => ~killed
    <3>1. killed' = TRUE \/ killed' = killed
      BY <1>4, RecordsFrame, BoundsFrame, ScalesFrame, CallsFrame
      DEF Continues, RunStep, Records, Bounds, Scales, Calls, Rollout, EdgeGates, EdgeGatesFail,
          EarlyFailure, ReadyGate, ServingGate, Recheck, LateFailure, AwaitIndex, ReadSelectors,
          UndoDone, CommitFails, AwaitFinalIndex, CompleteFails, SkipCleanup, WidenHpaWarns,
          Killed, UnwarmFails
    <3> QED
      BY <3>1
  <2>3. unsure \subseteq unsure'
    BY <1>4, DecidesFrame, RecordsFrame, BoundsFrame, ScalesFrame
    DEF Continues, RunStep, Decides, Records, Bounds, Scales, SwitchOpen, SwitchClose, UndoOpen,
        UndoClose, Open
  <2>4. CASE ~killed' /\ run' = NoRun
    <3>1. Ends /\ call' = NoCall /\ Idle'
      BY <1>4, <2>4, RunEnds DEF NoRun, Idle
    <3>2. run.stage \notin Moving
      BY <2>4, <3>1 DEF Ends, EdgeGatesFail, EarlyFailure, SkipCleanup, Killed, Unwarm,
         UnwarmFails, Park, ParkFails, Moving
    <3>3. call = NoCall
      BY <3>2 DEF Called
    <3> QED
      BY <2>0, <2>2, <2>3, <2>4, <3>1, <3>3 DEF Tidy
  <2>5. CASE ~killed' /\ run' # NoRun
    <3>1. \A s \in Services \ unsure' : s \in Services \ unsure /\ Plain(run.orig[s])
      BY <2>0, <2>2, <2>3, <2>5 DEF Tidy
    <3>2. \A s \in Services \ unsure' :
             \/ Plain(svc[s]) /\ ~note[s]
             \/ /\ call # NoCall /\ call.svc = s /\ call.stage \in {"poll", "recover"}
                /\ svc[s] = Overlap /\ note[s]
      BY <2>2, <2>3, <2>5 DEF Tidy
    <3>3. CASE SwitchOpen \/ UndoOpen
      <4>1. call = NoCall /\ run' = run
        BY <1>0, <3>3 DEF SwitchOpen, UndoOpen, Call, CallStages
      <4>2. PICK s \in Services, from \in Selector, to \in Selector :
               /\ Open(s, from, to)
               /\ \/ from = run.orig[s] /\ to = Target(run.orig[s], run.to)
                  \/ from = Target(run.orig[s], run.to) /\ to = run.orig[s]
        BY <2>0, <3>3, UndoNext, TargetSelector DEF SwitchOpen
      <4>3. call' # NoCall /\ call'.svc = s /\ call'.from = from /\ call'.to = to
        BY <4>2 DEF Open, NoCall
      <4>4. s \notin unsure' => Plain(from) /\ Plain(to)
        BY <2>0, <3>1, <4>2, PlainTarget
      <4> QED
        BY <2>0, <3>1, <3>2, <4>1, <4>3, <4>4 DEF Tidy
    <3>4. CASE SwitchClose \/ UndoClose
      <4>1. call' = NoCall /\ call.stage \in {"ok", "failed"}
        BY <3>4 DEF SwitchClose, UndoClose
      <4>2. run'.orig = run.orig
        BY <2>0, <3>4 DEF SwitchClose, UndoClose, Run
      <4> QED
        BY <2>0, <3>1, <3>2, <4>1, <4>2 DEF Tidy
    <3>5. CASE ~Calls
      <4>1. call' = call \/ call' = NoCall
        BY <1>4, <3>5, DecidesFrame, RecordsFrame, BoundsFrame, ScalesFrame
        DEF Continues, RunStep, Decides, Records, Bounds, Scales, Calls
      <4>2. call = NoCall
        <5>1. call # NoCall => ~UndoDone
          BY <1>0 DEF UndoDone, Call, CallStages
        <5>2. run.stage \in Moving => UndoDone
          BY <1>4, <2>5, <3>5, StageGraph DEF Moving, Onto, Along, Closing, Calls
        <5> QED
          BY <5>1, <5>2 DEF Called
      <4>3. run'.orig = run.orig \/ run'.orig = svc
        BY <1>4, <2>5, <3>5, StageGraph DEF Memory, Calls
      <4> QED
        BY <2>0, <3>1, <3>2, <4>1, <4>2, <4>3 DEF Tidy
    <3> QED
      BY <3>3, <3>4, <3>5 DEF Calls
  <2> QED
    BY <2>1, <2>4, <2>5
<1> QED
  BY <1>1, <1>2, <1>3, <1>4, CommandSteps, SelectorFrame

-----------------------------------------------------------------------------
(* Where the selectors are *)

(* Between calls a command meets the Services as they are. *)
LEMMA OutsideCalls ==
  ASSUME Types, Called, Continues, ~Calls, run' # NoRun
  PROVE  /\ call = NoCall /\ call' = NoCall /\ UNCHANGED <<svc, keys>>
         /\ run'.stage \in Moving =>
               /\ run.stage = "read" /\ run'.stage = "switch" /\ run'.at = 1
               /\ run'.patched = run.patched
               /\ run'.orig = (IF run.kind = "deploy" THEN svc ELSE run.orig)
         /\ run'.stage \in BeforeSwitch =>
               /\ run.stage \in BeforeSwitch /\ run'.patched = run.patched
               /\ run'.orig = run.orig \/ run'.orig = svc
         /\ run'.orig = run.orig \/ run'.orig = svc
<1>1. (call' = call \/ call' = NoCall) /\ UNCHANGED <<svc, keys>>
  BY CommandFrame, DecidesFrame, RecordsFrame, BoundsFrame, ScalesFrame
  DEF Continues, RunStep, Decides, Records, Bounds, Scales, Calls
<1>2. call # NoCall => ~UndoDone
  BY DEF UndoDone, Call, CallStages, Types, TrafficTypes
<1>3. run.stage \in Moving => UndoDone
  BY StageGraph DEF Moving, Onto, Along, Closing, Calls
<1>4. run'.stage \in Moving =>
        /\ run.stage = "read" /\ run'.stage = "switch" /\ run'.at = 1
        /\ run'.patched = run.patched
        /\ run'.orig = (IF run.kind = "deploy" THEN svc ELSE run.orig)
  BY StageGraph DEF Moving, Onto, Along, Closing, Calls
<1>5. run'.orig = run.orig \/ run'.orig = svc
  BY StageGraph DEF Memory, Calls
<1>6. run.stage \in RunStages
  BY RunContinues, RunFields DEF Types
<1>7. run'.stage \in BeforeSwitch => run.stage \in BeforeSwitch /\ run'.patched = run.patched
  BY <1>6, StageGraph DEF Memory, Onto, Along, Closing, Calls, BeforeSwitch, Moving
<1> QED
  BY <1>1, <1>2, <1>3, <1>4, <1>5, <1>7 DEF Called

(* What opening a call means. *)
LEMMA OpensCall ==
  ASSUME Types, Called, SwitchOpen \/ UndoOpen
  PROVE  /\ ~Idle /\ run.stage \in Moving /\ call = NoCall /\ call' # NoCall
         /\ UNCHANGED <<run, svc>> /\ keys' = keys + 1
         /\ call'.stage = "plan" /\ call'.key = keys + 1 /\ call'.svc \in Services
         /\ \/ run.stage = "switch" /\ call'.svc = run.at /\ call'.from = run.orig[run.at]
               /\ call'.to = Target(run.orig[run.at], run.to)
            \/ run.stage = "undo" /\ call'.svc \in run.patched
               /\ call'.from = Target(run.orig[call'.svc], run.to)
               /\ call'.to = run.orig[call'.svc]
<1>1. ~Idle /\ run.stage \in Moving /\ UNCHANGED <<run, svc>> /\ call = NoCall
  BY DEF SwitchOpen, UndoOpen, Open, Idle, Moving, Types, TrafficTypes, Call, CallStages
<1>2. CASE SwitchOpen
  <2>1. run.at \in Services
    BY <1>1, RunFields DEF Types
  <2> QED
    BY <1>1, <1>2, <2>1 DEF SwitchOpen, Open, NoCall
<1>3. CASE UndoOpen
  <2>1. PICK s \in run.patched :
           s \in Services /\ Open(s, Target(run.orig[s], run.to), run.orig[s])
    BY <1>3, UndoNext
  <2>2. run.stage = "undo"
    BY <1>3 DEF UndoOpen
  <2> QED
    BY <1>1, <2>1, <2>2 DEF Open, NoCall
<1> QED
  BY <1>2, <1>3

(* What closing one means. *)
LEMMA ClosesCall ==
  ASSUME Types, SwitchClose \/ UndoClose
  PROVE  /\ ~Idle /\ run.stage \in Moving /\ call \in Call /\ call' = NoCall /\ UNCHANGED <<svc, keys>>
         /\ run' \in Run /\ run'.orig = run.orig /\ run'.to = run.to
         /\ \/ run.stage = "switch" /\ call.stage \in {"ok", "failed"}
               /\ run'.patched = (IF call.stage = "ok" THEN run.patched \cup {run.at}
                                  ELSE run.patched)
               /\ \/ run'.stage = "switch" /\ run'.at = run.at + 1
                  \/ run'.stage \in {"undo", "commit"}
            \/ run.stage = "undo" /\ run'.stage = "undo"
               /\ run'.patched = run.patched \ {call.svc}
<1>1. ~Idle /\ run.stage \in Moving /\ call' = NoCall /\ UNCHANGED <<svc, keys>>
      /\ call.stage \in {"ok", "failed"}
  BY DEF SwitchClose, UndoClose, Idle, Moving
<1>2. call \in Call
  BY <1>1 DEF Types, TrafficTypes, NoCall
<1>3. Continues
  BY DEF Continues, RunStep, SwitchClose, UndoClose, DeployStart, RollbackStart, Idle
<1>4. run \in Run /\ run.at \in Services
  BY <1>1, RunFields DEF Types
<1>5. run' # NoRun
  BY <1>4 DEF SwitchClose, UndoClose, NoRun, Run
<1>6. run' \in Run /\ run'.to = run.to
  BY <1>3, <1>5, RunContinues
<1>7. CASE SwitchClose
  BY <1>1, <1>2, <1>4, <1>6, <1>7 DEF SwitchClose, Run
<1>8. CASE UndoClose
  BY <1>1, <1>2, <1>4, <1>6, <1>8 DEF UndoClose, Run
<1> QED
  BY <1>7, <1>8

(* The steps that matter to the selectors. *)
LEMMA SelectorCases ==
  ASSUME Types, Called, [Next]_vars
  PROVE  \/ Busy /\ OverlapStep /\ UNCHANGED <<run, keys, hurt>>
         \/ DeployStart \/ RollbackStart
         \/ SwitchOpen \/ UndoOpen
         \/ SwitchClose \/ UndoClose
         \/ Continues /\ ~Calls /\ run' # NoRun
         \/ Continues /\ run' = NoRun /\ call' = NoCall /\ UNCHANGED <<svc, keys>>
         \/ Others /\ UNCHANGED <<run, svc, call, keys>>
<1>1. CASE Continues /\ run' = NoRun /\ ~Calls
  <2>1. UNCHANGED <<svc, keys>>
    BY <1>1, CommandFrame, DecidesFrame, RecordsFrame, BoundsFrame, ScalesFrame
    DEF Continues, RunStep, Decides, Records, Bounds, Scales, Calls
  <2> QED
    BY <1>1, <2>1, RunEnds
<1>2. CASE Others
  <2>1. CASE Busy /\ OverlapStep /\ UNCHANGED <<retentionVars, run, bookkeeping>>
    BY <2>1, OverlapFrame
  <2>2. CASE ~(Busy /\ OverlapStep /\ UNCHANGED <<retentionVars, run, bookkeeping>>)
    BY <1>2, <2>2, ReplicatesFrame, BalancesFrame, CronFrame DEF Others, Tick, vars, Beside
  <2> QED
    BY <2>1, <2>2
<1> QED
  BY <1>1, <1>2, CommandSteps DEF Calls

(* Selectors are remembered as they are. *)
LEMMA UntouchedStep ==
  ASSUME Types, Called, Untouched, [Next]_vars
  PROVE  Untouched'
<1>1. CASE Busy /\ OverlapStep /\ UNCHANGED <<run, keys, hurt>>
  <2>1. ~Idle /\ run.stage \in Moving
    BY <1>1 DEF Called, Busy, NoCall
  <2> QED
    BY <1>1, <2>1 DEF Untouched, BeforeSwitch
<1>2. CASE DeployStart \/ RollbackStart
  <2>1. svc' = svc
    BY <1>2 DEF DeployStart, RollbackStart
  <2> QED
    BY <1>2, <2>1, RunStarts DEF Untouched
<1>3. CASE SwitchOpen \/ UndoOpen
  BY <1>3, OpensCall DEF Untouched, Idle
<1>4. CASE SwitchClose \/ UndoClose
  <2>1. run'.stage \in {"switch", "undo", "commit"}
    BY <1>4, ClosesCall
  <2> QED
    BY <2>1 DEF Untouched, BeforeSwitch, Moving
<1>5. CASE Continues /\ ~Calls /\ run' # NoRun
  <2>1. ~Idle
    BY <1>5, RunContinues
  <2> QED
    BY <1>5, <2>1, OutsideCalls DEF Untouched
<1>6. CASE run' = NoRun
  BY <1>6 DEF Untouched, Idle, NoRun
<1>7. CASE UNCHANGED <<run, svc, call, keys>>
  BY <1>7 DEF Untouched, Idle
<1> QED
  BY <1>1, <1>2, <1>3, <1>4, <1>5, <1>6, <1>7, SelectorCases

(* They are moved in order. *)
LEMMA SwitchingStep ==
  ASSUME Types, Called, Untouched, Switching, [Next]_vars
  PROVE  Switching'
<1>1. CASE Busy /\ OverlapStep /\ UNCHANGED <<run, keys, hurt>>
  <2>1. call \in Call /\ call # NoCall
    BY <1>1 DEF Busy, NoCall, Types, TrafficTypes
  <2>2. /\ call'.svc = call.svc /\ call'.from = call.from /\ call'.to = call.to /\ call' # NoCall
        /\ \A s \in Services : s # call.svc => svc'[s] = svc[s]
    BY <1>1, <2>1, CallKeeps DEF Types
  <2>3. SUFFICES ASSUME ~Idle, run.stage = "switch" PROVE Switching'
    BY <1>1 DEF Switching, Idle
  <2>4. run.at \in Nat /\ \A s \in Services : s \in Nat
    BY <2>3, RunFields DEF Types, Services
  <2>5. call.svc = run.at /\ \A s \in Services : s > run.at => s # call.svc
    BY <2>1, <2>3, <2>4 DEF Switching
  <2> QED
    BY <1>1, <2>1, <2>2, <2>3, <2>5 DEF Switching, Idle
<1>2. CASE DeployStart \/ RollbackStart
  BY <1>2, RunStarts DEF Switching
<1>3. CASE SwitchOpen \/ UndoOpen
  BY <1>3, OpensCall DEF Switching, Idle
<1>4. CASE SwitchClose \/ UndoClose
  <2>1. SUFFICES ASSUME run'.stage = "switch" PROVE Switching'
    BY DEF Switching
  <2>2. /\ ~Idle /\ run.stage = "switch" /\ call' = NoCall /\ UNCHANGED svc /\ run'.orig = run.orig
        /\ run'.at = run.at + 1 /\ run' \in Run
        /\ run'.patched \subseteq run.patched \cup {run.at}
    BY <1>4, <2>1, ClosesCall
  <2>3. /\ run.at \in Nat /\ run'.at \in Services /\ run.patched \in SUBSET Services
        /\ \A s \in Services : s \in Nat
    BY <2>2, RunFields DEF Types, Services, Run
  <2>4. \A s \in Services : s > run'.at => s > run.at
    BY <2>2, <2>3
  <2>5. \A s \in run'.patched : s < run'.at
    BY <2>2, <2>3 DEF Switching
  <2>6. svc[run'.at] = run.orig[run'.at]
    BY <2>2, <2>3 DEF Switching
  <2> QED
    BY <2>2, <2>4, <2>5, <2>6 DEF Switching
<1>5. CASE Continues /\ ~Calls /\ run' # NoRun
  <2>1. SUFFICES ASSUME run'.stage = "switch" PROVE Switching'
    BY DEF Switching
  <2>2. /\ call' = NoCall /\ UNCHANGED svc /\ run.stage = "read" /\ run'.at = 1
        /\ run'.patched = run.patched /\ run'.orig \in {svc, run.orig} /\ ~Idle
    BY <1>5, <2>1, OutsideCalls, RunContinues DEF Moving
  <2>3. run.orig = svc /\ run.patched = {}
    BY <2>2 DEF Untouched, BeforeSwitch, RunStages, Opening, Closing, Moving
  <2> QED
    BY <2>2, <2>3 DEF Switching
<1>6. CASE run' = NoRun
  BY <1>6 DEF Switching, Idle, NoRun
<1>7. CASE UNCHANGED <<run, svc, call, keys>>
  BY <1>7 DEF Switching, Idle
<1> QED
  BY <1>1, <1>2, <1>3, <1>4, <1>5, <1>6, <1>7, SelectorCases

(* What was moved stays moved until it is undone. *)
LEMMA MovedStep ==
  ASSUME Types, Called, Untouched, Switching, Moved, OnCourse, [Next]_vars
  PROVE  Moved'
<1>1. CASE Busy /\ OverlapStep /\ UNCHANGED <<run, keys, hurt>>
  <2>1. call \in Call /\ call # NoCall
    BY <1>1 DEF Busy, NoCall, Types, TrafficTypes
  <2>2. /\ call'.svc = call.svc /\ call'.from = call.from /\ call'.to = call.to /\ call' # NoCall
        /\ \A s \in Services : s # call.svc => svc'[s] = svc[s]
    BY <1>1, <2>1, CallKeeps DEF Types
  <2>3. ~Idle => run.patched \subseteq Services
    BY RunFields DEF Types
  <2> QED
    BY <1>1, <2>1, <2>2, <2>3 DEF Moved, Idle
<1>2. CASE DeployStart \/ RollbackStart
  BY <1>2, RunStarts DEF Moved, Moving
<1>3. CASE SwitchOpen \/ UndoOpen
  BY <1>3, OpensCall DEF Moved, Idle
<1>4. CASE SwitchClose \/ UndoClose
  <2>1. /\ ~Idle /\ run.stage \in Moving /\ call \in Call /\ call' = NoCall /\ UNCHANGED svc
        /\ run'.orig = run.orig /\ run'.to = run.to /\ call # NoCall
    BY <1>4, ClosesCall DEF NoCall, Call, CallStages
  <2>2. CASE run.stage = "undo"
    <3>1. run'.patched = run.patched \ {call.svc}
      BY <1>4, <2>2, ClosesCall
    <3> QED
      BY <2>1, <3>1 DEF Moved
  <2>3. CASE run.stage = "switch"
    <3>1. run'.patched = (IF call.stage = "ok" THEN run.patched \cup {run.at} ELSE run.patched)
      BY <1>4, <2>3, ClosesCall
    <3>2. call.svc = run.at /\ (call.stage = "ok" => svc[run.at] = Target(run.orig[run.at], run.to))
          /\ \A s \in run.patched : s # run.at
      <4>1. run.at \in Nat /\ run.patched \subseteq Nat
        BY <2>1, RunFields DEF Types, Services
      <4> QED
        BY <2>1, <2>3, <4>1 DEF Switching, OnCourse
    <3> QED
      BY <2>1, <3>1, <3>2 DEF Moved
  <2> QED
    BY <2>1, <2>2, <2>3 DEF Moving
<1>5. CASE Continues /\ ~Calls /\ run' # NoRun
  <2>1. SUFFICES ASSUME run'.stage \in Moving PROVE Moved'
    BY DEF Moved, Moving
  <2>2. /\ call' = NoCall /\ run.stage = "read" /\ run'.patched = run.patched /\ ~Idle
    BY <1>5, <2>1, OutsideCalls, RunContinues
  <2>3. run.patched = {}
    BY <2>2 DEF Untouched, BeforeSwitch, RunStages, Opening, Closing, Moving
  <2> QED
    BY <2>2, <2>3 DEF Moved
<1>6. CASE run' = NoRun
  BY <1>6 DEF Moved, Idle, NoRun
<1>7. CASE UNCHANGED <<run, svc, call, keys>>
  BY <1>7 DEF Moved, Idle
<1> QED
  BY <1>1, <1>2, <1>3, <1>4, <1>5, <1>6, <1>7, SelectorCases

(* A call finds its Service where it left it, or where its last swap, whose *)
(* answer was lost, put it.                                                 *)
LEMMA OnCourseStep ==
  ASSUME Types, Called, Switching, Moved, OnCourse, [Next]_vars
  PROVE  OnCourse'
<1>1. CASE Busy /\ OverlapStep /\ UNCHANGED <<run, keys, hurt>>
  <2>1. call \in Call /\ call # NoCall
    BY <1>1 DEF Busy, NoCall, Types, TrafficTypes
  <2>2. /\ call'.svc = call.svc /\ call'.from = call.from /\ call'.to = call.to /\ call' # NoCall
        /\ Overlap' = Overlap
    BY <1>1, <2>1, CallKeeps DEF Types
  <2>3. svc \in [Services -> Selector] /\ call.svc \in Services
    BY <2>1, CallSelectors DEF Types, TrafficTypes
  <2>4. /\ call.stage \in {"plan", "label", "stage"} => svc[call.svc] = call.from
        /\ call.stage = "poll" => svc[call.svc] \in {call.from, Overlap}
        /\ call.stage = "recover" => svc[call.svc] \in {call.from, Overlap, call.to}
        /\ call.stage = "ok" => svc[call.svc] = call.to
        /\ call.stage \in {"label", "stage", "poll", "recover"} => call.svc \in NegServices
    BY <2>1 DEF OnCourse
  <2>5. /\ call'.stage \in {"plan", "label", "stage"} => svc'[call.svc] = call.from
        /\ call'.stage = "poll" => svc'[call.svc] \in {call.from, Overlap}
        /\ call'.stage = "recover" => svc'[call.svc] \in {call.from, Overlap, call.to}
        /\ call'.stage = "ok" => svc'[call.svc] = call.to
        /\ call'.stage \in {"label", "stage", "poll", "recover"} => call.svc \in NegServices
    BY <1>1, <2>1, <2>3, <2>4, CallGraph DEF CallMoves
  <2> QED
    BY <2>2, <2>5 DEF OnCourse
<1>2. CASE DeployStart \/ RollbackStart
  <2>1. call' = NoCall
    BY <1>2 DEF DeployStart, RollbackStart, Called, Idle
  <2> QED
    BY <2>1 DEF OnCourse
<1>3. CASE SwitchOpen \/ UndoOpen
  <2>1. svc[call'.svc] = call'.from /\ call'.stage = "plan" /\ svc' = svc
    BY <1>3, OpensCall DEF Switching, Moved
  <2> QED
    BY <2>1 DEF OnCourse
<1>4. CASE SwitchClose \/ UndoClose
  BY <1>4, ClosesCall DEF OnCourse
<1>5. CASE Continues /\ ~Calls /\ run' # NoRun
  BY <1>5, OutsideCalls DEF OnCourse
<1>6. CASE call' = NoCall
  BY <1>6 DEF OnCourse
<1>7. CASE UNCHANGED <<run, svc, call, keys>>
  BY <1>7 DEF OnCourse, Overlap
<1> QED
  BY <1>1, <1>2, <1>3, <1>4, <1>5, <1>6, <1>7, SelectorCases

(* Temporary labels are handed out once. *)
LEMMA FreshKeysStep ==
  ASSUME Types, Called, Switching, Moved, FreshKeys, [Next]_vars
  PROVE  FreshKeys'
<1>0. keys \in Nat /\ svc \in [Services -> Selector]
  BY DEF Types, TrafficTypes
<1>00. \A s \in Services : svc[s].keys \subseteq Nat
  BY <1>0 DEF Selector
<1>1. CASE Busy /\ OverlapStep /\ UNCHANGED <<run, keys, hurt>>
  <2>1. call \in Call /\ call # NoCall
    BY <1>1 DEF Busy, NoCall, Types, TrafficTypes
  <2>2. /\ call'.svc = call.svc /\ call'.from = call.from /\ call'.to = call.to /\ call' # NoCall
        /\ call'.key = call.key /\ \A s \in Services : s # call.svc => svc'[s] = svc[s]
    BY <1>1, <2>1, CallKeeps DEF Types
  <2>3. call.svc \in Services /\ call.from.keys \subseteq Nat /\ call.to.keys \subseteq Nat
    BY <2>1, CallSelectors DEF Selector
  <2>4. Overlap.keys = call.from.keys \cup {keys}
    BY <2>1 DEF Overlap, FreshKeys
  <2>5. svc'[call.svc] \in {svc[call.svc], call.from, call.to, Overlap}
    BY <1>0, <1>1, <2>1, <2>3, CallGraph
  <2>6. \A s \in Services : \A k \in svc'[s].keys : k <= keys
    <3>1. SUFFICES ASSUME NEW s \in Services, NEW k \in svc'[s].keys PROVE k <= keys
      OBVIOUS
    <3>2. \A i \in call.from.keys \cup call.to.keys \cup Overlap.keys : i <= keys
      BY <1>0, <2>1, <2>3, <2>4 DEF FreshKeys
    <3> QED
      BY <2>2, <2>5, <3>1, <3>2 DEF FreshKeys
  <2> QED
    BY <1>1, <2>1, <2>2, <2>6 DEF FreshKeys, Idle
<1>2. CASE DeployStart \/ RollbackStart
  <2>1. UNCHANGED <<svc, keys, call>> /\ run'.orig = svc /\ Idle
    BY <1>2, RunStarts DEF DeployStart, RollbackStart
  <2>2. call = NoCall
    BY <2>1 DEF Called
  <2> QED
    BY <2>1, <2>2 DEF FreshKeys
<1>3. CASE SwitchOpen \/ UndoOpen
  <2>1. ~Idle /\ run.orig \in [Services -> Selector] /\ run.to \in Builds /\ run.at \in Services
    BY <1>3, OpensCall, RunFields DEF Types
  <2>2. /\ UNCHANGED <<svc, run>> /\ keys' = keys + 1 /\ call'.key = keys + 1
        /\ call'.svc \in Services
        /\ call'.from \in {run.orig[call'.svc], Target(run.orig[call'.svc], run.to)}
        /\ call'.to \in {run.orig[call'.svc], Target(run.orig[call'.svc], run.to)}
    BY <1>3, OpensCall
  <2>3. Target(run.orig[call'.svc], run.to).keys = run.orig[call'.svc].keys
    BY <2>1, <2>2, TargetSelector
  <2>4. \A s \in Services : \A k \in run.orig[s].keys : k <= keys /\ k \in Nat
    BY <2>1 DEF FreshKeys, Selector
  <2>5. \A s \in Services : \A k \in svc[s].keys : k <= keys /\ k \in Nat
    BY <1>00 DEF FreshKeys
  <2>6. \A k \in call'.from.keys \cup call'.to.keys : k < keys'
    BY <1>0, <2>2, <2>3, <2>4
  <2>7. /\ \A s \in Services : \A k \in svc'[s].keys : k <= keys'
        /\ \A s \in Services : \A k \in run'.orig[s].keys : k <= keys'
    BY <1>0, <2>2, <2>4, <2>5
  <2> QED
    BY <2>2, <2>6, <2>7 DEF FreshKeys
<1>4. CASE SwitchClose \/ UndoClose
  BY <1>4, ClosesCall DEF FreshKeys
<1>5. CASE Continues /\ ~Calls /\ run' # NoRun
  <2>1. ~Idle
    BY <1>5, RunContinues
  <2> QED
    BY <1>5, <2>1, OutsideCalls DEF FreshKeys
<1>6. CASE run' = NoRun /\ call' = NoCall /\ UNCHANGED <<svc, keys>>
  BY <1>6 DEF FreshKeys, Idle, NoRun
<1>7. CASE UNCHANGED <<run, svc, call, keys>>
  BY <1>7 DEF FreshKeys, Idle
<1> QED
  BY <1>1, <1>2, <1>3, <1>4, <1>5, <1>6, <1>7, SelectorCases

(* Generic Services go from build to build. *)
LEMMA GenericStep ==
  ASSUME Types, Called, Switching, Moved, OnCourse, Generic, [Next]_vars
  PROVE  Generic'
<1>0. svc \in [Services -> Selector]
  BY DEF Types, TrafficTypes
<1>1. CASE Busy /\ OverlapStep /\ UNCHANGED <<run, keys, hurt>>
  <2>1. call \in Call /\ call # NoCall /\ ~Idle /\ run.stage \in Moving
    BY <1>1 DEF Busy, NoCall, Types, TrafficTypes, Called
  <2>2. /\ run.orig \in [Services -> Selector] /\ run.to \in Builds /\ run.at \in Services
        /\ run.patched \in SUBSET Services /\ call.svc \in Services
    BY <2>1, RunFields, CallSelectors DEF Types
  <2>3. \A s \in Services : s # call.svc => svc'[s] = svc[s]
    BY <1>1, <2>1, CallKeeps DEF Types
  <2>4. /\ call.from \in {run.orig[call.svc], Target(run.orig[call.svc], run.to)}
        /\ call.to \in {run.orig[call.svc], Target(run.orig[call.svc], run.to)}
    BY <2>1 DEF Switching, Moved, Moving
  <2>5. /\ Target(run.orig[call.svc], run.to).keys = run.orig[call.svc].keys
        /\ Target(run.orig[call.svc], run.to).ver = run.to
    BY <2>2, TargetSelector
  <2>6. call.svc \notin NegServices => svc'[call.svc] \in {svc[call.svc], call.to}
    BY <1>0, <1>1, <2>1, <2>2, CallGraph DEF CallMoves, OnCourse
  <2>7. \A s \in Services \ NegServices : svc'[s].keys = {} /\ svc'[s].ver \in Builds
    BY <2>1, <2>2, <2>3, <2>4, <2>5, <2>6 DEF Generic
  <2> QED
    BY <1>1, <2>7 DEF Generic, Idle
<1>2. CASE DeployStart \/ RollbackStart
  <2>1. svc' = svc /\ run'.orig = svc
    BY <1>2, RunStarts DEF DeployStart, RollbackStart
  <2> QED
    BY <2>1 DEF Generic
<1>3. CASE SwitchOpen \/ UndoOpen
  BY <1>3, OpensCall DEF Generic, Idle
<1>4. CASE SwitchClose \/ UndoClose
  BY <1>4, ClosesCall DEF Generic
<1>5. CASE Continues /\ ~Calls /\ run' # NoRun
  <2>1. ~Idle
    BY <1>5, RunContinues
  <2> QED
    BY <1>5, <2>1, OutsideCalls DEF Generic
<1>6. CASE run' = NoRun /\ UNCHANGED svc
  BY <1>6 DEF Generic, Idle, NoRun
<1>7. CASE UNCHANGED <<run, svc, call, keys>>
  BY <1>7 DEF Generic, Idle
<1> QED
  BY <1>1, <1>2, <1>3, <1>4, <1>5, <1>6, <1>7, SelectorCases

-----------------------------------------------------------------------------
(* Who carries the traffic *)

(* A step of the call in progress. *)
CallSteps == Busy /\ OverlapStep /\ UNCHANGED <<retentionVars, run, bookkeeping>>

(* Ready pods stay, with their labels, unless they are lost or retired. *)
LEMMA PodsStay ==
  ASSUME Types, [Next]_vars, ~CallSteps, NEW b \in Builds, NEW s \in Services, s \notin hurt',
         ready[b][s] > 0
  PROVE  \/ ready'[b][s] > 0 /\ label[s][b] \subseteq label'[s][b]
         \/ CronScale /\ Beside /\ rep'[b][s] = 0 /\ rep[b][s] > 0
<1>0. /\ CapacityTypes /\ label \in [Services -> [Builds -> SUBSET Nat]]
      /\ ready[b][s] \in 0 .. Capacity /\ rep[b][s] \in 0 .. Capacity /\ ready[b][s] <= rep[b][s]
  BY DEF Types, TrafficTypes, CapacityTypes
<1>1. CASE UNCHANGED <<ready, label>>
  BY <1>1
<1>2. CASE DeployStart
  <2>1. label' = label /\ ready'[b][s] = IF b = New /\ ready[New][s] > ChartMin THEN ChartMin
                                         ELSE ready[b][s]
    BY <1>2, InstallEffect DEF DeployStart
  <2> QED
    BY <2>1, PromotionAssumption
<1>3. CASE Scales /\ ~UNCHANGED <<ready, label>>
  <2>1. PICK c \in Builds, n \in 1 .. Capacity : Scale(c, run.at, n)
    BY <1>3, ScaleTargets
  <2>2. run.at \in Services /\ n \in 0 .. Capacity /\ n > 0
    BY <1>3, <2>1, RunsWhen, PromotionAssumption
  <2>3. /\ rep' = [rep EXCEPT ![c][run.at] = n]
        /\ ready' = [ready EXCEPT ![c][run.at] = IF @ > n THEN n ELSE @]
        /\ label' = label
    BY <2>1, <2>2 DEF Scale
  <2>4. \A d \in Builds, t \in Services :
           ready'[d][t] = IF d = c /\ t = run.at /\ ready[c][run.at] > n THEN n ELSE ready[d][t]
    <3>1. ready \in [Builds -> [Services -> 0 .. Capacity]] /\ ready[c][run.at] \in 0 .. Capacity
      BY <1>0, <2>2 DEF CapacityTypes
    <3>2. PICK m \in 0 .. Capacity : m = (IF ready[c][run.at] > n THEN n ELSE ready[c][run.at])
      BY <2>2, <3>1
    <3>3. ready' = [ready EXCEPT ![c][run.at] = m]
      BY <2>3, <3>1, <3>2
    <3>4. \A d \in Builds, t \in Services :
             ready'[d][t] = IF d = c /\ t = run.at THEN m ELSE ready[d][t]
      BY <2>2, <3>1, <3>3, CountReplaced
    <3> QED
      BY <3>2, <3>4
  <2> QED
    BY <2>2, <2>3, <2>4
<1>4. CASE Replicates
  <2>1. CASE \E c \in Builds : Autoscale(c)
    <3>1. PICK c \in Builds : Autoscale(c)
      BY <2>1
    <3>2. ready'[b][s] = IF b = c /\ ready[c][s] > Floor(c, s) THEN Floor(c, s) ELSE ready[b][s]
      BY <3>1, AutoscaleEffect
    <3>3. Floor(b, s) \in 0 .. Capacity /\ Floor(b, s) # 0
      BY <1>0, FloorRange, PromotionAssumption
    <3>4. label' = label
      BY <3>1 DEF Autoscale
    <3> QED
      BY <3>2, <3>3, <3>4, PromotionAssumption
  <2>2. CASE \E c \in Builds : PodsStart(c)
    <3>1. PICK c \in Builds : PodsStart(c)
      BY <2>2
    <3>2. ready'[b][s] = IF b = c THEN rep[b][s] ELSE ready[b][s]
      BY <1>0, <3>1 DEF PodsStart, CapacityTypes
    <3>3. label' = label
      BY <3>1 DEF PodsStart
    <3> QED
      BY <1>0, <3>2, <3>3, PromotionAssumption
  <2>3. CASE \E c \in Builds, t \in Services : PodsLost(c, t)
    <3>1. PICK c \in Builds, t \in Services : PodsLost(c, t)
      BY <2>3
    <3>2. t # s
      BY <3>1 DEF PodsLost
    <3>3. ready'[b][s] = ready[b][s]
      <4>1. ready' = [ready EXCEPT ![c][t] = 0] /\ 0 \in 0 .. Capacity
        BY <3>1, PromotionAssumption DEF PodsLost
      <4>2. ready \in [Builds -> [Services -> 0 .. Capacity]]
        BY <1>0 DEF CapacityTypes
      <4> QED
        BY <3>2, <4>1, <4>2, CountReplaced
    <3>4. label'[s][b] = label[s][b]
      <4>1. label' = [label EXCEPT ![t][c] = {}]
        BY <3>1 DEF PodsLost
      <4> QED
        BY <1>0, <3>2, <4>1, LabelsDropped
    <3> QED
      BY <3>3, <3>4
  <2> QED
    BY <1>4, <2>1, <2>2, <2>3 DEF Replicates
<1>5. CASE (CronStep \/ CronFails \/ Project) /\ Beside /\ ~UNCHANGED <<ready, label>>
  <2>1. CronScale
    BY <1>5 DEF CronStep, CronStart, CronListDeployments, CronListServices, CronListHpas,
       CronVerify, CronFails, Project
  <2>2. PICK d \in cron.fresh :
          /\ d[1] \in Builds /\ d[2] \in Services
          /\ rep' = [rep EXCEPT ![d[1]][d[2]] = 0]
          /\ ready' = [ready EXCEPT ![d[1]][d[2]] = 0]
          /\ label' = [label EXCEPT ![d[2]][d[1]] = {}]
    BY <1>5, <2>1, CronScaleEffect
  <2>3. /\ rep'[b][s] = IF b = d[1] /\ s = d[2] THEN 0 ELSE rep[b][s]
        /\ ready'[b][s] = IF b = d[1] /\ s = d[2] THEN 0 ELSE ready[b][s]
    <3>1. 0 \in 0 .. Capacity
      BY PromotionAssumption
    <3>2. /\ rep \in [Builds -> [Services -> 0 .. Capacity]]
          /\ ready \in [Builds -> [Services -> 0 .. Capacity]]
      BY <1>0 DEF CapacityTypes
    <3> QED
      BY <2>2, <3>1, <3>2, CountReplaced
  <2>4. label'[s][b] = IF s = d[2] /\ b = d[1] THEN {} ELSE label[s][b]
    BY <1>0, <2>2, LabelsDropped
  <2>5. rep[b][s] > 0
    BY <1>0, PromotionAssumption
  <2> QED
    BY <1>5, <2>1, <2>3, <2>4, <2>5
<1>6. CASE Decides \/ Records \/ Bounds \/ Calls
  BY <1>1, <1>6, DecidesFrame, RecordsFrame, BoundsFrame, CallsFrame
<1>7. CASE Tick \/ UNCHANGED vars
  BY <1>1, <1>7 DEF Tick, vars
<1>8. CASE Balances
  BY <1>1, <1>8, BalancesFrame
<1> QED
  BY <1>1, <1>2, <1>3, <1>4, <1>5, <1>6, <1>7, <1>8, StepGroups DEF CallSteps

(* Only a call takes a finished switch back. *)
LEMMA AbruptStays ==
  ASSUME [Next]_vars, ~CallSteps
  PROVE  abrupt' = abrupt
<1>1. CASE DeployStart
  BY <1>1 DEF DeployStart
<1>2. CASE Tick \/ UNCHANGED vars
  BY <1>2 DEF Tick, vars
<1> QED
  BY <1>1, <1>2, StepGroups, DecidesFrame, RecordsFrame, BoundsFrame, ScalesFrame, CallsFrame,
     BalancesFrame, ReplicatesFrame, CronFrame
  DEF CallSteps

(* Pools that lost pods stay known. *)
LEMMA HurtStays ==
  ASSUME [Next]_vars
  PROVE  hurt \subseteq hurt'
<1>1. CASE DeployStart
  BY <1>1 DEF DeployStart
<1>2. CASE Replicates
  BY <1>2 DEF Replicates, PodsStart, PodsLost, Autoscale
<1>3. CASE Tick \/ UNCHANGED vars
  BY <1>3 DEF Tick, vars
<1> QED
  BY <1>1, <1>2, <1>3, StepGroups, DecidesFrame, RecordsFrame, BoundsFrame, ScalesFrame, CallsFrame
  DEF Beside

(* Those of a build that serves or is about to stay. *)
LEMMA ServingStays ==
  ASSUME Types, Aims, Fenced, Sparing, [Next]_vars, ~CallSteps,
         NEW b \in Builds, NEW s \in Services, s \notin hurt', ready[b][s] > 0,
         \/ b \in Selected(s)
         \/ ~Idle /\ b = run.to /\ run.stage # "protect"
         \/ ~Idle /\ run.stage \in Moving
  PROVE  ready'[b][s] > 0 /\ label[s][b] \subseteq label'[s][b]
<1> SUFFICES ASSUME CronScale, rep'[b][s] = 0, rep[b][s] > 0 PROVE FALSE
  BY PodsStay
<1>1. /\ \A t \in Services : b \notin Selected(t)
      /\ Idle \/ run.to # b \/ run.stage = "protect"
      /\ <<b, s>> \in cron.fresh
  BY SparesServing
<1>2. ~Idle /\ run.stage \in Moving => cron.fresh = {}
  BY NothingFresh
<1> QED
  BY <1>1, <1>2

(* The load balancer keeps what is selected. *)
LEMMA BackendsStay ==
  ASSUME Types, [Next]_vars, NEW s \in NegServices, NEW b \in Selected(s), b \in lb[s], b \in gfe[s]
  PROVE  b \in lb'[s] /\ b \in gfe'[s]
<1>1. CASE Balances
  <2>1. PICK t \in Services : LbAttach(t) \/ LbDetach(t) \/ GfeSync(t)
    BY <1>1, OverlapAssumption DEF Balances
  <2>2. lb \in [Services -> SUBSET Builds] /\ gfe \in [Services -> SUBSET Builds] /\ s \in Services
    BY OverlapAssumption DEF Types, TrafficTypes
  <2> QED
    BY <2>1, <2>2 DEF LbAttach, LbDetach, GfeSync
<1>2. CASE UNCHANGED <<lb, gfe>>
  BY <1>2
<1>3. CASE DeployStart
  BY <1>2, <1>3 DEF DeployStart
<1>4. CASE Tick \/ UNCHANGED vars
  BY <1>2, <1>4 DEF Tick, vars
<1> QED
  BY <1>1, <1>2, <1>3, <1>4, StepGroups, DecidesFrame, RecordsFrame, BoundsFrame, ScalesFrame,
     CallsFrame, OverlapFrame, ReplicatesFrame, CronFrame

(* What a call does to the labels. *)
LEMMA LabelsOfCall ==
  ASSUME call \in Call, OverlapStep, label \in [Services -> [Builds -> SUBSET Nat]]
  PROVE  /\ \A s \in Services : s # call.svc => label'[s] = label[s]
         /\ \A b \in Builds : label[call.svc][b] \ {call.key} \subseteq label'[call.svc][b]
         /\ LabelPods => \A b \in Builds : /\ label[call.svc][b] \subseteq label'[call.svc][b]
                                           /\ b \in Matches(call.svc, call.from) =>
                                                 call.key \in label'[call.svc][b]
         /\ LabelFails => \A b \in Builds : label[call.svc][b] \subseteq label'[call.svc][b]
<1>0. call.svc \in Services
  BY CallSelectors
<1>1. CASE UNCHANGED label /\ ~LabelPods /\ ~LabelFails
  BY <1>1
<1>2. LabelPods =>
        /\ \A s \in Services : s # call.svc => label'[s] = label[s]
        /\ \A b \in Builds : /\ label[call.svc][b] \subseteq label'[call.svc][b]
                             /\ b \in Matches(call.svc, call.from) =>
                                   call.key \in label'[call.svc][b]
  BY <1>0 DEF LabelPods
<1>3. LabelFails =>
        /\ \A s \in Services : s # call.svc => label'[s] = label[s]
        /\ \A b \in Builds : label[call.svc][b] \subseteq label'[call.svc][b]
  BY <1>0 DEF LabelFails
<1>4. Cleanup =>
        /\ \A s \in Services : s # call.svc => label'[s] = label[s]
        /\ \A b \in Builds : label[call.svc][b] \ {call.key} \subseteq label'[call.svc][b]
  BY <1>0 DEF Cleanup
<1>5. LabelPods \/ LabelFails \/ Cleanup \/ UNCHANGED label
  BY CallGraph
<1>6. CASE LabelPods \/ LabelFails
  <2>1. ~(LabelPods /\ LabelFails)
    BY DEF LabelPods, LabelFails, Stage, Call
  <2> QED
    BY <1>2, <1>3, <1>6, <2>1
<1> QED
  BY <1>1, <1>4, <1>5, <1>6

(* A call keeps a carrier for its Service at every step. *)
LEMMA CarriedOverlap ==
  ASSUME Types, Called, Selectors, Carried, CallSteps
  PROVE  Carried'
<1>1. call \in Call /\ call # NoCall /\ ~Idle /\ run.stage \in Moving /\ OverlapStep
  BY DEF CallSteps, Busy, NoCall, Types, TrafficTypes, Called
<1>2. /\ UNCHANGED <<run, hurt, ready, lb, gfe>>
      /\ call'.svc = call.svc /\ call'.from = call.from /\ call'.to = call.to /\ call' # NoCall
      /\ call'.key = call.key /\ Overlap' = Overlap
      /\ \A s \in Services : s # call.svc => svc'[s] = svc[s]
  BY <1>1, CallKeeps, OverlapFrame DEF CallSteps, Types
<1>3. /\ svc \in [Services -> Selector] /\ label \in [Services -> [Builds -> SUBSET Nat]]
      /\ lb \in [Services -> SUBSET Builds] /\ call.svc \in Services
  BY <1>1, CallSelectors DEF Types, TrafficTypes
<1>4. \A s \in Services : s # call.svc => label'[s] = label[s]
  BY <1>1, <1>3, LabelsOfCall
<1>9. abrupt \subseteq abrupt'
  BY <1>1, CallGraph
<1> SUFFICES ASSUME NEW s \in Services \ (hurt \cup abrupt), s \notin abrupt'
             PROVE  /\ \E b \in Builds : Carries(b, s, svc[s])'
                    /\ ~Idle' /\ run'.stage \notin {"protect", "scale", "widen", "rollout"} =>
                          ready'[run'.to][s] > 0
                    /\ ~Idle' /\ run'.kind = "deploy" /\ run'.stage = "scale" =>
                          ready'[run'.to][s] > 0
                    /\ ~Idle' /\ run'.stage \in Moving /\ s \notin NegServices =>
                          Matches(s, run.orig[s])' # {}
                    /\ call' # NoCall /\ call'.svc = s =>
                          /\ call'.stage \in {"stage", "poll", "recover"}
                             /\ svc'[s] \in {call.from, Overlap} =>
                                \E b \in Builds : Carries(b, s, call.from)' /\ call'.key \in label'[s][b]
                          /\ call'.stage \in {"label", "stage", "poll"} => Matches(s, call.to)' # {}
  BY <1>2, <1>9 DEF Carried
<1>5. /\ ~Idle' /\ run'.stage \notin {"protect", "scale", "widen", "rollout"} =>
            ready'[run'.to][s] > 0
      /\ ~Idle' /\ run'.kind = "deploy" /\ run'.stage = "scale" => ready'[run'.to][s] > 0
  BY <1>2 DEF Carried, Idle
<1>6. s \notin NegServices => Matches(s, run.orig[s])' # {}
  <2>1. SUFFICES ASSUME s \notin NegServices PROVE Matches(s, run.orig[s])' # {}
    OBVIOUS
  <2>2. Matches(s, run.orig[s]) # {} /\ run.orig[s].keys = {}
    BY <1>1, <2>1 DEF Carried, Selectors, Generic
  <2> QED
    BY <1>2, <2>2 DEF Matches
<1>7. CASE s # call.svc
  <2>1. PICK b \in Builds : Carries(b, s, svc[s])
    BY DEF Carried
  <2>2. Carries(b, s, svc[s])'
    BY <1>2, <1>4, <1>7, <2>1 DEF Carries, Matches
  <2> QED
    BY <1>2, <1>5, <1>6, <1>7, <2>2
<1>8. CASE s = call.svc
  <2> SUFFICES /\ \E b \in Builds : Carries(b, s, svc[s])'
               /\ call'.stage \in {"stage", "poll", "recover"} /\ svc'[s] \in {call.from, Overlap} =>
                     \E b \in Builds : Carries(b, s, call.from)' /\ call.key \in label'[s][b]
               /\ call'.stage \in {"label", "stage", "poll"} => Matches(s, call.to)' # {}
    BY <1>2, <1>5, <1>6
  <2>1. PICK b \in Builds : Carries(b, s, svc[s])
    BY DEF Carried
  <2>2. /\ call.stage \in {"stage", "poll", "recover"} /\ svc[s] \in {call.from, Overlap} =>
              \E c \in Builds : Carries(c, s, call.from) /\ call.key \in label[s][c]
        /\ call.stage \in {"label", "stage", "poll"} => Matches(s, call.to) # {}
    BY <1>1, <1>8 DEF Carried
  <2>3. ASSUME \A c \in Builds : label[s][c] \subseteq label'[s][c]
        PROVE  /\ \A c \in Builds, sel \in Selector : c \in Matches(s, sel) =>
                      /\ ready'[c][s] > 0 /\ sel.ver \in {c, AnyVersion}
                      /\ sel.keys \subseteq label'[s][c]
               /\ svc'[s] = svc[s] => Carries(b, s, svc[s])'
               /\ \A c \in Builds : Carries(c, s, call.from) => Carries(c, s, call.from)'
               /\ Matches(s, call.to) # {} => Matches(s, call.to)' # {}
    <3>1. call.from \in Selector /\ call.to \in Selector
      BY <1>1, CallSelectors
    <3> QED
      BY <1>2, <1>3, <2>1, <2>3, <3>1 DEF Matches, Carries
  <2>4. \A k \in call.from.keys \cup call.to.keys : k # call.key
    <3>1. call.key = keys /\ keys \in Nat /\ \A k \in call.from.keys \cup call.to.keys : k < keys
      BY <1>1 DEF Selectors, FreshKeys, Types, TrafficTypes
    <3>2. call.from.keys \cup call.to.keys \subseteq Nat
      BY <1>1, CallSelectors DEF Selector
    <3> QED
      BY <3>1, <3>2
  <2>5. CASE SwapGeneric /\ CallMoves("plan", "ok") /\ call.svc \notin NegServices
             /\ svc' = [svc EXCEPT ![call.svc] = call.to] /\ UNCHANGED label
    <3>1. svc'[s] = call.to
      BY <1>3, <1>8, <2>5
    <3>2. run.orig[s] \in Selector /\ run.to \in Builds /\ run.orig[s].keys = {}
      BY <1>1, <1>8, <2>5, RunFields DEF Types, Selectors, Generic
    <3>3. CASE run.stage = "switch"
      <4>1. call.to = Target(run.orig[s], run.to)
        BY <1>1, <1>8, <3>3 DEF Selectors, Switching
      <4>2. call.to.ver = run.to /\ call.to.keys = {}
        BY <3>2, <4>1, TargetSelector
      <4>3. ready[run.to][s] > 0
        BY <1>1, <3>3 DEF Carried
      <4>4. Carries(run.to, s, svc[s])'
        BY <1>2, <1>8, <2>5, <3>1, <3>2, <4>2, <4>3 DEF Carries, Matches
      <4> QED
        BY <1>2, <2>5, <3>2, <4>4 DEF CallMoves
    <3>4. CASE run.stage = "undo"
      <4>1. call.to = run.orig[s]
        BY <1>1, <1>8, <3>4 DEF Selectors, Moved
      <4>2. Matches(s, run.orig[s]) # {}
        BY <1>1, <1>8, <2>5 DEF Carried
      <4>3. \E c \in Builds : Carries(c, s, svc[s])'
        BY <1>2, <1>8, <2>5, <3>1, <4>1, <4>2 DEF Carries, Matches
      <4> QED
        BY <2>5, <4>3 DEF CallMoves
    <3> QED
      BY <1>1, <3>3, <3>4 DEF Moving
  <2>6. CASE UNCHANGED <<svc, label>> /\ (\/ CallMoves("plan", "failed")
                                          \/ CallMoves("recover", "failed"))
    BY <2>3, <2>6 DEF CallMoves
  <2>7. CASE CallMoves("plan", "label") /\ UNCHANGED <<svc, label>> /\ Matches(call.svc, call.to) # {}
    BY <1>8, <2>3, <2>7 DEF CallMoves
  <2>8. CASE LabelPods /\ CallMoves("label", "stage") /\ UNCHANGED svc
    <3>1. svc[s] = call.from
      BY <1>1, <1>8, <2>8 DEF Selectors, OnCourse, CallMoves
    <3>2. /\ \A c \in Builds : label[s][c] \subseteq label'[s][c]
          /\ \A c \in Builds : c \in Matches(s, call.from) => call.key \in label'[s][c]
      BY <1>1, <1>3, <1>8, <2>8, LabelsOfCall
    <3>3. b \in Matches(s, call.from)
      BY <2>1, <3>1 DEF Carries
    <3> QED
      BY <2>1, <2>2, <2>3, <2>8, <3>1, <3>2, <3>3 DEF CallMoves
  <2>9. CASE LabelFails /\ CallMoves("label", "failed") /\ UNCHANGED svc
    <3>1. \A c \in Builds : label[s][c] \subseteq label'[s][c]
      BY <1>1, <1>3, <1>8, <2>9, LabelsOfCall
    <3> QED
      BY <2>3, <2>9, <3>1 DEF CallMoves
  <2>10. CASE (CallMoves("stage", "poll") \/ CallMoves("stage", "recover"))
              /\ svc' = [svc EXCEPT ![call.svc] = Overlap] /\ UNCHANGED label
              /\ svc[call.svc] = call.from
    <3>1. svc'[s] = Overlap /\ Overlap.ver = AnyVersion
          /\ Overlap.keys = call.from.keys \cup {call.key}
      BY <1>3, <1>8, <2>10 DEF Overlap
    <3>2. PICK c \in Builds : Carries(c, s, call.from) /\ call.key \in label[s][c]
      BY <1>8, <2>2, <2>10 DEF CallMoves
    <3>3. Carries(c, s, svc[s])'
      BY <1>2, <2>10, <3>1, <3>2 DEF Carries, Matches
    <3> QED
      BY <2>2, <2>3, <2>10, <3>2, <3>3 DEF CallMoves
  <2>11. CASE UNCHANGED <<svc, label>> /\ (\/ CallMoves("stage", "recover")
                                           \/ CallMoves("poll", "poll")
                                           \/ CallMoves("poll", "recover"))
    BY <2>2, <2>3, <2>11 DEF CallMoves
  <2>12. CASE FinishOverlap /\ svc' = [svc EXCEPT ![call.svc] = call.to]
              /\ \/ CallMoves("poll", "ok") /\ Cleanup
                 \/ CallMoves("poll", "recover") /\ UNCHANGED label /\ svc[call.svc] = Overlap
    <3>1. svc'[s] = call.to /\ call.to.ver \in lb[s] /\ call.to.ver \in gfe[s]
          /\ call.to.ver \in Builds
      BY <1>3, <1>8, <2>12 DEF FinishOverlap, Stable, Healthy
    <3>2. PICK c \in Builds : c \in Matches(s, call.to)
      BY <2>2, <2>12 DEF CallMoves, Matches
    <3>3. c = call.to.ver
      BY <3>1, <3>2, OverlapAssumption DEF Matches
    <3>4. call.to.keys \subseteq label'[s][c]
      <4>1. label[s][c] \ {call.key} \subseteq label'[s][c]
        BY <1>1, <1>3, <1>8, LabelsOfCall
      <4> QED
        BY <2>4, <3>2, <4>1 DEF Matches
    <3>5. Carries(c, s, svc[s])'
      BY <1>2, <3>1, <3>2, <3>3, <3>4 DEF Carries, Matches
    <3>6. CASE CallMoves("poll", "recover") /\ UNCHANGED label /\ svc[call.svc] = Overlap
      <4>1. PICK d \in Builds : Carries(d, s, call.from) /\ call.key \in label[s][d]
        BY <1>8, <2>2, <3>6 DEF CallMoves
      <4>2. Carries(d, s, call.from)' /\ call.key \in label'[s][d]
        BY <2>3, <3>6, <4>1
      <4> QED
        BY <3>5, <3>6, <4>2 DEF CallMoves
    <3> QED
      BY <2>12, <3>5, <3>6 DEF CallMoves
  <2>13. CASE Recover /\ CallMoves("recover", "failed") /\ Cleanup
              /\ \/ svc' = [svc EXCEPT ![call.svc] = call.from] /\ svc[call.svc] = Overlap
                 \/ UNCHANGED svc /\ svc[call.svc] = call.from
    <3>1. svc'[s] = call.from
      BY <1>3, <1>8, <2>13
    <3>2. PICK c \in Builds : Carries(c, s, call.from)
      BY <1>8, <2>2, <2>13 DEF CallMoves
    <3>3. call.from.keys \subseteq label'[s][c]
      <4>1. label[s][c] \ {call.key} \subseteq label'[s][c]
        BY <1>1, <1>3, <1>8, LabelsOfCall
      <4> QED
        BY <2>4, <3>2, <4>1 DEF Carries, Matches
    <3>4. Carries(c, s, svc[s])'
      BY <1>2, <3>1, <3>2, <3>3 DEF Carries, Matches
    <3> QED
      BY <2>13, <3>4 DEF CallMoves
  <2>14. ~(abrupt' = abrupt \cup {call.svc})
    BY <1>8
  <2> QED
    BY <1>1, <2>5, <2>6, <2>7, <2>8, <2>9, <2>10, <2>11, <2>12, <2>13, <2>14, CallGraph
<1> QED
  BY <1>7, <1>8

(* Stages in which the incoming build is known to answer. *)
Answering ==
    /\ ~Idle
    /\ \/ run.stage \notin {"protect", "scale", "widen", "rollout"}
       \/ run.kind = "deploy" /\ run.stage = "scale"

(* A command comes to them only by seeing every pool ready. *)
LEMMA AnsweringFrom ==
  ASSUME Types, [Next]_vars, Answering', ~Answering
  PROVE  Rollout /\ run'.to = run.to /\ ~Idle /\ UNCHANGED <<ready, label>>
<1>1. ~(DeployStart \/ RollbackStart)
  BY RunStarts DEF Answering
<1>2. ~Others
  BY OthersFrame DEF Answering, Idle
<1>3. Continues /\ run' # NoRun
  BY <1>1, <1>2, CommandSteps DEF Answering, Idle, NoRun
<1>4. ~Idle /\ run'.kind = run.kind /\ run'.to = run.to
  BY <1>3, RunContinues
<1>5. Rollout
  BY <1>3, <1>4, StageGraph DEF Answering, Onto, Along, Closing
<1> QED
  BY <1>4, <1>5 DEF Rollout

(* Traffic is carried at every step. *)
LEMMA CarriedStep ==
  ASSUME Types, Aims, Called, Fenced, Sparing, Selectors, Carried, [Next]_vars
  PROVE  Carried'
<1>1. CASE CallSteps
  BY <1>1, CarriedOverlap
<1>2. CASE ~CallSteps
  <2>1. svc' = svc
    <3>1. CASE Others
      BY <1>2, <3>1, ReplicatesFrame, BalancesFrame, CronFrame DEF Others, Tick, vars, CallSteps
    <3> QED
      BY <3>1, CommandSteps, CommandFrame DEF DeployStart, RollbackStart
  <2>10. abrupt' = abrupt
    BY <1>2, AbruptStays
  <2> SUFFICES ASSUME NEW s \in Services \ (hurt' \cup abrupt)
               PROVE  /\ \E b \in Builds : Carries(b, s, svc[s])'
                      /\ Answering' => ready'[run'.to][s] > 0
                      /\ ~Idle' /\ run'.stage \in Moving /\ s \notin NegServices =>
                            Matches(s, run.orig[s])' # {}
                      /\ call' # NoCall /\ call'.svc = s =>
                            /\ call'.stage \in {"stage", "poll", "recover"}
                               /\ svc'[s] \in {call'.from, Overlap'} =>
                                  \E b \in Builds : /\ Carries(b, s, call.from)'
                                                    /\ call'.key \in label'[s][b]
                            /\ call'.stage \in {"label", "stage", "poll"} =>
                                  Matches(s, call.to)' # {}
    BY <2>10 DEF Carried, Answering
  <2>2. s \in Services /\ s \notin hurt /\ s \notin hurt' /\ s \notin abrupt
    BY HurtStays
  <2>3. ASSUME NEW b \in Builds, b \in Selected(s), s \in NegServices => b \in lb[s] /\ b \in gfe[s]
        PROVE  /\ ready'[b][s] > 0 /\ label[s][b] \subseteq label'[s][b]
               /\ s \in NegServices => b \in lb'[s] /\ b \in gfe'[s]
    <3>1. ready[b][s] > 0
      BY <2>3 DEF Selected, Matches
    <3>2. ready'[b][s] > 0 /\ label[s][b] \subseteq label'[s][b]
      BY <1>2, <2>2, <2>3, <3>1, ServingStays
    <3> QED
      BY <2>3, <3>2, BackendsStay
  <2>4. \E b \in Builds : Carries(b, s, svc[s])'
    <3>1. PICK b \in Builds : Carries(b, s, svc[s])
      BY <2>2 DEF Carried
    <3>2. /\ ready'[b][s] > 0 /\ label[s][b] \subseteq label'[s][b]
          /\ s \in NegServices => b \in lb'[s] /\ b \in gfe'[s]
      BY <2>3, <3>1 DEF Carries, Selected
    <3>3. Carries(b, s, svc[s])'
      BY <2>1, <3>1, <3>2 DEF Carries, Matches
    <3> QED
      BY <3>3
  <2>5. Answering' => ready'[run'.to][s] > 0
    <3>1. CASE Answering' /\ Answering
      <4>1. ready[run.to][s] > 0 /\ ~Idle /\ run.stage # "protect" /\ run.to \in Builds
        BY <2>2, <3>1, RunFields DEF Answering, Carried, Types
      <4>2. ready'[run.to][s] > 0
        BY <1>2, <2>2, <4>1, ServingStays
      <4>3. run'.to = run.to
        <5>1. CASE Others
          BY <5>1, OthersFrame
        <5>2. CASE Continues
          BY <3>1, <5>2, RunContinues DEF Answering, Idle, NoRun
        <5>3. CASE DeployStart \/ RollbackStart
          BY <4>1, <5>3 DEF DeployStart, RollbackStart
        <5> QED
          BY <5>1, <5>2, <5>3, CommandSteps
      <4> QED
        BY <4>2, <4>3
    <3>2. CASE Answering' /\ ~Answering
      <4>1. Rollout /\ run'.to = run.to /\ UNCHANGED <<ready, label>>
        BY <3>2, AnsweringFrom
      <4> QED
        BY <2>2, <4>1 DEF Rollout
    <3> QED
      BY <3>1, <3>2
  <2>6. ASSUME ~Idle, run.stage \in Moving, NEW sel, Matches(s, sel) # {}
        PROVE  \E b \in Builds : /\ ready'[b][s] > 0 /\ sel.ver \in {b, AnyVersion}
                                 /\ sel.keys \subseteq label'[s][b]
    <3>1. PICK b \in Builds : b \in Matches(s, sel)
      BY <2>6 DEF Matches
    <3>2. ready[b][s] > 0
      BY <3>1 DEF Matches
    <3>3. ready'[b][s] > 0 /\ label[s][b] \subseteq label'[s][b]
      BY <1>2, <2>2, <2>6, <3>2, ServingStays
    <3> QED
      BY <3>1, <3>3 DEF Matches
  <2>7. ~Idle' /\ run'.stage \in Moving /\ s \notin NegServices => Matches(s, run.orig[s])' # {}
    <3>1. SUFFICES ASSUME ~Idle', run'.stage \in Moving, s \notin NegServices
                   PROVE  Matches(s, run.orig[s])' # {}
      OBVIOUS
    <3>2. CASE ~Idle /\ run.stage \in Moving
      <4>1. run'.orig = run.orig
        <5>1. CASE Others
          BY <5>1, OthersFrame
        <5>2. CASE Continues
          <6>1. run' # NoRun
            BY <3>1 DEF Idle, NoRun
          <6> QED
            BY <3>2, <5>2, <6>1, StageGraph DEF Memory, Onto, Along, Moving, Closing
        <5>3. CASE DeployStart \/ RollbackStart
          BY <3>2, <5>3 DEF DeployStart, RollbackStart
        <5> QED
          BY <5>1, <5>2, <5>3, CommandSteps
      <4>2. Matches(s, run.orig[s]) # {}
        BY <2>2, <3>1, <3>2 DEF Carried
      <4>3. \E b \in Builds : /\ ready'[b][s] > 0 /\ run.orig[s].ver \in {b, AnyVersion}
                              /\ run.orig[s].keys \subseteq label'[s][b]
        BY <2>6, <3>2, <4>2
      <4> QED
        BY <4>1, <4>3 DEF Matches
    <3>3. CASE ~(~Idle /\ run.stage \in Moving)
      <4>1. run'.orig = svc
        <5>1. ~Others
          BY <3>1, <3>3, OthersFrame DEF Idle
        <5>2. ~(DeployStart \/ RollbackStart)
          BY <3>1, RunStarts DEF Moving
        <5>3. Continues /\ run' # NoRun
          BY <3>1, <5>1, <5>2, CommandSteps DEF Idle, NoRun
        <5>4. ~Idle /\ ~Calls
          BY <3>3, <5>3, RunContinues DEF Calls, SwitchOpen, SwitchClose, UndoOpen, UndoClose, Moving
        <5>5. run.stage = "read" /\ run'.orig \in {svc, run.orig}
          BY <3>1, <5>3, <5>4, OutsideCalls
        <5>6. run.orig = svc
          BY <5>4, <5>5 DEF Selectors, Untouched, BeforeSwitch, RunStages, Opening, Closing, Moving
        <5> QED
          BY <5>5, <5>6
      <4> QED
        BY <2>1, <2>4, <4>1 DEF Carries, Matches
    <3> QED
      BY <3>2, <3>3
  <2>8. ASSUME call' # NoCall, call'.svc = s, call'.stage \in {"label", "stage", "poll", "recover"}
        PROVE  call' = call /\ ~Idle /\ run.stage \in Moving
    <3>1. CASE call' = call
      BY <2>8, <3>1 DEF Called
    <3>2. CASE call' # call
      <4>1. CASE SwitchOpen \/ UndoOpen
        BY <2>8, <4>1, OpensCall
      <4>2. CASE SwitchClose \/ UndoClose
        BY <2>8, <4>2, ClosesCall
      <4>3. CASE Others
        BY <1>2, <3>2, <4>3, ReplicatesFrame, BalancesFrame, CronFrame
        DEF Others, Tick, vars, CallSteps
      <4>4. CASE DeployStart \/ RollbackStart
        BY <3>2, <4>4 DEF DeployStart, RollbackStart
      <4>5. CASE Continues /\ ~Calls
        BY <2>8, <3>2, <4>5, DecidesFrame, RecordsFrame, BoundsFrame, ScalesFrame
        DEF Continues, RunStep, Decides, Records, Bounds, Scales, Calls
      <4> QED
        BY <4>1, <4>2, <4>3, <4>4, <4>5, CommandSteps DEF Calls
    <3> QED
      BY <3>1, <3>2
  <2>9. ASSUME call' # NoCall, call'.svc = s
        PROVE  /\ call'.stage \in {"stage", "poll", "recover"} /\ svc'[s] \in {call'.from, Overlap'} =>
                     \E b \in Builds : Carries(b, s, call.from)' /\ call'.key \in label'[s][b]
               /\ call'.stage \in {"label", "stage", "poll"} => Matches(s, call.to)' # {}
    <3>1. CASE call'.stage \in {"stage", "poll", "recover"} /\ svc'[s] \in {call'.from, Overlap'}
      <4>1. call' = call /\ svc[s] \in {call.from, Overlap}
        BY <2>1, <2>8, <2>9, <3>1 DEF Overlap
      <4>2. PICK b \in Builds : Carries(b, s, call.from) /\ call.key \in label[s][b]
        BY <2>2, <2>9, <3>1, <4>1 DEF Carried
      <4>3. b \in Selected(s)
        BY <4>1, <4>2 DEF Carries, Selected, Matches, Overlap
      <4>4. /\ ready'[b][s] > 0 /\ label[s][b] \subseteq label'[s][b]
            /\ s \in NegServices => b \in lb'[s] /\ b \in gfe'[s]
        BY <2>3, <4>2, <4>3 DEF Carries
      <4>5. Carries(b, s, call.from)' /\ call'.key \in label'[s][b]
        BY <4>1, <4>2, <4>4 DEF Carries, Matches
      <4>6. call'.stage \in {"label", "stage", "poll"} => Matches(s, call.to)' # {}
        <5>1. SUFFICES ASSUME call'.stage \in {"label", "stage", "poll"}
                       PROVE  Matches(s, call.to)' # {}
          OBVIOUS
        <5>2. Matches(s, call.to) # {} /\ ~Idle /\ run.stage \in Moving
          BY <2>2, <2>8, <2>9, <4>1, <5>1 DEF Carried
        <5>3. \E c \in Builds : /\ ready'[c][s] > 0 /\ call.to.ver \in {c, AnyVersion}
                                /\ call.to.keys \subseteq label'[s][c]
          BY <2>6, <5>2
        <5> QED
          BY <4>1, <5>3 DEF Matches
      <4> QED
        BY <4>5, <4>6
    <3>2. CASE call'.stage \in {"label", "stage", "poll"}
               /\ ~(call'.stage \in {"stage", "poll", "recover"} /\ svc'[s] \in {call'.from, Overlap'})
      <4>1. call' = call /\ ~Idle /\ run.stage \in Moving
        BY <2>8, <2>9, <3>2
      <4>2. Matches(s, call.to) # {}
        BY <2>2, <2>9, <3>2, <4>1 DEF Carried
      <4>3. \E c \in Builds : /\ ready'[c][s] > 0 /\ call.to.ver \in {c, AnyVersion}
                              /\ call.to.keys \subseteq label'[s][c]
        BY <2>6, <4>1, <4>2
      <4> QED
        BY <3>2, <4>1, <4>3 DEF Matches
    <3> QED
      BY <3>1, <3>2
  <2> QED
    BY <2>4, <2>5, <2>7, <2>9
<1> QED
  BY <1>1, <1>2

-----------------------------------------------------------------------------
(* The invariants *)

(* Before any command nothing is under way. *)
LEMMA QuietInit ==
  ASSUME Init
  PROVE  Aims /\ Called /\ Fenced /\ Sparing /\ Warmth /\ Tidy
<1>1. Idle /\ call = NoCall /\ cron = CronIdle /\ cron.fresh = {} /\ ~killed
  BY DEF Init, Idle, NoRun, CronIdle
<1>2. Aims /\ Called /\ Fenced
  BY <1>1 DEF Aims, Called, Fenced
<1>3. Sparing
  BY <1>1 DEF Sparing
<1>4. Warmth
  BY <1>1, PromotionAssumption DEF Init, Warmth
<1>5. Tidy
  <2>1. Plain(ForBuild(Old))
    BY TwoBuilds, OverlapAssumption DEF Plain, ForBuild
  <2> QED
    BY <1>1, <2>1 DEF Init, Tidy
<1> QED
  BY <1>2, <1>3, <1>4, <1>5

(* The first build serves, without a standby. *)
LEMMA RetainedInit == Init => Retained
<1> SUFFICES ASSUME Init PROVE Retained
  OBVIOUS
<1>0. Types
  BY TypesInit
<1>1. /\ Idle /\ now = 0 /\ st.build = Old /\ st.prev = NoBuild
      /\ \A b \in Builds : idx[b] = 0 /\ proj[b] = 0
      /\ \A s \in Services : rep[Old][s] = Capacity
  BY PromotionAssumption DEF Init, Idle, NoRun
<1>2. Ceiling
  BY <1>1, RetentionAssumption DEF Ceiling
<1>3. Outlasts
  BY <1>1 DEF Outlasts
<1>4. Standing
  BY <1>1, TwoBuilds, PromotionAssumption DEF Standing
<1>5. Prepared
  BY <1>1 DEF Prepared
<1> QED
  BY <1>2, <1>3, <1>4, <1>5 DEF Retained

(* It carries the traffic of every Service. *)
LEMMA TrafficInit == Init => Selectors /\ Carried
<1> SUFFICES ASSUME Init PROVE Selectors /\ Carried
  OBVIOUS
<1>1. /\ Idle /\ call = NoCall /\ Old \in Builds
      /\ \A s \in Services : /\ svc[s].ver = Old /\ svc[s].keys = {}
                             /\ ready[Old][s] = Capacity
                             /\ s \in NegServices => lb[s] = {Old} /\ gfe[s] = {Old}
  BY PromotionAssumption DEF Init, Idle, NoRun, ForBuild
<1>2. Selectors
  BY <1>1 DEF Selectors, Untouched, Switching, Moved, OnCourse, FreshKeys, Generic
<1>3. \A s \in Services : Carries(Old, s, svc[s])
  BY <1>1, PromotionAssumption DEF Carries, Matches
<1>4. Carried
  BY <1>1, <1>3 DEF Carried
<1> QED
  BY <1>2, <1>4

(* What holds whatever answers are lost and however long the grace period. *)
Base == Types /\ Aims /\ Called /\ Fenced /\ Sparing /\ Tidy

(* The state of a release is always one the commands know how to go on from: the record names the
   build the command moves from or to, the marker of the build that is to serve is renewed, and a
   Service is between two builds only while a call of a live command has it there. *)
THEOREM PromotionInvariant == Spec => []Base
<1>1. Init => Base
  BY TypesInit, QuietInit DEF Base
<1>2. Base /\ [Next]_vars => Base'
  BY TypesStep, AimsStep, CalledStep, FencedStep, SparingStep, TidyStep DEF Base
<1> QED
  BY <1>1, <1>2, PTL DEF Spec

(* Promotion, rollback, cleanup and cluster keep the types: whatever the autoscaler, a kill or the
   cleanup do between a command's steps, no pool has more ready pods than replicas, no more replicas
   than the load asks for, and the cleanup holds on to Deployments of the two builds only. *)
THEOREM PromotionTypes == Spec => []TypeOK
<1>1. Base => TypeOK
  <2> SUFFICES ASSUME Base PROVE TypeOK
    OBVIOUS
  <2>1. \A b \in Builds, s \in Services : ready[b][s] \in 0 .. rep[b][s]
    BY PromotionAssumption DEF Base, Types, CapacityTypes
  <2> QED
    BY <2>1, CronFields DEF Base, Types, TrafficTypes, CapacityTypes, RetentionTypes, TypeOK
<1> QED
  BY <1>1, PromotionInvariant, PTL

(* The scheduled cleanup (src/retention-expiry.ts) never retires a build a Service selects, nor one
   a command has begun to bring back (protectRetentionBuild), however its reads and patches
   interleave with the steps of a promotion or rollback. *)
THEOREM CleanupSparesTheorem == Spec => CleanupSparesServing
<1>1. Base /\ [Next]_vars =>
        [\A b \in Builds, s \in Pools :
            CronScale /\ rep'[b][s] = 0 /\ rep[b][s] > 0
                => /\ \A t \in Services : b \notin Selected(t)
                   /\ Idle \/ run.to # b \/ run.stage = "protect"]_vars
  BY SparesServing DEF Base
<1> QED
  BY <1>1, PromotionInvariant, PTL DEF Spec, CleanupSparesServing

(* If the grace period fits in the preparation window, the standby has a replica in every pool as
   long as pods of the serving build may forward to it, and a build is selected alone only with the
   index mounted (prepareRetention, complete and setRetentionExpiry in src/cutover). *)
THEOREM ForwardingTheorem ==
  ASSUME Grace <= PrepWindow
  PROVE  Spec => []ForwardingHonoured
<1>1. Init => Retained
  BY RetainedInit
<1>2. Base /\ Retained /\ [Next]_vars => Retained'
  BY CeilingStep, OutlastsStep, StandingStep, PreparedStep DEF Base, Retained
<1>3. Base /\ Retained => ForwardingHonoured
  <2> SUFFICES ASSUME Base, Retained PROVE ForwardingHonoured
    OBVIOUS
  <2>1. Types
    BY DEF Base
  <2>2. /\ now \in Nat /\ Grace \in Nat /\ Grace > 0
        /\ \A b \in Builds : idx[b] \in Nat /\ proj[b] \in Nat
    BY <2>1, RetentionNumbers
  <2>3. Peer \in Builds /\ st.build \in Builds /\ Peer = CHOOSE b \in Builds : b # st.build
    BY <2>1, PeerIs DEF Peer
  <2>4. Forwards(st.build) => \A s \in Services : rep[Peer][s] > 0
    <3>1. \A s \in Services : rep[Peer][s] \in 0 .. Capacity
      BY <2>1, <2>3 DEF Types, CapacityTypes
    <3> QED
      BY <2>2, <2>3, <3>1, PromotionAssumption DEF Retained, Standing, Forwards
  <2>5. run.stage \in {"commit", "complete"} => proj[run.to] # 0
    <3>1. SUFFICES ASSUME run.stage \in {"commit", "complete"} PROVE proj[run.to] # 0
      OBVIOUS
    <3>2. ~Idle
      BY <3>1 DEF Idle
    <3>3. run.to \in Builds
      BY <2>1, <3>2, RunFields DEF Types
    <3>4. proj[run.to] = idx[run.to] /\ idx[run.to] >= now + Grace
      BY <3>1, <3>2 DEF Retained, Prepared, Mounted, Published, Closing
    <3> QED
      BY <2>2, <3>3, <3>4
  <2> QED
    BY <2>3, <2>4, <2>5 DEF ForwardingHonoured
<1> QED
  BY <1>1, <1>2, <1>3, PromotionInvariant, PTL DEF Spec

(* Whatever answers are lost, a command that was not killed and did not report failure to restore
   leaves every Service on one build by version alone, without a recovery annotation, and no
   autoscaler with the warm-up's bounds but the one whose raising patch reported an error after it
   was applied (replaceServiceSelector, restoreWarmedHpas). *)
THEOREM CleanExitTheorem == Spec => []CleanExit
<1>1. Init => Warmth
  BY QuietInit
<1>2. Base /\ Warmth /\ [Next]_vars => Warmth'
  BY WarmthStep DEF Base
<1>3. Base /\ Warmth => CleanExit
  <2> SUFFICES ASSUME Base, Warmth, Idle, ~killed
               PROVE  /\ \A s \in Services \ unsure :
                            svc[s].ver # AnyVersion /\ svc[s].keys = {} /\ ~note[s]
                      /\ \A b \in Builds, s \in Services :
                            <<b, s>> \notin untold => hpa[b][s] # "raised"
    BY DEF CleanExit
  <2>1. call = NoCall
    BY DEF Base, Called
  <2> QED
    BY <2>1 DEF Base, Tidy, Plain, Warmth
<1> QED
  BY <1>1, <1>2, <1>3, PromotionInvariant, PTL DEF Spec

(* Whatever answers are lost, a Service that loses no pods has a ready backend behind its load
   balancer (or its selector) at every moment of a promotion, a rollback, the undoing of either,
   and after a kill at any step (replaceServiceSelector), until a call takes back a switch it had
   finished, which is what its error path does when the answer of the final swap is lost. *)
THEOREM BackendTheorem == Spec => []AlwaysABackend
<1>1. Init => Selectors /\ Carried
  BY TrafficInit
<1>2. Base /\ (Selectors /\ Carried) /\ [Next]_vars => (Selectors /\ Carried)'
  <2> SUFFICES ASSUME Base, Selectors, Carried, [Next]_vars PROVE Selectors' /\ Carried'
    OBVIOUS
  <2>1. Selectors'
    BY UntouchedStep, SwitchingStep, MovedStep, OnCourseStep, FreshKeysStep, GenericStep
    DEF Base, Selectors
  <2>2. Carried'
    BY CarriedStep DEF Base
  <2> QED
    BY <2>1, <2>2
<1>3. Base /\ (Selectors /\ Carried) => AlwaysABackend
  <2> SUFFICES ASSUME Base, Carried, NEW s \in Services \ (hurt \cup abrupt)
               PROVE  Backends(s) # {}
    BY DEF AlwaysABackend
  <2>1. PICK b \in Builds : Carries(b, s, svc[s])
    BY DEF Carried
  <2> QED
    BY <2>1 DEF Carries, Matches, Backends, Selected
<1> QED
  BY <1>1, <1>2, <1>3, PromotionInvariant, PTL DEF Spec
=============================================================================
