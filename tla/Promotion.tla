----------------------------- MODULE Promotion -----------------------------
(***************************************************************************)
(* One release handed from one build to another and back: the steps of     *)
(* runCutover and runRevert (src/cutover/run.ts) that touch capacity,      *)
(* retention and traffic, composed with the Service switch                 *)
(* (BackendOverlap) and with the scheduled cleanup (RetentionExpiry).      *)
(* Cutover.tla models the same commands racing each other; here they are   *)
(* serialized, as the documentation asks, and race the cluster instead:    *)
(* autoscaler, kubelet, load balancer, cleanup job, a kill at any step.    *)
(*                                                                         *)
(* Both builds have the same pools.  A Deployment under load asks for      *)
(* Capacity replicas, an idle one follows its autoscaler's minimum.        *)
(***************************************************************************)
EXTENDS RetentionExpiry

CONSTANTS
    Old,        \* the build serving initially
    New,        \* the build deployed
    Capacity,   \* replicas the load asks for
    ChartMin,   \* minReplicas the chart renders
    MaxRuns     \* bound: commands

ASSUME PromotionAssumption ==
    /\ Builds = {Old, New}
    /\ Old # New
    /\ ChartMin \in Nat \ {0}
    /\ Capacity \in Nat
    /\ ChartMin < Capacity
    /\ MaxRuns \in Nat

VARIABLES
    run,     \* the command in progress and what it remembers
    runs,    \* commands started
    killed,  \* history: a command was killed or said it could not restore
    hurt,    \* history: pools that lost their pods
    untold   \* history: autoscalers raised by a patch that reported an error

vars == <<retentionVars, overlapVars, run, runs, killed, hurt, untold>>
bookkeeping == <<runs, killed, hurt, untold>>

NoRun == [stage |-> "idle"]
Idle == run.stage = "idle"

Init ==
    /\ svc = [s \in Services |-> ForBuild(Old)]
    /\ note = [s \in Services |-> FALSE]
    /\ label = [s \in Services |-> [b \in Builds |-> {}]]
    /\ ready = [b \in Builds |-> [s \in Services |-> IF b = Old THEN Capacity ELSE 0]]
    /\ changed = [s \in Services |-> {}]
    /\ lb = [s \in Services |-> IF s \in NegServices THEN {Old} ELSE {}]
    /\ gfe = lb
    /\ call = NoCall
    /\ keys = 0
    /\ unsure = {}
    /\ abrupt = {}
    /\ now = 0
    /\ st = [build |-> Old, prev |-> NoBuild]
    /\ rep = ready
    /\ hpa = [b \in Builds |-> [s \in Services |-> IF b = Old THEN "chart" ELSE "none"]]
    /\ marker = [b \in Builds |-> [s \in Services |-> 0]]
    /\ idx = [b \in Builds |-> 0]
    /\ proj = idx
    /\ cron = CronIdle
    /\ run = NoRun
    /\ runs = 0
    /\ faults = 0
    /\ killed = FALSE
    /\ hurt = {}
    /\ untold = {}

(* The run moves to the next stage, starting again with the first pool. *)
Go(stage) == run' = [run EXCEPT !.stage = stage, !.at = 1]

(* A step was done for pool run.at; the next pool, or the next stage. *)
Advance(stage) ==
    IF run.at < NumServices
    THEN run' = [run EXCEPT !.at = @ + 1]
    ELSE Go(stage)

(* A command that fails before it warmed anything just exits; the routing   *)
(* edge it puts back is Cutover's.                                          *)
Exit ==
    /\ run' = NoRun
    /\ call' = NoCall

-----------------------------------------------------------------------------
(* Starting *)

(* deploy: the outgoing build's replicas are read, then Helm installs the   *)
(* incoming build at its floor with the chart's autoscaler bounds.          *)
DeployStart ==
    /\ Idle
    /\ runs < MaxRuns
    /\ st.build # New
    /\ run' = [stage |-> "protect", at |-> 1, kind |-> "deploy", from |-> st.build,
               to |-> New, base |-> st, warmed |-> {}, orig |-> svc, patched |-> {},
               bad |-> FALSE, json |-> idx, target |-> rep[st.build]]
    /\ runs' = runs + 1
    /\ rep' = [rep EXCEPT ![New] = [s \in Pools |-> ChartMin]]
    /\ ready' = [ready EXCEPT ![New] = [s \in Pools |-> IF @[s] > ChartMin THEN ChartMin ELSE @[s]]]
    /\ hpa' = [hpa EXCEPT ![New] = [s \in Pools |-> "chart"]]
    /\ cron' = [cron EXCEPT !.fresh = @ \ ({New} \X Pools)]
    /\ untold' = untold \ ({New} \X Pools)
    /\ UNCHANGED <<now, st, marker, idx, proj, traffic, changed, balancer, call, keys, told,
                   faults, killed, hurt>>

(* rollback: to the recorded predecessor. *)
RollbackStart ==
    /\ Idle
    /\ runs < MaxRuns
    /\ st.prev # NoBuild
    /\ run' = [stage |-> "protect", at |-> 1, kind |-> "rollback", from |-> st.build,
               to |-> st.prev, base |-> st, warmed |-> {}, orig |-> svc, patched |-> {},
               bad |-> FALSE, json |-> idx, target |-> rep[st.build]]
    /\ runs' = runs + 1
    /\ UNCHANGED <<retentionVars, overlapVars, killed, hurt, untold>>

(* Fault: the build that is about to serve keeps its old marker. *)
Protect_Skipped ==
    /\ run.stage = "protect"
    /\ Go(IF run.kind = "deploy" THEN "rollout" ELSE "scale")
    /\ UNCHANGED <<retentionVars, overlapVars, bookkeeping>>

(* protectRetentionBuild: a fresh marker on the build that is to serve,     *)
(* before any readiness check can pass.  The patch also moves the           *)
(* Deployment's version, which fences a cleanup that listed it.             *)
Protect ==
    /\ run.stage = "protect"
    /\ SetMarker(run.to, run.at, now + PrepWindow)
    /\ Advance(IF run.kind = "deploy" THEN "rollout" ELSE "scale")
    /\ UNCHANGED <<now, st, rep, hpa, idx, proj, overlapVars, bookkeeping>>

-----------------------------------------------------------------------------
(* Capacity *)

(* Pods of a Deployment that now asks for n replicas: surplus ones go at    *)
(* once, with their labels if none is left.                                 *)
Scale(b, s, n) ==
    /\ rep' = [rep EXCEPT ![b][s] = n]
    /\ ready' = [ready EXCEPT ![b][s] = IF @ > n THEN n ELSE @]
    /\ changed' = IF ready[b][s] > n THEN [changed EXCEPT ![s] = @ \cup Noticed(b, s)] ELSE changed
    /\ label' = IF n = 0 THEN [label EXCEPT ![s][b] = {}] ELSE label
    /\ cron' = Touched(cron, b, s)

(* What the current build runs: the most of its spec, its ready pods and    *)
(* its autoscaler's wish (readLiveCapacity).                                *)
LiveCapacity(s) == rep[run.from][s]

(* planRollbackCapacity: at least that, and never below the floor.          *)
RollbackCapacity(observed) == IF observed > Capacity THEN observed ELSE Capacity

(* rollback: every pool of the target at that capacity. *)
ScaleUp ==
    /\ run.stage = "scale"
    /\ run.kind = "rollback"
    /\ LET n == RollbackCapacity(LiveCapacity(run.at)) IN
         /\ Scale(run.to, run.at, n)
         /\ run' = [run EXCEPT !.target[run.at] = n,
                               !.stage = IF run.at = NumServices THEN "widen" ELSE @,
                               !.at = IF run.at = NumServices THEN 1 ELSE @ + 1]
    /\ UNCHANGED <<now, st, hpa, marker, idx, proj, svc, note, balancer, call, keys, told, faults,
                   bookkeeping>>

(* Then its autoscalers, recreated or widened, with that floor. *)
WidenHpa ==
    /\ run.stage = "widen"
    /\ hpa' = [hpa EXCEPT ![run.to][run.at] = "widened"]
    /\ Advance("rollout")
    /\ UNCHANGED <<now, st, rep, marker, idx, proj, cron, overlapVars, bookkeeping>>

(* One that exists and could not be widened is only warned about.           *)
WidenHpaWarns ==
    /\ run.stage = "widen"
    /\ hpa[run.to][run.at] # "none"
    /\ Fault
    /\ Advance("rollout")
    /\ UNCHANGED <<retentionVars, traffic, ready, changed, balancer, call, keys, told, bookkeeping>>

(* D1, and rollback's rollout wait: every asked-for pod is ready. *)
Rollout ==
    /\ run.stage = "rollout"
    /\ \A s \in Pools : ready[run.to][s] > 0 /\ ready[run.to][s] = rep[run.to][s]
    /\ Go(IF run.kind = "deploy" THEN "edge" ELSE "serving")
    /\ UNCHANGED <<retentionVars, overlapVars, bookkeeping>>

(* D2 and D3: the routing tier has rolled out and the extension Job has     *)
(* registered it.                                                           *)
EdgeGates ==
    /\ run.stage = "edge"
    /\ Go("warm")
    /\ UNCHANGED <<retentionVars, overlapVars, bookkeeping>>

(* D2 to D5: a rollout, Job, policy or composition that is not accepted in  *)
(* time ends the deploy before anything was warmed.                         *)
EdgeGatesFail ==
    /\ run.stage = "edge"
    /\ Fault
    /\ Exit
    /\ UNCHANGED <<retentionVars, traffic, ready, changed, balancer, keys, told, bookkeeping>>

(* A gate before the warm-up, or the marker, or rollback's scale-up fails:  *)
(* nothing has to be undone here.                                           *)
EarlyFailure ==
    /\ run.stage \in {"protect", "scale", "widen", "rollout", "serving"}
    /\ Fault
    /\ ~(run.kind = "deploy" /\ run.stage = "scale")
    /\ Exit
    /\ UNCHANGED <<retentionVars, traffic, ready, changed, balancer, keys, told, bookkeeping>>

(* D6: where the chart's floor is below what the outgoing build runs, both  *)
(* bounds are raised so that an idle build keeps that capacity.             *)
WarmHpa ==
    /\ run.stage = "warm"
    /\ LET lift == ChartMin < run.target[run.at] IN
         /\ hpa' = IF lift THEN [hpa EXCEPT ![run.to][run.at] = "raised"] ELSE hpa
         /\ run' = [run EXCEPT !.warmed = IF lift THEN @ \cup {run.at} ELSE @,
                               !.stage = IF run.at = NumServices THEN "scale" ELSE @,
                               !.at = IF run.at = NumServices THEN 1 ELSE @ + 1]
    /\ UNCHANGED <<now, st, rep, marker, idx, proj, cron, overlapVars, bookkeeping>>

(* An HPA that cannot be read or raised: the ones already raised go back.   *)
(* The one whose patch reported the error is not among them, applied or not.*)
WarmHpaFails ==
    /\ run.stage = "warm"
    /\ Fault
    /\ \/ UNCHANGED <<hpa, untold>>
       \/ /\ "hpa" \in LostAnswers
          /\ ChartMin < run.target[run.at]
          /\ hpa' = [hpa EXCEPT ![run.to][run.at] = "raised"]
          /\ untold' = untold \cup {<<run.to, run.at>>}
    /\ run' = [run EXCEPT !.stage = "unwarm", !.bad = TRUE]
    /\ UNCHANGED <<now, st, rep, marker, idx, proj, cron, traffic, ready, changed, balancer,
                   call, keys, told, runs, killed, hurt>>

(* Then every pool is scaled to the outgoing count; a failure is left to    *)
(* the readiness gate.                                                      *)
ScaleToTarget ==
    /\ run.stage = "scale"
    /\ run.kind = "deploy"
    /\ \/ /\ rep[run.to][run.at] < run.target[run.at]
          /\ Scale(run.to, run.at, run.target[run.at])
       \/ UNCHANGED <<rep, ready, changed, label, cron>>
    /\ Advance("ready")
    /\ UNCHANGED <<now, st, hpa, marker, idx, proj, svc, note, balancer, call, keys, told, faults,
                   bookkeeping>>

(* D7: as many ready pods per pool as the outgoing build has, and no pod    *)
(* that is not ready.                                                       *)
ReadyGate ==
    /\ run.stage = "ready"
    /\ \A s \in Pools : ready[run.to][s] >= run.target[s] /\ ready[run.to][s] = rep[run.to][s]
    /\ Go("recheck")
    /\ UNCHANGED <<retentionVars, overlapVars, bookkeeping>>

(* Rollback's gate: a pod of every pool answers.  Then the snapshot of      *)
(* every selector.                                                          *)
ServingGate ==
    /\ run.stage = "serving"
    /\ \A s \in Pools : ready[run.to][s] > 0
    /\ run' = [run EXCEPT !.stage = "recheck", !.at = 1, !.orig = svc]
    /\ UNCHANGED <<retentionVars, overlapVars, bookkeeping>>

(* The state is re-read last thing before retention and traffic. *)
Recheck ==
    /\ run.stage = "recheck"
    /\ st = run.base
    /\ Go("publish")
    /\ UNCHANGED <<retentionVars, overlapVars, bookkeeping>>

(* The gates time out, the state moved or retention cannot be prepared.     *)
LateFailure ==
    /\ run.stage \in {"ready", "recheck", "publish", "project", "arm"}
    /\ Fault
    /\ run' = [run EXCEPT !.stage = "unwarm", !.bad = TRUE, !.at = 1]
    /\ UNCHANGED <<retentionVars, traffic, ready, changed, balancer, call, keys, told, bookkeeping>>

-----------------------------------------------------------------------------
(* Retention *)

(* prepareRetention: the index, a compare-and-swap on its version. *)
Publish ==
    /\ run.stage = "publish"
    /\ PublishIndex(run.to, run.from)
    /\ run' = [run EXCEPT !.stage = "project", !.json = idx']
    /\ UNCHANGED <<now, st, deployments, proj, cron, overlapVars, bookkeeping>>

(* Fault: traffic moves before the pods have the index. *)
AwaitIndex_Skipped ==
    /\ run.stage = "project"
    /\ Go("arm")
    /\ UNCHANGED <<retentionVars, overlapVars, bookkeeping>>

AwaitIndex ==
    /\ run.stage = "project"
    /\ IndexProjected
    /\ Go("arm")
    /\ UNCHANGED <<retentionVars, overlapVars, bookkeeping>>

(* The outgoing build's markers, at the preparation deadline. *)
Arm ==
    /\ run.stage = "arm"
    /\ SetMarker(run.from, run.at, idx[run.to])
    /\ Advance("read")
    /\ UNCHANGED <<now, st, rep, hpa, idx, proj, overlapVars, bookkeeping>>

-----------------------------------------------------------------------------
(* Traffic *)

(* Every selector is read before any is changed.  A deploy reads them here  *)
(* and refuses a Service that does not select the outgoing build by         *)
(* version; a rollback goes on with what its snapshot found.                *)
ReadSelectors ==
    /\ run.stage = "read"
    /\ IF run.kind = "deploy" /\ \E s \in Services : svc[s].ver # run.from
       THEN run' = [run EXCEPT !.stage = "unwarm", !.bad = TRUE, !.at = 1]
       ELSE run' = [run EXCEPT !.stage = "switch", !.at = 1,
                               !.orig = IF run.kind = "deploy" THEN svc ELSE @]
    /\ UNCHANGED <<retentionVars, overlapVars, bookkeeping>>

SwitchOpen ==
    /\ run.stage = "switch"
    /\ call.stage = "none"
    /\ Open(run.at, run.orig[run.at], Target(run.orig[run.at], run.to))
    /\ UNCHANGED <<retentionVars, run, bookkeeping>>

(* One Service is done; the remaining ones are tried whatever it said.      *)
SwitchClose ==
    /\ run.stage = "switch"
    /\ call.stage \in {"ok", "failed"}
    /\ LET failed == run.bad \/ call.stage = "failed" IN
         run' = [run EXCEPT !.patched = IF call.stage = "ok" THEN @ \cup {run.at} ELSE @,
                            !.bad = failed,
                            !.stage = IF run.at < NumServices THEN @
                                      ELSE IF failed THEN "undo" ELSE "commit",
                            !.at = IF run.at < NumServices THEN @ + 1 ELSE 1]
    /\ call' = NoCall
    /\ UNCHANGED <<retentionVars, traffic, ready, changed, balancer, keys, told, faults, bookkeeping>>

(* A failed switch undoes the Services it moved, with the same procedure.   *)
UndoOpen ==
    /\ run.stage = "undo"
    /\ call.stage = "none"
    /\ run.patched # {}
    /\ LET s == CHOOSE x \in run.patched : \A y \in run.patched : x <= y
       IN Open(s, Target(run.orig[s], run.to), run.orig[s])
    /\ UNCHANGED <<retentionVars, run, bookkeeping>>

UndoClose ==
    /\ run.stage = "undo"
    /\ call.stage \in {"ok", "failed"}
    /\ run' = [run EXCEPT !.patched = @ \ {call.svc}]
    /\ call' = NoCall
    /\ unsure' = IF call.stage = "failed" THEN unsure \cup {call.svc} ELSE unsure
    /\ UNCHANGED <<retentionVars, traffic, ready, changed, balancer, keys, abrupt, faults,
                   bookkeeping>>

UndoDone ==
    /\ run.stage = "undo"
    /\ call.stage = "none"
    /\ run.patched = {}
    /\ Go("unwarm")
    /\ UNCHANGED <<retentionVars, overlapVars, bookkeeping>>

(* E2: the record names the build that now serves. *)
Commit ==
    /\ run.stage = "commit"
    /\ st' = [build |-> run.to, prev |-> run.from]
    /\ Go("unwarm")
    /\ UNCHANGED <<now, deployments, idx, proj, cron, overlapVars, bookkeeping>>

CommitFails ==
    /\ run.stage = "commit"
    /\ Fault
    /\ run' = [run EXCEPT !.stage = "unwarm", !.bad = TRUE, !.at = 1]
    /\ UNCHANGED <<retentionVars, traffic, ready, changed, balancer, call, keys, told, bookkeeping>>

-----------------------------------------------------------------------------
(* Afterwards *)

(* Fault: a failed promotion leaves the raised bounds. *)
Unwarm_OnlySuccess ==
    /\ run.stage = "unwarm"
    /\ IF run.bad THEN Exit /\ UNCHANGED hpa
       ELSE /\ hpa' = [hpa EXCEPT ![run.to] = [s \in Pools |->
                           IF s \in run.warmed THEN "chart" ELSE @[s]]]
            /\ Go("complete")
            /\ UNCHANGED call
    /\ UNCHANGED <<now, st, rep, marker, idx, proj, cron, traffic, ready, changed, balancer,
                   keys, told, faults, bookkeeping>>

(* restoreWarmedHpas: the chart's bounds, on every way out. *)
Unwarm ==
    /\ run.stage = "unwarm"
    /\ hpa' = [hpa EXCEPT ![run.to] = [s \in Pools |->
                   IF s \in run.warmed THEN "chart" ELSE @[s]]]
    /\ IF run.bad THEN Exit ELSE Go("complete") /\ UNCHANGED call
    /\ UNCHANGED <<now, st, rep, marker, idx, proj, cron, traffic, ready, changed, balancer,
                   keys, told, faults, bookkeeping>>

(* A bound that could not be restored three times is reported. *)
UnwarmFails ==
    /\ run.stage = "unwarm"
    /\ Fault
    /\ run.warmed # {}
    /\ killed' = TRUE
    /\ IF run.bad THEN Exit ELSE Go("complete") /\ UNCHANGED call
    /\ UNCHANGED <<retentionVars, traffic, ready, changed, balancer, keys, told, runs, hurt,
                   untold>>

(* complete(): the configured deadline replaces the preparation one, unless *)
(* another promotion replaced the index.                                    *)
Complete ==
    /\ run.stage = "complete"
    /\ idx = run.json
    /\ FinalizeIndex(run.to)
    /\ run' = [run EXCEPT !.stage = "reproject", !.json = idx']
    /\ UNCHANGED <<now, st, deployments, proj, cron, overlapVars, bookkeeping>>

AwaitFinalIndex ==
    /\ run.stage = "reproject"
    /\ IndexProjected
    /\ Go("rearm")
    /\ UNCHANGED <<retentionVars, overlapVars, bookkeeping>>

Rearm ==
    /\ run.stage = "rearm"
    /\ SetMarker(run.from, run.at, idx[run.to])
    /\ Advance("park")
    /\ UNCHANGED <<now, st, rep, hpa, idx, proj, overlapVars, bookkeeping>>

(* Finalizing is best effort: the preparation deadline stays. *)
CompleteFails ==
    /\ run.stage \in {"complete", "reproject", "rearm"}
    /\ Fault
    /\ Go("park")
    /\ UNCHANGED <<retentionVars, traffic, ready, changed, balancer, call, keys, told, bookkeeping>>

(* With retention the outgoing build keeps one replica per pool. *)
Standby == 1

(* E5: the outgoing autoscaler goes first, then the Deployment shrinks. *)
Park ==
    /\ run.stage = "park"
    /\ hpa' = [hpa EXCEPT ![run.from][run.at] = "none"]
    /\ Scale(run.from, run.at, Standby)
    /\ IF run.at < NumServices THEN run' = [run EXCEPT !.at = @ + 1] /\ UNCHANGED call
       ELSE Exit
    /\ UNCHANGED <<now, st, marker, idx, proj, svc, note, balancer, keys, told, faults, bookkeeping>>

(* --skip-cleanup: the outgoing build keeps its autoscalers and its pods.   *)
SkipCleanup ==
    /\ run.stage = "park"
    /\ run.at = 1
    /\ Exit
    /\ UNCHANGED <<retentionVars, traffic, ready, changed, balancer, keys, told, faults,
                   bookkeeping>>

(* The autoscaler could not be deleted, or the Deployment not scaled after  *)
(* it was: a deploy goes on with the next pool, a rollback ends there.      *)
ParkFails ==
    /\ run.stage = "park"
    /\ Fault
    /\ hpa' \in {hpa, [hpa EXCEPT ![run.from][run.at] = "none"]}
    /\ IF run.kind = "deploy" /\ run.at < NumServices
       THEN run' = [run EXCEPT !.at = @ + 1] /\ UNCHANGED call
       ELSE Exit
    /\ UNCHANGED <<now, st, rep, marker, idx, proj, cron, traffic, ready, changed, balancer,
                   keys, told, bookkeeping>>

(* The process is killed; what it remembered is gone. *)
Killed ==
    /\ ~Idle
    /\ Fault
    /\ Exit
    /\ killed' = TRUE
    /\ UNCHANGED <<retentionVars, traffic, ready, changed, balancer, keys, told, runs, hurt,
                   untold>>

RunStep ==
    \/ DeployStart \/ RollbackStart \/ Protect \/ ScaleUp \/ WidenHpa \/ WidenHpaWarns
    \/ Rollout \/ EdgeGates \/ EdgeGatesFail \/ EarlyFailure
    \/ WarmHpa \/ WarmHpaFails \/ ScaleToTarget \/ ReadyGate \/ ServingGate \/ Recheck \/ LateFailure
    \/ Publish \/ AwaitIndex \/ Arm \/ ReadSelectors \/ SwitchOpen \/ SwitchClose
    \/ UndoOpen \/ UndoClose \/ UndoDone \/ Commit \/ CommitFails \/ Unwarm \/ UnwarmFails
    \/ Complete \/ AwaitFinalIndex \/ Rearm \/ CompleteFails \/ Park \/ ParkFails
    \/ SkipCleanup

-----------------------------------------------------------------------------
(* External: the cluster *)

(* Asked-for pods start. *)
PodsStart(b) ==
    /\ ready[b] # rep[b]
    /\ ready' = [ready EXCEPT ![b] = rep[b]]
    /\ UNCHANGED <<retentionVars, traffic, changed, balancer, call, keys, told, faults,
                   run, bookkeeping>>

(* All pods of a build in a pool are replaced at once (a node goes): the    *)
(* new ones have no temporary label.                                        *)
PodsLost(b, s) ==
    /\ Fault
    /\ ready[b][s] > 0
    /\ ready' = [ready EXCEPT ![b][s] = 0]
    /\ changed' = [changed EXCEPT ![s] = @ \cup Noticed(b, s)]
    /\ label' = [label EXCEPT ![s][b] = {}]
    /\ hurt' = hurt \cup {s}
    /\ UNCHANGED <<retentionVars, svc, note, balancer, call, keys, told, run, runs, killed,
                   untold>>

Serves(b) == \E s \in Services : b \in Selected(s)

(* The autoscalers of a build move each Deployment that is not at zero to   *)
(* its floor; under load it stays at what the load asks for.                *)
Floor(b, s) ==
    IF hpa[b][s] = "none" \/ rep[b][s] = 0 THEN rep[b][s]
    ELSE IF hpa[b][s] \in {"raised", "widened"} \/ Serves(b) THEN Capacity ELSE ChartMin

Autoscale(b) ==
    /\ rep' = [rep EXCEPT ![b] = [s \in Pools |-> Floor(b, s)]]
    /\ rep' # rep
    /\ ready' = [ready EXCEPT ![b] = [s \in Pools |-> IF @[s] > Floor(b, s) THEN Floor(b, s) ELSE @[s]]]
    /\ changed' = [s \in Services |->
                      changed[s] \cup (IF ready[b][s] > Floor(b, s) THEN Noticed(b, s) ELSE {})]
    /\ cron' = [cron EXCEPT !.fresh = {d \in @ : rep'[d[1]][d[2]] = rep[d[1]][d[2]]}]
    /\ UNCHANGED <<now, st, hpa, marker, idx, proj, traffic, balancer, call, keys, told, faults,
                   run, bookkeeping>>

(* Time passes.  Between publishing the index and finalizing it a run takes *)
(* less than the preparation window leaves beyond the grace period: each of *)
(* its waits has a timeout of minutes.                                      *)
InWindow == run.stage \in {"project", "arm", "read", "switch", "undo", "commit", "unwarm",
                           "complete", "reproject", "rearm"}

Tick ==
    /\ now < MaxTime
    /\ ~Idle => \A s \in Pools : marker[run.to][s] = 0 \/ now + 1 < marker[run.to][s]
    /\ InWindow => now + 1 + Grace <= idx[run.to]
    /\ now' = now + 1
    /\ UNCHANGED <<st, deployments, idx, proj, cron, overlapVars, run, bookkeeping>>

Next ==
    \/ RunStep
    \/ Killed
    \/ Busy /\ OverlapStep /\ UNCHANGED <<retentionVars, run, bookkeeping>>
    \/ \E s \in NegServices : LbAttach(s) /\ UNCHANGED <<retentionVars, run, bookkeeping>>
    \/ \E s \in NegServices : LbDetach(s) /\ UNCHANGED <<retentionVars, run, bookkeeping>>
    \/ \E s \in NegServices : GfeSync(s) /\ UNCHANGED <<retentionVars, run, bookkeeping>>
    \/ CronStep /\ UNCHANGED <<run, bookkeeping>>
    \/ CronFails /\ UNCHANGED <<run, bookkeeping>>
    \/ Project /\ UNCHANGED <<run, bookkeeping>>
    \/ \E b \in Builds : PodsStart(b)
    \/ \E b \in Builds, s \in Services : PodsLost(b, s)
    \/ \E b \in Builds : Autoscale(b)
    \/ Tick

(* The clock goes on, the CronJob controller starts a run every minute, and *)
(* a run that started makes its next call or fails, MaxFaults times at most.*)
Fairness ==
    /\ WF_vars(Tick)
    /\ WF_vars(CronStep /\ UNCHANGED <<run, bookkeeping>>)

Spec == Init /\ [][Next]_vars
FairSpec == Spec /\ Fairness

-----------------------------------------------------------------------------
(***************************************************************************)
(* Properties                                                              *)
(***************************************************************************)

TypeOK ==
    /\ svc \in [Services -> Selector]
    /\ rep \in [Builds -> [Services -> 0 .. Capacity]]
    /\ \A b \in Builds, s \in Services : ready[b][s] \in 0 .. rep[b][s]
    /\ hpa \in [Builds -> [Services -> {"none", "chart", "raised", "widened"}]]
    /\ marker \in [Builds -> [Services -> Deadline]]
    /\ idx \in [Builds -> Deadline]
    /\ cron.fresh \subseteq Builds \X Services

(* Traffic always has somewhere to go: while a Service loses no pods, its   *)
(* load balancer (or, without one, its selector) has a ready backend at     *)
(* every moment of a switch, of its undoing and after a kill.  The point of *)
(* labels, overlap and stability wait in replaceServiceSelector.  The one   *)
(* exception is a final swap that was applied although it reported an error *)
(* (a timed-out PATCH, service-selector.ts:251): the error path then takes  *)
(* the finished switch back in one step (abrupt), and the front ends may    *)
(* have forgotten the original build.                                       *)
AlwaysABackend == \A s \in Services \ (hurt \cup abrupt) : Backends(s) # {}

(* A command that was not killed and did not report failure to restore      *)
(* leaves every Service on one build by version alone, no recovery          *)
(* annotation and, after a deploy, no raised autoscaler bounds (N67), but   *)
(* for an autoscaler whose raising patch was applied although it reported   *)
(* an error (untold): it is not among the ones to restore, gates.ts:644.    *)
CleanExit ==
    Idle /\ ~killed =>
        /\ \A s \in Services \ unsure : svc[s].ver # AnyVersion /\ svc[s].keys = {} /\ ~note[s]
        /\ \A b \in Builds, s \in Pools : <<b, s>> \notin untold => hpa[b][s] # "raised"

(* What the comments of the warm-up promise: the temporary bounds are put   *)
(* back on every exit path, success and abort.  TLC refutes it with a patch *)
(* whose answer is lost.                                                    *)
BoundsRestored ==
    Idle /\ ~killed => \A b \in Builds, s \in Pools : hpa[b][s] # "raised"

(* The cleanup job retires a build only when no Service selects it and no   *)
(* command is bringing it back: the renewed marker fences a run that read   *)
(* the cluster before the command started.                                  *)
CleanupSparesServing ==
    [][\A b \in Builds, s \in Pools :
          CronScale /\ rep'[b][s] = 0 /\ rep[b][s] > 0
              => /\ \A t \in Services : b \notin Selected(t)
                 /\ Idle \/ run.to # b \/ run.stage = "protect"]_vars

(* While pods of the serving build still forward old assets and actions,    *)
(* the standby has a replica in every pool; and a build that is selected    *)
(* alone already had the index mounted.                                     *)
ForwardingHonoured ==
    /\ Forwards(st.build) => LET peer == CHOOSE b \in Builds : b # st.build
                             IN \A s \in Pools : rep[peer][s] > 0
    /\ run.stage \in {"commit", "complete"} => proj[run.to] # 0

(* When the commands are over, a standby past its deadline with no          *)
(* autoscaler is scaled to zero.                                            *)
Retirable == /\ Idle
             /\ runs = MaxRuns
             /\ st.prev # NoBuild
             /\ \A s \in Services : svc[s].ver = st.build
             /\ \A s \in Pools : hpa[st.prev][s] = "none" /\ marker[st.prev][s] \in 1 .. MaxTime

StandbyRetired == Retirable ~> (Retirable => \A s \in Pools : rep[st.prev][s] = 0)
=============================================================================
