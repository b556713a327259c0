-------------------------- MODULE RetentionExpiry --------------------------
(***************************************************************************)
(* Retention of the previous build: the signed index of                    *)
(* src/cutover/retention.ts, the expiry markers of                         *)
(* src/cutover/retention-expiry.ts, the readers of src/retention.ts and    *)
(* the scheduled cleanup of src/retention-expiry.ts that runs beside every *)
(* promotion and rollback.                                                 *)
(*                                                                         *)
(* Two builds with the same pools, both with retention enabled.  A         *)
(* deadline is a point of the clock; 0 is none.                            *)
(***************************************************************************)
EXTENDS BackendOverlap

CONSTANTS
    NoBuild,     \* null build id
    PrepWindow,  \* the one-hour ceiling set before traffic moves
    Grace,       \* the configured grace period and its allowance
    MaxTime      \* bound: the clock

ASSUME RetentionAssumption ==
    /\ NoBuild \notin Builds
    /\ PrepWindow \in Nat \ {0}
    /\ Grace \in Nat \ {0}
    /\ MaxTime \in Nat

VARIABLES
    now,      \* the clock
    st,       \* the recorded state: serving build and its predecessor
    rep,      \* replicas each Deployment asks for
    hpa,      \* its autoscaler: none, the chart's bounds, bounds raised
              \* for a warm-up, or widened by a rollback
    marker,   \* its expiry marker
    idx,      \* the index: how long each receiver forwards to the other build
    proj,     \* the index as each build's pods have it mounted
    cron      \* the cleanup run in progress

deployments == <<rep, hpa, marker>>
retentionVars == <<now, st, deployments, idx, proj, cron>>

Pools == Services
Deadline == 0 .. (MaxTime + PrepWindow + Grace)

CronIdle == [stage |-> "idle", found |-> {}, fresh |-> {}]

(* A write to a Deployment moves its resourceVersion: what a cleanup run    *)
(* saw of it no longer matches.                                             *)
Touched(c, b, s) == [c EXCEPT !.fresh = @ \ {<<b, s>>}]

-----------------------------------------------------------------------------
(* Markers and index, steps of a promotion or rollback *)

(* setRetentionExpiry, one Deployment. *)
SetMarker(b, s, deadline) ==
    /\ marker' = [marker EXCEPT ![b][s] = deadline]
    /\ cron' = Touched(cron, b, s)

(* Publishing the index before traffic moves.  The incoming build's record  *)
(* names the outgoing one for the preparation window; the outgoing build,   *)
(* still serving, keeps the verified record it had.                         *)
PublishIndex(incoming, outgoing) ==
    idx' = [idx EXCEPT ![incoming] = now + PrepWindow,
                       ![outgoing] = IF @ # 0 THEN @ ELSE now + PrepWindow]

(* waitForIndex: every ready pod of both builds has the published index.    *)
IndexProjected == proj = idx

(* complete(): the final deadline, written only over the index this run     *)
(* published.                                                                *)
FinalizeIndex(incoming) == idx' = [idx EXCEPT ![incoming] = now + Grace]

(* The reader in a pod of build b: the record it has mounted names the      *)
(* other build and has not expired.                                         *)
Forwards(b) == now < proj[b]

(* External: kubelet refreshes the mounted ConfigMap. *)
Project ==
    /\ proj # idx
    /\ proj' = idx
    /\ UNCHANGED <<now, st, deployments, idx, cron, overlapVars>>

-----------------------------------------------------------------------------
(* The scheduled cleanup, one run at a time (concurrencyPolicy: Forbid) *)

(* The run reads the state; without a predecessor there is nothing to do.   *)
(* A run that can find no expired marker changes nothing and is left out.   *)
CronStart ==
    /\ cron.stage = "idle"
    /\ st.prev # NoBuild
    /\ \E s \in Pools : marker[st.prev][s] # 0 /\ marker[st.prev][s] <= now
    /\ cron' = [stage |-> "deployments", at |-> now, st |-> st, found |-> {}, fresh |-> {}]
    /\ UNCHANGED <<now, st, deployments, idx, proj, overlapVars>>

(* A Deployment of the predecessor that may be retired at time at. *)
Expired(b, s, at) ==
    /\ marker[b][s] # 0
    /\ marker[b][s] <= at
    /\ rep[b][s] > 0

(* It lists the Deployments; their versions guard every later patch.  A run *)
(* with none to retire changes nothing and ends here.                       *)
CronListDeployments ==
    /\ cron.stage = "deployments"
    /\ LET b == cron.st.prev
           listed == {<<b, s>> : s \in {p \in Pools : Expired(b, p, cron.at)}}
       IN cron' = IF listed = {} THEN CronIdle
                  ELSE [cron EXCEPT !.stage = "services", !.found = listed, !.fresh = listed]
    /\ UNCHANGED <<now, st, deployments, idx, proj, overlapVars>>

(* Fault: the selectors are compared with the wrong build of the record. *)
TrafficSettled_Predecessor == \A s \in Services : svc[s].ver = cron.st.prev

(* Every stable Service must select the recorded build by version. *)
TrafficSettled == \A s \in Services : svc[s].ver = cron.st.build

CronListServices ==
    /\ cron.stage = "services"
    /\ cron' = IF TrafficSettled THEN [cron EXCEPT !.stage = "hpas"] ELSE CronIdle
    /\ UNCHANGED <<now, st, deployments, idx, proj, overlapVars>>

(* A Deployment with an autoscaler belongs to that controller. *)
CronListHpas ==
    /\ cron.stage = "hpas"
    /\ LET free == {d \in cron.found : hpa[d[1]][d[2]] = "none"}
       IN cron' = IF free = {} THEN CronIdle
                  ELSE [cron EXCEPT !.stage = "verify", !.found = free]
    /\ UNCHANGED <<now, st, deployments, idx, proj, overlapVars>>

(* Before each patch the state is read again; a change ends the run. *)
CronVerify ==
    /\ cron.stage = "verify"
    /\ cron' = IF cron.found = {} \/ st # cron.st THEN CronIdle
               ELSE [cron EXCEPT !.stage = "patch"]
    /\ UNCHANGED <<now, st, deployments, idx, proj, overlapVars>>

(* The Deployment is still the version that was listed. *)
Unmoved(d) == d \in cron.fresh

(* The scale patch, conditional on uid and resourceVersion; a conflict      *)
(* leaves the Deployment to a later run.                                    *)
CronScale ==
    /\ cron.stage = "patch"
    /\ LET d == CHOOSE x \in cron.found : \A y \in cron.found : x[2] <= y[2] IN
         /\ cron' = [cron EXCEPT !.stage = "verify", !.found = @ \ {d},
                                 !.fresh = @ \ {d}]
         /\ IF Unmoved(d)
            THEN /\ rep' = [rep EXCEPT ![d[1]][d[2]] = 0]
                 /\ ready' = [ready EXCEPT ![d[1]][d[2]] = 0]
                 /\ changed' = [changed EXCEPT ![d[2]] = @ \cup Noticed(d[1], d[2])]
                 /\ label' = [label EXCEPT ![d[2]][d[1]] = {}]
            ELSE UNCHANGED <<rep, ready, changed, label>>
    /\ UNCHANGED <<now, st, hpa, marker, idx, proj, svc, note, balancer, call, keys, told, faults>>

CronStep ==
    \/ CronStart
    \/ CronListDeployments
    \/ CronListServices
    \/ CronListHpas
    \/ CronVerify
    \/ CronScale

(* External: an API error ends a cleanup run at any read or patch. *)
CronFails ==
    /\ cron.stage # "idle"
    /\ Fault
    /\ cron' = CronIdle
    /\ UNCHANGED <<now, st, deployments, idx, proj, traffic, ready, changed, balancer, call,
                   keys, told>>

=============================================================================
