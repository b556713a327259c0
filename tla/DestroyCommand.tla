--------------------------- MODULE DestroyCommand ---------------------------
(***************************************************************************)
(* adapter-k8s destroy: the plans and identities are read while they still *)
(* exist, then every kind of object is deleted in turn.  A failed deletion *)
(* is remembered and the rest goes on; the command ends incomplete and     *)
(* keeps the checkout's state for the next attempt.                        *)
(***************************************************************************)
EXTENDS DeployCommand

(* Unlabelled HPAs whose Deployment is already gone: nothing ties them to   *)
(* the release any more, and no sweep of the CLI deletes them.              *)
Strays == {Hpa(b) : b \in {d \in Builds : Deployment(d) \notin live}} \cap bare

(* The checkout's infrastructure.json: absent, without project and bucket   *)
(* (then it has cache coordinates at most), or as init wrote it.            *)
Files == {"none", "partial", "full"}

(* The file is read first.  The confirmation gate and the pinning of        *)
(* kubectl delete nothing; destroy runs alone.                              *)
DestroyStart(m) ==
    /\ AllIdle
    /\ Begin(m)
    /\ \E file \in Files :
          /\ coords[m] # NoLoc => file # "none"
          /\ cmd' = [cmd EXCEPT ![m].destroy = TRUE, ![m].file = file]
    /\ Go(m, "plans")
    /\ said' = [outcome |-> "none", strays |-> Strays, listed |-> {}, skipped |-> {}]
    /\ UNCHANGED <<objects, records, cache, faults, torn, gitops>>

(* The builds of the record whose committed plan must be at hand. *)
Committed(m) ==
    LET s == ReadState(m) IN IF s = NoState THEN {} ELSE {s.build, s.prev} \ {NoBuild}

Own(m) == {plan[m]} \ {NoBuild}

(* Refused before anything is deleted: a plan the record names is neither   *)
(* in the checkout nor in the cluster.                                      *)
PlanMissing(m) == \E b \in Committed(m) \ Own(m) : Plan(b) \notin live

(* The plans are retained in memory.  An unreadable record leaves the       *)
(* checkout's own plan, if it has one.                                      *)
LoadPlans(m) ==
    /\ pc[m] = "plans"
    /\ \/ /\ PlanMissing(m)
          /\ Exit(m)
          /\ said' = [said EXCEPT !.outcome = "refused"]
          /\ UNCHANGED <<runs, faults, torn, gitops>>
       \/ /\ ~PlanMissing(m)
          /\ cmd' = [cmd EXCEPT ![m].plans = Own(m) \cup Committed(m)]
          /\ Go(m, "identities")
          /\ UNCHANGED history
       \/ /\ Fault
          /\ cmd' = [cmd EXCEPT ![m].plans = Own(m)]
          /\ Go(m, "identities")
    /\ UNCHANGED <<objects, records, cache>>

(* HPAs may carry no label: only their target Deployment identifies them,   *)
(* so they are listed by name before Helm removes it.                       *)
Identities(m) ==
    /\ pc[m] = "identities"
    /\ \/ /\ cmd' = [cmd EXCEPT ![m].seen =
                {Hpa(b) : b \in {d \in Builds : Deployment(d) \in live}} \cap live]
          /\ Go(m, "uninstall")
          /\ UNCHANGED history
       \/ Fault /\ Exit(m)
    /\ UNCHANGED <<objects, records, cache>>

Failed(m, next) ==
    /\ Fault
    /\ cmd' = [cmd EXCEPT ![m].failed = TRUE]
    /\ Go(m, next)

Uninstall(m) ==
    /\ pc[m] = "uninstall"
    /\ \/ /\ Uninstalled
          /\ torn' = TRUE
          /\ Go(m, "seenHpas")
          /\ UNCHANGED <<cmd, runs, faults, said, gitops>>
       \/ Failed(m, "seenHpas") /\ UNCHANGED objects
    /\ UNCHANGED <<records, cache>>

(* deleteOwnedKubernetes: "already gone" is success, anything else is       *)
(* remembered and the next kind follows.                                    *)
DeleteOwned(m, at, gone, next) ==
    /\ pc[m] = at
    /\ \/ /\ Delete(gone)
          /\ torn' = TRUE
          /\ Go(m, next)
          /\ UNCHANGED <<cmd, runs, faults, said, gitops>>
       \/ Failed(m, next) /\ UNCHANGED objects
    /\ UNCHANGED <<records, cache>>

OfKind(kind) == {o \in live : o[1] = kind}

DestroySeenHpas(m) == DeleteOwned(m, "seenHpas", cmd[m].seen, "deployments")
DestroyDeployments(m) == DeleteOwned(m, "deployments", OfKind("deployment"), "hpas")
DestroyHpas(m) == DeleteOwned(m, "hpas", OfKind("hpa") \ bare, "stable")
DestroyStable(m) == DeleteOwned(m, "stable", OfKind("stable"), "contributed")

(* Objects a loaded plan lists, each after a check of its ownership label. *)
DestroyContributed(m) ==
    DeleteOwned(m, "contributed",
                IF cmd[m].plans = {} THEN {} ELSE OfKind("contributed"), "state")

(* The state ConfigMap: the checkout's copy goes only when this one did. *)
DestroyState(m) ==
    /\ pc[m] = "state"
    /\ \/ /\ state' = NoState
          /\ torn' = TRUE
          /\ Go(m, "snapshots")
          /\ UNCHANGED <<cmd, runs, faults, said, gitops>>
       \/ Failed(m, "snapshots") /\ UNCHANGED state
    /\ UNCHANGED <<objects, local, plan, cache>>

DestroySnapshots(m) == DeleteOwned(m, "snapshots", OfKind("snapshot"), "configMaps")
DestroyPlans(m) == DeleteOwned(m, "configMaps", OfKind("plan"), "secrets")

(* Fault: helm uninstall is trusted with the dispatch Secrets. *)
DestroySecrets_Helm(m) == DeleteOwned(m, "secrets", OfKind("secret") \ kept, "external")

DestroySecrets(m) == DeleteOwned(m, "secrets", OfKind("secret"), "external")

(* Cloud operations run only when the checkout's own plan authorises them.  *)
(* Without any plan the legacy infrastructure file decides, and one that is *)
(* absent or incomplete leaves the resources alone, silently.               *)
ExternalAuthorized(m) ==
    plan[m] # NoBuild \/ (cmd[m].plans = {} /\ cmd[m].file = "full")

(* The bucket, accounts and edge resources, one command each. *)
DestroyExternal(m) ==
    /\ pc[m] = "external"
    /\ \/ /\ ExternalAuthorized(m)
          /\ Delete({Cloud})
          /\ UNCHANGED <<cmd, history>>
       \/ /\ ~ExternalAuthorized(m)
          /\ UNCHANGED <<objects, cmd, history>>
       \/ /\ ExternalAuthorized(m)
          /\ Fault
          /\ cmd' = [cmd EXCEPT ![m].failed = TRUE]
          /\ UNCHANGED objects
    /\ Go(m, "paid")
    /\ UNCHANGED <<records, cache>>

(* The managed cache of the legacy file: the cluster's coordinates stand in *)
(* for missing cache coordinates.                                           *)
InfrastructureCache(m) ==
    IF coords[m] # NoLoc THEN coords[m] ELSE IF cmd[m].file = "full" THEN Default ELSE NoLoc

AuthorizedCache(m) ==
    IF plan[m] # NoBuild THEN LocationOf[plan[m]]
    ELSE IF cmd[m].plans # {} THEN NoLoc ELSE InfrastructureCache(m)

(* What the loaded plans list, or without any the file: "cloud" for the     *)
(* resources of DestroyExternal, and the place of a managed cache.          *)
Listed(m) ==
    (IF cmd[m].plans # {} THEN {"cloud"} \cup {LocationOf[b] : b \in cmd[m].plans}
     ELSE {InfrastructureCache(m)} \cup (IF cmd[m].file = "full" THEN {"cloud"} ELSE {}))
        \ {NoLoc}

Authorized(m) ==
    {AuthorizedCache(m)} \cup (IF ExternalAuthorized(m) THEN {"cloud"} ELSE {})

(* The managed cache is the last of the operations; what only the cluster's *)
(* plans list is kept for the report instead.                               *)
DestroyCache(m) ==
    /\ pc[m] = "paid"
    /\ IF AuthorizedCache(m) = NoLoc
          THEN Go(m, "report") /\ UNCHANGED cmd
          ELSE /\ cmd' = [cmd EXCEPT ![m].loc = AuthorizedCache(m)]
               /\ Go(m, "cloud")
    /\ said' = [said EXCEPT !.listed = Listed(m), !.skipped = Listed(m) \ Authorized(m)]
    /\ UNCHANGED <<objects, records, cache, runs, faults, torn, gitops>>

(* With any failure the exit code is 1 and the checkout keeps its state;    *)
(* otherwise removeLocalState retires it.                                   *)
Report(m) ==
    /\ pc[m] = "report"
    /\ IF cmd[m].failed
          THEN /\ said' = [said EXCEPT !.outcome = "incomplete"]
               /\ UNCHANGED local
          ELSE /\ said' = [said EXCEPT !.outcome = "complete"]
               /\ local' = [local EXCEPT ![m] = NoState]
    /\ Exit(m)
    /\ UNCHANGED <<objects, state, plan, cache, runs, faults, torn, gitops>>

DestroyStep(m) ==
    \/ LoadPlans(m) \/ Identities(m) \/ Uninstall(m) \/ DestroySeenHpas(m)
    \/ DestroyDeployments(m) \/ DestroyHpas(m) \/ DestroyStable(m)
    \/ DestroyContributed(m) \/ DestroyState(m) \/ DestroySnapshots(m)
    \/ DestroyPlans(m) \/ DestroySecrets(m) \/ DestroyExternal(m) \/ DestroyCache(m)
    \/ Report(m)
=============================================================================
