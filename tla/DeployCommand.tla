--------------------------- MODULE DeployCommand ---------------------------
(***************************************************************************)
(* adapter-k8s deploy, up to the cutover and after it: the preflight that  *)
(* refuses before anything is changed, the managed cache, the images, the  *)
(* transfer of the outgoing build out of Helm's release, the upgrade, and  *)
(* the sweep of superseded objects once the new build is committed.  The   *)
(* cutover itself is one step here; Cutover and Promotion model it.        *)
(***************************************************************************)
EXTENDS ManagedCache

Build(m) == cmd[m].build
From(m) == PrevOf(cmd[m].base)

(* Stages in which the command may still be refused without having touched  *)
(* an object of the release, and those in which it transfers objects.       *)
Preflight == {"metadata", "cluster", "apis", "pods", "nodes", "network", "serving",
              "claim", "create", "intent", "images", "digests", "edge", "recheck"}
Transfer == {"keepDeployment", "keepStable", "keepHpa", "adopt", "keepManifest", "keepSecret"}
Upgrading == Transfer \cup {"helm", "cutover", "park", "gcDeployments", "gcStable",
                            "gcConfigMaps", "gcSecrets", "cache", "cloud", "identity", "forget"}

(* A check fails, a call is refused or the process is killed: whatever the  *)
(* earlier stages did stays.                                                *)
Refused(m) ==
    /\ pc[m] \in Preflight \cup Transfer
    /\ Fault
    /\ Exit(m)
    /\ UNCHANGED <<objects, records, cache>>

(* next build, or --skip-build over an earlier one.  Deploys overlap each   *)
(* other; nothing in the code orders one against a destroy, and the         *)
(* operator is assumed to.                                                  *)
DeployStart(m, b) ==
    /\ \A n \in Machines : ~cmd[n].destroy
    /\ Begin(m)
    /\ plan' = [plan EXCEPT ![m] = b]
    /\ cmd' = [cmd EXCEPT ![m].build = b]
    /\ Go(m, "metadata")
    /\ said' = [said EXCEPT !.outcome = "none"]
    /\ gitops' = "imperative"
    /\ UNCHANGED <<objects, state, local, cache, faults, torn>>

Pass(m, at, next) ==
    /\ pc[m] = at
    /\ Go(m, next)
    /\ UNCHANGED <<objects, records, cache, cmd, history>>

(* Build metadata, release name and composition plan belong together. *)
MetadataValid(m) == Pass(m, "metadata", "cluster")

(* kubectl is pinned to this release's cluster and its identity verified,   *)
(* or the context confirmed by the operator.                                *)
ClusterPinned(m) == Pass(m, "cluster", "apis")

(* The server is recent enough and offers every API the plan requires. *)
ApisPresent(m) == Pass(m, "apis", "pods")

(* Pod and node ranges are looked up where the plan says. *)
PodRanges(m) == Pass(m, "pods", "nodes")
NodeRanges(m) == Pass(m, "nodes", "network")

(* Both are known, or isolation was given up by flag: the NetworkPolicies   *)
(* fail closed.                                                             *)
RangesKnown(m) == Pass(m, "network", "serving")

(* assertBuildIdChangedSinceServing. *)
BuildIdChanged(s, b) == PrevOf(s) # b

(* The record is read, the build must differ from the serving one and the   *)
(* cache identity and mode must agree with it; otherwise the command ends.  *)
ReadServing(m) ==
    /\ pc[m] = "serving"
    /\ LET s == ReadState(m)
           b == Build(m)
       IN IF /\ BuildIdChanged(s, b)
             /\ IdentityAgrees(m)
             /\ TransitionAuthorized(m, b, PrevOf(s), claim)
             /\ SamePlace(m, b)
          THEN /\ cmd' = [cmd EXCEPT ![m].base = s, ![m].claimed = claim]
               /\ Go(m, IF LocationOf[b] = NoLoc THEN "images" ELSE "claim")
          ELSE Exit(m)
    /\ UNCHANGED <<objects, records, cache, history>>

(* Images are built and pushed, and every one pinned to its digest. *)
PushImages(m) == Pass(m, "images", "digests")
PinDigests(m) == Pass(m, "digests", "edge")

(* The address and the CRDs that the plan's edge needs exist. *)
EdgeReady(m) == Pass(m, "edge", "recheck")

(* The record is read again right before Helm; the cache transition is      *)
(* authorised again, by the claim read earlier.  Two commands past this     *)
(* point are the subject of Cutover: here they wait for each other.         *)
Recheck(m) ==
    /\ pc[m] = "recheck"
    /\ \A n \in Machines \ {m} : pc[n] \notin Upgrading
    /\ IF /\ ReadState(m) = cmd[m].base
          /\ TransitionAuthorized(m, Build(m), From(m), cmd[m].claimed)
       THEN Go(m, IF From(m) = NoBuild THEN "adopt" ELSE "keepDeployment") /\ UNCHANGED cmd
       ELSE Exit(m)
    /\ UNCHANGED <<objects, records, cache, history>>

(* The outgoing Deployment is annotated keep, its template untouched; a     *)
(* recorded build whose Deployment is missing ends the command.             *)
KeepDeployment(m) ==
    /\ pc[m] = "keepDeployment"
    /\ IF Deployment(From(m)) \in live
          THEN kept' = kept \cup {Deployment(From(m))} /\ Go(m, "keepStable") /\ UNCHANGED cmd
          ELSE Exit(m) /\ UNCHANGED kept
    /\ UNCHANGED <<live, bare, guarded, manifest, valkey, records, cache, history>>

(* retainRemovedPoolResources: the stable objects of a pool the incoming    *)
(* build no longer has; its Service is required.                            *)
KeepStable(m) ==
    /\ pc[m] = "keepStable"
    /\ IF From(m) \in Wide /\ Build(m) \notin Wide
          THEN IF Stable \in live
                  THEN kept' = kept \cup {Stable} /\ Go(m, "keepHpa") /\ UNCHANGED cmd
                  ELSE Exit(m) /\ UNCHANGED kept
          ELSE Go(m, "keepHpa") /\ UNCHANGED <<kept, cmd>>
    /\ UNCHANGED <<live, bare, guarded, manifest, valkey, records, cache, history>>

(* The outgoing HPA, if it exists, is annotated and gains the release's     *)
(* labels in one patch.                                                     *)
KeepHpa(m) ==
    /\ pc[m] = "keepHpa"
    /\ kept' = kept \cup ({Hpa(From(m))} \cap live)
    /\ bare' = bare \ {Hpa(From(m))}
    /\ Go(m, "adopt")
    /\ UNCHANGED <<live, guarded, manifest, valkey, records, cache, cmd, history>>

(* ensureValkeySecretHelmOwnership: only the exact legacy Secret is adopted; *)
(* a foreign one ends the command before Helm would collide with it.        *)
AdoptValkey(m) ==
    /\ pc[m] = "adopt"
    /\ CASE LocationOf[Build(m)] = NoLoc \/ valkey \in {"none", "helm"} ->
               Go(m, "keepManifest") /\ UNCHANGED <<valkey, cmd>>
         [] LocationOf[Build(m)] # NoLoc /\ valkey = "legacy" ->
               valkey' = "helm" /\ Go(m, "keepManifest") /\ UNCHANGED cmd
         [] OTHER -> Exit(m) /\ UNCHANGED valkey
    /\ UNCHANGED <<live, kept, bare, guarded, manifest, records, cache, history>>

(* readRoutingServingConfig: the build whose manifest the routing tier      *)
(* mounts; before the cutover that is the outgoing one.                     *)
ServedSnapshot(m) == IF From(m) = NoBuild THEN {} ELSE {Snapshot(From(m))}

(* retainLiveRoutingManifest: that snapshot is written or annotated before  *)
(* Helm overwrites the stable manifest.                                     *)
KeepManifest(m) ==
    /\ pc[m] = "keepManifest"
    /\ live' = live \cup ServedSnapshot(m)
    /\ kept' = kept \cup ServedSnapshot(m)
    /\ Go(m, "keepSecret")
    /\ UNCHANGED <<bare, guarded, manifest, valkey, records, cache, cmd, history>>

(* Fault: the legacy Secret is left to the prune of the upgrade. *)
KeepSecret_Skipped(m) ==
    /\ pc[m] = "keepSecret"
    /\ Go(m, "helm")
    /\ UNCHANGED <<objects, records, cache, cmd, history>>

(* The stable-named dispatch Secret, which newer charts no longer render,   *)
(* is annotated keep for the pods that still read it.                       *)
KeepSecret(m) ==
    /\ pc[m] = "keepSecret"
    /\ kept' = kept \cup ({<<"secret", NoBuild>>} \cap live)
    /\ Go(m, "helm")
    /\ UNCHANGED <<live, bare, guarded, manifest, valkey, records, cache, cmd, history>>

HelmUpgrade(m) ==
    /\ pc[m] = "helm"
    /\ \/ Upgraded(Build(m)) /\ Go(m, "cutover") /\ UNCHANGED <<cmd, history>>
       \/ /\ Fault /\ Exit(m)
          /\ Upgraded(Build(m)) \/ PartlyUpgraded(Build(m)) \/ UNCHANGED objects
    /\ UNCHANGED <<records, cache>>

(* runCutover commits the build, or aborts and leaves the record alone. *)
CutoverCommits(m) ==
    /\ pc[m] = "cutover"
    /\ state' = [build |-> Build(m), prev |-> From(m), reverted |-> FALSE,
                 gen |-> IF cmd[m].base = NoState THEN 1 ELSE cmd[m].base.gen + 1]
    /\ local' = [local EXCEPT ![m] = state']
    /\ Go(m, "park")
    /\ UNCHANGED <<objects, plan, cache, cmd, history>>

CutoverAborts(m) ==
    /\ pc[m] = "cutover"
    /\ Fault
    /\ Exit(m)
    /\ UNCHANGED <<objects, records, cache>>

-----------------------------------------------------------------------------
(* After the commit: every call may fail, with a warning. *)

Gone(m, wanted) ==
    \/ Delete(wanted \cap live) /\ UNCHANGED history
    \/ Fault /\ \E some \in SUBSET (wanted \cap live) : Delete(some)

(* parkOutgoing deletes the outgoing HPA and scales its Deployment down. *)
Park(m) ==
    /\ pc[m] = "park"
    /\ Gone(m, IF From(m) = NoBuild THEN {} ELSE {Hpa(From(m))})
    /\ Go(m, "gcDeployments")
    /\ UNCHANGED <<records, cache, cmd>>

Superseded(m) == IF From(m) = NoBuild THEN {} ELSE Builds \ {Build(m), From(m)}

GcDeployments(m) ==
    /\ pc[m] = "gcDeployments"
    /\ Gone(m, {Deployment(d) : d \in Superseded(m)})
    /\ Go(m, "gcStable")
    /\ UNCHANGED <<records, cache, cmd>>

(* cleanupRetainedStablePoolResources keeps the pools of both builds. *)
GcStable(m) ==
    /\ pc[m] = "gcStable"
    /\ Gone(m, IF {Build(m), From(m)} \cap Wide # {} THEN {} ELSE {Stable} \cap kept)
    /\ Go(m, "gcConfigMaps")
    /\ UNCHANGED <<records, cache, cmd>>

GcConfigMaps(m) ==
    /\ pc[m] = "gcConfigMaps"
    /\ Gone(m, UNION {{Snapshot(d), Plan(d)} : d \in Superseded(m)})
    /\ Go(m, "gcSecrets")
    /\ UNCHANGED <<records, cache, cmd>>

(* Dispatch Secrets that no Deployment references; the per-build ones of    *)
(* both builds are always kept.                                             *)
GcSecrets(m) ==
    /\ pc[m] = "gcSecrets"
    /\ Gone(m, {Secret(d) : d \in Builds}
                  \ ({Secret(e) : e \in {f \in Builds : Deployment(f) \in live}}
                        \cup {<<"secret", Build(m)>>, <<"secret", From(m)>>}))
    /\ Go(m, "cache")
    /\ UNCHANGED <<records, cache, cmd>>

(* A build without managed cache deletes the outgoing build's instance, if  *)
(* that build's retained plan and the checkout's own coordinates agree.  A  *)
(* build with a cache of the user's own, whose Secret stays, is left out.   *)
SwitchCache(m) ==
    /\ pc[m] = "cache"
    /\ LET p == From(m)
       IN IF /\ LocationOf[Build(m)] = NoLoc
             /\ p # NoBuild
             /\ Plan(p) \in live
             /\ LocationOf[p] # NoLoc
             /\ coords[m] = LocationOf[p]
          THEN /\ cmd' = [cmd EXCEPT ![m].loc = LocationOf[p]]
               /\ Go(m, "cloud")
          ELSE Exit(m)
    /\ valkey' = IF LocationOf[Build(m)] = NoLoc THEN "none" ELSE valkey
    /\ UNCHANGED <<live, kept, bare, guarded, manifest, records, cache, history>>

DeployStep(m) ==
    \/ Refused(m) \/ MetadataValid(m) \/ ClusterPinned(m) \/ ApisPresent(m)
    \/ PodRanges(m) \/ NodeRanges(m) \/ RangesKnown(m)
    \/ ReadServing(m) \/ PushImages(m) \/ PinDigests(m) \/ EdgeReady(m) \/ Recheck(m)
    \/ KeepDeployment(m) \/ KeepStable(m) \/ KeepHpa(m) \/ AdoptValkey(m)
    \/ KeepManifest(m) \/ KeepSecret(m) \/ HelmUpgrade(m)
    \/ CutoverCommits(m) \/ CutoverAborts(m)
    \/ Park(m) \/ GcDeployments(m) \/ GcStable(m) \/ GcConfigMaps(m) \/ GcSecrets(m)
    \/ SwitchCache(m)
=============================================================================
