---------------------------- MODULE ManagedCache ----------------------------
(***************************************************************************)
(* The life of the paid Memorystore instance of a release: the claim that  *)
(* serialises its creation across deploy hosts, the intent recorded in the *)
(* checkout before the cloud is called, provisioning, and the deletion     *)
(* that a switch of cache mode or a destroy performs.                      *)
(***************************************************************************)
EXTENDS Release

Wanted(m) == LocationOf[cmd[m].build]

(* A cluster claim and the checkout's coordinates name the same place. *)
IdentityAgrees(m) == claim # NoLoc /\ coords[m] # NoLoc => claim = coords[m]

(* assertCacheTransitionAuthorized, and the pending marker: a build without *)
(* a managed cache is refused while a cloud operation may still complete,   *)
(* and without a committed build that could authorise deleting an instance. *)
TransitionAuthorized(m, b, prev, identity) ==
    LocationOf[b] = NoLoc =>
        /\ ~pending[m]
        /\ prev = NoBuild => identity = NoLoc /\ coords[m] = NoLoc

(* One release records one paid instance: the place is never changed. *)
SamePlace(m, b) ==
    LocationOf[b] # NoLoc /\ coords[m] # NoLoc => coords[m] = LocationOf[b]

(* Fault: the instance is created first, and recorded once it answers. *)
ReadClaim_AfterCreate(m) ==
    /\ pc[m] = "claim"
    /\ Go(m, "provision")
    /\ UNCHANGED <<objects, records, cache, cmd, history>>

(* claimManagedCacheIdentity: a claim of the same place is shared, one of   *)
(* another place ends the command.                                          *)
ReadClaim(m) ==
    /\ pc[m] = "claim"
    /\ CASE claim = NoLoc -> Go(m, "create") /\ UNCHANGED cmd
         [] claim = Wanted(m) -> Go(m, "intent") /\ UNCHANGED cmd
         [] OTHER -> Exit(m)
    /\ UNCHANGED <<objects, records, cache, history>>

(* kubectl create is the compare-and-set: AlreadyExists is read back. *)
CreateClaim(m) ==
    /\ pc[m] = "create"
    /\ IF claim = NoLoc
          THEN claim' = Wanted(m) /\ Go(m, "intent") /\ UNCHANGED cmd
          ELSE /\ IF claim = Wanted(m) THEN Go(m, "intent") /\ UNCHANGED cmd
                                       ELSE Exit(m)
               /\ UNCHANGED claim
    /\ UNCHANGED <<objects, records, instance, coords, pending, history>>

(* The intent is on disk before the cloud call: "the command may time out   *)
(* while GCP finishes successfully".                                        *)
RecordIntent(m) ==
    /\ pc[m] = "intent"
    /\ IF coords[m] = NoLoc
          THEN /\ coords' = [coords EXCEPT ![m] = Wanted(m)]
               /\ pending' = [pending EXCEPT ![m] = TRUE]
          ELSE UNCHANGED <<coords, pending>>
    /\ Go(m, "provision")
    /\ UNCHANGED <<objects, records, claim, instance, cmd, history>>

(* describeInstance, then reuse, or create: "already exists" falls through  *)
(* to the same verification.                                                *)
Provision(m) ==
    /\ pc[m] = "provision"
    /\ instance' = [instance EXCEPT ![Wanted(m)] = IF @ = "none" THEN "creating" ELSE @]
    /\ Go(m, "await")
    /\ UNCHANGED <<objects, records, claim, coords, pending, cmd, history>>

(* The create call is killed or refused: GCP may have accepted it. *)
ProvisionFails(m) ==
    /\ pc[m] = "provision"
    /\ Fault
    /\ instance' \in {instance, [instance EXCEPT ![Wanted(m)] =
                                    IF @ = "none" THEN "creating" ELSE @]}
    /\ Exit(m)
    /\ UNCHANGED <<objects, records, claim, coords, pending>>

(* GCP finishes a creation (external). *)
InstanceReady(l) ==
    /\ instance[l] = "creating"
    /\ instance' = [instance EXCEPT ![l] = "ready"]
    /\ UNCHANGED <<objects, records, claim, coords, pending, process, history>>

(* waitForReady, the configuration check and the credentials.  Only then is *)
(* the pending marker removed.                                              *)
Verified(m) ==
    /\ pc[m] = "await"
    /\ instance[Wanted(m)] = "ready"
    /\ pending' = [pending EXCEPT ![m] = FALSE]
    /\ Go(m, "images")
    /\ UNCHANGED <<objects, records, claim, instance, coords, cmd, history>>

(* It never becomes READY, differs from the plan or refuses its credentials. *)
NotVerified(m) ==
    /\ pc[m] = "await"
    /\ \/ instance[Wanted(m)] = "none" /\ UNCHANGED history
       \/ Fault
    /\ Exit(m)
    /\ UNCHANGED <<objects, records, cache>>

-----------------------------------------------------------------------------
(* cleanupManagedCache, called by a deploy that has switched the cache off  *)
(* (which only warns) and by a destroy (which counts the failure).          *)

CleanupEnds(m, ok) ==
    IF cmd[m].destroy
       THEN /\ Go(m, "report")
            /\ cmd' = [cmd EXCEPT ![m].failed = @ \/ ~ok]
       ELSE Exit(m)

(* The cloud first; an absent instance counts as deleted.  GCP refuses to   *)
(* delete one that is still being created.                                  *)
DeleteInstance(m) ==
    /\ pc[m] = "cloud"
    /\ IF instance[cmd[m].loc] = "creating"
          THEN CleanupEnds(m, FALSE) /\ UNCHANGED <<instance, history>>
          ELSE \/ /\ instance' = [instance EXCEPT ![cmd[m].loc] = "none"]
                  /\ Go(m, "identity")
                  /\ UNCHANGED <<cmd, history>>
               \/ /\ Fault
                  /\ instance' \in {instance, [instance EXCEPT ![cmd[m].loc] = "none"]}
                  /\ CleanupEnds(m, FALSE)
    /\ UNCHANGED <<objects, records, claim, coords, pending>>

(* Then the claim. *)
DeleteIdentity(m) ==
    /\ pc[m] = "identity"
    /\ \/ claim' = NoLoc /\ Go(m, "forget") /\ UNCHANGED <<cmd, history>>
       \/ Fault /\ CleanupEnds(m, FALSE) /\ UNCHANGED claim
    /\ UNCHANGED <<objects, records, instance, coords, pending>>

(* The checkout's coordinates last: they are what a retry works from. *)
ForgetCoordinates(m) ==
    /\ pc[m] = "forget"
    /\ coords' = [coords EXCEPT ![m] = NoLoc]
    /\ pending' = [pending EXCEPT ![m] = FALSE]
    /\ CleanupEnds(m, TRUE)
    /\ UNCHANGED <<objects, records, claim, instance, history>>

CacheStep(m) ==
    \/ ReadClaim(m) \/ CreateClaim(m) \/ RecordIntent(m)
    \/ Provision(m) \/ ProvisionFails(m) \/ Verified(m) \/ NotVerified(m)
    \/ DeleteInstance(m) \/ DeleteIdentity(m) \/ ForgetCoordinates(m)
=============================================================================
