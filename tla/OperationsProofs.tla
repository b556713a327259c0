--------------------------- MODULE OperationsProofs ---------------------------
(***************************************************************************)
(* Proofs about the operator's commands (Operations), for any number of    *)
(* checkouts, builds, locations, commands and failed calls.  The recorded  *)
(* builds can always be started again (RecordedBuildsWhole), a destroy     *)
(* that reports success is honest (DestroyIsHonest), and no deploy loses a *)
(* paid cache (PaidCacheStaysNamed).  All of it rests on one inductive     *)
(* invariant, OpsInv, whose conjuncts are stated first.                    *)
(***************************************************************************)
EXTENDS Operations, TLAPS

(* The stages of a deploy, and how far it has come. *)
Paying == {"provision", "await"}
Checked == {"claim", "create", "intent", "images", "digests", "edge", "recheck"} \cup Paying
Committing == Transfer \cup {"helm", "cutover"}
Sweeping == {"park", "gcDeployments", "gcStable", "gcConfigMaps", "gcSecrets", "cache"}
Cleaning == {"cloud", "identity", "forget"}
DeployStages == Preflight \cup Paying \cup Upgrading

(* The stages of a destroy that lie behind each deletion. *)
PastExternal == Cleaning \cup {"paid", "report"}
PastSecrets == PastExternal \cup {"external"}
PastPlans == PastSecrets \cup {"secrets"}
PastSnapshots == PastPlans \cup {"configMaps"}
PastState == PastSnapshots \cup {"snapshots"}
PastContributed == PastState \cup {"state"}
PastStable == PastContributed \cup {"contributed"}
PastHpas == PastStable \cup {"stable"}
PastDeployments == PastHpas \cup {"hpas"}
PastSeen == PastDeployments \cup {"deployments"}
PastUninstall == PastSeen \cup {"seenHpas"}
PastIdentities == PastUninstall \cup {"uninstall"}
DestroyStages == PastIdentities \cup {"plans", "identities"}

(* What a command holds in memory. *)
Command ==
    [build: Builds \cup {NoBuild}, base: Record \cup {NoState}, plans: SUBSET Builds,
     seen: SUBSET Objects, loc: Locations \cup {NoLoc}, claimed: Locations \cup {NoLoc},
     file: Files, failed: BOOLEAN, destroy: BOOLEAN]

(* What a destroy may list or skip outside the cluster. *)
Outside == {"cloud"} \cup Locations

(* The types, with those the type invariant leaves out. *)
Types ==
    /\ TypeOK
    /\ pc \in [Machines -> {"idle"} \cup DeployStages \cup DestroyStages]
    /\ cmd \in [Machines -> Command]
    /\ faults \in Nat /\ runs \in Nat /\ torn \in BOOLEAN
    /\ said \in [outcome: {"none", "refused", "incomplete", "complete"},
                 strays: SUBSET Objects, listed: SUBSET Outside, skipped: SUBSET Outside]
    /\ gitops \in {"imperative", "migrated", "synced"}
    /\ \A o \in bare : o[1] = "hpa"

(* Who may be where: a destroy is alone, and one deploy at a time is past its last check of
   the record; nothing but a destroy runs on a migrated release. *)
Turns ==
    /\ \A m \in Machines : pc[m] = "idle" => cmd[m] = Idle
    /\ \A m \in Machines : cmd[m].destroy =>
          pc[m] \in DestroyStages /\ \A n \in Machines \ {m} : pc[n] = "idle"
    /\ \A m \in Machines : pc[m] # "idle" /\ ~cmd[m].destroy =>
          pc[m] \in DeployStages /\ cmd[m].build \in Builds
    /\ \A m, n \in Machines : pc[m] \in Upgrading /\ pc[n] \in Upgrading => m = n
    /\ gitops # "imperative" => \A m \in Machines : pc[m] = "idle" \/ cmd[m].destroy
    /\ gitops = "synced" => AllIdle

(* What the record says, and what a deploy holds of it: until something is deleted there is
   a record, no checkout has a newer one, a deploy past its last check works from it, and
   after its commit the record is its own. *)
Records ==
    /\ ~torn => /\ state # NoState
                /\ state.prev # state.build
                /\ \A m \in Machines : local[m] # NoState => local[m].gen <= state.gen
    /\ \A m \in Machines : pc[m] \in Checked \cup Committing =>
          PrevOf(cmd[m].base) # cmd[m].build
    /\ ~torn => \A m \in Machines :
          /\ pc[m] \in Committing => cmd[m].base = state
          /\ pc[m] \in Sweeping =>
                /\ state.build = Build(m) /\ state.prev = From(m) /\ ~state.reverted
                /\ From(m) # NoBuild

(* Why an upgrade, an uninstall or a sync removes only what it should: everything a past build
   needs carries the keep policy, and after a completed migration the reconciler's too. *)
Annotated ==
    /\ gitops # "synced" => \A b \in Builds :
          /\ Plan(b) \in live => Plan(b) \in kept
          /\ Snapshot(b) \in live => Snapshot(b) \in kept
          /\ b \notin Legacy /\ Secret(b) \in live => Secret(b) \in kept
    /\ gitops = "migrated" =>
          \A o \in live : o[1] \in {"deployment", "secret", "plan", "snapshot"} => o \in guarded
    /\ Contributed \notin kept /\ (Contributed \in live => Contributed \in manifest)

(* Stages of a deploy that lie behind the annotation of the outgoing Deployment, and behind
   that of the stable objects of its second pool. *)
KeptDeployment == Committing \ {"keepDeployment"}
KeptStable == KeptDeployment \ {"keepStable"}

(* What stands while nothing is torn down, strong enough to survive the next step: a plan and
   a snapshot of the previous build even after a rollback, and what a deploy in progress has
   annotated, so that its upgrade cannot prune it. *)
Standing ==
    ~torn =>
      /\ Whole(state.build) \subseteq live
      /\ state.build \in Wide => Stable \in live
      /\ state.prev # NoBuild =>
            /\ {Plan(state.prev), Snapshot(state.prev)} \subseteq live
            /\ ~state.reverted =>
                  /\ Deployment(state.prev) \in live
                  /\ gitops # "synced" => Deployment(state.prev) \in kept
      /\ \A b \in Builds : Deployment(b) \in live => Secret(b) \in live
      /\ \A m \in Machines :
            /\ pc[m] \in KeptDeployment => Deployment(From(m)) \in kept
            /\ pc[m] \in KeptStable /\ From(m) \in Wide /\ Build(m) \notin Wide => Stable \in kept
            /\ pc[m] = "helm" /\ <<"secret", NoBuild>> \in live => <<"secret", NoBuild>> \in kept
            /\ pc[m] = "cutover" => Chart(Build(m)) \subseteq live

(* No object of the kind exists. *)
NoneOf(kind) == \A o \in live : o[1] # kind

(* How far a destroy without a failure has come, deletion by deletion. *)
Destroyed(m) ==
    /\ pc[m] \in {"plans", "identities"} => said.strays = Strays
    /\ pc[m] \in {"uninstall", "seenHpas"} => bare \subseteq cmd[m].seen \cup said.strays
    /\ pc[m] \in PastUninstall => Contributed \notin live
    /\ pc[m] \in PastSeen => bare \subseteq said.strays
    /\ pc[m] \in PastDeployments => NoneOf("deployment")
    /\ pc[m] \in PastHpas => \A o \in live : o[1] = "hpa" => o \in said.strays
    /\ pc[m] \in PastStable => NoneOf("stable")
    /\ pc[m] \in PastState => state = NoState
    /\ pc[m] \in PastSnapshots => NoneOf("snapshot")
    /\ pc[m] \in PastPlans => NoneOf("plan")
    /\ pc[m] \in PastSecrets => NoneOf("secret")

(* And outside the cluster: what it listed and did not skip is deleted. *)
Settled(m) ==
    /\ pc[m] = "paid" /\ ExternalAuthorized(m) => Cloud \notin live
    /\ pc[m] \in Cleaning \cup {"report"} /\ "cloud" \in said.listed \ said.skipped =>
          Cloud \notin live
    /\ pc[m] \in Cleaning => (said.listed \ said.skipped) \cap Locations \subseteq {cmd[m].loc}
    /\ pc[m] \in {"identity", "forget"} /\ cmd[m].loc \in Locations =>
          instance[cmd[m].loc] = "none"
    /\ pc[m] = "report" =>
          \A l \in (said.listed \ said.skipped) \cap Locations : instance[l] = "none"

(* While a destroy runs nothing is reported; after one has reported success nothing runs. *)
Emptied ==
    /\ \A m \in Machines : cmd[m].destroy =>
          said.outcome = "none" /\ (~cmd[m].failed => Destroyed(m) /\ Settled(m))
    /\ said.outcome = "complete" => AllIdle
    /\ DestroyHonest

(* A deploy names the place of the cache before it pays for it, and deletes it there. *)
PaysFor(m) ==
    /\ pc[m] \in {"claim", "create", "intent"} =>
          Wanted(m) # NoLoc /\ coords[m] \in {NoLoc, Wanted(m)}
    /\ pc[m] \in Paying => Wanted(m) # NoLoc /\ coords[m] = Wanted(m)
    /\ pc[m] \in Cleaning /\ ~cmd[m].destroy =>
          /\ coords[m] = cmd[m].loc /\ cmd[m].loc # NoLoc
          /\ pc[m] # "cloud" => \/ instance[cmd[m].loc] = "none"
                                \/ \E n \in Machines \ {m} : coords[n] = cmd[m].loc

Paid == \A m \in Machines : PaysFor(m)

(* The stages of a destroy, and those of a deploy. *)
LEMMA DestroyStageList ==
  DestroyStages = {"plans", "identities", "uninstall", "seenHpas", "deployments", "hpas",
                   "stable", "contributed", "state", "snapshots", "configMaps", "secrets",
                   "external", "paid", "cloud", "identity", "forget", "report"}
BY DEF DestroyStages, PastIdentities, PastUninstall, PastSeen, PastDeployments, PastHpas,
       PastStable, PastContributed, PastState, PastSnapshots, PastPlans, PastSecrets,
       PastExternal, Cleaning

LEMMA DeployStageList ==
  DeployStages = {"metadata", "cluster", "apis", "pods", "nodes", "network", "serving",
                  "claim", "create", "intent", "images", "digests", "edge", "recheck",
                  "provision", "await"} \cup Upgrading
BY DEF DeployStages, Preflight, Paying

LEMMA UpgradingList ==
  Upgrading = {"keepDeployment", "keepStable", "keepHpa", "adopt", "keepManifest",
               "keepSecret", "helm", "cutover", "park", "gcDeployments", "gcStable",
               "gcConfigMaps", "gcSecrets", "cache", "cloud", "identity", "forget"}
BY DEF Upgrading, Transfer

(* A running command goes on to another stage with the same build in hand, or ends. *)
Onward(m) ==
  /\ pc' \in [Machines -> {"idle"} \cup DeployStages \cup DestroyStages]
  /\ cmd' \in [Machines -> Command]
  /\ \A n \in Machines \ {m} : pc'[n] = pc[n] /\ cmd'[n] = cmd[n]
  /\ \/ pc'[m] = "idle" /\ cmd'[m] = Idle
     \/ /\ pc'[m] # "idle"
        /\ cmd'[m].build = cmd[m].build /\ cmd'[m].destroy = cmd[m].destroy
        /\ cmd[m].failed => cmd'[m].failed
        /\ IF cmd[m].destroy
              THEN pc'[m] \in DestroyStages
              ELSE /\ pc'[m] \in DeployStages
                   /\ pc'[m] \in Upgrading => \/ pc[m] \in Upgrading
                                              \/ \A n \in Machines \ {m} : pc[n] \notin Upgrading

(* What an ended command leaves in memory. *)
LEMMA IdleIsCommand == Idle \in Command
BY ReleaseAssumption DEF Idle, Command, Files

(* A command that ends has gone onward. *)
LEMMA ExitsOnward ==
  ASSUME Types, NEW m \in Machines, Exit(m)
  PROVE  Onward(m)
BY IdleIsCommand DEF Exit, Onward, Types

(* A stage of a deploy follows another; one of the upgrade only from the upgrade. *)
LEMMA GoesOnward ==
  ASSUME Types, NEW m \in Machines, NEW s, Go(m, s), UNCHANGED cmd, s # "idle",
         IF cmd[m].destroy THEN s \in DestroyStages
         ELSE s \in DeployStages /\ (s \in Upgrading => pc[m] \in Upgrading)
  PROVE  Onward(m)
BY DEF Onward, Go, Types

(* A command that goes on with something new in memory. *)
LEMMA CarriesOnward ==
  ASSUME Types, NEW m \in Machines, NEW s, Go(m, s), s # "idle",
         cmd' \in [Machines -> Command], \A n \in Machines \ {m} : cmd'[n] = cmd[n],
         cmd'[m].build = cmd[m].build, cmd'[m].destroy = cmd[m].destroy,
         cmd[m].failed => cmd'[m].failed,
         IF cmd[m].destroy THEN s \in DestroyStages
         ELSE s \in DeployStages /\ (s \in Upgrading => pc[m] \in Upgrading)
  PROVE  Onward(m)
BY DEF Onward, Go, Types

(* The stage tells which command runs. *)
LEMMA StageOfDeploy ==
  ASSUME Turns, NEW m \in Machines, pc[m] # "idle", pc[m] \notin DestroyStages
  PROVE  ~cmd[m].destroy /\ cmd[m].build \in Builds
BY DEF Turns

LEMMA StageOfDestroy ==
  ASSUME Turns, NEW m \in Machines, pc[m] # "idle", pc[m] \notin DeployStages
  PROVE  cmd[m].destroy
BY DEF Turns

(* The checks of the preflight. *)
LEMMA PassOnward ==
  ASSUME Types, Turns, NEW m \in Machines,
         \/ MetadataValid(m) \/ ClusterPinned(m) \/ ApisPresent(m) \/ PodRanges(m)
         \/ NodeRanges(m) \/ RangesKnown(m) \/ PushImages(m) \/ PinDigests(m) \/ EdgeReady(m)
  PROVE  Onward(m)
<1> DEFINE early == {"metadata", "cluster", "apis", "pods", "nodes", "network", "serving",
                     "images", "digests", "edge", "recheck"}
<1>1. pc[m] \in early /\ UNCHANGED cmd /\ \E s \in early : Go(m, s)
  BY DEF MetadataValid, ClusterPinned, ApisPresent, PodRanges, NodeRanges, RangesKnown,
         PushImages, PinDigests, EdgeReady, Pass
<1>2. PICK s \in early : Go(m, s)
  BY <1>1
<1>3. early \subseteq DeployStages /\ early \cap Upgrading = {} /\ "idle" \notin early
      /\ early \cap DestroyStages = {}
  BY DeployStageList, UpgradingList, DestroyStageList
<1> HIDE DEF early
<1>4. ~cmd[m].destroy
  BY <1>1, <1>3, StageOfDeploy
<1> QED
  BY <1>1, <1>2, <1>3, <1>4, GoesOnward

(* The first read of the record, and the one right before Helm. *)
LEMMA ReadServingOnward ==
  ASSUME Types, Turns, NEW m \in Machines, ReadServing(m)
  PROVE  Onward(m)
<1>1. ~cmd[m].destroy
  BY DestroyStageList, StageOfDeploy DEF ReadServing
<1>2. CASE Exit(m)
  BY <1>2, ExitsOnward
<1>3. CASE ~Exit(m)
  <2> DEFINE s == ReadState(m)
             c == [cmd[m] EXCEPT !.base = s, !.claimed = claim]
  <2>1. s \in Record \cup {NoState} /\ claim \in Locations \cup {NoLoc} /\ cmd[m] \in Command
    BY DEF Types, TypeOK, ReadState
  <2> HIDE DEF s
  <2>2. /\ cmd' = [cmd EXCEPT ![m] = c]
        /\ Go(m, "images") \/ Go(m, "claim")
    BY <1>3 DEF ReadServing, s
  <2>3. c \in Command
    BY <2>1 DEF Command
  <2>4. c.build = cmd[m].build /\ c.destroy = cmd[m].destroy /\ c.failed = cmd[m].failed
    BY <2>1 DEF Command
  <2> HIDE DEF c
  <2> QED
    BY <1>1, <2>2, <2>3, <2>4, CarriesOnward, DeployStageList, UpgradingList DEF Types
<1> QED
  BY <1>2, <1>3

LEMMA RecheckOnward ==
  ASSUME Types, Turns, NEW m \in Machines, Recheck(m)
  PROVE  Onward(m)
<1>1. ~cmd[m].destroy
  BY DestroyStageList, StageOfDeploy DEF Recheck
<1>2. CASE Exit(m)
  BY <1>2, ExitsOnward
<1>3. CASE ~Exit(m)
  BY <1>1, <1>3, DeployStageList, UpgradingList DEF Recheck, Onward, Go, Types
<1> QED
  BY <1>2, <1>3

(* The transfer of the outgoing build, the upgrade, the cutover and the sweep. *)
LEMMA UpgradeOnward ==
  ASSUME Types, Turns, NEW m \in Machines,
         \/ KeepDeployment(m) \/ KeepStable(m) \/ KeepHpa(m) \/ AdoptValkey(m)
         \/ KeepManifest(m) \/ KeepSecret(m) \/ HelmUpgrade(m) \/ CutoverCommits(m)
         \/ Park(m) \/ GcDeployments(m) \/ GcStable(m) \/ GcConfigMaps(m) \/ GcSecrets(m)
  PROVE  Onward(m)
<1> DEFINE late == {"keepDeployment", "keepStable", "keepHpa", "adopt", "keepManifest",
                    "keepSecret", "helm", "cutover", "park", "gcDeployments", "gcStable",
                    "gcConfigMaps", "gcSecrets", "cache"}
<1>1. pc[m] \in late /\ (Exit(m) \/ (UNCHANGED cmd /\ \E s \in late : Go(m, s)))
  BY DEF KeepDeployment, KeepStable, KeepHpa, AdoptValkey, KeepManifest, KeepSecret, HelmUpgrade,
         CutoverCommits, Park, GcDeployments, GcStable, GcConfigMaps, GcSecrets
<1>2. late \subseteq DeployStages /\ late \subseteq Upgrading /\ "idle" \notin late
      /\ late \cap DestroyStages = {}
  BY DeployStageList, UpgradingList, DestroyStageList
<1> HIDE DEF late
<1>3. ~cmd[m].destroy
  BY <1>1, <1>2, StageOfDeploy
<1>4. CASE ~Exit(m)
  <2>1. UNCHANGED cmd /\ \E s \in late : Go(m, s)
    BY <1>1, <1>4
  <2>2. PICK s \in late : Go(m, s)
    BY <2>1
  <2> QED
    BY <1>1, <1>2, <1>3, <2>1, <2>2, GoesOnward
<1> QED
  BY <1>4, ExitsOnward

(* The managed cache: the switch, its creation and its cleanup. *)
LEMMA SwitchOnward ==
  ASSUME Types, Turns, NEW m \in Machines, SwitchCache(m)
  PROVE  Onward(m)
<1>1. ~cmd[m].destroy /\ pc[m] \in Upgrading
  BY DestroyStageList, UpgradingList, StageOfDeploy DEF SwitchCache
<1>2. CASE ~Exit(m)
  <2> DEFINE l == LocationOf[From(m)]
             c == [cmd[m] EXCEPT !.loc = l]
  <2>1. coords[m] = l /\ cmd' = [cmd EXCEPT ![m] = c] /\ Go(m, "cloud")
    BY <1>2 DEF SwitchCache
  <2> HIDE DEF l
  <2>2. l \in Locations \cup {NoLoc} /\ cmd[m] \in Command
    BY <2>1 DEF Types, TypeOK
  <2>3. c \in Command
    BY <2>2 DEF Command
  <2>4. c.build = cmd[m].build /\ c.destroy = cmd[m].destroy /\ c.failed = cmd[m].failed
    BY <2>2 DEF Command
  <2> HIDE DEF c
  <2> QED
    BY <1>1, <2>1, <2>3, <2>4, CarriesOnward, DeployStageList, UpgradingList DEF Types
<1> QED
  BY <1>2, ExitsOnward

LEMMA ProvisionOnward ==
  ASSUME Types, Turns, NEW m \in Machines,
         \/ ReadClaim(m) \/ CreateClaim(m) \/ RecordIntent(m) \/ Provision(m)
         \/ ProvisionFails(m) \/ Verified(m) \/ NotVerified(m)
  PROVE  Onward(m)
<1> DEFINE paying == {"claim", "create", "intent", "provision", "await", "images"}
<1>1. pc[m] \in paying /\ (Exit(m) \/ (UNCHANGED cmd /\ \E s \in paying : Go(m, s)))
  BY DEF ReadClaim, CreateClaim, RecordIntent, Provision, ProvisionFails, Verified, NotVerified
<1>2. paying \subseteq DeployStages /\ paying \cap Upgrading = {} /\ "idle" \notin paying
      /\ paying \cap DestroyStages = {}
  BY DeployStageList, UpgradingList, DestroyStageList
<1> HIDE DEF paying
<1>3. ~cmd[m].destroy
  BY <1>1, <1>2, StageOfDeploy
<1>4. CASE ~Exit(m)
  <2>1. UNCHANGED cmd /\ \E s \in paying : Go(m, s)
    BY <1>1, <1>4
  <2>2. PICK s \in paying : Go(m, s)
    BY <2>1
  <2> QED
    BY <1>1, <1>2, <1>3, <2>1, <2>2, GoesOnward
<1> QED
  BY <1>4, ExitsOnward

(* What a command remembers of a failure. *)
LEMMA FailedOnward ==
  ASSUME Types, NEW m \in Machines, NEW f \in BOOLEAN, cmd[m].destroy, NEW s \in DestroyStages,
         s # "idle", Go(m, s), cmd' = [cmd EXCEPT ![m].failed = f], cmd[m].failed => f
  PROVE  Onward(m) /\ cmd'[m] = [cmd[m] EXCEPT !.failed = f]
<1> DEFINE c == [cmd[m] EXCEPT !.failed = f]
<1>1. cmd[m] \in Command
  BY DEF Types
<1>2. c \in Command
  BY <1>1 DEF Command
<1>3. c.build = cmd[m].build /\ c.destroy = cmd[m].destroy /\ c.failed = f
  BY <1>1 DEF Command
<1>4. cmd' = [cmd EXCEPT ![m] = c]
  OBVIOUS
<1> HIDE DEF c
<1>5. cmd' \in [Machines -> Command] /\ cmd'[m] = c /\ \A n \in Machines \ {m} : cmd'[n] = cmd[n]
  BY <1>2, <1>4 DEF Types
<1>6. Onward(m)
  BY <1>3, <1>5, CarriesOnward
<1> QED
  BY <1>5, <1>6 DEF c

LEMMA CleanupOnward ==
  ASSUME Types, Turns, NEW m \in Machines,
         DeleteInstance(m) \/ DeleteIdentity(m) \/ ForgetCoordinates(m)
  PROVE  Onward(m)
<1>1. pc[m] \in {"cloud", "identity", "forget"}
  BY DEF DeleteInstance, DeleteIdentity, ForgetCoordinates
<1>2. pc[m] \in Upgrading /\ pc[m] \in DestroyStages
  BY <1>1, UpgradingList, DestroyStageList
<1>3. \/ \E ok \in BOOLEAN : CleanupEnds(m, ok)
      \/ UNCHANGED cmd /\ (Go(m, "identity") \/ Go(m, "forget"))
  BY DEF DeleteInstance, DeleteIdentity, ForgetCoordinates
<1>4. CASE \E ok \in BOOLEAN : CleanupEnds(m, ok)
  <2>1. PICK ok \in BOOLEAN : CleanupEnds(m, ok)
    BY <1>4
  <2>2. CASE cmd[m].destroy
    <3> DEFINE f == cmd[m].failed \/ ~ok
    <3>1. Go(m, "report") /\ cmd' = [cmd EXCEPT ![m].failed = f] /\ f \in BOOLEAN
      BY <2>1, <2>2 DEF CleanupEnds
    <3>2. cmd[m].failed => f
      OBVIOUS
    <3> HIDE DEF f
    <3> QED
      BY <2>2, <3>1, <3>2, FailedOnward, DestroyStageList
  <2> QED
    BY <2>1, <2>2, ExitsOnward DEF CleanupEnds
<1>5. CASE UNCHANGED cmd /\ (Go(m, "identity") \/ Go(m, "forget"))
  BY <1>2, <1>5, GoesOnward, DestroyStageList, DeployStageList, UpgradingList
<1> QED
  BY <1>3, <1>4, <1>5

(* The steps of a destroy. *)
LEMMA LoadPlansOnward ==
  ASSUME Types, Turns, NEW m \in Machines, LoadPlans(m)
  PROVE  Onward(m)
<1>1. cmd[m].destroy /\ cmd[m] \in Command
  BY DeployStageList, UpgradingList, StageOfDestroy DEF LoadPlans, Types
<1>2. CASE ~Exit(m)
  <2>1. PICK P \in {Own(m), Own(m) \cup Committed(m)} :
           cmd' = [cmd EXCEPT ![m].plans = P] /\ Go(m, "identities")
    BY <1>2 DEF LoadPlans
  <2>2. plan[m] \in Builds \cup {NoBuild} /\ ReadState(m) \in Record \cup {NoState}
    BY DEF Types, TypeOK, ReadState
  <2>3. Own(m) \subseteq Builds /\ Committed(m) \subseteq Builds
    BY <2>2 DEF Own, Committed, Record
  <2>4. P \subseteq Builds
    BY <2>3
  <2> DEFINE c == [cmd[m] EXCEPT !.plans = P]
  <2>5. cmd' = [cmd EXCEPT ![m] = c]
    BY <2>1
  <2>6. c \in Command
    BY <1>1, <2>4 DEF Command
  <2>7. c.build = cmd[m].build /\ c.destroy = cmd[m].destroy /\ c.failed = cmd[m].failed
    BY <1>1 DEF Command
  <2> HIDE DEF c
  <2> QED
    BY <1>1, <2>1, <2>5, <2>6, <2>7, CarriesOnward, DestroyStageList DEF Types
<1> QED
  BY <1>2, ExitsOnward

LEMMA IdentitiesOnward ==
  ASSUME Types, Turns, NEW m \in Machines, Identities(m)
  PROVE  Onward(m)
<1>1. cmd[m].destroy /\ cmd[m] \in Command
  BY DeployStageList, UpgradingList, StageOfDestroy DEF Identities, Types
<1>2. CASE ~Exit(m)
  <2> DEFINE H == {Hpa(b) : b \in {d \in Builds : Deployment(d) \in live}} \cap live
             c == [cmd[m] EXCEPT !.seen = H]
  <2>1. cmd' = [cmd EXCEPT ![m] = c] /\ Go(m, "uninstall")
    BY <1>2 DEF Identities
  <2>2. H \subseteq Objects
    BY DEF Types, TypeOK
  <2> HIDE DEF H
  <2>3. c \in Command
    BY <1>1, <2>2 DEF Command
  <2>4. c.build = cmd[m].build /\ c.destroy = cmd[m].destroy /\ c.failed = cmd[m].failed
    BY <1>1 DEF Command
  <2> HIDE DEF c
  <2> QED
    BY <1>1, <2>1, <2>3, <2>4, CarriesOnward, DestroyStageList DEF Types
<1> QED
  BY <1>2, ExitsOnward

(* The places a destroy may delete a cache in, and what it lists. *)
LEMMA AuthorizedCacheType ==
  ASSUME Types, NEW m \in Machines
  PROVE  /\ AuthorizedCache(m) \in Locations \cup {NoLoc}
         /\ Listed(m) \subseteq Outside /\ NoLoc \notin Listed(m)
<1>1. plan[m] \in Builds \cup {NoBuild} /\ coords[m] \in Locations \cup {NoLoc}
  BY DEF Types, TypeOK
<1>2. InfrastructureCache(m) \in Locations \cup {NoLoc}
  BY <1>1, ReleaseAssumption DEF InfrastructureCache
<1>3. \A b \in Builds : LocationOf[b] \in Locations \cup {NoLoc}
  BY ReleaseAssumption
<1>4. AuthorizedCache(m) \in Locations \cup {NoLoc}
  BY <1>1, <1>2, <1>3 DEF AuthorizedCache
<1>5. cmd[m].plans \subseteq Builds
  BY DEF Types, Command
<1>6. Listed(m) \subseteq Outside /\ NoLoc \notin Listed(m)
  BY <1>2, <1>3, <1>5 DEF Listed, Outside
<1> QED
  BY <1>4, <1>6

LEMMA DestroyCacheOnward ==
  ASSUME Types, Turns, NEW m \in Machines, DestroyCache(m)
  PROVE  Onward(m)
<1>1. cmd[m].destroy /\ cmd[m] \in Command
  BY DeployStageList, UpgradingList, StageOfDestroy DEF DestroyCache, Types
<1>2. CASE AuthorizedCache(m) = NoLoc
  BY <1>1, <1>2, GoesOnward, DestroyStageList DEF DestroyCache
<1>3. CASE AuthorizedCache(m) # NoLoc
  <2> DEFINE l == AuthorizedCache(m)
             c == [cmd[m] EXCEPT !.loc = l]
  <2>1. cmd' = [cmd EXCEPT ![m] = c] /\ Go(m, "cloud")
    BY <1>3 DEF DestroyCache
  <2>2. l \in Locations \cup {NoLoc}
    BY AuthorizedCacheType
  <2> HIDE DEF l
  <2>3. c \in Command
    BY <1>1, <2>2 DEF Command
  <2>4. c.build = cmd[m].build /\ c.destroy = cmd[m].destroy /\ c.failed = cmd[m].failed
    BY <1>1 DEF Command
  <2> HIDE DEF c
  <2> QED
    BY <1>1, <2>1, <2>3, <2>4, CarriesOnward, DestroyStageList DEF Types
<1> QED
  BY <1>2, <1>3

LEMMA DestroyOnward ==
  ASSUME Types, Turns, NEW m \in Machines,
         \/ Uninstall(m) \/ DestroySeenHpas(m) \/ DestroyDeployments(m) \/ DestroyHpas(m)
         \/ DestroyStable(m) \/ DestroyContributed(m) \/ DestroyState(m) \/ DestroySnapshots(m)
         \/ DestroyPlans(m) \/ DestroySecrets(m) \/ DestroyExternal(m)
  PROVE  Onward(m)
<1> DEFINE deleting == {"uninstall", "seenHpas", "deployments", "hpas", "stable", "contributed",
                        "state", "snapshots", "configMaps", "secrets", "external", "paid"}
<1>1. /\ pc[m] \in deleting
      /\ \E s \in deleting : Go(m, s) /\ (UNCHANGED cmd \/ cmd' = [cmd EXCEPT ![m].failed = TRUE])
  BY DEF Uninstall, DestroySeenHpas, DestroyDeployments, DestroyHpas, DestroyStable,
         DestroyContributed, DestroyState, DestroySnapshots, DestroyPlans, DestroySecrets,
         DestroyExternal, DeleteOwned, Failed
<1>2. deleting \subseteq DestroyStages /\ deleting \cap DeployStages = {} /\ "idle" \notin deleting
  BY DeployStageList, UpgradingList, DestroyStageList
<1> HIDE DEF deleting
<1>3. cmd[m].destroy
  BY <1>1, <1>2, StageOfDestroy
<1>4. PICK s \in deleting : Go(m, s) /\ (UNCHANGED cmd \/ cmd' = [cmd EXCEPT ![m].failed = TRUE])
  BY <1>1
<1>5. CASE UNCHANGED cmd
  BY <1>2, <1>3, <1>4, <1>5, GoesOnward
<1>6. CASE cmd' = [cmd EXCEPT ![m].failed = TRUE]
  BY <1>2, <1>3, <1>4, <1>6, FailedOnward
<1> QED
  BY <1>4, <1>5, <1>6

(* Every step of a command is of that form. *)
LEMMA StepOnward ==
  ASSUME Types, Turns, NEW m \in Machines, DeployStep(m) \/ CacheStep(m) \/ DestroyStep(m)
  PROVE  Onward(m)
<1>1. Refused(m) \/ CutoverAborts(m) \/ Report(m) => Exit(m)
  BY DEF Refused, CutoverAborts, Report
<1>2. CASE DeployStep(m)
  BY <1>1, <1>2, ExitsOnward, PassOnward, ReadServingOnward, RecheckOnward, UpgradeOnward,
     SwitchOnward DEF DeployStep
<1>3. CASE CacheStep(m)
  BY <1>3, ProvisionOnward, CleanupOnward DEF CacheStep
<1>4. CASE DestroyStep(m)
  BY <1>1, <1>4, ExitsOnward, LoadPlansOnward, IdentitiesOnward, DestroyCacheOnward,
     DestroyOnward DEF DestroyStep
<1> QED
  BY <1>2, <1>3, <1>4

-----------------------------------------------------------------------------
(* Types. *)

(* What the steps of a running command leave alone. *)
LEMMA StepKeeps ==
  ASSUME NEW m \in Machines, DeployStep(m) \/ CacheStep(m) \/ DestroyStep(m)
  PROVE  UNCHANGED <<plan, runs, gitops>>
<1>1. CASE DeployStep(m)
  BY <1>1 DEF DeployStep, Refused, MetadataValid, ClusterPinned, ApisPresent, PodRanges,
     NodeRanges, RangesKnown, ReadServing, PushImages, PinDigests, EdgeReady, Recheck, Pass,
     KeepDeployment, KeepStable, KeepHpa, AdoptValkey, KeepManifest, KeepSecret, HelmUpgrade,
     CutoverCommits, CutoverAborts, Park, GcDeployments, GcStable, GcConfigMaps, GcSecrets,
     SwitchCache, Gone, Fault, records, history
<1>2. CASE CacheStep(m)
  BY <1>2 DEF CacheStep, ReadClaim, CreateClaim, RecordIntent, Provision, ProvisionFails,
     Verified, NotVerified, DeleteInstance, DeleteIdentity, ForgetCoordinates, Fault, records,
     history
<1>3. CASE DestroyStep(m)
  BY <1>3 DEF DestroyStep, LoadPlans, Identities, Uninstall, DestroySeenHpas,
     DestroyDeployments, DestroyHpas, DestroyStable, DestroyContributed, DestroyState,
     DestroySnapshots, DestroyPlans, DestroySecrets, DestroyExternal, DestroyCache, Report,
     DeleteOwned, Failed, Fault, records, history
<1> QED
  BY <1>1, <1>2, <1>3

ObjectTypes ==
  /\ live \subseteq Objects /\ kept \subseteq Objects
  /\ bare \subseteq live /\ guarded \subseteq live /\ manifest \subseteq Objects
  /\ valkey \in {"none", "legacy", "foreign", "helm"}
  /\ \A o \in bare : o[1] = "hpa"

(* What a chart renders are objects of the release. *)
LEMMA ChartObjects ==
  ASSUME NEW b \in Builds
  PROVE  /\ Chart(b) \subseteq Objects /\ KeptAtBirth(b) \subseteq Chart(b)
         /\ {Deployment(b), Hpa(b), Secret(b), Plan(b), Snapshot(b)} \subseteq Objects
         /\ {Stable, Contributed, Cloud, <<"secret", NoBuild>>} \subseteq Objects
<1>1. {Deployment(b), Hpa(b), Secret(b), Plan(b), Snapshot(b)} \subseteq Objects
  BY DEF Objects, Deployment, Hpa, Secret, Plan, Snapshot
<1>2. {Stable, Contributed, Cloud, <<"secret", NoBuild>>} \subseteq Objects
  BY DEF Objects
<1> QED
  BY <1>1, <1>2 DEF Chart, KeptAtBirth

(* The objects that a step of a command may touch, and in which way. *)

(* Deletions and upgrades keep the types of the objects. *)
LEMMA DeleteTypes ==
  ASSUME ObjectTypes, NEW gone, Delete(gone)
  PROVE  ObjectTypes'
BY DEF ObjectTypes, Delete

LEMMA UpgradedTypes ==
  ASSUME ObjectTypes, NEW b \in Builds, Upgraded(b)
  PROVE  ObjectTypes'
BY ChartObjects DEF ObjectTypes, Upgraded

(* What a partly applied upgrade has done: it prunes nothing, and a Deployment comes after the *)
(* Secret its pods read.                                                                       *)
LEMMA PartlyApplied ==
  ASSUME NEW b \in Builds, PartlyUpgraded(b)
  PROVE  \E applied \in SUBSET Chart(b) :
            /\ live' = live \cup applied
            /\ kept' = (kept \ ({Stable} \cap applied)) \cup (KeptAtBirth(b) \cap applied)
            /\ Deployment(b) \in applied => Secret(b) \in applied
<1>1. PICK reached \in 0..6 :
        LET applied == {o \in Chart(b) : HelmOrder[o[1]] <= reached}
        IN  /\ live' = live \cup applied
            /\ kept' = (kept \ ({Stable} \cap applied)) \cup (KeptAtBirth(b) \cap applied)
  BY DEF PartlyUpgraded
<1> DEFINE applied == {o \in Chart(b) : HelmOrder[o[1]] <= reached}
<1>2. Secret(b) \in Chart(b)
  BY DEF Chart
<1>3. HelmOrder[Deployment(b)[1]] = 4 /\ HelmOrder[Secret(b)[1]] = 1
  BY DEF HelmOrder, Deployment, Secret
<1>4. Deployment(b) \in applied => Secret(b) \in applied
  BY <1>2, <1>3
<1>5. applied \in SUBSET Chart(b)
  OBVIOUS
<1> QED
  BY <1>1, <1>4, <1>5

LEMMA PartlyTypes ==
  ASSUME ObjectTypes, NEW b \in Builds, PartlyUpgraded(b)
  PROVE  ObjectTypes'
<1>1. PICK applied \in SUBSET Chart(b) :
        /\ live' = live \cup applied
        /\ kept' = (kept \ ({Stable} \cap applied)) \cup (KeptAtBirth(b) \cap applied)
  BY PartlyApplied
<1>2. /\ manifest' = manifest \cup Chart(b) /\ UNCHANGED <<bare, guarded>>
      /\ valkey' \in {valkey, "helm"}
  BY DEF PartlyUpgraded
<1> QED
  BY <1>1, <1>2, ChartObjects DEF ObjectTypes

(* The steps of a deploy, and then every step, keep the types of the objects. *)
LEMMA DeployObjectTypes ==
  ASSUME Types, Turns, NEW m \in Machines, DeployStep(m)
  PROVE  ObjectTypes'
<1> USE DEF objects
<1>0. ObjectTypes
  BY DEF Types, TypeOK, ObjectTypes
<1>1. CASE UNCHANGED objects
  BY <1>0, <1>1 DEF ObjectTypes
<1>2. CASE KeepDeployment(m)
  <2>1. CASE kept' = kept \cup {Deployment(From(m))} /\ Deployment(From(m)) \in live
    BY <1>0, <1>2, <2>1 DEF ObjectTypes, KeepDeployment
  <2> QED
    BY <1>0, <1>2, <2>1 DEF ObjectTypes, KeepDeployment
<1>3. CASE KeepStable(m)
  BY <1>0, <1>3, ChartObjects DEF ObjectTypes, KeepStable
<1>4. CASE KeepHpa(m)
  BY <1>0, <1>4 DEF ObjectTypes, KeepHpa
<1>5. CASE AdoptValkey(m)
  BY <1>0, <1>5 DEF ObjectTypes, AdoptValkey
<1>6. CASE KeepManifest(m)
  <2>1. From(m) \in Builds \cup {NoBuild}
    BY DEF From, PrevOf, Types, Command, Record
  <2>2. ServedSnapshot(m) \subseteq Objects
    BY <2>1, ChartObjects DEF ServedSnapshot
  <2> QED
    BY <1>0, <1>6, <2>2 DEF ObjectTypes, KeepManifest
<1>7. CASE KeepSecret(m)
  BY <1>0, <1>7 DEF ObjectTypes, KeepSecret
<1>8. CASE HelmUpgrade(m)
  <2>1. Build(m) \in Builds
    BY <1>8, DestroyStageList, StageOfDeploy DEF HelmUpgrade, Build
  <2> QED
    BY <1>0, <1>1, <1>8, <2>1, UpgradedTypes, PartlyTypes DEF HelmUpgrade
<1>9. CASE Park(m) \/ GcDeployments(m) \/ GcStable(m) \/ GcConfigMaps(m) \/ GcSecrets(m)
  <2>1. \E w : Gone(m, w)
    BY <1>9 DEF Park, GcDeployments, GcStable, GcConfigMaps, GcSecrets
  <2>2. \E gone : Delete(gone)
    BY <2>1 DEF Gone
  <2> QED
    BY <1>0, <2>2, DeleteTypes
<1>10. CASE SwitchCache(m)
  BY <1>0, <1>10 DEF ObjectTypes, SwitchCache
<1>11. CASE Refused(m) \/ MetadataValid(m) \/ ClusterPinned(m) \/ ApisPresent(m)
            \/ PodRanges(m) \/ NodeRanges(m) \/ RangesKnown(m) \/ ReadServing(m)
            \/ PushImages(m) \/ PinDigests(m) \/ EdgeReady(m) \/ Recheck(m)
            \/ CutoverCommits(m) \/ CutoverAborts(m)
  BY <1>1, <1>11 DEF Refused, MetadataValid, ClusterPinned, ApisPresent, PodRanges, NodeRanges,
     RangesKnown, ReadServing, PushImages, PinDigests, EdgeReady, Recheck, Pass, CutoverCommits,
     CutoverAborts
<1> QED
  BY <1>2, <1>3, <1>4, <1>5, <1>6, <1>7, <1>8, <1>9, <1>10, <1>11 DEF DeployStep

(* A destroy touches the objects only by uninstalling and deleting. *)
LEMMA DestroyObjects ==
  ASSUME NEW m \in Machines, DestroyStep(m)
  PROVE  UNCHANGED objects \/ Uninstalled \/ \E gone : Delete(gone)
BY DEF DestroyStep, LoadPlans, Identities, Uninstall, DestroySeenHpas,
     DestroyDeployments, DestroyHpas, DestroyStable, DestroyContributed, DestroyState,
     DestroySnapshots, DestroyPlans, DestroySecrets, DestroyExternal, DestroyCache, Report,
     DeleteOwned

(* The managed cache is handled without touching the release. *)
LEMMA CacheKeeps ==
  ASSUME NEW m \in Machines, CacheStep(m)
  PROVE  UNCHANGED <<objects, records, torn, said>>
BY DEF CacheStep, ReadClaim, CreateClaim, RecordIntent, Provision, ProvisionFails,
     Verified, NotVerified, DeleteInstance, DeleteIdentity, ForgetCoordinates, Fault, history

LEMMA ObjectTypesStep ==
  ASSUME Types, Turns, Next
  PROVE  ObjectTypes'
<1> USE DEF objects
<1>0. ObjectTypes
  BY DEF Types, TypeOK, ObjectTypes
<1>1. CASE UNCHANGED objects
  BY <1>0, <1>1 DEF ObjectTypes
<1>2. ASSUME NEW m \in Machines, DeployStep(m) \/ CacheStep(m) \/ DestroyStep(m)
      PROVE  ObjectTypes'
  <2>1. CASE Uninstalled
    BY <1>0, <2>1 DEF ObjectTypes, Uninstalled
  <2> QED
    BY <1>0, <1>1, <1>2, <2>1, DeployObjectTypes, CacheKeeps, DestroyObjects, DeleteTypes
<1>3. ASSUME NEW m \in Machines, Rollback(m)
      PROVE  ObjectTypes'
  <2> DEFINE s == ReadState(m)
  <2>1. PICK gone \in {{}, {Hpa(s.build)}}, made \in {{}, {Hpa(s.prev)} \ live} :
           /\ live' = (live \ gone) \cup made
           /\ bare' = (bare \ gone) \cup made
           /\ kept' = kept \ (gone \cup made)
           /\ guarded' = guarded \ gone
    BY <1>3 DEF Rollback
  <2>2. s \in Record /\ s.prev \in Builds /\ UNCHANGED <<manifest, valkey>>
    BY <1>3 DEF Rollback, RollbackAllowed, ReadState, Types, TypeOK, Record
  <2>3. made \subseteq Objects /\ \A o \in made : o[1] = "hpa"
    BY <2>2, ChartObjects DEF Hpa
  <2> HIDE DEF s
  <2> QED
    BY <1>0, <2>1, <2>2, <2>3 DEF ObjectTypes
<1>4. ASSUME NEW m \in Machines, Migrate(m)
      PROVE  ObjectTypes'
  BY <1>0, <1>4 DEF ObjectTypes, Migrate, Versioned
<1>5. ASSUME NEW b \in Builds, FirstSync(b)
      PROVE  ObjectTypes'
  BY <1>0, <1>5, ChartObjects DEF ObjectTypes, FirstSync
<1> QED
  BY <1>1, <1>2, <1>3, <1>4, <1>5 DEF Next, DeployStart, InstanceReady, DestroyStart

(* The other variables. *)
RecordTypes ==
  /\ state \in Record \cup {NoState}
  /\ local \in [Machines -> Record \cup {NoState}]
  /\ plan \in [Machines -> Builds \cup {NoBuild}]

CacheTypes ==
  /\ claim \in Locations \cup {NoLoc}
  /\ instance \in [Locations -> {"none", "creating", "ready"}]
  /\ coords \in [Machines -> Locations \cup {NoLoc}]
  /\ pending \in [Machines -> BOOLEAN]

HistoryTypes ==
  /\ faults \in Nat /\ runs \in Nat /\ torn \in BOOLEAN
  /\ said \in [outcome: {"none", "refused", "incomplete", "complete"},
               strays: SUBSET Objects, listed: SUBSET Outside, skipped: SUBSET Outside]
  /\ gitops \in {"imperative", "migrated", "synced"}

ProcessTypes ==
  /\ pc \in [Machines -> {"idle"} \cup DeployStages \cup DestroyStages]
  /\ cmd \in [Machines -> Command]

(* The parts of the types, each preserved on its own. *)
LEMMA TypesParts ==
  Types <=> ObjectTypes /\ RecordTypes /\ CacheTypes /\ HistoryTypes /\ ProcessTypes
BY DEF Types, TypeOK, ObjectTypes, RecordTypes, CacheTypes, HistoryTypes, ProcessTypes

(* What is read of the record is a record, or nothing. *)
LEMMA ReadStateType ==
  ASSUME RecordTypes, NEW m \in Machines
  PROVE  ReadState(m) \in Record \cup {NoState}
BY DEF RecordTypes, ReadState

(* The record a cutover commits. *)
LEMMA CommitType ==
  ASSUME Types, Turns, NEW m \in Machines, CutoverCommits(m)
  PROVE  state' \in Record /\ local' = [local EXCEPT ![m] = state']
<1>1. Build(m) \in Builds
  BY DestroyStageList, StageOfDeploy DEF CutoverCommits, Build
<1>2. cmd[m].base \in Record \cup {NoState} /\ From(m) \in Builds \cup {NoBuild}
  BY DEF Types, Command, From, PrevOf, Record
<1>3. (IF cmd[m].base = NoState THEN 1 ELSE cmd[m].base.gen + 1) \in Nat
  BY <1>2 DEF Record
<1> QED
  BY <1>1, <1>2, <1>3 DEF CutoverCommits, Record

(* Only the commit of a cutover, a rollback and a destroy write the record. *)
LEMMA DeployKeepsRecord ==
  ASSUME NEW m \in Machines, DeployStep(m), ~CutoverCommits(m)
  PROVE  UNCHANGED records
BY DEF DeployStep, Refused, MetadataValid, ClusterPinned, ApisPresent, PodRanges,
     NodeRanges, RangesKnown, ReadServing, PushImages, PinDigests, EdgeReady, Recheck, Pass,
     KeepDeployment, KeepStable, KeepHpa, AdoptValkey, KeepManifest, KeepSecret, HelmUpgrade,
     CutoverAborts, Park, GcDeployments, GcStable, GcConfigMaps, GcSecrets, SwitchCache

LEMMA DestroyKeepsRecord ==
  ASSUME NEW m \in Machines, DestroyStep(m)
  PROVE  /\ state' = state \/ state' = NoState
         /\ state' # state => torn'
         /\ local' = local \/ local' = [local EXCEPT ![m] = NoState]
         /\ UNCHANGED plan
BY DEF DestroyStep, LoadPlans, Identities, Uninstall, DestroySeenHpas,
     DestroyDeployments, DestroyHpas, DestroyStable, DestroyContributed, DestroyState,
     DestroySnapshots, DestroyPlans, DestroySecrets, DestroyExternal, DestroyCache, Report,
     DeleteOwned, records

LEMMA RecordTypesStep ==
  ASSUME Types, Turns, Next
  PROVE  RecordTypes'
<1> USE DEF records
<1>0. RecordTypes
  BY TypesParts
<1>1. CASE UNCHANGED records
  BY <1>0, <1>1 DEF RecordTypes
<1>2. ASSUME NEW m \in Machines, DeployStep(m) \/ CacheStep(m) \/ DestroyStep(m)
      PROVE  RecordTypes'
  <2>1. CASE CutoverCommits(m)
    BY <1>0, <2>1, CommitType DEF RecordTypes, CutoverCommits
  <2> QED
    BY <1>0, <1>1, <1>2, <2>1, DeployKeepsRecord, CacheKeeps, DestroyKeepsRecord DEF RecordTypes
<1>3. ASSUME NEW m \in Machines, Rollback(m)
      PROVE  RecordTypes'
  <2> DEFINE s == ReadState(m)
  <2>1. s \in Record \cup {NoState} /\ s # NoState /\ s.prev # NoBuild
    BY <1>0, <1>3, ReadStateType DEF Rollback, RollbackAllowed
  <2>2. /\ state' = [build |-> s.prev, prev |-> s.build, gen |-> s.gen + 1, reverted |-> TRUE]
        /\ local' = [local EXCEPT ![m] = state'] /\ UNCHANGED plan
    BY <1>3 DEF Rollback
  <2> HIDE DEF s
  <2>3. state' \in Record
    BY <2>1, <2>2 DEF Record
  <2> QED
    BY <1>0, <2>2, <2>3 DEF RecordTypes
<1>4. ASSUME NEW m \in Machines, NEW b \in Builds, DeployStart(m, b)
      PROVE  RecordTypes'
  BY <1>0, <1>4 DEF RecordTypes, DeployStart
<1> QED
  BY <1>1, <1>2, <1>3, <1>4 DEF Next, InstanceReady, DestroyStart, Migrate, FirstSync

(* The managed cache changes only in the steps of ManagedCache. *)
LEMMA OthersKeepCache ==
  ASSUME Next
  PROVE  \/ UNCHANGED cache
         \/ \E m \in Machines : CacheStep(m)
         \/ \E l \in Locations : InstanceReady(l)
<1>1. ASSUME NEW m \in Machines, DeployStep(m)
      PROVE  UNCHANGED cache
  BY <1>1 DEF DeployStep, Refused, MetadataValid, ClusterPinned, ApisPresent, PodRanges,
     NodeRanges, RangesKnown, ReadServing, PushImages, PinDigests, EdgeReady, Recheck, Pass,
     KeepDeployment, KeepStable, KeepHpa, AdoptValkey, KeepManifest, KeepSecret, HelmUpgrade,
     CutoverCommits, CutoverAborts, Park, GcDeployments, GcStable, GcConfigMaps, GcSecrets,
     SwitchCache
<1>2. ASSUME NEW m \in Machines, DestroyStep(m)
      PROVE  UNCHANGED cache
  BY <1>2 DEF DestroyStep, LoadPlans, Identities, Uninstall, DestroySeenHpas,
     DestroyDeployments, DestroyHpas, DestroyStable, DestroyContributed, DestroyState,
     DestroySnapshots, DestroyPlans, DestroySecrets, DestroyExternal, DestroyCache, Report,
     DeleteOwned
<1> QED
  BY <1>1, <1>2 DEF Next, DeployStart, DestroyStart, Rollback, Migrate, FirstSync

LEMMA CacheTypesStep ==
  ASSUME Types, Turns, Next
  PROVE  CacheTypes'
<1> USE DEF cache
<1>0. CacheTypes
  BY TypesParts
<1>1. CASE UNCHANGED cache
  BY <1>0, <1>1 DEF CacheTypes
<1>2. ASSUME NEW l \in Locations, InstanceReady(l)
      PROVE  CacheTypes'
  BY <1>0, <1>2 DEF CacheTypes, InstanceReady
<1>3. ASSUME NEW m \in Machines, CacheStep(m)
      PROVE  CacheTypes'
  <2>1. CASE ReadClaim(m) \/ NotVerified(m)
    BY <1>1, <2>1 DEF ReadClaim, NotVerified
  <2>2. CASE CreateClaim(m) \/ RecordIntent(m)
    <3>1. Wanted(m) \in Locations \cup {NoLoc}
      BY <2>2, DestroyStageList, StageOfDeploy, ReleaseAssumption
         DEF CreateClaim, RecordIntent, Wanted
    <3> QED
      BY <1>0, <2>2, <3>1 DEF CacheTypes, CreateClaim, RecordIntent
  <2>3. CASE Provision(m) \/ ProvisionFails(m)
    BY <1>0, <2>3 DEF CacheTypes, Provision, ProvisionFails
  <2>4. CASE Verified(m)
    BY <1>0, <2>4 DEF CacheTypes, Verified
  <2>5. CASE DeleteInstance(m)
    BY <1>0, <2>5 DEF CacheTypes, DeleteInstance
  <2>6. CASE DeleteIdentity(m)
    BY <1>0, <2>6 DEF CacheTypes, DeleteIdentity
  <2>7. CASE ForgetCoordinates(m)
    BY <1>0, <2>7 DEF CacheTypes, ForgetCoordinates
  <2> QED
    BY <1>3, <2>1, <2>2, <2>3, <2>4, <2>5, <2>6, <2>7 DEF CacheStep
<1> QED
  BY <1>1, <1>2, <1>3, OthersKeepCache

(* What a step may say of a destroy, and when it tears the release down. *)
LEMMA HistorySteps ==
  ASSUME NEW m \in Machines, DeployStep(m) \/ CacheStep(m) \/ DestroyStep(m)
  PROVE  /\ faults' = faults \/ faults' = faults + 1
         /\ torn' = torn \/ torn' = TRUE
         /\ \/ UNCHANGED said
            \/ LoadPlans(m) /\ Exit(m) /\ said' = [said EXCEPT !.outcome = "refused"]
            \/ Report(m) /\ said' = [said EXCEPT !.outcome = IF cmd[m].failed THEN "incomplete"
                                                                             ELSE "complete"]
            \/ DestroyCache(m)
                  /\ said' = [said EXCEPT !.listed = Listed(m), !.skipped = Listed(m) \ Authorized(m)]
<1> USE DEF history
<1>1. CASE DeployStep(m)
  BY <1>1 DEF DeployStep, Refused, MetadataValid, ClusterPinned, ApisPresent, PodRanges,
     NodeRanges, RangesKnown, ReadServing, PushImages, PinDigests, EdgeReady, Recheck, Pass,
     KeepDeployment, KeepStable, KeepHpa, AdoptValkey, KeepManifest, KeepSecret, HelmUpgrade,
     CutoverCommits, CutoverAborts, Park, GcDeployments, GcStable, GcConfigMaps, GcSecrets,
     SwitchCache, Gone, Fault
<1>2. CASE CacheStep(m)
  BY <1>2 DEF CacheStep, ReadClaim, CreateClaim, RecordIntent, Provision, ProvisionFails,
     Verified, NotVerified, DeleteInstance, DeleteIdentity, ForgetCoordinates, Fault
<1>3. CASE DestroyStep(m)
  BY <1>3 DEF DestroyStep, LoadPlans, Identities, Uninstall, DestroySeenHpas,
     DestroyDeployments, DestroyHpas, DestroyStable, DestroyContributed, DestroyState,
     DestroySnapshots, DestroyPlans, DestroySecrets, DestroyExternal, DestroyCache, Report,
     DeleteOwned, Failed, Fault
<1> QED
  BY <1>1, <1>2, <1>3

LEMMA HistoryTypesStep ==
  ASSUME Types, Turns, Next
  PROVE  HistoryTypes'
<1> USE DEF history
<1>0. HistoryTypes /\ ObjectTypes
  BY TypesParts
<1>1. ASSUME NEW m \in Machines, DeployStep(m) \/ CacheStep(m) \/ DestroyStep(m)
      PROVE  HistoryTypes'
  <2>1. \/ UNCHANGED said
        \/ \E x \in {"refused", "incomplete", "complete"} : said' = [said EXCEPT !.outcome = x]
        \/ \E x, y \in SUBSET Outside : said' = [said EXCEPT !.listed = x, !.skipped = y]
    <3>2. Listed(m) \in SUBSET Outside /\ Listed(m) \ Authorized(m) \in SUBSET Outside
      BY AuthorizedCacheType
    <3>1. (IF cmd[m].failed THEN "incomplete" ELSE "complete")
             \in {"refused", "incomplete", "complete"}
      OBVIOUS
    <3> QED
      BY <1>1, <3>1, <3>2, HistorySteps
  <2>2. said' \in [outcome: {"none", "refused", "incomplete", "complete"},
                   strays: SUBSET Objects, listed: SUBSET Outside, skipped: SUBSET Outside]
    BY <1>0, <2>1 DEF HistoryTypes
  <2>3. (faults' = faults \/ faults' = faults + 1) /\ (torn' = torn \/ torn' = TRUE)
    BY <1>1, HistorySteps
  <2>4. torn' \in BOOLEAN
    BY <1>0, <2>3 DEF HistoryTypes
  <2>5. faults' \in Nat
    BY <1>0, <2>3 DEF HistoryTypes
  <2>6. UNCHANGED <<runs, gitops>>
    BY <1>1, StepKeeps
  <2> QED
    BY <1>0, <2>2, <2>4, <2>5, <2>6 DEF HistoryTypes
<1>2. ASSUME NEW m \in Machines, DestroyStart(m)
      PROVE  HistoryTypes'
  <2>1. Strays \subseteq Objects
    BY <1>0 DEF Strays, ObjectTypes
  <2> QED
    BY <1>0, <1>2, <2>1 DEF HistoryTypes, DestroyStart, Begin
<1>3. ASSUME NEW m \in Machines, NEW b \in Builds, DeployStart(m, b)
      PROVE  HistoryTypes'
  BY <1>0, <1>3 DEF HistoryTypes, DeployStart, Begin
<1>4. ASSUME NEW m \in Machines, Rollback(m)
      PROVE  HistoryTypes'
  BY <1>0, <1>4 DEF HistoryTypes, Rollback, Begin
<1>5. ASSUME NEW m \in Machines, Migrate(m)
      PROVE  HistoryTypes'
  BY <1>0, <1>5 DEF HistoryTypes, Migrate, Begin
<1>6. ASSUME NEW b \in Builds, FirstSync(b)
      PROVE  HistoryTypes'
  BY <1>0, <1>6 DEF HistoryTypes, FirstSync
<1>7. ASSUME NEW l \in Locations, InstanceReady(l)
      PROVE  HistoryTypes'
  BY <1>0, <1>7 DEF HistoryTypes, InstanceReady
<1> QED
  BY <1>1, <1>2, <1>3, <1>4, <1>5, <1>6, <1>7 DEF Next

-----------------------------------------------------------------------------
(* Who runs. *)

(* A command begins with nothing in memory. *)
LEMMA StartTypes ==
  ASSUME Types, NEW m \in Machines, NEW c \in Command,
         NEW s \in {"idle"} \cup DeployStages \cup DestroyStages,
         cmd' = [cmd EXCEPT ![m] = c], Go(m, s)
  PROVE  ProcessTypes' /\ pc'[m] = s /\ cmd'[m] = c
         /\ \A n \in Machines \ {m} : pc'[n] = pc[n] /\ cmd'[n] = cmd[n]
BY DEF ProcessTypes, Types, Go

(* A deploy and a destroy begin with only their subject in memory. *)
LEMMA DeployBegins ==
  ASSUME Types, Turns, NEW m \in Machines, NEW b \in Builds, DeployStart(m, b)
  PROVE  /\ ProcessTypes' /\ pc[m] = "idle" /\ pc'[m] = "metadata"
         /\ cmd'[m] = [Idle EXCEPT !.build = b] /\ cmd'[m].build = b /\ ~cmd'[m].destroy
         /\ \A n \in Machines \ {m} : pc'[n] = pc[n] /\ cmd'[n] = cmd[n]
<1> DEFINE c == [Idle EXCEPT !.build = b]
<1>1. pc[m] = "idle" /\ cmd[m] = Idle
  BY DEF DeployStart, Begin, Turns
<1>2. cmd' = [cmd EXCEPT ![m] = c] /\ Go(m, "metadata")
  BY <1>1 DEF DeployStart
<1>3. c \in Command
  BY IdleIsCommand DEF Command
<1>4. c.build = b /\ c.destroy = FALSE
  BY DEF Idle
<1> HIDE DEF c
<1>5. cmd'[m] = c
  BY <1>2, <1>3, StartTypes, DeployStageList
<1> QED
  BY <1>1, <1>2, <1>3, <1>4, <1>5, StartTypes, DeployStageList DEF c

LEMMA DestroyBegins ==
  ASSUME Types, Turns, NEW m \in Machines, DestroyStart(m)
  PROVE  /\ ProcessTypes' /\ AllIdle /\ pc'[m] = "plans"
         /\ cmd'[m].destroy /\ ~cmd'[m].failed
         /\ \A n \in Machines \ {m} : pc'[n] = pc[n] /\ cmd'[n] = cmd[n]
<1>0. PICK f \in Files : cmd' = [cmd EXCEPT ![m].destroy = TRUE, ![m].file = f]
  BY DEF DestroyStart
<1> DEFINE c == [Idle EXCEPT !.destroy = TRUE, !.file = f]
<1>1. AllIdle /\ cmd[m] = Idle
  BY DEF DestroyStart, AllIdle, Turns
<1>2. cmd' = [cmd EXCEPT ![m] = c] /\ Go(m, "plans")
  BY <1>0, <1>1 DEF DestroyStart, Types
<1>3. c \in Command
  BY IdleIsCommand DEF Command
<1>4. c.destroy = TRUE /\ c.failed = FALSE /\ f \in Files
  BY DEF Idle
<1> HIDE DEF c
<1>5. cmd'[m] = c
  BY <1>2, <1>3, StartTypes, DestroyStageList
<1> QED
  BY <1>1, <1>2, <1>3, <1>4, <1>5, StartTypes, DestroyStageList DEF c

(* An ended command is no destroy. *)
LEMMA IdleFields == ~Idle.destroy /\ ~Idle.failed
BY DEF Idle

(* A destroy stays alone, and only one deploy is past its last check. *)
LEMMA OnwardTurns ==
  ASSUME Types, Turns, NEW m \in Machines, pc[m] # "idle", Onward(m), gitops' = gitops
  PROVE  Turns'
<1> USE DEF Onward
<1>1. (\A n \in Machines : pc[n] = "idle" => cmd[n] = Idle)'
  BY DEF Turns
<1>2. (\A n \in Machines : cmd[n].destroy =>
          pc[n] \in DestroyStages /\ \A k \in Machines \ {n} : pc[k] = "idle")'
  BY IdleFields DEF Turns
<1>3. (\A n \in Machines : pc[n] # "idle" /\ ~cmd[n].destroy =>
          pc[n] \in DeployStages /\ cmd[n].build \in Builds)'
  BY DEF Turns
<1>4. (\A n, k \in Machines : pc[n] \in Upgrading /\ pc[k] \in Upgrading => n = k)'
  <2>1. "idle" \notin Upgrading
    BY UpgradingList
  <2>2. ASSUME NEW n \in Machines \ {m}, pc'[m] \in Upgrading
        PROVE  pc[n] \notin Upgrading
    <3>1. CASE cmd[m].destroy
      BY <2>1, <3>1 DEF Turns
    <3> QED
      BY <2>1, <2>2, <3>1 DEF Turns
  <2> QED
    BY <2>2 DEF Turns
<1>5. (gitops # "imperative" => \A n \in Machines : pc[n] = "idle" \/ cmd[n].destroy)'
  BY DEF Turns
<1>6. (gitops = "synced" => AllIdle)'
  BY DEF Turns, AllIdle
<1> QED
  BY <1>1, <1>2, <1>3, <1>4, <1>5, <1>6 DEF Turns

LEMMA ProcessSteps ==
  ASSUME Types, Turns, Next
  PROVE  ProcessTypes' /\ Turns'
<1>1. ASSUME NEW m \in Machines, DeployStep(m) \/ CacheStep(m) \/ DestroyStep(m)
      PROVE  ProcessTypes' /\ Turns'
  <2>1. Onward(m) /\ gitops' = gitops
    BY <1>1, StepOnward, StepKeeps
  <2>2. pc[m] # "idle"
    <3>1. CASE DeployStep(m)
      BY <3>1 DEF DeployStep, Refused, Preflight, Transfer, MetadataValid, ClusterPinned,
         ApisPresent, PodRanges, NodeRanges, RangesKnown, ReadServing, PushImages, PinDigests,
         EdgeReady, Recheck, Pass, KeepDeployment, KeepStable, KeepHpa, AdoptValkey, KeepManifest,
         KeepSecret, HelmUpgrade, CutoverCommits, CutoverAborts, Park, GcDeployments, GcStable,
         GcConfigMaps, GcSecrets, SwitchCache
    <3>2. CASE CacheStep(m)
      BY <3>2 DEF CacheStep, ReadClaim, CreateClaim, RecordIntent, Provision, ProvisionFails,
         Verified, NotVerified, DeleteInstance, DeleteIdentity, ForgetCoordinates
    <3>3. CASE DestroyStep(m)
      BY <3>3 DEF DestroyStep, LoadPlans, Identities, Uninstall, DestroySeenHpas,
         DestroyDeployments, DestroyHpas, DestroyStable, DestroyContributed, DestroyState,
         DestroySnapshots, DestroyPlans, DestroySecrets, DestroyExternal, DestroyCache, Report,
         DeleteOwned
    <3> QED
      BY <1>1, <3>1, <3>2, <3>3
  <2> QED
    BY <2>1, <2>2, OnwardTurns DEF Onward, ProcessTypes
<1>2. ASSUME NEW m \in Machines, NEW b \in Builds, DeployStart(m, b)
      PROVE  ProcessTypes' /\ Turns'
  <2>1. gitops' = "imperative" /\ \A n \in Machines : ~cmd[n].destroy
    BY <1>2 DEF DeployStart
  <2>2. "metadata" \in DeployStages /\ "metadata" \notin Upgrading
    BY DeployStageList, UpgradingList
  <2>3. /\ ProcessTypes' /\ pc[m] = "idle" /\ pc'[m] = "metadata"
        /\ cmd'[m].build = b /\ ~cmd'[m].destroy
        /\ \A n \in Machines \ {m} : pc'[n] = pc[n] /\ cmd'[n] = cmd[n]
    BY <1>2, DeployBegins
  <2>4. \A n \in Machines : ~cmd'[n].destroy
    BY <2>1, <2>3
  <2>5. (\A n \in Machines : pc[n] = "idle" => cmd[n] = Idle)'
    BY <2>3 DEF Turns
  <2>6. (\A n \in Machines : pc[n] # "idle" /\ ~cmd[n].destroy =>
            pc[n] \in DeployStages /\ cmd[n].build \in Builds)'
    BY <2>1, <2>2, <2>3 DEF Turns
  <2>7. (\A n, k \in Machines : pc[n] \in Upgrading /\ pc[k] \in Upgrading => n = k)'
    BY <2>2, <2>3 DEF Turns
  <2> QED
    BY <2>1, <2>3, <2>4, <2>5, <2>6, <2>7 DEF Turns
<1>3. ASSUME NEW m \in Machines, DestroyStart(m)
      PROVE  ProcessTypes' /\ Turns'
  <2>1. gitops' = gitops /\ gitops # "synced"
    BY <1>3 DEF DestroyStart, Begin
  <2>2. "plans" \in DestroyStages /\ "plans" \notin Upgrading
    BY DestroyStageList, UpgradingList
  <2>3. "idle" \notin Upgrading
    BY UpgradingList
  <2> QED
    BY <1>3, <2>1, <2>2, <2>3, DestroyBegins, IdleFields DEF Turns, AllIdle
<1>4. CASE UNCHANGED process /\ (gitops' = gitops \/ AllIdle)
  BY <1>4 DEF Turns, process, AllIdle, ProcessTypes, Types
<1> QED
  BY <1>1, <1>2, <1>3, <1>4 DEF Next, InstanceReady, Rollback, Migrate, FirstSync, process, history

(* Types and turns are inductive together. *)
LEMMA TypesStep ==
  ASSUME Types, Turns, Next
  PROVE  Types' /\ Turns'
<1>1. ObjectTypes' /\ RecordTypes' /\ CacheTypes' /\ HistoryTypes' /\ ProcessTypes' /\ Turns'
  BY ObjectTypesStep, RecordTypesStep, CacheTypesStep, HistoryTypesStep, ProcessSteps
<1>2. Types'
  BY <1>1 DEF Types, TypeOK, ObjectTypes, RecordTypes, CacheTypes, HistoryTypes, ProcessTypes
<1> QED
  BY <1>1, <1>2

-----------------------------------------------------------------------------
(* The record, and what the commands hold of it. *)

(* The stages of a deploy that hold a record, and that they are no others. *)
LEMMA StageClasses ==
  /\ Checked = {"claim", "create", "intent", "images", "digests", "edge", "recheck",
                "provision", "await"}
  /\ Committing = {"keepDeployment", "keepStable", "keepHpa", "adopt", "keepManifest",
                   "keepSecret", "helm", "cutover"}
  /\ Sweeping = {"park", "gcDeployments", "gcStable", "gcConfigMaps", "gcSecrets", "cache"}
BY DEF Checked, Paying, Committing, Transfer, Sweeping

LEMMA ClassesApart ==
  /\ Committing \subseteq Upgrading /\ Sweeping \subseteq Upgrading
  /\ (Checked \cup Committing \cup Sweeping) \cap DestroyStages = {}
  /\ "idle" \notin Checked \cup Committing \cup Sweeping
BY StageClasses, UpgradingList, DestroyStageList

(* What one command holds of the record. *)
Holds(m) ==
  /\ pc[m] \in Checked \cup Committing => PrevOf(cmd[m].base) # cmd[m].build
  /\ ~torn =>
        /\ pc[m] \in Committing => cmd[m].base = state
        /\ pc[m] \in Sweeping =>
              /\ state.build = Build(m) /\ state.prev = From(m) /\ ~state.reverted
              /\ From(m) # NoBuild

Recorded ==
  ~torn => /\ state # NoState
           /\ state.prev # state.build
           /\ \A m \in Machines : local[m] # NoState => local[m].gen <= state.gen

(* The invariant of the record, by command. *)
LEMMA RecordsParts ==
  Records <=> Recorded /\ \A m \in Machines : Holds(m)
BY DEF Records, Recorded, Holds

(* A command that does not step holds what it held. *)
LEMMA OthersHold ==
  ASSUME Records, NEW n \in Machines, pc'[n] = pc[n], cmd'[n] = cmd[n],
         \/ torn'
         \/ UNCHANGED <<state, torn>>
         \/ UNCHANGED torn /\ pc[n] \notin Committing \cup Sweeping
  PROVE  Holds(n)'
<1>1. From(n)' = From(n) /\ Build(n)' = Build(n) /\ PrevOf(cmd[n].base)' = PrevOf(cmd[n].base)
  BY DEF From, Build, PrevOf
<1> QED
  BY <1>1 DEF Records, Holds

LEMMA FrameHolds ==
  ASSUME Types, Turns, Records, NEW m \in Machines, Onward(m), UNCHANGED <<state, local, torn>>,
         Holds(m)'
  PROVE  Records'
<1>1. \A n \in Machines : Holds(n)'
  BY OthersHold DEF Onward
<1>2. Recorded'
  BY DEF Records, Recorded
<1>3. Records' <=> Recorded' /\ \A n \in Machines : Holds(n)'
  BY DEF Records, Recorded, Holds
<1> QED
  BY <1>1, <1>2, <1>3

(* A stage of the same class, with the same memory. *)
LEMMA SameClassHolds ==
  ASSUME Records, NEW m \in Machines, cmd'[m] = cmd[m], UNCHANGED <<state, torn>>,
         pc'[m] \in Checked \cup Committing => pc[m] \in Checked \cup Committing,
         pc'[m] \in Committing => pc[m] \in Committing,
         pc'[m] \in Sweeping => pc[m] \in Sweeping
  PROVE  Holds(m)'
<1>1. From(m)' = From(m) /\ Build(m)' = Build(m) /\ PrevOf(cmd[m].base)' = PrevOf(cmd[m].base)
  BY DEF From, Build, PrevOf
<1> QED
  BY <1>1 DEF Records, Holds

(* A stage that holds nothing. *)
LEMMA OutsideHolds ==
  ASSUME NEW m \in Machines, pc'[m] \notin Checked \cup Committing \cup Sweeping
  PROVE  Holds(m)'
BY DEF Holds

(* As long as no destroy has begun, the cluster's record is the newest copy. *)
LEMMA ReadsRecord ==
  ASSUME Types, Records, ~torn, NEW m \in Machines
  PROVE  ReadState(m) = state /\ state \in Record
<1>1. state \in Record /\ local[m] \in Record \cup {NoState}
  BY DEF Types, TypeOK, Records
<1>2. local[m] # NoState => ~(local[m].gen > state.gen)
  <2>1. ASSUME local[m] # NoState PROVE local[m].gen \in Nat /\ state.gen \in Nat
    BY <1>1, <2>1 DEF Record
  <2> QED
    BY <2>1 DEF Records
<1> QED
  BY <1>1, <1>2, RecordAssumption DEF ReadState

(* The record under the steps of a deploy, then under every step. *)
LEMMA DeployRecords ==
  ASSUME Types, Turns, Records, NEW m \in Machines, DeployStep(m)
  PROVE  Records'
<1>0. Onward(m)
  BY StepOnward
<1>u. UNCHANGED torn
  BY DEF DeployStep, Refused, MetadataValid, ClusterPinned, ApisPresent, PodRanges,
     NodeRanges, RangesKnown, ReadServing, PushImages, PinDigests, EdgeReady, Recheck, Pass,
     KeepDeployment, KeepStable, KeepHpa, AdoptValkey, KeepManifest, KeepSecret, HelmUpgrade,
     CutoverCommits, CutoverAborts, Park, GcDeployments, GcStable, GcConfigMaps, GcSecrets,
     SwitchCache, Gone, Fault, history
<1>1. CASE Exit(m) /\ ~CutoverCommits(m)
  <2>1. pc'[m] = "idle"
    BY <1>1 DEF Exit, Types
  <2> QED
    BY <1>0, <1>1, <1>u, <2>1, OutsideHolds, ClassesApart, FrameHolds, DeployKeepsRecord DEF records
<1>2. CASE MetadataValid(m) \/ ClusterPinned(m) \/ ApisPresent(m) \/ PodRanges(m)
           \/ NodeRanges(m) \/ RangesKnown(m) \/ PushImages(m) \/ PinDigests(m) \/ EdgeReady(m)
  <2>1. /\ UNCHANGED <<state, local, cmd>>
        /\ \/ pc'[m] \in {"cluster", "apis", "pods", "nodes", "network", "serving"}
           \/ pc[m] \in Checked /\ pc'[m] \in {"digests", "edge", "recheck"}
    BY <1>2, StageClasses DEF MetadataValid, ClusterPinned, ApisPresent, PodRanges, NodeRanges,
       RangesKnown, PushImages, PinDigests, EdgeReady, Pass, Go, Types, records
  <2> QED
    BY <1>0, <1>u, <2>1, StageClasses, SameClassHolds, FrameHolds
<1>3. CASE ReadServing(m) /\ ~Exit(m)
  <2>1. UNCHANGED <<state, local>>
    BY <1>3 DEF ReadServing, records
  <2>2. /\ PrevOf(ReadState(m)) # Build(m)
        /\ cmd' = [cmd EXCEPT ![m].base = ReadState(m), ![m].claimed = claim]
        /\ pc'[m] \in {"images", "claim"}
    BY <1>3 DEF ReadServing, BuildIdChanged, Go, Types
  <2>3. cmd'[m].base = ReadState(m) /\ cmd'[m].build = Build(m)
    BY <2>2 DEF Types, Command, Build
  <2>4. PrevOf(cmd[m].base)' # cmd'[m].build
    BY <2>2, <2>3 DEF PrevOf
  <2>5. Holds(m)'
    BY <2>2, <2>4, StageClasses DEF Holds
  <2> QED
    BY <1>0, <1>u, <2>1, <2>5, FrameHolds
<1>4. CASE Recheck(m) /\ ~Exit(m)
  <2>1. UNCHANGED <<state, local, cmd>> /\ ReadState(m) = cmd[m].base
    BY <1>4 DEF Recheck, records
  <2>2. pc[m] \in Checked /\ pc'[m] \in {"adopt", "keepDeployment"}
    BY <1>4, StageClasses DEF Recheck, Go, Types
  <2>3. PrevOf(cmd[m].base)' # cmd'[m].build
    BY <2>1, <2>2 DEF Records, PrevOf
  <2>4. ~torn' => cmd'[m].base = state'
    BY <1>u, <2>1, ReadsRecord
  <2>5. Holds(m)'
    BY <2>2, <2>3, <2>4, StageClasses DEF Holds
  <2> QED
    BY <1>0, <1>u, <2>1, <2>5, FrameHolds
<1>5. CASE (KeepDeployment(m) \/ KeepStable(m) \/ KeepHpa(m) \/ AdoptValkey(m)
            \/ KeepManifest(m) \/ KeepSecret(m) \/ HelmUpgrade(m)) /\ ~Exit(m)
  <2>1. /\ UNCHANGED <<state, local, cmd>>
        /\ pc[m] \in Committing /\ pc'[m] \in Committing
    BY <1>5, StageClasses DEF KeepDeployment, KeepStable, KeepHpa, AdoptValkey, KeepManifest,
       KeepSecret, HelmUpgrade, Go, Types, records
  <2> QED
    BY <1>0, <1>u, <2>1, StageClasses, SameClassHolds, FrameHolds
<1>6. CASE CutoverCommits(m)
  <2>1. /\ pc[m] = "cutover" /\ pc'[m] = "park" /\ cmd' = cmd
        /\ local' = [local EXCEPT ![m] = state']
        /\ state' = [build |-> Build(m), prev |-> From(m), reverted |-> FALSE,
                     gen |-> IF cmd[m].base = NoState THEN 1 ELSE cmd[m].base.gen + 1]
    BY <1>6 DEF CutoverCommits, Go, Types
  <2>2. PrevOf(cmd[m].base) # cmd[m].build
    BY <2>1, StageClasses DEF Records
  <2>3. ASSUME ~torn
        PROVE  cmd[m].base = state /\ state \in Record /\ From(m) = state.build
               /\ state.build \in Builds
    BY <2>1, <2>3, StageClasses, ReadsRecord, RecordAssumption DEF Records, From, PrevOf, Record
  <2>4. From(m)' = From(m) /\ Build(m)' = Build(m)
    BY <2>1 DEF From, Build, PrevOf
  <2>5. Holds(m)'
    BY <1>u, <2>1, <2>2, <2>3, <2>4, StageClasses, ReleaseAssumption DEF Holds
  <2>6. \A n \in Machines \ {m} : Holds(n)'
    <3> TAKE n \in Machines \ {m}
    <3>1. pc[n] \notin Committing \cup Sweeping
      BY <2>1, ClassesApart, UpgradingList DEF Turns
    <3> QED
      BY <1>0, <1>u, <3>1, OthersHold DEF Onward
  <2>7. Recorded'
    <3>1. ASSUME ~torn'
          PROVE  state' # NoState /\ state'.prev # state'.build
                 /\ \A n \in Machines : local'[n] # NoState => local'[n].gen <= state'.gen
      <4>1. ~torn
        BY <1>u, <3>1
      <4>2. state' \in Record
        BY <1>6, CommitType
      <4>3. state'.gen = state.gen + 1 /\ state.gen \in Nat
        BY <2>1, <2>3, <4>1, RecordAssumption DEF Record
      <4>4. \A n \in Machines : local'[n] # NoState => local'[n].gen <= state'.gen
        <5> SUFFICES ASSUME NEW n \in Machines, local'[n] # NoState
                     PROVE  local'[n].gen <= state'.gen
          OBVIOUS
        <5>1. CASE n = m
          BY <2>1, <4>3, <5>1 DEF Types, TypeOK
        <5>2. CASE n # m
          <6>1. local'[n] = local[n] /\ local[n] \in Record \cup {NoState}
            BY <2>1, <5>2 DEF Types, TypeOK
          <6>2. local[n].gen <= state.gen /\ local[n].gen \in Nat
            BY <4>1, <6>1 DEF Records, Record
          <6> QED
            BY <4>3, <6>1, <6>2
        <5> QED
          BY <5>1, <5>2
      <4>5. state'.prev # state'.build
        BY <2>1, <2>2 DEF From, Build
      <4> QED
        BY <4>2, <4>4, <4>5, RecordAssumption
    <3> QED
      BY <3>1 DEF Recorded
  <2>8. Records' <=> Recorded' /\ \A n \in Machines : Holds(n)'
    BY DEF Records, Recorded, Holds
  <2> QED
    BY <2>5, <2>6, <2>7, <2>8
<1>7. CASE Park(m) \/ GcDeployments(m) \/ GcStable(m) \/ GcConfigMaps(m) \/ GcSecrets(m)
  <2>1. /\ UNCHANGED <<state, local, cmd>>
        /\ pc[m] \in Sweeping /\ pc'[m] \in Sweeping
    BY <1>7, StageClasses DEF Park, GcDeployments, GcStable, GcConfigMaps, GcSecrets, Go, Types,
       records
  <2> QED
    BY <1>0, <1>u, <2>1, StageClasses, SameClassHolds, FrameHolds
<1>8. CASE SwitchCache(m) /\ ~Exit(m)
  <2>1. UNCHANGED <<state, local>> /\ pc'[m] = "cloud"
    BY <1>8 DEF SwitchCache, Go, Types, records
  <2> QED
    BY <1>0, <1>u, <2>1, StageClasses, OutsideHolds, FrameHolds
<1>9. Refused(m) \/ CutoverAborts(m) => Exit(m)
  BY DEF Refused, CutoverAborts
<1> QED
  BY <1>1, <1>2, <1>3, <1>4, <1>5, <1>6, <1>7, <1>8, <1>9 DEF DeployStep

LEMMA RecordsStep ==
  ASSUME Types, Turns, Records, Next
  PROVE  Records'
<1>1. ASSUME NEW m \in Machines, CacheStep(m)
      PROVE  Records'
  <2>1. Onward(m) /\ UNCHANGED <<state, local, torn>>
    BY <1>1, StepOnward, CacheKeeps DEF records
  <2>2. CASE Exit(m)
    <3>1. pc'[m] = "idle"
      BY <2>2 DEF Exit, Types
    <3> QED
      BY <2>1, <3>1, OutsideHolds, ClassesApart, FrameHolds
  <2>3. CASE ~Exit(m) /\ pc[m] \in {"claim", "create", "intent", "provision", "await"}
    <3>1. cmd' = cmd /\ pc'[m] \in Checked /\ pc[m] \in Checked
      BY <1>1, <2>3, StageClasses DEF CacheStep, ReadClaim, CreateClaim, RecordIntent, Provision,
         ProvisionFails, Verified, NotVerified, DeleteInstance, DeleteIdentity, ForgetCoordinates,
         Go, Types
    <3> QED
      BY <2>1, <3>1, StageClasses, SameClassHolds, FrameHolds
  <2>4. CASE ~Exit(m) /\ pc[m] \in {"cloud", "identity", "forget"}
    <3>1. pc'[m] \in {"identity", "forget", "report"}
      BY <1>1, <2>4 DEF CacheStep, ReadClaim, CreateClaim, RecordIntent, Provision,
         ProvisionFails, Verified, NotVerified, DeleteInstance, DeleteIdentity, ForgetCoordinates,
         CleanupEnds, Go, Types
    <3> QED
      BY <2>1, <3>1, StageClasses, OutsideHolds, FrameHolds
  <2> QED
    BY <1>1, <2>2, <2>3, <2>4 DEF CacheStep, ReadClaim, CreateClaim, RecordIntent, Provision,
         ProvisionFails, Verified, NotVerified, DeleteInstance, DeleteIdentity, ForgetCoordinates
<1>2. ASSUME NEW m \in Machines, DestroyStep(m)
      PROVE  Records'
  <2>1. Onward(m)
    BY <1>2, StepOnward
  <2>2. pc'[m] = "idle" \/ pc'[m] \in DestroyStages
    <3>1. pc[m] \notin DeployStages /\ pc[m] # "idle"
      BY <1>2, DeployStageList, UpgradingList DEF DestroyStep, LoadPlans, Identities, Uninstall,
         DestroySeenHpas, DestroyDeployments, DestroyHpas, DestroyStable, DestroyContributed,
         DestroyState, DestroySnapshots, DestroyPlans, DestroySecrets, DestroyExternal,
         DestroyCache, Report, DeleteOwned
    <3> QED
      BY <2>1, <3>1, StageOfDestroy DEF Onward
  <2>3. Holds(m)'
    BY <2>2, ClassesApart, OutsideHolds
  <2>4. \A n \in Machines \ {m} : Holds(n)'
    BY <1>2, <2>1, OthersHold, DestroyKeepsRecord, HistorySteps DEF Onward
  <2>5. Recorded'
    BY <1>2, DestroyKeepsRecord, HistorySteps DEF Recorded, Records, Types, TypeOK
  <2>6. Records' <=> Recorded' /\ \A n \in Machines : Holds(n)'
    BY DEF Records, Recorded, Holds
  <2> QED
    BY <2>3, <2>4, <2>5, <2>6
<1>3. ASSUME NEW m \in Machines, NEW b \in Builds, DeployStart(m, b)
      PROVE  Records'
  <2>1. UNCHANGED <<state, local, torn>>
    BY <1>3 DEF DeployStart
  <2>2. Holds(m)'
    BY <1>3, DeployBegins, StageClasses, OutsideHolds
  <2>3. \A n \in Machines \ {m} : Holds(n)'
    BY <1>3, <2>1, DeployBegins, OthersHold
  <2>4. Recorded'
    BY <2>1 DEF Recorded, Records
  <2>5. Records' <=> Recorded' /\ \A n \in Machines : Holds(n)'
    BY DEF Records, Recorded, Holds
  <2> QED
    BY <2>2, <2>3, <2>4, <2>5
<1>4. ASSUME NEW m \in Machines, DestroyStart(m)
      PROVE  Records'
  <2>1. UNCHANGED <<state, local, torn>>
    BY <1>4 DEF DestroyStart, records
  <2>2. Holds(m)'
    BY <1>4, DestroyBegins, StageClasses, OutsideHolds
  <2>3. \A n \in Machines \ {m} : Holds(n)'
    BY <1>4, <2>1, DestroyBegins, OthersHold
  <2>4. Recorded'
    BY <2>1 DEF Recorded, Records
  <2>5. Records' <=> Recorded' /\ \A n \in Machines : Holds(n)'
    BY DEF Records, Recorded, Holds
  <2> QED
    BY <2>2, <2>3, <2>4, <2>5
<1>5. ASSUME NEW m \in Machines, Rollback(m)
      PROVE  Records'
  <2> DEFINE s == ReadState(m)
  <2>1. /\ AllIdle /\ UNCHANGED <<pc, cmd, torn>> /\ s # NoState
        /\ state' = [build |-> s.prev, prev |-> s.build, gen |-> s.gen + 1, reverted |-> TRUE]
        /\ local' = [local EXCEPT ![m] = state']
    BY <1>5 DEF Rollback, RollbackAllowed, process
  <2>2. \A n \in Machines : Holds(n)'
    BY <2>1, ClassesApart, OutsideHolds DEF AllIdle
  <2>3. Recorded'
    <3> SUFFICES ASSUME ~torn'
                 PROVE  state' # NoState /\ state'.prev # state'.build
                        /\ \A n \in Machines : local'[n] # NoState => local'[n].gen <= state'.gen
      BY DEF Recorded
    <3>1. s = state /\ state \in Record /\ ~torn
      BY <2>1, ReadsRecord
    <3>2. state' \in Record
      <4>1. s.prev # NoBuild
        BY <1>5 DEF Rollback, RollbackAllowed
      <4> HIDE DEF s
      <4> QED
        BY <2>1, <3>1, <4>1 DEF Record
    <3>3. state'.gen = state.gen + 1 /\ state.gen \in Nat /\ state'.build = state.prev
          /\ state'.prev = state.build
      BY <2>1, <3>1 DEF Record
    <3>4. \A n \in Machines : local'[n] # NoState => local'[n].gen <= state'.gen
      <4> SUFFICES ASSUME NEW n \in Machines, local'[n] # NoState
                   PROVE  local'[n].gen <= state'.gen
        OBVIOUS
      <4>1. CASE n = m
        BY <2>1, <3>3, <4>1 DEF Types, TypeOK
      <4>2. CASE n # m
        <5>1. local'[n] = local[n] /\ local[n] \in Record \cup {NoState}
          BY <2>1, <4>2 DEF Types, TypeOK
        <5>2. local[n].gen <= state.gen /\ local[n].gen \in Nat
          BY <3>1, <5>1 DEF Records, Record
        <5> QED
          BY <3>3, <5>1, <5>2
      <4> QED
        BY <4>1, <4>2
    <3> QED
      BY <3>1, <3>2, <3>3, <3>4, RecordAssumption DEF Records
  <2>4. Records' <=> Recorded' /\ \A n \in Machines : Holds(n)'
    BY DEF Records, Recorded, Holds
  <2> QED
    BY <2>2, <2>3, <2>4
<1>6. CASE UNCHANGED <<process, state, local, torn>>
  BY <1>6 DEF process, Records, PrevOf, From, Build
<1> QED
  BY <1>1, <1>2, <1>3, <1>4, <1>5, <1>6, DeployRecords
     DEF Next, InstanceReady, Migrate, FirstSync, history, records

-----------------------------------------------------------------------------
(* Annotations. *)

(* Objects are told apart by their kind and their build. *)
LEMMA ObjectKinds ==
  ASSUME NEW b \in Builds
  PROVE  /\ Deployment(b)[1] = "deployment" /\ Hpa(b)[1] = "hpa" /\ Secret(b)[1] = "secret"
         /\ Plan(b)[1] = "plan" /\ Snapshot(b)[1] = "snapshot" /\ Stable[1] = "stable"
         /\ Contributed[1] = "contributed" /\ Cloud[1] = "cloud"
BY DEF Deployment, Hpa, Secret, Plan, Snapshot, Stable, Contributed, Cloud

LEMMA SameObject ==
  ASSUME NEW b \in Builds, NEW d \in Builds
  PROVE  /\ Deployment(b) = Deployment(d) => b = d
         /\ Plan(b) = Plan(d) => b = d
         /\ Snapshot(b) = Snapshot(d) => b = d
         /\ Hpa(b) = Hpa(d) => b = d
         /\ b \notin Legacy /\ Secret(b) = Secret(d) => b = d
BY ReleaseAssumption DEF Deployment, Hpa, Secret, Plan, Snapshot

KeepPolicy ==
  \A b \in Builds :
     /\ Plan(b) \in live => Plan(b) \in kept
     /\ Snapshot(b) \in live => Snapshot(b) \in kept
     /\ b \notin Legacy /\ Secret(b) \in live => Secret(b) \in kept

Guarding ==
  \A o \in live : o[1] \in {"deployment", "secret", "plan", "snapshot"} => o \in guarded

Rendered == Contributed \notin kept /\ (Contributed \in live => Contributed \in manifest)

(* The keep policy, migrate's annotation and the components' objects, apart. *)
LEMMA AnnotatedParts ==
  Annotated <=> /\ gitops # "synced" => KeepPolicy
                /\ gitops = "migrated" => Guarding
                /\ Rendered
BY DEF Annotated, KeepPolicy, Guarding, Rendered

(* What the chart of a build holds of each kind. *)
LEMMA ChartKinds ==
  ASSUME NEW b \in Builds, NEW d \in Builds
  PROVE  /\ Contributed \in Chart(b)
         /\ Plan(d) \in Chart(b) => d = b
         /\ Snapshot(d) \in Chart(b) => d = b
         /\ Deployment(d) \in Chart(b) => d = b
         /\ d \notin Legacy /\ Secret(d) \in Chart(b) => d = b
         /\ Cloud \notin Chart(b)
         /\ Contributed \notin KeptAtBirth(b)
         /\ Whole(b) \subseteq Chart(b)
         /\ b \in Wide => Stable \in Chart(b)
         /\ b \notin Wide => Stable \notin Chart(b)
<1> USE DEF Chart, KeptAtBirth, Contributed, Deployment, Hpa, Secret, Plan, Snapshot, Stable, Cloud
<1>1. Contributed \in Chart(b) /\ Cloud \notin Chart(b) /\ Contributed \notin KeptAtBirth(b)
  OBVIOUS
<1>2. Plan(d) \in Chart(b) => d = b
  OBVIOUS
<1>3. Snapshot(d) \in Chart(b) => d = b
  OBVIOUS
<1>4. Deployment(d) \in Chart(b) => d = b
  OBVIOUS
<1>5. d \notin Legacy /\ Secret(d) \in Chart(b) => d = b
  BY ReleaseAssumption
<1>6. (b \in Wide => Stable \in Chart(b)) /\ (b \notin Wide => Stable \notin Chart(b))
  OBVIOUS
<1>7. Whole(b) \subseteq Chart(b)
  BY DEF Whole
<1> QED
  BY <1>1, <1>2, <1>3, <1>4, <1>5, <1>6, <1>7

(* An upgrade renders the keep policy on what it creates. *)
LEMMA UpgradedPolicy ==
  ASSUME KeepPolicy, Rendered, NEW b \in Builds, Upgraded(b)
  PROVE  KeepPolicy' /\ Rendered'
<1>1. /\ live' = (live \ ((manifest \ Chart(b)) \ kept)) \cup Chart(b)
      /\ kept' = (kept \ ({Stable} \cap Chart(b))) \cup KeptAtBirth(b)
      /\ manifest' = Chart(b)
  BY DEF Upgraded
<1>2. Contributed \notin kept'
  BY <1>1, ChartKinds DEF Rendered
<1>4. ASSUME NEW d \in Builds
      PROVE  /\ Plan(d) \in live' => Plan(d) \in kept'
             /\ Snapshot(d) \in live' => Snapshot(d) \in kept'
             /\ d \notin Legacy /\ Secret(d) \in live' => Secret(d) \in kept'
  <2>1. Plan(d) # Stable /\ Snapshot(d) # Stable /\ Secret(d) # Stable
    BY DEF Plan, Snapshot, Secret, Stable
  <2>2. Plan(b) \in KeptAtBirth(b) /\ Snapshot(b) \in KeptAtBirth(b)
        /\ (b \notin Legacy => Secret(b) \in KeptAtBirth(b))
    BY DEF KeptAtBirth
  <2> QED
    BY <1>1, <2>1, <2>2, ChartKinds DEF KeepPolicy
<1>5. KeepPolicy'
  BY <1>4 DEF KeepPolicy, Plan, Snapshot, Secret
<1> QED
  BY <1>1, <1>2, <1>5, ChartKinds DEF Rendered

(* So does one that fails partway. *)
LEMMA PartlyPolicy ==
  ASSUME KeepPolicy, Rendered, NEW b \in Builds, PartlyUpgraded(b)
  PROVE  KeepPolicy' /\ Rendered'
<1>1. PICK applied \in SUBSET Chart(b) :
        /\ live' = live \cup applied
        /\ kept' = (kept \ ({Stable} \cap applied)) \cup (KeptAtBirth(b) \cap applied)
  BY PartlyApplied
<1>2. manifest' = manifest \cup Chart(b)
  BY DEF PartlyUpgraded
<1>3. Contributed \notin kept'
  BY <1>1, ChartKinds DEF Rendered
<1>4. ASSUME NEW d \in Builds
      PROVE  /\ Plan(d) \in live' => Plan(d) \in kept'
             /\ Snapshot(d) \in live' => Snapshot(d) \in kept'
             /\ d \notin Legacy /\ Secret(d) \in live' => Secret(d) \in kept'
  <2>1. Plan(d) # Stable /\ Snapshot(d) # Stable /\ Secret(d) # Stable
    BY DEF Plan, Snapshot, Secret, Stable
  <2>2. Plan(b) \in KeptAtBirth(b) /\ Snapshot(b) \in KeptAtBirth(b)
        /\ (b \notin Legacy => Secret(b) \in KeptAtBirth(b))
    BY DEF KeptAtBirth
  <2> QED
    BY <1>1, <2>1, <2>2, ChartKinds DEF KeepPolicy
<1>5. KeepPolicy'
  BY <1>4 DEF KeepPolicy, Plan, Snapshot, Secret
<1> QED
  BY <1>1, <1>2, <1>3, <1>5, ChartKinds DEF Rendered

(* A deletion takes no annotation from what stays. *)
LEMMA DeleteAnnotated ==
  ASSUME Annotated, NEW gone, Delete(gone), gitops' = gitops
  PROVE  Annotated'
<1>1. /\ live' = live \ gone /\ kept' = kept \ gone /\ guarded' = guarded \ gone
      /\ manifest' = manifest
  BY DEF Delete
<1>2. KeepPolicy => KeepPolicy'
  BY <1>1 DEF KeepPolicy, Plan, Snapshot, Secret
<1>3. Guarding => Guarding'
  BY <1>1 DEF Guarding
<1>4. Rendered => Rendered'
  BY <1>1 DEF Rendered, Contributed
<1>5. Annotated' <=> /\ gitops' # "synced" => KeepPolicy'
                     /\ gitops' = "migrated" => Guarding'
                     /\ Rendered'
  BY DEF Annotated, KeepPolicy, Guarding, Rendered
<1> QED
  BY <1>2, <1>3, <1>4, <1>5, AnnotatedParts

(* Annotating more objects, the target's own excepted, or unlabelled HPAs appearing. *)
LEMMA KeepMoreAnnotated ==
  ASSUME Annotated, gitops' = gitops, manifest' = manifest, guarded' = guarded, live' = live,
         kept \subseteq kept', Contributed \notin kept'
  PROVE  Annotated'
<1>1. KeepPolicy => KeepPolicy'
  BY DEF KeepPolicy, Plan, Snapshot, Secret
<1>2. Guarding => Guarding'
  BY DEF Guarding
<1>3. Rendered => Rendered'
  BY DEF Rendered, Contributed
<1>4. Annotated' <=> /\ gitops' # "synced" => KeepPolicy'
                     /\ gitops' = "migrated" => Guarding'
                     /\ Rendered'
  BY DEF Annotated, KeepPolicy, Guarding, Rendered
<1> QED
  BY <1>1, <1>2, <1>3, <1>4, AnnotatedParts

(* While a deploy runs the release is not under a reconciler. *)
LEMMA DeployImperative ==
  ASSUME Types, Turns, NEW m \in Machines, pc[m] # "idle", pc[m] \notin DestroyStages
  PROVE  gitops = "imperative"
BY StageOfDeploy DEF Turns, Types

(* The annotations under the steps of a deploy, then under every step. *)
LEMMA DeployAnnotated ==
  ASSUME Types, Turns, Annotated, NEW m \in Machines, DeployStep(m)
  PROVE  Annotated'
<1>0. gitops' = gitops
  BY StepKeeps
<1>1. CASE UNCHANGED <<live, kept, guarded, manifest>>
  BY <1>0, <1>1, KeepMoreAnnotated DEF Annotated
<1>2. From(m) \in Builds \cup {NoBuild}
  BY DEF From, PrevOf, Types, Command, Record
<1>3. CASE KeepDeployment(m)
  BY <1>0, <1>3, KeepMoreAnnotated DEF KeepDeployment, Annotated, Deployment, Contributed
<1>4. CASE KeepStable(m)
  BY <1>0, <1>4, KeepMoreAnnotated DEF KeepStable, Annotated, Stable, Contributed
<1>5. CASE KeepHpa(m)
  BY <1>0, <1>5, KeepMoreAnnotated DEF KeepHpa, Annotated, Hpa, Contributed
<1>6. CASE KeepSecret(m)
  BY <1>0, <1>6, KeepMoreAnnotated DEF KeepSecret, Annotated, Contributed
<1>7. CASE KeepManifest(m)
  <2>1. /\ live' = live \cup ServedSnapshot(m) /\ kept' = kept \cup ServedSnapshot(m)
        /\ UNCHANGED <<manifest, guarded>>
    BY <1>7 DEF KeepManifest
  <2>2. gitops = "imperative"
    BY <1>7, DeployImperative, DestroyStageList DEF KeepManifest
  <2>3. \A o \in ServedSnapshot(m) : o[1] = "snapshot"
    BY DEF ServedSnapshot, Snapshot
  <2>4. Contributed \notin ServedSnapshot(m)
    BY <2>3 DEF Contributed
  <2>5. KeepPolicy'
    BY <2>1, <2>2 DEF Annotated, KeepPolicy, Plan, Snapshot, Secret
  <2>6. Rendered'
    BY <2>1, <2>4 DEF Annotated, Rendered, Contributed
  <2>7. Annotated' <=> /\ gitops' # "synced" => KeepPolicy'
                       /\ gitops' = "migrated" => Guarding'
                       /\ Rendered'
    BY DEF Annotated, KeepPolicy, Guarding, Rendered
  <2> QED
    BY <1>0, <2>2, <2>5, <2>6, <2>7
<1>8. CASE HelmUpgrade(m)
  <2>1. gitops = "imperative" /\ Build(m) \in Builds
    BY <1>8, DeployImperative, StageOfDeploy, DestroyStageList DEF HelmUpgrade, Build
  <2>2. CASE Upgraded(Build(m)) \/ PartlyUpgraded(Build(m))
    <3>1. KeepPolicy' /\ Rendered'
      BY <2>1, <2>2, UpgradedPolicy, PartlyPolicy, AnnotatedParts
    <3>2. Annotated' <=> /\ gitops' # "synced" => KeepPolicy'
                         /\ gitops' = "migrated" => Guarding'
                         /\ Rendered'
      BY DEF Annotated, KeepPolicy, Guarding, Rendered
    <3> QED
      BY <1>0, <2>1, <3>1, <3>2
  <2> QED
    BY <1>1, <1>8, <2>2 DEF HelmUpgrade, objects
<1>9. CASE Park(m) \/ GcDeployments(m) \/ GcStable(m) \/ GcConfigMaps(m) \/ GcSecrets(m)
  <2>1. \E w : Gone(m, w)
    BY <1>9 DEF Park, GcDeployments, GcStable, GcConfigMaps, GcSecrets
  <2>2. \E gone : Delete(gone)
    BY <2>1 DEF Gone
  <2> QED
    BY <1>0, <2>2, DeleteAnnotated
<1>10. CASE SwitchCache(m) \/ AdoptValkey(m)
  BY <1>1, <1>10 DEF SwitchCache, AdoptValkey
<1>11. CASE Refused(m) \/ MetadataValid(m) \/ ClusterPinned(m) \/ ApisPresent(m)
            \/ PodRanges(m) \/ NodeRanges(m) \/ RangesKnown(m) \/ ReadServing(m)
            \/ PushImages(m) \/ PinDigests(m) \/ EdgeReady(m) \/ Recheck(m)
            \/ CutoverCommits(m) \/ CutoverAborts(m)
  BY <1>1, <1>11 DEF Refused, MetadataValid, ClusterPinned, ApisPresent, PodRanges, NodeRanges,
     RangesKnown, ReadServing, PushImages, PinDigests, EdgeReady, Recheck, Pass, CutoverCommits,
     CutoverAborts, objects
<1> QED
  BY <1>3, <1>4, <1>5, <1>6, <1>7, <1>8, <1>9, <1>10, <1>11 DEF DeployStep

LEMMA AnnotatedStep ==
  ASSUME Types, Turns, Annotated, Next
  PROVE  Annotated'
<1>a. Annotated' <=> /\ gitops' # "synced" => KeepPolicy'
                     /\ gitops' = "migrated" => Guarding'
                     /\ Rendered'
  BY DEF Annotated, KeepPolicy, Guarding, Rendered
<1>b. /\ gitops # "synced" => KeepPolicy
      /\ gitops = "migrated" => Guarding
      /\ Rendered
  BY AnnotatedParts
<1>1. CASE UNCHANGED <<objects, gitops>>
  BY <1>1 DEF objects, Annotated, Plan, Snapshot, Secret, Contributed
<1>2. ASSUME NEW m \in Machines, CacheStep(m) \/ DestroyStep(m)
      PROVE  Annotated'
  <2>1. gitops' = gitops
    BY <1>2, StepKeeps
  <2>2. CASE Uninstalled
    <3>1. /\ live' = live \ (manifest \ kept) /\ kept' = kept /\ manifest' = {}
          /\ guarded' = guarded \cap live'
      BY <2>2 DEF Uninstalled
    <3>2. KeepPolicy => KeepPolicy'
      BY <3>1 DEF KeepPolicy, Plan, Snapshot, Secret
    <3>3. Guarding => Guarding'
      BY <3>1 DEF Guarding
    <3>4. Rendered'
      BY <1>b, <3>1 DEF Rendered, Contributed
    <3> QED
      BY <1>a, <1>b, <2>1, <3>2, <3>3, <3>4
  <2> QED
    BY <1>1, <1>2, <2>1, <2>2, CacheKeeps, DestroyObjects, DeleteAnnotated
<1>3. ASSUME NEW m \in Machines, NEW b \in Builds, DeployStart(m, b)
      PROVE  Annotated'
  <2>1. UNCHANGED objects /\ gitops # "synced" /\ gitops' = "imperative"
    BY <1>3 DEF DeployStart, Begin
  <2>2. KeepPolicy' /\ Rendered'
    BY <1>b, <2>1 DEF objects, KeepPolicy, Rendered, Plan, Snapshot, Secret, Contributed
  <2> QED
    BY <1>a, <2>1, <2>2
<1>4. ASSUME NEW m \in Machines, Rollback(m)
      PROVE  Annotated'
  <2> DEFINE s == ReadState(m)
  <2>1. PICK gone \in {{}, {Hpa(s.build)}}, made \in {{}, {Hpa(s.prev)} \ live} :
           /\ live' = (live \ gone) \cup made
           /\ kept' = kept \ (gone \cup made)
           /\ guarded' = guarded \ gone
    BY <1>4 DEF Rollback
  <2>2. manifest' = manifest /\ gitops' = gitops
    BY <1>4 DEF Rollback
  <2>3. \A o \in gone \cup made : o[1] = "hpa"
    BY DEF Hpa
  <2> HIDE DEF s
  <2>4. KeepPolicy => KeepPolicy'
    <3>1. \A b \in Builds : {Plan(b), Snapshot(b), Secret(b)} \cap (gone \cup made) = {}
      BY <2>3, ObjectKinds
    <3> QED
      BY <2>1, <3>1 DEF KeepPolicy
  <2>5. Guarding => Guarding'
    BY <2>1, <2>3 DEF Guarding
  <2>6. Rendered'
    BY <1>b, <2>1, <2>2, <2>3 DEF Rendered, Contributed
  <2> QED
    BY <1>a, <1>b, <2>2, <2>4, <2>5, <2>6
<1>5. ASSUME NEW m \in Machines, Migrate(m)
      PROVE  Annotated'
  <2>1. UNCHANGED <<live, kept, manifest>> /\ gitops # "synced" /\ guarded \subseteq guarded'
    BY <1>5 DEF Migrate, Begin
  <2>2. KeepPolicy' /\ Rendered'
    BY <1>b, <2>1 DEF KeepPolicy, Rendered, Plan, Snapshot, Secret, Contributed
  <2>3. CASE gitops' = gitops
    BY <1>a, <1>b, <2>1, <2>2, <2>3 DEF Guarding
  <2>4. CASE guarded' = guarded \cup Versioned
    <3>1. Guarding'
      BY <2>1, <2>4 DEF Guarding, Versioned, Types
    <3> QED
      BY <1>a, <2>2, <3>1
  <2> QED
    BY <1>5, <2>3, <2>4 DEF Migrate
<1>6. ASSUME NEW b \in Builds, FirstSync(b)
      PROVE  Annotated'
  <2>1. Rendered' /\ gitops' = "synced"
    BY <1>b, <1>6, ChartKinds DEF FirstSync, Rendered, Contributed
  <2> QED
    BY <1>a, <2>1
<1> QED
  BY <1>1, <1>2, <1>3, <1>4, <1>5, <1>6, DeployAnnotated
     DEF Next, InstanceReady, DestroyStart, history

-----------------------------------------------------------------------------
(* The builds that can be started again. *)

Restartable ==
  /\ Whole(state.build) \subseteq live
  /\ state.build \in Wide => Stable \in live
  /\ state.prev # NoBuild =>
        /\ {Plan(state.prev), Snapshot(state.prev)} \subseteq live
        /\ ~state.reverted =>
              /\ Deployment(state.prev) \in live
              /\ gitops # "synced" => Deployment(state.prev) \in kept
  /\ \A b \in Builds : Deployment(b) \in live => Secret(b) \in live

(* What the stages of an upgrade have secured so far. *)
Secured(m) ==
  /\ pc[m] \in KeptDeployment => Deployment(From(m)) \in kept
  /\ pc[m] \in KeptStable /\ From(m) \in Wide /\ Build(m) \notin Wide => Stable \in kept
  /\ pc[m] = "helm" /\ <<"secret", NoBuild>> \in live => <<"secret", NoBuild>> \in kept
  /\ pc[m] = "cutover" => Chart(Build(m)) \subseteq live

(* What stands, and what each command has secured of it. *)
LEMMA StandingParts ==
  Standing <=> (~torn => Restartable /\ \A m \in Machines : Secured(m))
BY DEF Standing, Restartable, Secured

LEMMA SecuredStages ==
  /\ KeptDeployment = {"keepStable", "keepHpa", "adopt", "keepManifest", "keepSecret", "helm",
                       "cutover"}
  /\ KeptStable = {"keepHpa", "adopt", "keepManifest", "keepSecret", "helm", "cutover"}
BY StageClasses DEF KeptDeployment, KeptStable

(* A stage that has secured nothing. *)
LEMMA OutsideSecured ==
  ASSUME NEW m \in Machines, pc'[m] \notin Committing
  PROVE  Secured(m)'
BY SecuredStages, StageClasses DEF Secured

(* A command in its upgrade is alone there: the others have secured nothing yet. *)
LEMMA OthersSecured ==
  ASSUME Turns, NEW m \in Machines, pc[m] \in Upgrading, Onward(m)
  PROVE  \A n \in Machines \ {m} : Secured(n)'
BY OutsideSecured, ClassesApart DEF Turns, Onward

(* A step that leaves objects and record alone disturbs only its own command. *)
LEMMA QuietStanding ==
  ASSUME Standing, NEW m \in Machines, Onward(m), UNCHANGED <<live, kept, state, torn, gitops>>,
         Secured(m)'
  PROVE  Standing'
<1>1. Restartable' <=> Restartable
  BY DEF Restartable, Whole, Deployment, Secret, Plan, Snapshot, Stable
<1>2. ASSUME NEW n \in Machines \ {m}, Secured(n)
      PROVE  Secured(n)'
  <2>1. From(n)' = From(n) /\ Build(n)' = Build(n) /\ pc'[n] = pc[n]
    BY DEF From, Build, PrevOf, Onward
  <2> QED
    BY <1>2, <2>1 DEF Secured
<1>3. Standing' <=> (~torn' => Restartable' /\ \A n \in Machines : Secured(n)')
  BY DEF Standing, Restartable, Secured
<1> QED
  BY <1>1, <1>2, <1>3, StandingParts

(* The record a running upgrade works from. *)
LEMMA UpgradeBase ==
  ASSUME Types, Turns, Records, ~torn, NEW m \in Machines, pc[m] \in Committing
  PROVE  /\ state \in Record /\ cmd[m].base = state /\ From(m) = state.build
         /\ From(m) \in Builds /\ Build(m) \in Builds /\ Build(m) # From(m)
         /\ pc[m] \in Upgrading /\ gitops = "imperative"
<1>1. state \in Record /\ cmd[m].base = state
  BY ReadsRecord DEF Records
<1>2. From(m) = state.build /\ From(m) \in Builds
  BY <1>1, RecordAssumption DEF From, PrevOf, Record
<1>3. pc[m] \notin DestroyStages /\ pc[m] # "idle" /\ pc[m] \in Upgrading
  BY ClassesApart
<1>4. Build(m) \in Builds /\ Build(m) # From(m)
  BY <1>3, StageOfDeploy DEF Build, From, Records
<1> QED
  BY <1>1, <1>2, <1>3, <1>4, DeployImperative

(* What carries the keep policy survives an upgrade, and so does a build all of whose objects *)
(* carry it.                                                                                  *)
LEMMA UpgradeStands ==
  ASSUME Types, Turns, Records, Annotated, Standing, ~torn, NEW m \in Machines, pc[m] = "helm",
         Upgraded(Build(m)), UNCHANGED <<state, gitops>>
  PROVE  /\ Restartable' /\ Chart(Build(m)) \subseteq live'
         /\ Deployment(From(m)) \in kept'
         /\ From(m) \in Wide /\ Build(m) \notin Wide => Stable \in kept'
<1> DEFINE b == Build(m)
           f == From(m)
<1>0. pc[m] \in Committing /\ pc[m] \in KeptDeployment /\ pc[m] \in KeptStable
  BY StageClasses, SecuredStages
<1>1. /\ state \in Record /\ f = state.build /\ f \in Builds /\ b \in Builds
      /\ gitops = "imperative"
  BY <1>0, UpgradeBase
<1>2. Restartable /\ Secured(m)
  BY StandingParts
<1>3. /\ live' = (live \ ((manifest \ Chart(b)) \ kept)) \cup Chart(b)
      /\ kept' = (kept \ ({Stable} \cap Chart(b))) \cup KeptAtBirth(b)
  BY DEF Upgraded
<1>4. /\ \A o \in live : o \in kept => o \in live'
      /\ Chart(b) \subseteq live'
      /\ \A o \in kept : o # Stable => o \in kept'
  BY <1>3
<1>5. KeepPolicy
  BY <1>1, AnnotatedParts
<1>6. \A d \in Builds : Secret(d) \in live => Secret(d) \in kept
  BY <1>0, <1>2, <1>5 DEF Secured, KeepPolicy, Secret
<1>7. Deployment(f) \in kept /\ Deployment(f) # Stable
  BY <1>0, <1>2 DEF Secured, Deployment, Stable
<1>8. Whole(f) \subseteq live'
  BY <1>1, <1>2, <1>4, <1>5, <1>6, <1>7 DEF Whole, Restartable, KeepPolicy
<1>9. f \in Wide => Stable \in live'
  BY <1>0, <1>1, <1>2, <1>4, ChartKinds DEF Secured, Restartable
<1>10. f \in Wide /\ b \notin Wide => Stable \in kept'
  BY <1>0, <1>1, <1>2, <1>3, ChartKinds DEF Secured
<1>11. state.prev # NoBuild =>
        /\ {Plan(state.prev), Snapshot(state.prev)} \subseteq live'
        /\ ~state.reverted => Deployment(state.prev) \in live' /\ Deployment(state.prev) \in kept'
  <2> SUFFICES ASSUME state.prev # NoBuild
               PROVE  /\ {Plan(state.prev), Snapshot(state.prev)} \subseteq live'
                      /\ ~state.reverted => /\ Deployment(state.prev) \in live'
                                            /\ Deployment(state.prev) \in kept'
    OBVIOUS
  <2>1. state.prev \in Builds
    BY <1>1 DEF Record
  <2>2. Deployment(state.prev) # Stable
    BY DEF Deployment, Stable
  <2> QED
    BY <1>1, <1>2, <1>4, <1>5, <2>1, <2>2 DEF Restartable, KeepPolicy
<1>12. \A d \in Builds : Deployment(d) \in live' => Secret(d) \in live'
  <2> SUFFICES ASSUME NEW d \in Builds, Deployment(d) \in live'
               PROVE  Secret(d) \in live'
    OBVIOUS
  <2>1. CASE Deployment(d) \in Chart(b)
    <3>1. d = b /\ Secret(b) \in Chart(b)
      BY <1>1, <2>1, ChartKinds DEF Whole
    <3> QED
      BY <1>4, <3>1
  <2>2. CASE Deployment(d) \notin Chart(b)
    BY <1>2, <1>3, <1>4, <1>6, <2>2 DEF Restartable
  <2> QED
    BY <2>1, <2>2
<1>13. Restartable'
  BY <1>1, <1>8, <1>9, <1>11, <1>12
     DEF Restartable, Whole, Deployment, Secret, Plan, Snapshot, Stable
<1> QED
  BY <1>4, <1>7, <1>10, <1>13

(* An upgrade that fails partway prunes nothing. *)
LEMMA PartlyStands ==
  ASSUME Restartable, NEW b \in Builds, PartlyUpgraded(b), UNCHANGED <<state, gitops>>
  PROVE  Restartable'
<1>1. PICK applied \in SUBSET Chart(b) :
        /\ live' = live \cup applied
        /\ kept' = (kept \ ({Stable} \cap applied)) \cup (KeptAtBirth(b) \cap applied)
        /\ Deployment(b) \in applied => Secret(b) \in applied
  BY PartlyApplied
<1>2. Whole(state.build) \subseteq live' /\ (state.build \in Wide => Stable \in live')
  BY <1>1 DEF Restartable
<1>3. Deployment(state.prev) # Stable
  BY DEF Deployment, Stable
<1>4. state.prev # NoBuild =>
        /\ {Plan(state.prev), Snapshot(state.prev)} \subseteq live'
        /\ ~state.reverted =>
              /\ Deployment(state.prev) \in live'
              /\ gitops # "synced" => Deployment(state.prev) \in kept'
  BY <1>1, <1>3 DEF Restartable
<1>5. ASSUME NEW d \in Builds, Deployment(d) \in live'
      PROVE  Secret(d) \in live'
  <2>1. CASE Deployment(d) \in live
    BY <1>1, <2>1 DEF Restartable
  <2>2. CASE Deployment(d) \in applied
    <3>1. d = b
      BY <2>2, ChartKinds
    <3> QED
      BY <1>1, <2>2, <3>1
  <2> QED
    BY <1>1, <1>5, <2>1, <2>2
<1> QED
  BY <1>2, <1>4, <1>5 DEF Restartable, Whole, Deployment, Secret, Plan, Snapshot, Stable

(* A sweep spares what the record names. *)
LEMMA DeleteStands ==
  ASSUME Restartable, NEW gone, Delete(gone), UNCHANGED <<state, gitops>>,
         Whole(state.build) \cap gone = {}, state.build \in Wide => Stable \notin gone,
         state.prev # NoBuild =>
            {Deployment(state.prev), Plan(state.prev), Snapshot(state.prev)} \cap gone = {},
         \A d \in Builds : Deployment(d) \in live \ gone => Secret(d) \notin gone
  PROVE  Restartable'
<1>1. live' = live \ gone /\ kept' = kept \ gone
  BY DEF Delete
<1>2. Whole(state.build) \subseteq live'
  BY <1>1 DEF Restartable
<1>3. state.build \in Wide => Stable \in live'
  BY <1>1 DEF Restartable
<1>4. state.prev # NoBuild =>
        /\ {Plan(state.prev), Snapshot(state.prev)} \subseteq live'
        /\ ~state.reverted =>
              /\ Deployment(state.prev) \in live'
              /\ gitops # "synced" => Deployment(state.prev) \in kept'
  BY <1>1 DEF Restartable
<1>5. \A b \in Builds : Deployment(b) \in live' => Secret(b) \in live'
  BY <1>1 DEF Restartable
<1> QED
  BY <1>2, <1>3, <1>4, <1>5 DEF Restartable, Whole, Deployment, Secret, Plan, Snapshot, Stable

(* A sweep deletes only objects it wants gone, with or without a failure. *)
LEMMA GoneDeletes ==
  ASSUME NEW m \in Machines, NEW w, Gone(m, w)
  PROVE  \E gone \in SUBSET (w \cap live) : Delete(gone)
BY DEF Gone

(* The sweep of superseded objects spares the two recorded builds and every Secret in use. *)
LEMMA SweepStands ==
  ASSUME Types, Turns, Records, Standing, ~torn, NEW m \in Machines,
         Park(m) \/ GcDeployments(m) \/ GcStable(m) \/ GcConfigMaps(m) \/ GcSecrets(m),
         UNCHANGED <<state, gitops>>
  PROVE  Restartable'
<1>1. pc[m] \in Sweeping
  BY StageClasses DEF Park, GcDeployments, GcStable, GcConfigMaps, GcSecrets
<1>2. /\ state \in Record /\ state.build = Build(m) /\ state.prev = From(m)
      /\ From(m) # NoBuild /\ From(m) \in Builds /\ Build(m) \in Builds
  BY <1>1, ReadsRecord DEF Records, Record
<1>3. Restartable
  BY StandingParts
<1>4. CASE Park(m)
  <2>1. PICK gone \in SUBSET ({Hpa(From(m))} \cap live) : Delete(gone)
    BY <1>2, <1>4, GoneDeletes DEF Park
  <2>2. \A o \in gone : o[1] = "hpa"
    BY DEF Hpa
  <2>3. Stable \notin gone
    BY <2>2 DEF Stable
  <2>4. \A d \in Builds : /\ Deployment(d) \notin gone /\ Secret(d) \notin gone
                          /\ Plan(d) \notin gone /\ Snapshot(d) \notin gone
    BY <2>2, ObjectKinds
  <2> QED
    BY <1>2, <1>3, <2>1, <2>3, <2>4, DeleteStands DEF Whole
<1>5. CASE GcDeployments(m)
  <2>1. PICK gone \in SUBSET ({Deployment(d) : d \in Superseded(m)} \cap live) : Delete(gone)
    BY <1>5, GoneDeletes DEF GcDeployments
  <2>2. \A o \in gone : \E d \in Builds : d # Build(m) /\ d # From(m) /\ o = Deployment(d)
    BY <1>2 DEF Superseded
  <2>3. \A o \in gone : o[1] = "deployment"
    BY <2>2, ObjectKinds
  <2>4. Stable \notin gone
    BY <2>3 DEF Stable
  <2>6. \A d \in Builds : Secret(d) \notin gone /\ Plan(d) \notin gone /\ Snapshot(d) \notin gone
    BY <2>3, ObjectKinds
  <2>5. Deployment(Build(m)) \notin gone /\ Deployment(From(m)) \notin gone
    BY <1>2, <2>2, SameObject
  <2> QED
    BY <1>2, <1>3, <2>1, <2>4, <2>5, <2>6, DeleteStands DEF Whole
<1>6. CASE GcStable(m)
  <2>1. PICK gone \in SUBSET
                ((IF {Build(m), From(m)} \cap Wide # {} THEN {} ELSE {Stable} \cap kept)
                                 \cap live) : Delete(gone)
    BY <1>6, GoneDeletes DEF GcStable
  <2>2. gone \subseteq {Stable} /\ (Build(m) \in Wide => gone = {})
    BY <2>1
  <2>3. \A d \in Builds : {Deployment(d), Secret(d), Plan(d), Snapshot(d)} \cap gone = {}
    BY <2>2, ObjectKinds
  <2> QED
    BY <1>2, <1>3, <2>1, <2>2, <2>3, DeleteStands DEF Whole
<1>7. CASE GcConfigMaps(m)
  <2> DEFINE old == UNION {{Snapshot(d), Plan(d)} : d \in Superseded(m)}
  <2>0. Gone(m, old)
    BY <1>7 DEF GcConfigMaps
  <2>1. PICK gone \in SUBSET (old \cap live) : Delete(gone)
    <3> HIDE DEF old
    <3> QED
      BY <2>0, GoneDeletes
  <2>2. \A o \in gone : \E d \in Builds : /\ d # Build(m) /\ d # From(m)
                                          /\ o = Snapshot(d) \/ o = Plan(d)
    BY <1>2 DEF Superseded
  <2>3. \A o \in gone : o[1] \in {"snapshot", "plan"}
    BY <2>2, ObjectKinds
  <2>4. Stable \notin gone
    BY <2>3 DEF Stable
  <2>6. \A d \in Builds : Secret(d) \notin gone /\ Deployment(d) \notin gone
    BY <2>3, ObjectKinds
  <2>5. ASSUME NEW e \in {Build(m), From(m)}
        PROVE  Plan(e) \notin gone /\ Snapshot(e) \notin gone
    <3>1. \A d \in Builds : Plan(e) # Snapshot(d) /\ Snapshot(e) # Plan(d)
      BY DEF Plan, Snapshot
    <3>2. \A d \in Builds : (Plan(e) = Plan(d) => d = e) /\ (Snapshot(e) = Snapshot(d) => d = e)
      BY DEF Plan, Snapshot
    <3> QED
      BY <2>2, <3>1, <3>2
  <2> QED
    BY <1>2, <1>3, <2>1, <2>4, <2>5, <2>6, DeleteStands DEF Whole
<1>8. CASE GcSecrets(m)
  <2> DEFINE used == {Secret(e) : e \in {f \in Builds : Deployment(f) \in live}}
  <2>1. PICK gone \in SUBSET (({Secret(d) : d \in Builds}
                  \ (used \cup {<<"secret", Build(m)>>, <<"secret", From(m)>>})) \cap live) :
           Delete(gone)
    BY <1>8, GoneDeletes DEF GcSecrets
  <2>2. \A o \in gone : o[1] = "secret" /\ o \notin used
    BY <2>1, ObjectKinds
  <2>3. Stable \notin gone
        /\ \A d \in Builds : {Deployment(d), Plan(d), Snapshot(d)} \cap gone = {}
    BY <2>2, ObjectKinds
  <2>4. \A d \in Builds : Deployment(d) \in live => Secret(d) \notin gone
    BY <2>2
  <2>5. Deployment(Build(m)) \in live
    BY <1>2, <1>3 DEF Restartable, Whole
  <2> HIDE DEF used
  <2> QED
    BY <1>2, <1>3, <2>1, <2>3, <2>4, <2>5, DeleteStands DEF Whole
<1> QED
  BY <1>4, <1>5, <1>6, <1>7, <1>8

(* The steps that annotate the outgoing build secure it. *)
LEMMA TransferStanding ==
  ASSUME Types, Turns, Records, Standing, NEW m \in Machines,
         (KeepDeployment(m) \/ KeepStable(m) \/ KeepHpa(m) \/ AdoptValkey(m)
            \/ KeepManifest(m) \/ KeepSecret(m)) /\ ~Exit(m)
  PROVE  Standing'
<1>1. Onward(m) /\ UNCHANGED <<gitops, torn, state, cmd>>
  BY UpgradeOnward DEF KeepDeployment, KeepStable, KeepHpa, AdoptValkey, KeepManifest, KeepSecret,
     history, records, Onward
<1>2. /\ pc[m] \in Committing /\ From(m)' = From(m) /\ Build(m)' = Build(m)
  BY <1>1, StageClasses DEF KeepDeployment, KeepStable, KeepHpa, AdoptValkey, KeepManifest,
     KeepSecret, From, Build, PrevOf
<1>3. Standing' <=> (~torn' => Restartable' /\ \A n \in Machines : Secured(n)')
  BY DEF Standing, Restartable, Secured
<1> SUFFICES ASSUME ~torn
             PROVE  Restartable' /\ \A n \in Machines : Secured(n)'
  BY <1>1, <1>3
<1>4. Restartable /\ Secured(m)
  BY StandingParts
<1>5. /\ From(m) = state.build /\ From(m) \in Builds /\ pc[m] \in Upgrading /\ state \in Record
  BY <1>2, UpgradeBase
<1>6. \A n \in Machines \ {m} : Secured(n)'
  BY <1>1, <1>5, OthersSecured
<1>7. live \subseteq live' /\ kept \subseteq kept'
      /\ \A d \in Builds : Deployment(d) \in live' => Deployment(d) \in live
  BY DEF KeepDeployment, KeepStable, KeepHpa, AdoptValkey, KeepManifest, KeepSecret,
     ServedSnapshot, Deployment, Snapshot
<1>8. Restartable'
  <2>1. Whole(state.build) \subseteq live'
    BY <1>4, <1>7 DEF Restartable
  <2>2. state.build \in Wide => Stable \in live'
    BY <1>4, <1>7 DEF Restartable
  <2>3. state.prev # NoBuild =>
        /\ {Plan(state.prev), Snapshot(state.prev)} \subseteq live'
        /\ ~state.reverted =>
              /\ Deployment(state.prev) \in live'
              /\ gitops # "synced" => Deployment(state.prev) \in kept'
    BY <1>4, <1>7 DEF Restartable
  <2>4. \A b \in Builds : Deployment(b) \in live' => Secret(b) \in live'
    BY <1>4, <1>7 DEF Restartable
  <2> QED
    BY <1>1, <2>1, <2>2, <2>3, <2>4
       DEF Restartable, Whole, Deployment, Secret, Plan, Snapshot, Stable
<1>9. Secured(m)'
  <2>1. pc'[m] \in KeptDeployment => Deployment(From(m)) \in kept'
    BY <1>4, <1>7, SecuredStages DEF Secured, KeepDeployment, KeepStable, KeepHpa, AdoptValkey,
       KeepManifest, KeepSecret, Go, Types
  <2>2. pc'[m] \in KeptStable /\ From(m) \in Wide /\ Build(m) \notin Wide => Stable \in kept'
    BY <1>4, <1>7, SecuredStages DEF Secured, KeepDeployment, KeepStable, KeepHpa, AdoptValkey,
       KeepManifest, KeepSecret, Go, Types
  <2>3. pc'[m] = "helm" /\ <<"secret", NoBuild>> \in live' => <<"secret", NoBuild>> \in kept'
    BY DEF KeepDeployment, KeepStable, KeepHpa, AdoptValkey, KeepManifest, KeepSecret, Go, Types
  <2>4. pc'[m] # "cutover"
    BY DEF KeepDeployment, KeepStable, KeepHpa, AdoptValkey, KeepManifest, KeepSecret, Go, Types
  <2> QED
    BY <1>2, <2>1, <2>2, <2>3, <2>4 DEF Secured, Deployment, Stable
<1> QED
  BY <1>6, <1>8, <1>9

(* Helm's upgrade, answered or not, leaves the recorded builds standing. *)
LEMMA HelmStanding ==
  ASSUME Types, Turns, Records, Annotated, Standing, NEW m \in Machines, HelmUpgrade(m)
  PROVE  Standing'
<1>1. Onward(m) /\ UNCHANGED <<gitops, torn, state>> /\ pc[m] = "helm"
  BY UpgradeOnward DEF HelmUpgrade, history, records, Fault
<1>2. pc[m] \in Upgrading /\ pc[m] \in Committing /\ "idle" \notin Committing
  BY <1>1, UpgradingList, StageClasses
<1>3. CASE UNCHANGED objects /\ Exit(m)
  <2>1. pc'[m] = "idle"
    BY <1>3 DEF Exit, Types
  <2> QED
    BY <1>1, <1>2, <1>3, <2>1, OutsideSecured, QuietStanding DEF objects
<1>4. CASE Upgraded(Build(m))
  <2>1. Standing' <=> (~torn' => Restartable' /\ \A n \in Machines : Secured(n)')
    BY DEF Standing, Restartable, Secured
  <2> SUFFICES ASSUME ~torn
               PROVE  Restartable' /\ \A n \in Machines : Secured(n)'
    BY <1>1, <2>1
  <2>2. /\ Restartable' /\ Chart(Build(m)) \subseteq live'
        /\ Deployment(From(m)) \in kept'
        /\ From(m) \in Wide /\ Build(m) \notin Wide => Stable \in kept'
    BY <1>1, <1>4, UpgradeStands
  <2>3. CASE Exit(m)
    <3>1. pc'[m] = "idle"
      BY <2>3 DEF Exit, Types
    <3> QED
      BY <1>1, <1>2, <2>2, <3>1, OutsideSecured, OthersSecured
  <2>4. CASE ~Exit(m)
    <3>1. pc'[m] = "cutover" /\ cmd' = cmd
      BY <2>4 DEF HelmUpgrade, Go, Types
    <3>2. From(m)' = From(m) /\ Build(m)' = Build(m)
      BY <3>1 DEF From, Build, PrevOf
    <3>3. Secured(m)'
      BY <2>2, <3>1, <3>2 DEF Secured, Deployment, Stable, Chart, KeptAtBirth, Hpa, Secret,
         Contributed, Plan, Snapshot
    <3> QED
      BY <1>1, <1>2, <2>2, <3>3, OthersSecured
  <2> QED
    BY <2>3, <2>4
<1>5. CASE PartlyUpgraded(Build(m)) /\ Exit(m)
  <2>1. Standing' <=> (~torn' => Restartable' /\ \A n \in Machines : Secured(n)')
    BY DEF Standing, Restartable, Secured
  <2>2. pc'[m] = "idle"
    BY <1>5 DEF Exit, Types
  <2>3. ASSUME ~torn
        PROVE  Restartable' /\ \A n \in Machines : Secured(n)'
    <3>1. Build(m) \in Builds /\ Restartable
      BY <1>2, <2>3, UpgradeBase, StandingParts
    <3>2. Restartable'
      BY <1>1, <1>5, <3>1, PartlyStands
    <3> QED
      BY <1>1, <1>2, <2>2, <3>2, OutsideSecured, OthersSecured
  <2> QED
    BY <1>1, <2>1, <2>3
<1> QED
  BY <1>3, <1>4, <1>5 DEF HelmUpgrade

(* The build that the cutover commits is the one the upgrade rendered. *)
LEMMA CommitStanding ==
  ASSUME Types, Turns, Records, Standing, NEW m \in Machines, CutoverCommits(m)
  PROVE  Standing'
<1>1. Onward(m) /\ UNCHANGED <<gitops, torn, live, kept>> /\ pc[m] = "cutover" /\ pc'[m] = "park"
  BY UpgradeOnward DEF CutoverCommits, history, objects, Go, Types
<1>2. pc[m] \in Upgrading /\ pc[m] \in Committing /\ pc'[m] \notin Committing
      /\ pc[m] \in KeptDeployment
  BY <1>1, UpgradingList, StageClasses, SecuredStages
<1>3. Standing' <=> (~torn' => Restartable' /\ \A n \in Machines : Secured(n)')
  BY DEF Standing, Restartable, Secured
<1> SUFFICES ASSUME ~torn
             PROVE  Restartable' /\ \A n \in Machines : Secured(n)'
  BY <1>1, <1>3
<1>4. Restartable /\ Secured(m)
  BY StandingParts
<1>5. From(m) = state.build /\ From(m) \in Builds /\ Build(m) \in Builds
  BY <1>2, UpgradeBase
<1>6. state'.build = Build(m) /\ state'.prev = From(m)
  BY DEF CutoverCommits
<1>7. Chart(Build(m)) \subseteq live /\ Deployment(From(m)) \in kept
  BY <1>1, <1>2, <1>4 DEF Secured
<1>8. Whole(Build(m)) \subseteq live /\ (Build(m) \in Wide => Stable \in live)
  BY <1>5, <1>7, ChartKinds
<1>9. {Plan(From(m)), Snapshot(From(m)), Deployment(From(m))} \subseteq live
  BY <1>4, <1>5 DEF Restartable, Whole
<1>10. \A b \in Builds : Deployment(b) \in live => Secret(b) \in live
  BY <1>4 DEF Restartable
<1>11. Restartable'
  BY <1>1, <1>6, <1>7, <1>8, <1>9, <1>10
     DEF Restartable, Whole, Deployment, Secret, Plan, Snapshot, Stable
<1> QED
  BY <1>1, <1>2, <1>11, OutsideSecured, OthersSecured

(* The standing objects under the steps of a deploy, of a destroy, then under every step. *)
LEMMA DeployStanding ==
  ASSUME Types, Turns, Records, Annotated, Standing, NEW m \in Machines, DeployStep(m)
  PROVE  Standing'
<1>1. Onward(m) /\ gitops' = gitops
  BY StepOnward, StepKeeps
<1>2. CASE UNCHANGED <<live, kept, state, torn>> /\ pc'[m] \notin Committing
  BY <1>1, <1>2, OutsideSecured, QuietStanding
<1>3. CASE (Refused(m) \/ CutoverAborts(m) \/ ReadServing(m) \/ Recheck(m) \/ KeepDeployment(m)
              \/ KeepStable(m) \/ AdoptValkey(m) \/ SwitchCache(m)) /\ Exit(m)
  <2>1. pc'[m] = "idle" /\ "idle" \notin Committing
    BY <1>3, StageClasses DEF Exit, Types
  <2>2. UNCHANGED <<state, torn, live>>
    BY <1>3 DEF Refused, CutoverAborts, ReadServing, Recheck, KeepDeployment, KeepStable,
       AdoptValkey, SwitchCache, Fault, objects, records, history
  <2>3. UNCHANGED kept
    BY <1>3, <2>1 DEF Refused, CutoverAborts, ReadServing, Recheck, KeepDeployment, KeepStable,
       AdoptValkey, SwitchCache, objects, Go, Types
  <2> QED
    BY <1>2, <2>1, <2>2, <2>3
<1>4. CASE MetadataValid(m) \/ ClusterPinned(m) \/ ApisPresent(m) \/ PodRanges(m)
           \/ NodeRanges(m) \/ RangesKnown(m) \/ PushImages(m) \/ PinDigests(m) \/ EdgeReady(m)
           \/ (ReadServing(m) /\ ~Exit(m)) \/ (SwitchCache(m) /\ ~Exit(m))
  <2>1. UNCHANGED <<live, kept, state, torn>>
    BY <1>4 DEF MetadataValid, ClusterPinned, ApisPresent, PodRanges, NodeRanges, RangesKnown,
       PushImages, PinDigests, EdgeReady, ReadServing, SwitchCache, Pass, objects, records, history
  <2>2. pc'[m] \notin Committing
    BY <1>4, StageClasses DEF MetadataValid, ClusterPinned, ApisPresent, PodRanges, NodeRanges,
       RangesKnown, PushImages, PinDigests, EdgeReady, ReadServing, SwitchCache, Pass, Go, Types
  <2> QED
    BY <1>2, <2>1, <2>2
<1>5. CASE Recheck(m) /\ ~Exit(m)
  <2>1. UNCHANGED <<live, kept, state, torn>>
    BY <1>5 DEF Recheck, objects, records, history
  <2>2. ~torn => From(m) # NoBuild
    <3>1. ReadState(m) = cmd[m].base
      BY <1>5 DEF Recheck
    <3> QED
      BY <3>1, ReadsRecord, RecordAssumption, ReleaseAssumption DEF From, PrevOf, Record
  <2>3. ~torn => pc'[m] = "keepDeployment"
    BY <1>5, <2>2 DEF Recheck, Go, Types
  <2>4. ~torn => Secured(m)'
    BY <2>3, SecuredStages DEF Secured
  <2>5. CASE torn
    BY <2>1, <2>5 DEF Standing
  <2> QED
    BY <1>1, <2>1, <2>4, <2>5, QuietStanding
<1>6. CASE Park(m) \/ GcDeployments(m) \/ GcStable(m) \/ GcConfigMaps(m) \/ GcSecrets(m)
  <2>1. UNCHANGED <<state, torn>>
    BY <1>6 DEF Park, GcDeployments, GcStable, GcConfigMaps, GcSecrets, Gone, Fault, records,
       history
  <2>2. pc[m] \in Upgrading /\ pc'[m] \notin Committing
    BY <1>6, UpgradingList, StageClasses
       DEF Park, GcDeployments, GcStable, GcConfigMaps, GcSecrets, Go, Types
  <2>3. Standing' <=> (~torn' => Restartable' /\ \A n \in Machines : Secured(n)')
    BY DEF Standing, Restartable, Secured
  <2> QED
    BY <1>1, <1>6, <2>1, <2>2, <2>3, SweepStands, OutsideSecured, OthersSecured
<1>7. (KeepHpa(m) \/ KeepManifest(m) \/ KeepSecret(m)) => ~Exit(m)
  BY DEF KeepHpa, KeepManifest, KeepSecret, Go, Exit, Types
<1> QED
  BY <1>3, <1>4, <1>5, <1>6, <1>7, TransferStanding, HelmStanding, CommitStanding
     DEF DeployStep, Refused, CutoverAborts

(* Until a destroy succeeds in deleting something, it has changed no object but the cloud's. *)
LEMMA DestroyBeforeTorn ==
  ASSUME NEW m \in Machines, DestroyStep(m), ~torn'
  PROVE  /\ state' = state
         /\ UNCHANGED <<live, kept>> \/ (live' = live \ {Cloud} /\ kept' = kept \ {Cloud})
BY DEF DestroyStep, LoadPlans, Identities, Uninstall, DestroySeenHpas,
     DestroyDeployments, DestroyHpas, DestroyStable, DestroyContributed, DestroyState,
     DestroySnapshots, DestroyPlans, DestroySecrets, DestroyExternal, DestroyCache, Report,
     DeleteOwned, Delete, objects, records

LEMMA DestroyStanding ==
  ASSUME Types, Turns, Standing, NEW m \in Machines, DestroyStep(m)
  PROVE  Standing'
<1>1. Standing' <=> (~torn' => Restartable' /\ \A n \in Machines : Secured(n)')
  BY DEF Standing, Restartable, Secured
<1> SUFFICES ASSUME ~torn'
             PROVE  Restartable' /\ \A n \in Machines : Secured(n)'
  BY <1>1
<1>2. ~torn /\ gitops' = gitops
  BY HistorySteps, StepKeeps
<1>3. Restartable
  BY <1>2, StandingParts
<1>4. state' = state /\ live \ {Cloud} \subseteq live' /\ kept \ {Cloud} \subseteq kept'
      /\ live' \subseteq live
  BY DestroyBeforeTorn
<1>5. \A d \in Builds : /\ Deployment(d) # Cloud /\ Secret(d) # Cloud /\ Plan(d) # Cloud
                        /\ Snapshot(d) # Cloud
  BY ObjectKinds
<1>6. Deployment(state.prev) # Cloud /\ Plan(state.prev) # Cloud /\ Snapshot(state.prev) # Cloud
      /\ Deployment(state.build) # Cloud /\ Plan(state.build) # Cloud
      /\ Snapshot(state.build) # Cloud /\ Secret(state.build) # Cloud /\ Stable # Cloud
  BY DEF Deployment, Plan, Snapshot, Secret, Cloud, Stable
<1>7. Whole(state.build) \subseteq live'
  BY <1>3, <1>4, <1>6 DEF Restartable, Whole
<1>8. state.build \in Wide => Stable \in live'
  BY <1>3, <1>4, <1>6 DEF Restartable
<1>9. state.prev # NoBuild =>
        /\ {Plan(state.prev), Snapshot(state.prev)} \subseteq live'
        /\ ~state.reverted =>
              /\ Deployment(state.prev) \in live'
              /\ gitops # "synced" => Deployment(state.prev) \in kept'
  BY <1>3, <1>4, <1>6 DEF Restartable
<1>10. \A b \in Builds : Deployment(b) \in live' => Secret(b) \in live'
  BY <1>3, <1>4, <1>5 DEF Restartable
<1>11. Restartable'
  BY <1>2, <1>4, <1>7, <1>8, <1>9, <1>10
     DEF Restartable, Whole, Deployment, Secret, Plan, Snapshot, Stable
<1>12. \A n \in Machines : Secured(n)'
  <2>1. Onward(m)
    BY StepOnward
  <2>2. pc[m] \notin DeployStages /\ pc[m] # "idle"
    BY DeployStageList, UpgradingList DEF DestroyStep, LoadPlans, Identities, Uninstall,
       DestroySeenHpas, DestroyDeployments, DestroyHpas, DestroyStable, DestroyContributed,
       DestroyState, DestroySnapshots, DestroyPlans, DestroySecrets, DestroyExternal,
       DestroyCache, Report, DeleteOwned
  <2>3. \A n \in Machines : pc'[n] = "idle" \/ pc'[n] \in DestroyStages
    BY <2>1, <2>2, StageOfDestroy DEF Onward, Turns
  <2> QED
    BY <2>3, ClassesApart, OutsideSecured
<1> QED
  BY <1>11, <1>12

LEMMA StandingStep ==
  ASSUME Types, Turns, Records, Annotated, Standing, Next
  PROVE  Standing'
<1>a. Standing' <=> (~torn' => Restartable' /\ \A n \in Machines : Secured(n)')
  BY DEF Standing, Restartable, Secured
<1>1. ASSUME NEW m \in Machines, CacheStep(m)
      PROVE  Standing'
  <2>1. Onward(m) /\ UNCHANGED <<live, kept, state, torn, gitops>>
    BY <1>1, StepOnward, CacheKeeps, StepKeeps DEF objects, records
  <2>2. pc[m] \notin Committing /\ pc'[m] \notin Committing
    BY <1>1, StageClasses DEF CacheStep, ReadClaim, CreateClaim, RecordIntent, Provision,
       ProvisionFails, Verified, NotVerified, DeleteInstance, DeleteIdentity,
       ForgetCoordinates, CleanupEnds, Go, Exit, Types
  <2> QED
    BY <2>1, <2>2, OutsideSecured, QuietStanding
<1>2. ASSUME NEW m \in Machines, UNCHANGED <<live, kept, state, torn>>,
             gitops' = gitops \/ gitops' = "imperative", gitops # "synced",
             pc'[m] \notin Committing,
             \A n \in Machines \ {m} : pc'[n] = pc[n] /\ cmd'[n] = cmd[n]
      PROVE  Standing'
  <2>1. Restartable => Restartable'
    BY <1>2 DEF Restartable, Whole, Deployment, Secret, Plan, Snapshot, Stable
  <2>2. ASSUME NEW n \in Machines \ {m}, Secured(n)
        PROVE  Secured(n)'
    <3>1. From(n)' = From(n) /\ Build(n)' = Build(n) /\ pc'[n] = pc[n]
      BY <1>2 DEF From, Build, PrevOf
    <3> QED
      BY <1>2, <2>2, <3>1 DEF Secured
  <2> QED
    BY <1>a, <1>2, <2>1, <2>2, OutsideSecured, StandingParts
<1>3. ASSUME NEW m \in Machines, NEW b \in Builds, DeployStart(m, b)
      PROVE  Standing'
  <2>1. UNCHANGED <<live, kept, state, torn>> /\ gitops' = "imperative" /\ gitops # "synced"
    BY <1>3 DEF DeployStart, Begin, objects
  <2> QED
    BY <1>2, <1>3, <2>1, DeployBegins, StageClasses
<1>4. ASSUME NEW m \in Machines, DestroyStart(m)
      PROVE  Standing'
  <2>1. UNCHANGED <<live, kept, state, torn>> /\ gitops' = gitops /\ gitops # "synced"
    BY <1>4 DEF DestroyStart, Begin, objects, records
  <2> QED
    BY <1>2, <1>4, <2>1, DestroyBegins, StageClasses
<1>5. ASSUME AllIdle, UNCHANGED process
      PROVE  \A n \in Machines : Secured(n)'
  BY <1>5, StageClasses, OutsideSecured DEF AllIdle, process
<1>6. ASSUME NEW m \in Machines, Rollback(m)
      PROVE  Standing'
  <2> DEFINE s == ReadState(m)
  <2>1. PICK gone \in {{}, {Hpa(s.build)}}, made \in {{}, {Hpa(s.prev)} \ live} :
           /\ live' = (live \ gone) \cup made
           /\ kept' = kept \ (gone \cup made)
    BY <1>6 DEF Rollback
  <2>2. /\ AllIdle /\ UNCHANGED <<process, torn, gitops>>
        /\ RollbackAllowed(m, s)
        /\ state' = [build |-> s.prev, prev |-> s.build, gen |-> s.gen + 1, reverted |-> TRUE]
    BY <1>6 DEF Rollback
  <2>3. \A o \in gone \cup made : o[1] = "hpa"
    BY DEF Hpa
  <2> SUFFICES ASSUME ~torn
               PROVE  Restartable'
    BY <1>a, <1>5, <2>2
  <2>4. s = state /\ state \in Record /\ Restartable
    BY ReadsRecord, StandingParts
  <2>5. state.build \in Builds /\ state.prev \in Builds
    BY <2>2, <2>4 DEF RollbackAllowed, Record
  <2>6. \A d \in Builds : /\ Deployment(d) \in live' <=> Deployment(d) \in live
                          /\ Secret(d) \in live' <=> Secret(d) \in live
                          /\ Plan(d) \in live' <=> Plan(d) \in live
                          /\ Snapshot(d) \in live' <=> Snapshot(d) \in live
    BY <2>1, <2>3, ObjectKinds
  <2>7. Stable \in live' <=> Stable \in live
    BY <2>1, <2>3 DEF Stable
  <2>8. state'.build = state.prev /\ state'.prev = state.build /\ state'.reverted
    BY <2>2, <2>4
  <2>9. Deployment(state.prev) \in live /\ (state.prev \in Wide => Stable \in live)
    BY <2>2, <2>4 DEF RollbackAllowed
  <2>10. state.prev # NoBuild
    BY <2>5, ReleaseAssumption
  <2>11. Whole(state.prev) \subseteq live'
    BY <2>4, <2>5, <2>6, <2>9, <2>10 DEF Whole, Restartable
  <2>12. {Plan(state.build), Snapshot(state.build)} \subseteq live'
    BY <2>4, <2>5, <2>6 DEF Whole, Restartable
  <2>13. \A d \in Builds : Deployment(d) \in live' => Secret(d) \in live'
    BY <2>4, <2>6 DEF Restartable
  <2> HIDE DEF s
  <2> QED
    BY <2>7, <2>8, <2>9, <2>11, <2>12, <2>13
       DEF Restartable, Whole, Deployment, Secret, Plan, Snapshot, Stable
<1>7. ASSUME NEW b \in Builds, FirstSync(b)
      PROVE  Standing'
  <2>1. /\ AllIdle /\ UNCHANGED <<process, torn, state>> /\ gitops = "migrated"
        /\ gitops' = "synced" /\ (b \in Wide <=> state.build \in Wide)
        /\ live' = (live \cap (guarded \cup {Cloud})) \cup Chart(b)
    BY <1>7 DEF FirstSync, records
  <2> SUFFICES ASSUME ~torn
               PROVE  Restartable'
    BY <1>a, <1>5, <2>1
  <2>2. Restartable /\ Guarding /\ state \in Record
    BY <2>1, StandingParts, AnnotatedParts DEF Types, TypeOK, Records
  <2>3. ASSUME NEW o \in live, o[1] \in {"deployment", "secret", "plan", "snapshot"}
        PROVE  o \in live'
    BY <2>1, <2>2, <2>3 DEF Guarding
  <2>4. \A d \in Builds : /\ Deployment(d) \in live => Deployment(d) \in live'
                          /\ Secret(d) \in live => Secret(d) \in live'
                          /\ Plan(d) \in live => Plan(d) \in live'
                          /\ Snapshot(d) \in live => Snapshot(d) \in live'
    BY <2>3, ObjectKinds
  <2>5. Whole(state.build) \subseteq live'
    BY <2>2, <2>4 DEF Whole, Restartable, Record
  <2>6. state.build \in Wide => Stable \in live'
    BY <2>1, ChartKinds
  <2>7. state.prev # NoBuild =>
          /\ {Plan(state.prev), Snapshot(state.prev)} \subseteq live'
          /\ ~state.reverted => Deployment(state.prev) \in live'
    BY <2>2, <2>4 DEF Restartable, Record
  <2>8. \A d \in Builds : Deployment(d) \in live' => Secret(d) \in live'
    <3> SUFFICES ASSUME NEW d \in Builds, Deployment(d) \in live'
                 PROVE  Secret(d) \in live'
      OBVIOUS
    <3>1. CASE Deployment(d) \in Chart(b)
      <4>1. d = b /\ Secret(b) \in Chart(b)
        BY <3>1, ChartKinds DEF Whole
      <4> QED
        BY <2>1, <4>1
    <3> QED
      BY <2>1, <2>2, <2>4, <3>1 DEF Restartable
  <2> QED
    BY <2>1, <2>5, <2>6, <2>7, <2>8
       DEF Restartable, Whole, Deployment, Secret, Plan, Snapshot, Stable
<1>8. CASE UNCHANGED <<process, live, kept, state, torn, gitops>>
  BY <1>8 DEF process, Standing, Whole, Deployment, Secret, Plan, Snapshot, Stable, From, Build,
     PrevOf, Chart, KeptAtBirth, Hpa, Contributed
<1>9. ASSUME NEW m \in Machines, Migrate(m)
      PROVE  Standing'
  <2>1. UNCHANGED <<process, live, kept, state, torn>> /\ gitops # "synced" /\ AllIdle
    BY <1>9 DEF Migrate, Begin, records
  <2>2. Restartable => Restartable'
    BY <2>1 DEF Restartable, Whole, Deployment, Secret, Plan, Snapshot, Stable
  <2> QED
    BY <1>a, <1>5, <2>1, <2>2, StandingParts
<1> QED
  BY <1>1, <1>3, <1>4, <1>6, <1>7, <1>8, <1>9, DeployStanding, DestroyStanding
     DEF Next, InstanceReady, objects, records, history

-----------------------------------------------------------------------------
(* What a destroy has deleted. *)

(* Each deletion of a destroy lies behind the stages that follow it. *)
LEMMA PastStages ==
  /\ PastExternal = {"paid", "cloud", "identity", "forget", "report"}
  /\ PastSecrets = PastExternal \cup {"external"}
  /\ PastPlans = PastExternal \cup {"external", "secrets"}
  /\ PastSnapshots = PastExternal \cup {"external", "secrets", "configMaps"}
  /\ PastState = PastExternal \cup {"external", "secrets", "configMaps", "snapshots"}
  /\ PastStable = PastExternal \cup {"external", "secrets", "configMaps", "snapshots", "state",
                                     "contributed"}
  /\ PastHpas = PastStable \cup {"stable"}
  /\ PastDeployments = PastStable \cup {"stable", "hpas"}
  /\ PastSeen = PastStable \cup {"stable", "hpas", "deployments"}
  /\ PastUninstall = PastStable \cup {"stable", "hpas", "deployments", "seenHpas"}
BY DEF PastUninstall, PastSeen, PastDeployments, PastHpas, PastStable, PastContributed, PastState,
       PastSnapshots, PastPlans, PastSecrets, PastExternal, Cleaning

(* A stage is passed only with its deletion done. *)
Progress(m) ==
  /\ pc'[m] \in {"plans", "identities"} =>
        pc[m] \in {"plans", "identities"} /\ UNCHANGED <<live, bare>>
  /\ pc'[m] \in {"uninstall", "seenHpas"} =>
        pc[m] \in {"uninstall", "seenHpas"} \/ bare \subseteq cmd'[m].seen \cup said.strays
  /\ pc'[m] \in PastUninstall => pc[m] \in PastUninstall \/ Contributed \notin live'
  /\ pc'[m] \in PastSeen => pc[m] \in PastSeen \/ bare' \subseteq said.strays
  /\ pc'[m] \in PastDeployments => pc[m] \in PastDeployments \/ \A o \in live' : o[1] # "deployment"
  /\ pc'[m] \in PastHpas =>
        pc[m] \in PastHpas \/ \A o \in live' : o[1] = "hpa" => o \in said.strays
  /\ pc'[m] \in PastStable => pc[m] \in PastStable \/ \A o \in live' : o[1] # "stable"
  /\ pc'[m] \in PastState => pc[m] \in PastState \/ state' = NoState
  /\ pc'[m] \in PastSnapshots => pc[m] \in PastSnapshots \/ \A o \in live' : o[1] # "snapshot"
  /\ pc'[m] \in PastPlans => pc[m] \in PastPlans \/ \A o \in live' : o[1] # "plan"
  /\ pc'[m] \in PastSecrets => pc[m] \in PastSecrets \/ \A o \in live' : o[1] # "secret"

(* Nothing comes back while a destroy runs. *)
LEMMA DestroyedMoves ==
  ASSUME NEW m \in Machines, Destroyed(m), Progress(m), live' \subseteq live, bare' \subseteq bare,
         state' = state \/ state' = NoState, said'.strays = said.strays,
         cmd'[m].seen = cmd[m].seen \/ pc[m] \notin {"uninstall", "seenHpas"}
  PROVE  Destroyed(m)'
<1>1. (pc[m] \in {"plans", "identities"} => said.strays = Strays)'
  BY DEF Destroyed, Progress, Strays, Hpa, Deployment
<1>2. (pc[m] \in {"uninstall", "seenHpas"} => bare \subseteq cmd[m].seen \cup said.strays)'
  BY DEF Destroyed, Progress
<1>3. (pc[m] \in PastUninstall => Contributed \notin live)'
  BY DEF Destroyed, Progress, Contributed
<1>4. (pc[m] \in PastSeen => bare \subseteq said.strays)'
  BY DEF Destroyed, Progress
<1>5. (pc[m] \in PastDeployments => NoneOf("deployment"))'
  BY DEF Destroyed, Progress, NoneOf
<1>6. (pc[m] \in PastHpas => \A o \in live : o[1] = "hpa" => o \in said.strays)'
  BY DEF Destroyed, Progress
<1>7. (pc[m] \in PastStable => NoneOf("stable"))'
  BY DEF Destroyed, Progress, NoneOf
<1>8. (pc[m] \in PastState => state = NoState)'
  BY DEF Destroyed, Progress
<1>9. (pc[m] \in PastSnapshots => NoneOf("snapshot"))'
  BY DEF Destroyed, Progress, NoneOf
<1>10. (pc[m] \in PastPlans => NoneOf("plan"))'
  BY DEF Destroyed, Progress, NoneOf
<1>11. (pc[m] \in PastSecrets => NoneOf("secret"))'
  BY DEF Destroyed, Progress, NoneOf
<1> QED
  BY <1>1, <1>2, <1>3, <1>4, <1>5, <1>6, <1>7, <1>8, <1>9, <1>10, <1>11 DEF Destroyed

(* The rest of a destroy behind one of its deletions. *)
LEMMA OwnedMoves ==
  ASSUME Types, Turns, NEW m \in Machines, NEW at, NEW gone, NEW next,
         DeleteOwned(m, at, gone, next),
         Destroyed(m), ~cmd'[m].failed, ~cmd[m].failed,
         Delete(gone) /\ pc'[m] = next => Progress(m)
  PROVE  Destroyed(m)'
<1>1. CASE Failed(m, next)
  BY <1>1 DEF Failed, Types, Command
<1>2. CASE Delete(gone) /\ UNCHANGED <<cmd, said>> /\ Go(m, next)
  BY <1>2, DestroyedMoves DEF Delete, DeleteOwned, records, Go, Types
<1> QED
  BY <1>1, <1>2 DEF DeleteOwned

(* The deletions by kind, each of which ends with none of its kind left. *)
LEMMA SweepMoves ==
  ASSUME Types, Turns, NEW m \in Machines, Destroyed(m), ~cmd[m].failed, ~cmd'[m].failed,
         \/ DestroySeenHpas(m) \/ DestroyDeployments(m) \/ DestroyHpas(m) \/ DestroyStable(m)
         \/ DestroyContributed(m) \/ DestroySnapshots(m) \/ DestroyPlans(m) \/ DestroySecrets(m)
  PROVE  Destroyed(m)'
<1>1. CASE DestroySeenHpas(m)
  <2>1. DeleteOwned(m, "seenHpas", cmd[m].seen, "deployments")
    BY <1>1 DEF DestroySeenHpas
  <2>2. pc[m] = "seenHpas"
    BY <2>1 DEF DeleteOwned
  <2>3. Delete(cmd[m].seen) => bare' \subseteq said.strays
    BY <2>2 DEF Delete, Destroyed
  <2>4. Delete(cmd[m].seen) /\ pc'[m] = "deployments" => Progress(m)
    BY <2>2, <2>3, PastStages DEF Progress
  <2> QED
    BY <2>1, <2>4, OwnedMoves
<1>2. CASE DestroyDeployments(m)
  <2> DEFINE gone == OfKind("deployment")
  <2>1. DeleteOwned(m, "deployments", gone, "hpas")
    BY <1>2 DEF DestroyDeployments
  <2>2. pc[m] = "deployments"
    BY <2>1 DEF DeleteOwned
  <2>3. Delete(gone) => \A o \in live' : o[1] # "deployment"
    BY DEF Delete, OfKind
  <2> HIDE DEF gone
  <2>4. Delete(gone) /\ pc'[m] = "hpas" => Progress(m)
    BY <2>2, <2>3, PastStages DEF Progress
  <2> QED
    BY <2>1, <2>4, OwnedMoves
<1>3. CASE DestroyHpas(m)
  <2> DEFINE gone == OfKind("hpa") \ bare
  <2>1. DeleteOwned(m, "hpas", gone, "stable")
    BY <1>3 DEF DestroyHpas
  <2>2. pc[m] = "hpas"
    BY <2>1 DEF DeleteOwned
  <2>3. bare \subseteq said.strays
    BY <2>2, PastStages DEF Destroyed
  <2>4. Delete(gone) => \A o \in live' : o[1] = "hpa" => o \in said.strays
    BY <2>3 DEF Delete, OfKind
  <2> HIDE DEF gone
  <2>5. Delete(gone) /\ pc'[m] = "stable" => Progress(m)
    BY <2>2, <2>4, PastStages DEF Progress
  <2> QED
    BY <2>1, <2>5, OwnedMoves
<1>4. CASE DestroyStable(m)
  <2> DEFINE gone == OfKind("stable")
  <2>1. DeleteOwned(m, "stable", gone, "contributed")
    BY <1>4 DEF DestroyStable
  <2>2. pc[m] = "stable"
    BY <2>1 DEF DeleteOwned
  <2>3. Delete(gone) => \A o \in live' : o[1] # "stable"
    BY DEF Delete, OfKind
  <2> HIDE DEF gone
  <2>4. Delete(gone) /\ pc'[m] = "contributed" => Progress(m)
    BY <2>2, <2>3, PastStages DEF Progress
  <2> QED
    BY <2>1, <2>4, OwnedMoves
<1>5. CASE DestroyContributed(m)
  <2> DEFINE gone == IF cmd[m].plans = {} THEN {} ELSE OfKind("contributed")
  <2>1. DeleteOwned(m, "contributed", gone, "state")
    BY <1>5 DEF DestroyContributed
  <2>2. pc[m] = "contributed"
    BY <2>1 DEF DeleteOwned
  <2> HIDE DEF gone
  <2>3. Delete(gone) /\ pc'[m] = "state" => Progress(m)
    BY <2>2, PastStages DEF Progress
  <2> QED
    BY <2>1, <2>3, OwnedMoves
<1>6. CASE DestroySnapshots(m)
  <2> DEFINE gone == OfKind("snapshot")
  <2>1. DeleteOwned(m, "snapshots", gone, "configMaps")
    BY <1>6 DEF DestroySnapshots
  <2>2. pc[m] = "snapshots"
    BY <2>1 DEF DeleteOwned
  <2>3. Delete(gone) => \A o \in live' : o[1] # "snapshot"
    BY DEF Delete, OfKind
  <2> HIDE DEF gone
  <2>4. Delete(gone) /\ pc'[m] = "configMaps" => Progress(m)
    BY <2>2, <2>3, PastStages DEF Progress
  <2> QED
    BY <2>1, <2>4, OwnedMoves
<1>7. CASE DestroyPlans(m)
  <2> DEFINE gone == OfKind("plan")
  <2>1. DeleteOwned(m, "configMaps", gone, "secrets")
    BY <1>7 DEF DestroyPlans
  <2>2. pc[m] = "configMaps"
    BY <2>1 DEF DeleteOwned
  <2>3. Delete(gone) => \A o \in live' : o[1] # "plan"
    BY DEF Delete, OfKind
  <2> HIDE DEF gone
  <2>4. Delete(gone) /\ pc'[m] = "secrets" => Progress(m)
    BY <2>2, <2>3, PastStages DEF Progress
  <2> QED
    BY <2>1, <2>4, OwnedMoves
<1>8. CASE DestroySecrets(m)
  <2> DEFINE gone == OfKind("secret")
  <2>1. DeleteOwned(m, "secrets", gone, "external")
    BY <1>8 DEF DestroySecrets
  <2>2. pc[m] = "secrets"
    BY <2>1 DEF DeleteOwned
  <2>3. Delete(gone) => \A o \in live' : o[1] # "secret"
    BY DEF Delete, OfKind
  <2> HIDE DEF gone
  <2>4. Delete(gone) /\ pc'[m] = "external" => Progress(m)
    BY <2>2, <2>3, PastStages DEF Progress
  <2> QED
    BY <2>1, <2>4, OwnedMoves
<1> QED
  BY <1>1, <1>2, <1>3, <1>4, <1>5, <1>6, <1>7, <1>8

(* A destroy without a failure gets one deletion further with each step. *)
LEMMA DestroyMoves ==
  ASSUME Types, Turns, Annotated, NEW m \in Machines, Destroyed(m), ~cmd[m].failed,
         ~cmd'[m].failed, cmd[m].destroy, cmd'[m].destroy, DestroyStep(m) \/ CacheStep(m)
  PROVE  Destroyed(m)'
<1>0. ~Exit(m)
  BY IdleFields DEF Exit, Types
<1>1. CASE CacheStep(m)
  <2>1. UNCHANGED <<live, bare, state, said>>
    BY <1>1, CacheKeeps DEF objects, records
  <2>2. pc[m] \in PastExternal /\ pc'[m] \in PastExternal
    <3>1. pc[m] \in DestroyStages
      BY DEF Turns
    <3>2. pc[m] \in {"cloud", "identity", "forget"}
      BY <1>1, <3>1, DestroyStageList DEF CacheStep, ReadClaim, CreateClaim, RecordIntent,
         Provision, ProvisionFails, Verified, NotVerified, DeleteInstance, DeleteIdentity,
         ForgetCoordinates
    <3>3. pc'[m] \in {"identity", "forget", "report"}
      BY <1>0, <1>1, <3>2 DEF CacheStep, ReadClaim, CreateClaim, RecordIntent,
         Provision, ProvisionFails, Verified, NotVerified, DeleteInstance, DeleteIdentity,
         ForgetCoordinates, CleanupEnds, Go, Types
    <3> QED
      BY <3>2, <3>3, PastStages
  <2>3. Progress(m)
    BY <2>2, PastStages DEF Progress
  <2>4. pc[m] \notin {"uninstall", "seenHpas"}
    BY <2>2, PastStages
  <2> QED
    BY <2>1, <2>3, <2>4, DestroyedMoves
<1>2. CASE LoadPlans(m)
  <2>1. UNCHANGED <<live, bare, state, said>> /\ pc[m] = "plans" /\ pc'[m] = "identities"
    BY <1>0, <1>2 DEF LoadPlans, objects, records, history, Fault, Go, Types
  <2>2. Progress(m)
    BY <2>1, PastStages DEF Progress
  <2> QED
    BY <2>1, <2>2, DestroyedMoves
<1>3. CASE Identities(m)
  <2> DEFINE H == {Hpa(b) : b \in {d \in Builds : Deployment(d) \in live}} \cap live
  <2>1. /\ UNCHANGED <<live, bare, state, said>> /\ pc[m] = "identities" /\ pc'[m] = "uninstall"
        /\ cmd' = [cmd EXCEPT ![m].seen = H]
    BY <1>0, <1>3 DEF Identities, objects, records, history, Go, Types
  <2>2. cmd'[m].seen = H
    <3> HIDE DEF H
    <3> QED
      BY <2>1 DEF Types, Command
  <2>3. bare \subseteq H \cup said.strays
    <3> SUFFICES ASSUME NEW o \in bare PROVE o \in H \cup said.strays
      OBVIOUS
    <3>1. o \in live /\ o \in Objects /\ o[1] = "hpa"
      BY DEF Types, TypeOK
    <3>2. PICK b \in Builds : o = Hpa(b)
      BY <3>1 DEF Objects, Stable, Contributed, Cloud, Hpa
    <3>3. said.strays = Strays
      BY <2>1 DEF Destroyed
    <3> QED
      BY <3>1, <3>2, <3>3 DEF Strays
  <2> HIDE DEF H
  <2>4. Progress(m)
    BY <2>1, <2>2, <2>3, PastStages DEF Progress
  <2> QED
    BY <2>1, <2>4, DestroyedMoves
<1>4. CASE Uninstall(m)
  <2>1. pc[m] = "uninstall" /\ pc'[m] = "seenHpas" /\ state' = state
    BY <1>4 DEF Uninstall, Failed, Go, Types, records
  <2>2. CASE Failed(m, "seenHpas")
    BY <2>2 DEF Failed, Types, Command
  <2>3. CASE Uninstalled /\ UNCHANGED <<cmd, said>>
    <3>1. live' \subseteq live /\ bare' \subseteq bare /\ Contributed \notin live'
      BY <2>3 DEF Uninstalled, Annotated
    <3>2. Progress(m)
      BY <2>1, <3>1, PastStages DEF Progress
    <3> QED
      BY <2>1, <2>3, <3>1, <3>2, DestroyedMoves
  <2> QED
    BY <1>4, <2>2, <2>3 DEF Uninstall
<1>5. CASE DestroyState(m)
  <2>1. pc[m] = "state" /\ pc'[m] = "snapshots" /\ UNCHANGED <<live, bare>>
    BY <1>5 DEF DestroyState, Failed, Go, Types, objects
  <2>2. CASE Failed(m, "snapshots")
    BY <2>2 DEF Failed, Types, Command
  <2>3. CASE state' = NoState /\ UNCHANGED <<cmd, said>>
    <3>1. Progress(m)
      BY <2>1, <2>3, PastStages DEF Progress
    <3> QED
      BY <2>1, <2>3, <3>1, DestroyedMoves
  <2> QED
    BY <1>5, <2>2, <2>3 DEF DestroyState
<1>6. CASE DestroyExternal(m)
  <2>1. pc[m] = "external" /\ pc'[m] = "paid" /\ state' = state
    BY <1>6 DEF DestroyExternal, Go, Types, records
  <2>2. CASE cmd' = [cmd EXCEPT ![m].failed = TRUE]
    BY <2>2 DEF Types, Command
  <2>3. CASE Delete({Cloud}) /\ UNCHANGED <<cmd, said>>
    <3>1. live' \subseteq live /\ bare' \subseteq bare
      BY <2>3 DEF Delete
    <3>2. Progress(m)
      BY <2>1, <3>1, PastStages DEF Progress
    <3> QED
      BY <2>1, <2>3, <3>1, <3>2, DestroyedMoves
  <2>4. CASE UNCHANGED <<objects, cmd, said>>
    <3>1. UNCHANGED <<live, bare>>
      BY <2>4 DEF objects
    <3>2. Progress(m)
      BY <2>1, <3>1, PastStages DEF Progress
    <3> QED
      BY <2>1, <2>4, <3>1, <3>2, DestroyedMoves
  <2> QED
    BY <1>6, <2>2, <2>3, <2>4 DEF DestroyExternal, history
<1>7. CASE DestroyCache(m)
  <2>1. /\ UNCHANGED <<live, bare, state>> /\ pc[m] = "paid"
        /\ pc'[m] \in {"report", "cloud"}
    BY <1>7 DEF DestroyCache, objects, records, Go, Types
  <2>2. Progress(m)
    BY <2>1, PastStages DEF Progress
  <2>3. said'.strays = said.strays
    BY <1>7 DEF DestroyCache, Types
  <2> QED
    BY <2>1, <2>2, <2>3, DestroyedMoves
<1>8. ~Report(m)
  BY <1>0 DEF Report
<1> QED
  BY <1>1, <1>2, <1>3, <1>4, <1>5, <1>6, <1>7, <1>8, SweepMoves DEF DestroyStep

(* Outside the cluster too. *)
LEMMA SettledMoves ==
  ASSUME Types, Turns, NEW m \in Machines, Settled(m), ~cmd[m].failed,
         ~cmd'[m].failed, cmd[m].destroy, cmd'[m].destroy, DestroyStep(m) \/ CacheStep(m)
  PROVE  Settled(m)'
<1>0. ~Exit(m)
  BY IdleFields DEF Exit, Types
<1>1. CASE pc'[m] \notin {"paid", "report"} \cup Cleaning
  BY <1>1 DEF Settled, Cleaning
<1>2. CASE DestroyExternal(m)
  <2>1. pc'[m] = "paid" /\ UNCHANGED plan
    BY <1>2 DEF DestroyExternal, Go, Types, records
  <2>2. CASE cmd' = [cmd EXCEPT ![m].failed = TRUE]
    BY <2>2 DEF Types, Command
  <2>3. CASE UNCHANGED cmd /\ (Cloud \notin live' \/ ~ExternalAuthorized(m))
    <3>1. ExternalAuthorized(m)' <=> ExternalAuthorized(m)
      BY <2>1, <2>3 DEF ExternalAuthorized
    <3>2. Cloud' = Cloud
      BY DEF Cloud
    <3> QED
      BY <2>1, <2>3, <3>1, <3>2 DEF Settled, Cleaning
  <2> QED
    BY <1>2, <2>2, <2>3 DEF DestroyExternal, Delete
<1>3. CASE DestroyCache(m)
  <2> DEFINE l == AuthorizedCache(m)
             L == Listed(m)
             A == Authorized(m)
  <2>1. /\ pc[m] = "paid" /\ UNCHANGED live
        /\ \/ l = NoLoc /\ pc'[m] = "report"
           \/ l # NoLoc /\ pc'[m] = "cloud" /\ cmd' = [cmd EXCEPT ![m].loc = l]
    BY <1>3 DEF DestroyCache, objects, Go, Types
  <2>2. said'.listed = L /\ said'.skipped = L \ A
    BY <1>3 DEF DestroyCache, Types
  <2>3. l \in Locations \cup {NoLoc} /\ L \subseteq Outside /\ NoLoc \notin L
    BY AuthorizedCacheType
  <2>4. A = {l} \cup (IF ExternalAuthorized(m) THEN {"cloud"} ELSE {})
    BY DEF Authorized
  <2>5. ExternalAuthorized(m) => Cloud \notin live
    BY <2>1 DEF Settled
  <2>6. pc'[m] = "cloud" => cmd'[m].loc = l
    <3> HIDE DEF l
    <3> QED
      BY <2>1 DEF Types, Command
  <2> HIDE DEF l, L, A
  <2>7. said'.listed \ said'.skipped = L \cap A
    BY <2>2
  <2>8. "cloud" \in L \cap A => ExternalAuthorized(m)
    BY <2>3, <2>4, ReleaseAssumption
  <2>9. (L \cap A) \cap Locations \subseteq {l} \ {NoLoc}
    BY <2>3, <2>4, ReleaseAssumption
  <2>10. "cloud" \in said'.listed \ said'.skipped => Cloud \notin live'
    BY <2>1, <2>5, <2>7, <2>8
  <2>11. CASE l = NoLoc /\ pc'[m] = "report"
    BY <2>7, <2>9, <2>10, <2>11 DEF Settled, Cleaning, Cloud
  <2>12. CASE pc'[m] = "cloud"
    BY <2>6, <2>7, <2>9, <2>10, <2>12 DEF Settled, Cleaning, Cloud
  <2> QED
    BY <2>1, <2>11, <2>12
<1>4. CASE CacheStep(m)
  <2>1. UNCHANGED <<live, said>>
    BY <1>4, CacheKeeps DEF objects
  <2>2. pc[m] \in DestroyStages
    BY DEF Turns
  <2>3. DeleteInstance(m) \/ DeleteIdentity(m) \/ ForgetCoordinates(m)
    BY <1>4, <2>2, DestroyStageList DEF CacheStep, ReadClaim, CreateClaim, RecordIntent,
       Provision, ProvisionFails, Verified, NotVerified
  <2>4. ~CleanupEnds(m, FALSE)
    <3> SUFFICES ASSUME CleanupEnds(m, FALSE) PROVE FALSE
      OBVIOUS
    <3>1. cmd' = [cmd EXCEPT ![m].failed = @ \/ ~FALSE]
      BY DEF CleanupEnds
    <3> QED
      BY <3>1 DEF Types, Command
  <2>5. CASE DeleteInstance(m)
    <3>1. /\ pc[m] = "cloud" /\ pc'[m] = "identity" /\ UNCHANGED cmd
          /\ instance' = [instance EXCEPT ![cmd[m].loc] = "none"]
      BY <2>4, <2>5 DEF DeleteInstance, Go, Types
    <3>2. cmd[m].loc \in Locations => instance'[cmd[m].loc] = "none"
      BY <3>1 DEF Types, TypeOK
    <3> QED
      BY <2>1, <3>1, <3>2 DEF Settled, Cleaning, Cloud
  <2>6. CASE DeleteIdentity(m)
    <3>1. /\ pc[m] = "identity" /\ pc'[m] = "forget" /\ UNCHANGED <<cmd, instance>>
      BY <2>4, <2>6 DEF DeleteIdentity, Go, Types
    <3> QED
      BY <2>1, <3>1 DEF Settled, Cleaning, Cloud
  <2>7. CASE ForgetCoordinates(m)
    <3>1. /\ pc[m] = "forget" /\ pc'[m] = "report" /\ UNCHANGED instance
      BY <2>7 DEF ForgetCoordinates, CleanupEnds, Go, Types
    <3> QED
      BY <2>1, <3>1 DEF Settled, Cleaning, Cloud
  <2> QED
    BY <2>3, <2>5, <2>6, <2>7
<1>5. CASE \/ LoadPlans(m) \/ Identities(m) \/ Uninstall(m) \/ DestroySeenHpas(m)
           \/ DestroyDeployments(m) \/ DestroyHpas(m) \/ DestroyStable(m)
           \/ DestroyContributed(m) \/ DestroyState(m) \/ DestroySnapshots(m)
           \/ DestroyPlans(m) \/ DestroySecrets(m)
  BY <1>0, <1>1, <1>5 DEF LoadPlans, Identities, Uninstall, DestroySeenHpas,
     DestroyDeployments, DestroyHpas, DestroyStable, DestroyContributed, DestroyState,
     DestroySnapshots, DestroyPlans, DestroySecrets, DeleteOwned, Failed, Go, Types, Cleaning
<1>6. ~Report(m)
  BY <1>0 DEF Report
<1> QED
  BY <1>2, <1>3, <1>4, <1>5, <1>6 DEF DestroyStep

(* A destroy that has not failed before its report has emptied the release. *)
LEMMA ReportHonest ==
  ASSUME Types, Turns, NEW m \in Machines, Destroyed(m), Settled(m), pc[m] = "report"
  PROVE  /\ state = NoState
         /\ live \subseteq said.strays \cup {Cloud}
         /\ Remains \cap said.listed \subseteq said.skipped
<1>1. /\ pc[m] \in PastUninstall /\ pc[m] \in PastDeployments /\ pc[m] \in PastHpas
      /\ pc[m] \in PastStable /\ pc[m] \in PastState /\ pc[m] \in PastSnapshots
      /\ pc[m] \in PastPlans /\ pc[m] \in PastSecrets
  BY PastStages
<1>2. state = NoState
  BY <1>1 DEF Destroyed
<1>3. ASSUME NEW o \in live
      PROVE  o \in said.strays \/ o = Cloud
  <2>1. o \in Objects
    BY DEF Types, TypeOK
  <2>2. CASE o = Stable
    BY <1>1, <2>2 DEF Destroyed, NoneOf, Stable
  <2>3. CASE o = Contributed
    BY <1>1, <2>3 DEF Destroyed
  <2>4. CASE o = Cloud
    BY <2>4
  <2>5. CASE o[1] \in {"deployment", "hpa", "secret", "plan", "snapshot"}
    BY <1>1, <2>5 DEF Destroyed, NoneOf
  <2> QED
    BY <2>1, <2>2, <2>3, <2>4, <2>5 DEF Objects
<1>4. Remains \cap said.listed \subseteq said.skipped
  BY DEF Settled, Remains
<1> QED
  BY <1>2, <1>3, <1>4

(* A deploy says nothing about the last destroy. *)
LEMMA DeployKeepsSaid ==
  ASSUME NEW m \in Machines, DeployStep(m)
  PROVE  UNCHANGED <<said, torn>>
BY DEF DeployStep, Refused, MetadataValid, ClusterPinned, ApisPresent, PodRanges,
     NodeRanges, RangesKnown, ReadServing, PushImages, PinDigests, EdgeReady, Recheck, Pass,
     KeepDeployment, KeepStable, KeepHpa, AdoptValkey, KeepManifest, KeepSecret, HelmUpgrade,
     CutoverCommits, CutoverAborts, Park, GcDeployments, GcStable, GcConfigMaps, GcSecrets,
     SwitchCache, Gone, Fault, history

(* The destroy's progress, and its report, under every step. *)
LEMMA EmptiedStep ==
  ASSUME Types, Turns, Annotated, Emptied, Next
  PROVE  Emptied'
<1>a. Types' /\ Turns'
  BY TypesStep
<1>1. CASE /\ said'.outcome # "complete"
           /\ \A n \in Machines : ~cmd'[n].destroy
  BY <1>1 DEF Emptied, DestroyHonest
<1>2. ASSUME NEW m \in Machines, DeployStep(m) \/ CacheStep(m), ~cmd[m].destroy
      PROVE  Emptied'
  <2>1. pc[m] # "idle"
    BY <1>2 DEF DeployStep, Refused, Preflight, Transfer, MetadataValid, ClusterPinned,
       ApisPresent, PodRanges, NodeRanges, RangesKnown, ReadServing, PushImages, PinDigests,
       EdgeReady, Recheck, Pass, KeepDeployment, KeepStable, KeepHpa, AdoptValkey, KeepManifest,
       KeepSecret, HelmUpgrade, CutoverCommits, CutoverAborts, Park, GcDeployments, GcStable,
       GcConfigMaps, GcSecrets, SwitchCache,
       CacheStep, ReadClaim, CreateClaim, RecordIntent, Provision, ProvisionFails,
       Verified, NotVerified, DeleteInstance, DeleteIdentity, ForgetCoordinates
  <2>2. said' = said
    BY <1>2, DeployKeepsSaid, CacheKeeps
  <2>3. said.outcome # "complete"
    BY <2>1 DEF Emptied, AllIdle
  <2>4. \A n \in Machines : ~cmd[n].destroy
    BY <1>2, <2>1 DEF Turns
  <2>5. \A n \in Machines : ~cmd'[n].destroy
    BY <1>2, <2>4, StepOnward, IdleFields DEF Onward
  <2> QED
    BY <1>1, <2>2, <2>3, <2>5
<1>3. ASSUME NEW m \in Machines, DestroyStep(m) \/ CacheStep(m), cmd[m].destroy
      PROVE  Emptied'
  <2>1. Onward(m) /\ pc[m] \in DestroyStages /\ pc[m] # "idle"
        /\ \A n \in Machines \ {m} : pc[n] = "idle" /\ cmd[n] = Idle
    BY <1>3, StepOnward, DestroyStageList DEF Turns
  <2>2. \A n \in Machines \ {m} : pc'[n] = "idle" /\ ~cmd'[n].destroy
    BY <2>1, IdleFields DEF Onward
  <2>3. said.outcome = "none" /\ (~cmd[m].failed => Destroyed(m) /\ Settled(m))
    BY <1>3 DEF Emptied
  <2>4. CASE Report(m)
    <3>1. pc[m] = "report" /\ Exit(m) /\ UNCHANGED <<objects, state, instance>>
      BY <2>4 DEF Report, cache
    <3>2. pc'[m] = "idle" /\ cmd'[m] = Idle
      BY <3>1 DEF Exit, Types
    <3>3. (AllIdle)' /\ \A n \in Machines : ~cmd'[n].destroy
      BY <2>2, <3>2, IdleFields DEF AllIdle
    <3>4. CASE cmd[m].failed
      <4>1. said'.outcome = "incomplete"
        BY <2>4, <3>4 DEF Report, Types
      <4> QED
        BY <1>1, <3>3, <4>1
    <3>5. CASE ~cmd[m].failed
      <4>1. /\ said' = [said EXCEPT !.outcome = "complete"]
            /\ local' = [local EXCEPT ![m] = NoState]
        BY <2>4, <3>5 DEF Report
      <4>2. /\ said'.strays = said.strays /\ said'.skipped = said.skipped
            /\ said'.listed = said.listed /\ local'[m] = NoState
        BY <4>1 DEF Types, TypeOK
      <4>3. /\ state = NoState
            /\ live \subseteq said.strays \cup {Cloud}
            /\ Remains \cap said.listed \subseteq said.skipped
        BY <2>3, <3>1, <3>5, ReportHonest
      <4>4. Remains' = Remains
        BY <3>1 DEF Remains, objects, Cloud
      <4>5. DestroyHonest'
        BY <3>1, <3>2, <4>2, <4>3, <4>4 DEF DestroyHonest, objects, Cloud
      <4> QED
        BY <3>3, <4>5 DEF Emptied
    <3> QED
      BY <3>4, <3>5
  <2>5. CASE ~Report(m)
    <3>1. said'.outcome \in {"none", "refused"} /\ (said'.outcome # "none" => Exit(m))
      BY <1>3, <2>3, <2>5, HistorySteps DEF Types
    <3>2. CASE Exit(m)
      <4>1. \A n \in Machines : ~cmd'[n].destroy
        BY <2>2, <3>2, IdleFields DEF Exit, Types
      <4> QED
        BY <1>1, <3>1, <4>1
    <3>3. CASE ~Exit(m)
      <4>1. said'.outcome = "none"
        BY <3>1, <3>3
      <4>2. cmd'[m].destroy /\ ~cmd'[m].failed => Destroyed(m)' /\ Settled(m)'
        <5> SUFFICES ASSUME cmd'[m].destroy, ~cmd'[m].failed
                     PROVE  Destroyed(m)' /\ Settled(m)'
          OBVIOUS
        <5>1. ~cmd[m].failed
          BY <2>1, IdleFields DEF Onward
        <5> QED
          BY <1>3, <2>3, <5>1, DestroyMoves, SettledMoves
      <4> QED
        BY <2>2, <4>1, <4>2 DEF Emptied, DestroyHonest
    <3> QED
      BY <3>2, <3>3
  <2> QED
    BY <2>4, <2>5
<1>4. ASSUME NEW m \in Machines, DestroyStep(m)
      PROVE  cmd[m].destroy
  <2>1. pc[m] \notin DeployStages /\ pc[m] # "idle"
    BY <1>4, DeployStageList, UpgradingList DEF DestroyStep, LoadPlans, Identities, Uninstall,
       DestroySeenHpas, DestroyDeployments, DestroyHpas, DestroyStable, DestroyContributed,
       DestroyState, DestroySnapshots, DestroyPlans, DestroySecrets, DestroyExternal,
       DestroyCache, Report, DeleteOwned
  <2> QED
    BY <2>1, StageOfDestroy
<1>5. ASSUME NEW m \in Machines, DeployStep(m)
      PROVE  ~cmd[m].destroy
  <2>1. pc[m] \notin DestroyStages /\ pc[m] # "idle"
    BY <1>5, DestroyStageList DEF DeployStep, Refused, Preflight, Transfer, MetadataValid,
       ClusterPinned, ApisPresent, PodRanges, NodeRanges, RangesKnown, ReadServing, PushImages,
       PinDigests, EdgeReady, Recheck, Pass, KeepDeployment, KeepStable, KeepHpa, AdoptValkey,
       KeepManifest, KeepSecret, HelmUpgrade, CutoverCommits, CutoverAborts, Park, GcDeployments,
       GcStable, GcConfigMaps, GcSecrets, SwitchCache
  <2> QED
    BY <2>1, StageOfDeploy
<1>6. ASSUME NEW m \in Machines, NEW b \in Builds, DeployStart(m, b)
      PROVE  Emptied'
  <2>1. said'.outcome = "none" /\ \A n \in Machines : ~cmd[n].destroy
    BY <1>6 DEF DeployStart, Types
  <2>2. \A n \in Machines : ~cmd'[n].destroy
    BY <1>6, <2>1, DeployBegins
  <2> QED
    BY <1>1, <2>1, <2>2
<1>7. ASSUME NEW m \in Machines, DestroyStart(m)
      PROVE  Emptied'
  <2>1. said'.outcome = "none" /\ said'.strays = Strays /\ UNCHANGED <<live, bare>>
    BY <1>7 DEF DestroyStart, objects
  <2>2. pc'[m] = "plans" /\ \A n \in Machines \ {m} : pc'[n] = "idle" /\ cmd'[n] = Idle
    BY <1>7, DestroyBegins DEF AllIdle, Turns
  <2>3. Strays' = Strays
    BY <2>1 DEF Strays, Hpa, Deployment
  <2>4. Destroyed(m)' /\ Settled(m)'
    BY <2>1, <2>2, <2>3, PastStages DEF Destroyed, Settled, Cleaning
  <2> QED
    BY <2>1, <2>2, <2>4, IdleFields DEF Emptied, DestroyHonest
<1>8. ASSUME NEW m \in Machines, Rollback(m)
      PROVE  Emptied'
  <2>1. said'.outcome = "none" /\ AllIdle /\ UNCHANGED cmd
    BY <1>8 DEF Rollback, process, Types
  <2>2. \A n \in Machines : ~cmd'[n].destroy
    BY <2>1, IdleFields DEF Turns, AllIdle
  <2> QED
    BY <1>1, <2>1, <2>2
<1>9. ASSUME NEW b \in Builds, FirstSync(b)
      PROVE  Emptied'
  <2>1. said' = said /\ AllIdle /\ UNCHANGED cmd /\ state # NoState
    BY <1>9 DEF FirstSync, process
  <2>2. \A n \in Machines : ~cmd'[n].destroy
    BY <2>1, IdleFields DEF Turns, AllIdle
  <2>3. said.outcome # "complete"
    BY <2>1 DEF Emptied, DestroyHonest
  <2> QED
    BY <1>1, <2>1, <2>2, <2>3
<1>10. CASE /\ UNCHANGED <<process, live, bare, said, state, local, plan>>
            /\ \A l \in Locations : instance[l] = "none" => instance'[l] = "none"
  <2>1. \A m \in Machines : Destroyed(m) => Destroyed(m)'
    BY <1>10 DEF process, Destroyed, NoneOf, Strays, Hpa, Deployment, Contributed
  <2>2. \A m \in Machines : Settled(m) => Settled(m)'
    BY <1>10 DEF process, Settled, ExternalAuthorized, Cloud
  <2>3. Remains' \subseteq Remains
    BY <1>10 DEF Remains, Cloud
  <2>4. DestroyHonest'
    BY <1>10, <2>3 DEF Emptied, DestroyHonest, process, Cloud
  <2> QED
    BY <1>10, <2>1, <2>2, <2>4 DEF process, Emptied, AllIdle
<1>11. ASSUME NEW l \in Locations, InstanceReady(l)
       PROVE  \A k \in Locations : instance[k] = "none" => instance'[k] = "none"
  BY <1>11 DEF InstanceReady, Types, TypeOK
<1> QED
  BY <1>2, <1>3, <1>4, <1>5, <1>6, <1>7, <1>8, <1>9, <1>10, <1>11
     DEF Next, InstanceReady, Migrate, objects, records, history, cache

-----------------------------------------------------------------------------
(* The managed cache and the coordinates that name it. *)

(* A stage that neither pays nor cleans up. *)
LEMMA OtherStagePays ==
  ASSUME NEW m \in Machines, pc'[m] \notin {"claim", "create", "intent"} \cup Paying \cup Cleaning
  PROVE  PaysFor(m)'
BY DEF PaysFor

(* A creation is named beforehand; coordinates go only in the last step of a cleanup. *)
LEMMA CacheMoves ==
  ASSUME Types, Turns, Paid, NEW m \in Machines, CacheStep(m)
  PROVE  /\ \A n \in Machines \ {m} : coords'[n] = coords[n]
         /\ \A l \in Locations : instance'[l] # "none" =>
               instance[l] # "none" \/ (coords[m] = l /\ coords'[m] = l)
         /\ coords'[m] = coords[m] \/ coords[m] = NoLoc \/ ForgetCoordinates(m)
<1> USE DEF cache
<1>0. coords \in [Machines -> Locations \cup {NoLoc}]
      /\ instance \in [Locations -> {"none", "creating", "ready"}]
  BY DEF Types, TypeOK
<1>1. CASE ReadClaim(m) \/ CreateClaim(m) \/ Verified(m) \/ NotVerified(m) \/ DeleteIdentity(m)
  BY <1>1 DEF ReadClaim, CreateClaim, Verified, NotVerified, DeleteIdentity
<1>2. CASE RecordIntent(m)
  BY <1>0, <1>2 DEF RecordIntent
<1>3. CASE Provision(m) \/ ProvisionFails(m)
  <2>1. coords[m] = Wanted(m) /\ UNCHANGED coords
    BY <1>3 DEF Provision, ProvisionFails, Paid, PaysFor, Paying
  <2> QED
    BY <1>0, <1>3, <2>1 DEF Provision, ProvisionFails
<1>4. CASE DeleteInstance(m)
  BY <1>0, <1>4 DEF DeleteInstance
<1>5. CASE ForgetCoordinates(m)
  BY <1>0, <1>5 DEF ForgetCoordinates
<1> QED
  BY <1>1, <1>2, <1>3, <1>4, <1>5 DEF CacheStep

(* The other commands go on paying for what they name. *)
LEMMA OthersPay ==
  ASSUME Types, Turns, Paid, NEW m \in Machines, NEW n \in Machines \ {m}, CacheStep(m)
  PROVE  PaysFor(n)'
<1>1. pc'[n] = pc[n] /\ cmd'[n] = cmd[n]
  BY StepOnward DEF Onward
<1>2. PaysFor(n) /\ coords'[n] = coords[n] /\ Wanted(n)' = Wanted(n)
  BY <1>1, CacheMoves DEF Paid, Wanted
<1>3. ASSUME pc[n] \in Cleaning, ~cmd[n].destroy, pc[n] # "cloud"
      PROVE  \/ instance'[cmd[n].loc] = "none"
             \/ \E k \in Machines \ {n} : coords'[k] = cmd[n].loc
  <2>1. pc[n] \in Upgrading /\ pc[n] # "idle"
    BY <1>3, UpgradingList DEF Cleaning
  <2>2. pc[m] \notin Upgrading
    BY <2>1 DEF Turns
  <2>3. ~ForgetCoordinates(m)
    BY <2>2, UpgradingList DEF ForgetCoordinates
  <2>4. cmd[n].loc \in Locations
    BY <1>2, <1>3 DEF PaysFor, Types, Command
  <2>5. \A k \in Machines : coords[k] = cmd[n].loc => coords'[k] = cmd[n].loc
    BY <2>3, <2>4, CacheMoves, ReleaseAssumption
  <2> QED
    BY <1>2, <1>3, <2>4, <2>5, CacheMoves DEF PaysFor
<1> QED
  BY <1>1, <1>2, <1>3 DEF PaysFor

(* The steps of the managed cache, in order: coordinates, creation, deletion, coordinates. *)
LEMMA CachePays ==
  ASSUME Types, Turns, Paid, NEW m \in Machines, CacheStep(m)
  PROVE  PaysFor(m)'
<1> USE DEF cache
<1>0. /\ coords \in [Machines -> Locations \cup {NoLoc}]
      /\ instance \in [Locations -> {"none", "creating", "ready"}]
      /\ PaysFor(m)
      /\ pc \in [Machines -> {"idle"} \cup DeployStages \cup DestroyStages]
  BY DEF Types, TypeOK, Paid
<1>1. CASE Exit(m)
  BY <1>0, <1>1, OtherStagePays DEF Exit, Paying, Cleaning
<1>2. CASE /\ pc[m] \in {"claim", "create"} /\ UNCHANGED <<cmd, coords>>
           /\ \E s \in {"create", "intent"} : Go(m, s)
  BY <1>0, <1>2 DEF PaysFor, Go, Wanted, Paying, Cleaning
<1>3. CASE RecordIntent(m)
  BY <1>0, <1>3 DEF PaysFor, Go, Wanted, Paying, Cleaning, RecordIntent
<1>4. CASE Provision(m)
  BY <1>0, <1>4 DEF PaysFor, Go, Wanted, Paying, Cleaning, Provision
<1>5. CASE Verified(m)
  BY <1>0, <1>5, OtherStagePays DEF Verified, Go, Paying, Cleaning
<1>6. CASE cmd[m].destroy
  <2>1. cmd'[m].destroy \/ pc'[m] = "idle"
    BY <1>6, StepOnward DEF Onward
  <2>2. pc[m] \in DestroyStages
    BY <1>6 DEF Turns
  <2>3. pc[m] \in {"cloud", "identity", "forget"}
    BY <2>2, DestroyStageList DEF CacheStep, ReadClaim, CreateClaim, RecordIntent,
       Provision, ProvisionFails, Verified, NotVerified, DeleteInstance, DeleteIdentity,
       ForgetCoordinates
  <2>4. pc'[m] \in {"cloud", "identity", "forget", "report", "idle"}
    BY <1>0, <1>6, <2>3 DEF CacheStep, ReadClaim, CreateClaim, RecordIntent,
       Provision, ProvisionFails, Verified, NotVerified, DeleteInstance, DeleteIdentity,
       ForgetCoordinates, CleanupEnds, Go, Exit
  <2> QED
    BY <2>1, <2>4 DEF PaysFor, Paying, Cleaning
<1>7. CASE ~cmd[m].destroy /\ DeleteInstance(m) /\ ~Exit(m)
  <2>1. /\ instance' = [instance EXCEPT ![cmd[m].loc] = "none"]
        /\ Go(m, "identity") /\ UNCHANGED <<cmd, coords>> /\ pc[m] = "cloud"
    BY <1>7 DEF DeleteInstance, CleanupEnds
  <2>2. cmd[m].loc \in Locations
    BY <1>0, <1>7, <2>1 DEF PaysFor, Cleaning
  <2> QED
    BY <1>0, <1>7, <2>1, <2>2 DEF PaysFor, Go, Paying, Cleaning
<1>8. CASE ~cmd[m].destroy /\ DeleteIdentity(m) /\ ~Exit(m)
  <2>1. Go(m, "forget") /\ UNCHANGED <<cmd, coords, instance>> /\ pc[m] = "identity"
    BY <1>8 DEF DeleteIdentity, CleanupEnds
  <2> QED
    BY <1>0, <1>8, <2>1 DEF PaysFor, Go, Paying, Cleaning
<1> QED
  BY <1>1, <1>2, <1>3, <1>4, <1>5, <1>6, <1>7, <1>8
     DEF CacheStep, ReadClaim, CreateClaim, ProvisionFails, NotVerified, ForgetCoordinates,
         CleanupEnds

(* A deploy reaches the cache with coordinates that are missing or the plan's own. *)
LEMMA DeployPays ==
  ASSUME Types, Turns, Paid, NEW m \in Machines, DeployStep(m), UNCHANGED cache
  PROVE  PaysFor(m)'
<1> USE DEF cache
<1>0. /\ pc \in [Machines -> {"idle"} \cup DeployStages \cup DestroyStages]
      /\ cmd \in [Machines -> Command]
  BY DEF Types
<1>1. CASE Exit(m)
  BY <1>0, <1>1, OtherStagePays DEF Exit, Paying, Cleaning
<1>2. CASE ReadServing(m) /\ ~Exit(m)
  <2> DEFINE s == ReadState(m)
             c == [cmd[m] EXCEPT !.base = s, !.claimed = claim]
  <2>1. /\ cmd' = [cmd EXCEPT ![m] = c] /\ SamePlace(m, Build(m))
        /\ Go(m, IF LocationOf[Build(m)] = NoLoc THEN "images" ELSE "claim")
    BY <1>2 DEF ReadServing
  <2>2. c.build = cmd[m].build
    BY <1>0 DEF Command
  <2> HIDE DEF c
  <2>3. cmd'[m].build = cmd[m].build
    BY <1>0, <2>1, <2>2
  <2> QED
    BY <1>0, <2>1, <2>3 DEF PaysFor, Go, Wanted, Build, SamePlace, Paying, Cleaning
<1>3. CASE SwitchCache(m) /\ ~Exit(m)
  <2> DEFINE l == LocationOf[From(m)]
             c == [cmd[m] EXCEPT !.loc = l]
  <2>1. cmd' = [cmd EXCEPT ![m] = c] /\ Go(m, "cloud") /\ coords[m] = l /\ l # NoLoc
    BY <1>3 DEF SwitchCache
  <2>2. c.loc = l
    BY <1>0 DEF Command
  <2> HIDE DEF c, l
  <2>3. cmd'[m].loc = l /\ pc'[m] = "cloud" /\ coords'[m] = l
    BY <1>0, <2>1, <2>2 DEF Go
  <2> QED
    BY <2>1, <2>3 DEF PaysFor, Paying, Cleaning
<1>4. ASSUME NEW s, s \notin {"claim", "create", "intent", "provision", "await", "cloud",
                          "identity", "forget"},
             Go(m, s)
      PROVE  PaysFor(m)'
  BY <1>0, <1>4, OtherStagePays DEF Go, Paying, Cleaning
<1> QED
  BY <1>1, <1>2, <1>3, <1>4
     DEF DeployStep, Refused, MetadataValid, ClusterPinned, ApisPresent, PodRanges,
     NodeRanges, RangesKnown, PushImages, PinDigests, EdgeReady, Recheck, Pass,
     KeepDeployment, KeepStable, KeepHpa, AdoptValkey, KeepManifest, KeepSecret, HelmUpgrade,
     CutoverCommits, CutoverAborts, Park, GcDeployments, GcStable, GcConfigMaps, GcSecrets

(* A command whose cache is left alone goes on as it did. *)
LEMMA FramePays ==
  ASSUME Paid, NEW n \in Machines, pc'[n] = pc[n], cmd'[n] = cmd[n], UNCHANGED <<coords, instance>>
  PROVE  PaysFor(n)'
BY DEF Paid, PaysFor, Wanted

(* The coordinates under every step. *)
LEMMA PaidStep ==
  ASSUME Types, Turns, Paid, Next
  PROVE  Paid'
<1> USE DEF cache
<1>1. ASSUME NEW m \in Machines, CacheStep(m)
      PROVE  Paid'
  BY <1>1, OthersPay, CachePays DEF Paid
<1>2. ASSUME NEW m \in Machines, DeployStep(m), UNCHANGED cache
      PROVE  Paid'
  <2>1. \A n \in Machines \ {m} : pc'[n] = pc[n] /\ cmd'[n] = cmd[n]
    BY <1>2, StepOnward DEF Onward
  <2> QED
    BY <1>2, <2>1, FramePays, DeployPays DEF Paid
<1>3. ASSUME NEW m \in Machines, DestroyStep(m), UNCHANGED cache
      PROVE  Paid'
  <2>1. \A n \in Machines \ {m} : pc'[n] = pc[n] /\ cmd'[n] = cmd[n]
    BY <1>3, StepOnward DEF Onward
  <2>2. pc[m] \notin DeployStages /\ pc[m] # "idle"
    BY <1>3, DeployStageList, UpgradingList DEF DestroyStep, LoadPlans, Identities, Uninstall,
       DestroySeenHpas, DestroyDeployments, DestroyHpas, DestroyStable, DestroyContributed,
       DestroyState, DestroySnapshots, DestroyPlans, DestroySecrets, DestroyExternal,
       DestroyCache, Report, DeleteOwned
  <2>3. cmd[m].destroy
    BY <2>2, StageOfDestroy
  <2>4. pc'[m] = "idle" \/ (pc'[m] \in DestroyStages /\ cmd'[m].destroy)
    BY <1>3, <2>3, StepOnward DEF Onward
  <2>5. PaysFor(m)'
    BY <2>4, DestroyStageList DEF PaysFor, Paying, Cleaning
  <2> QED
    BY <1>3, <2>1, <2>5, FramePays DEF Paid
<1>4. ASSUME NEW m \in Machines, NEW b \in Builds, DeployStart(m, b)
      PROVE  Paid'
  <2>1. UNCHANGED cache /\ pc'[m] = "metadata"
        /\ \A n \in Machines \ {m} : pc'[n] = pc[n] /\ cmd'[n] = cmd[n]
    BY <1>4, DeployBegins DEF DeployStart
  <2>2. PaysFor(m)'
    BY <2>1, OtherStagePays DEF Paying, Cleaning
  <2> QED
    BY <2>1, <2>2, FramePays DEF Paid
<1>5. ASSUME NEW m \in Machines, DestroyStart(m)
      PROVE  Paid'
  <2>1. UNCHANGED cache /\ pc'[m] = "plans"
        /\ \A n \in Machines \ {m} : pc'[n] = pc[n] /\ cmd'[n] = cmd[n]
    BY <1>5, DestroyBegins DEF DestroyStart
  <2>2. PaysFor(m)'
    BY <2>1, OtherStagePays DEF Paying, Cleaning
  <2> QED
    BY <2>1, <2>2, FramePays DEF Paid
<1>6. ASSUME NEW l \in Locations, InstanceReady(l)
      PROVE  Paid'
  <2>1. /\ UNCHANGED <<pc, cmd, coords>>
        /\ \A k \in Locations : instance[k] = "none" => instance'[k] = "none"
    BY <1>6 DEF InstanceReady, process, Types, TypeOK
  <2>2. \A n \in Machines : cmd[n].loc \in Locations \cup {NoLoc}
    BY DEF Types, Command
  <2> QED
    BY <2>1, <2>2 DEF Paid, PaysFor, Wanted
<1>7. CASE UNCHANGED <<cache, process>>
  BY <1>7, FramePays DEF Paid, process
<1> QED
  BY <1>1, <1>2, <1>3, <1>4, <1>5, <1>6, <1>7, OthersKeepCache
     DEF Next, Rollback, Migrate, FirstSync

(* No step but a destroy's leaves an instance without a name. *)
LEMMA NamedStep ==
  ASSUME Types, Turns, Paid, Next
  PROVE  \A l \in Locations :
            (instance'[l] # "none" /\ ~Named(l)') =>
                \/ instance[l] # "none" /\ ~Named(l)
                \/ \E m \in Machines : cmd[m].destroy
<1> SUFFICES ASSUME NEW l \in Locations, instance'[l] # "none", ~Named(l)',
                    \A m \in Machines : ~cmd[m].destroy
             PROVE  instance[l] # "none" /\ ~Named(l)
  OBVIOUS
<1>1. CASE UNCHANGED cache
  BY <1>1 DEF cache, Named
<1>2. ASSUME NEW k \in Locations, InstanceReady(k)
      PROVE  instance[l] # "none" /\ ~Named(l)
  BY <1>2 DEF InstanceReady, Named, Types, TypeOK
<1>3. ASSUME NEW m \in Machines, CacheStep(m)
      PROVE  instance[l] # "none" /\ ~Named(l)
  <2>1. instance[l] # "none"
    BY <1>3, CacheMoves DEF Named
  <2>2. CASE ForgetCoordinates(m)
    <3>1. pc[m] = "forget" /\ ~cmd[m].destroy /\ PaysFor(m) /\ UNCHANGED instance
      BY <2>2 DEF ForgetCoordinates, Paid
    <3>2. coords[m] # l
      BY <1>3, <3>1, CacheMoves DEF PaysFor, Cleaning, Named
    <3> QED
      BY <1>3, <2>1, <3>2, CacheMoves DEF Named
  <2>3. CASE ~ForgetCoordinates(m)
    BY <1>3, <2>1, <2>3, CacheMoves, ReleaseAssumption DEF Named
  <2> QED
    BY <2>2, <2>3
<1> QED
  BY <1>1, <1>2, <1>3, OthersKeepCache

-----------------------------------------------------------------------------
(* The inductive invariant. *)
OpsInv == Types /\ Turns /\ Records /\ Annotated /\ Standing /\ Emptied /\ Paid

(* A release with a serving and a parked build satisfies the invariant. *)
LEMMA InitObjects ==
  ASSUME Init
  PROVE  Types
<1>1. live \subseteq Objects /\ kept \subseteq Objects /\ manifest \subseteq Objects
  <2>1. Chart(Serving) \subseteq Objects /\ Whole(Parked) \subseteq Objects /\ Stable \in Objects
        /\ KeptAtBirth(Serving) \subseteq Objects /\ KeptAtBirth(Parked) \subseteq Objects
        /\ Cloud \in Objects /\ Deployment(Parked) \in Objects
    BY ChartObjects, ReleaseAssumption DEF Objects, Whole, KeptAtBirth, Plan, Snapshot, Secret,
       Deployment, Cloud, Stable
  <2> QED
    BY <2>1 DEF Init
<1>2. state \in Record
  BY ReleaseAssumption DEF Init, Record
<1>3. local \in [Machines -> Record \cup {NoState}] /\ plan \in [Machines -> Builds \cup {NoBuild}]
  BY <1>2, ReleaseAssumption DEF Init
<1>4. /\ claim \in Locations \cup {NoLoc}
      /\ instance \in [Locations -> {"none", "creating", "ready"}]
      /\ coords \in [Machines -> Locations \cup {NoLoc}]
      /\ pending \in [Machines -> BOOLEAN]
  BY DEF Init
<1>5. pc \in [Machines -> {"idle"} \cup DeployStages \cup DestroyStages]
      /\ cmd \in [Machines -> Command]
  BY IdleIsCommand DEF Init
<1>6. /\ valkey \in {"none", "legacy", "foreign", "helm"} /\ faults \in Nat /\ runs \in Nat
      /\ torn \in BOOLEAN /\ gitops \in {"imperative", "migrated", "synced"}
      /\ bare = {} /\ guarded = {}
  BY DEF Init
<1>7. said \in [outcome: {"none", "refused", "incomplete", "complete"},
                strays: SUBSET Objects, listed: SUBSET Outside, skipped: SUBSET Outside]
  BY DEF Init
<1> QED
  BY <1>1, <1>2, <1>3, <1>4, <1>5, <1>6, <1>7 DEF Types, TypeOK

LEMMA InitQuiet ==
  ASSUME Init, Types
  PROVE  Turns /\ Paid /\ Emptied
<1>1. \A m \in Machines : pc[m] = "idle" /\ cmd[m] = Idle
  BY DEF Init
<1>2. gitops = "imperative" /\ said.outcome = "none"
  BY DEF Init
<1>3. "idle" \notin Upgrading \cup Paying \cup Cleaning
  BY UpgradingList DEF Paying, Cleaning
<1> QED
  BY <1>1, <1>2, <1>3, IdleFields DEF Turns, Paid, PaysFor, Emptied, DestroyHonest, AllIdle

LEMMA InitRecords ==
  ASSUME Init, Types
  PROVE  /\ state # NoState /\ state.build = Serving /\ state.prev = Parked /\ ~state.reverted
         /\ Records
<1>1. \A m \in Machines : pc[m] = "idle"
  BY DEF Init
<1>2. state = [build |-> Serving, prev |-> Parked, gen |-> 2, reverted |-> FALSE]
  BY DEF Init
<1>3. state \in Record
  BY <1>2, ReleaseAssumption DEF Record
<1>4. state # NoState /\ state.build = Serving /\ state.prev = Parked /\ ~state.reverted
      /\ state.gen = 2
  BY <1>2, <1>3, RecordAssumption
<1>5. \A m \in Machines : local[m] # NoState => local[m].gen <= state.gen
  BY <1>4 DEF Init
<1> QED
  BY <1>1, <1>4, <1>5, ClassesApart, ReleaseAssumption DEF Records

LEMMA InitStanding ==
  ASSUME Init, Types
  PROVE  Annotated /\ Standing
<1>1. /\ state.build = Serving /\ state.prev = Parked /\ ~state.reverted
      /\ \A m \in Machines : pc[m] = "idle"
      /\ gitops = "imperative" /\ manifest = Chart(Serving)
  BY InitRecords DEF Init
<1>2. Annotated
  <2>1. \A b \in Builds : Plan(b) \in live \/ Snapshot(b) \in live \/ Deployment(b) \in live
                             => b \in {Serving, Parked}
    BY DEF Init, Chart, Whole, KeptAtBirth, Plan, Snapshot, Deployment, Hpa, Secret, Contributed,
       Cloud, Stable
  <2>2. \A b \in Builds : b \notin Legacy /\ Secret(b) \in live => b \in {Serving, Parked}
    BY ReleaseAssumption DEF Init, Chart, Whole, KeptAtBirth, Plan, Snapshot, Deployment, Hpa,
       Secret, Contributed, Cloud, Stable
  <2>3. \A b \in {Serving, Parked} : KeptAtBirth(b) \subseteq kept
    BY DEF Init
  <2>4. Contributed \notin kept
    BY DEF Init, KeptAtBirth, Plan, Snapshot, Deployment, Secret, Contributed, Stable
  <2>5. Contributed \in manifest
    BY <1>1 DEF Chart
  <2> QED
    BY <1>1, <2>1, <2>2, <2>3, <2>4, <2>5 DEF Annotated, KeptAtBirth
<1>3. Standing
  <2>1. Whole(Serving) \subseteq live /\ Whole(Parked) \subseteq live
        /\ (Serving \in Wide => Stable \in live)
    BY DEF Init, Chart, Whole, KeptAtBirth
  <2>2. Deployment(Parked) \in kept
    BY DEF Init
  <2>3. \A b \in Builds : Deployment(b) \in live => b \in {Serving, Parked}
    BY DEF Init, Chart, Whole, KeptAtBirth, Plan, Snapshot, Deployment, Hpa, Secret, Contributed,
       Cloud, Stable
  <2>4. "idle" \notin Committing
    BY ClassesApart
  <2> QED
    BY <1>1, <2>1, <2>2, <2>3, <2>4 DEF Standing, Whole, KeptDeployment, KeptStable
<1> QED
  BY <1>2, <1>3

(* A stuttering step changes none of it. *)
LEMMA OpsInvStutters ==
  ASSUME OpsInv, UNCHANGED vars
  PROVE  OpsInv'
<1> USE DEF vars, objects, records, cache, process, history
<1>1. Types'
  BY DEF OpsInv, Types, TypeOK
<1>2. Turns'
  BY DEF OpsInv, Turns, AllIdle
<1>3. Records'
  BY DEF OpsInv, Records, PrevOf, From, Build
<1>4. Annotated'
  BY DEF OpsInv, Annotated
<1>5. Standing'
  BY DEF OpsInv, Standing, PrevOf, From, Build
<1>6. Emptied'
  <2>1. \A m \in Machines : (Destroyed(m) => Destroyed(m)') /\ (Settled(m) => Settled(m)')
    BY DEF Destroyed, NoneOf, Strays, Settled, ExternalAuthorized
  <2>2. DestroyHonest => DestroyHonest'
    BY DEF DestroyHonest, Remains
  <2> QED
    BY <2>1, <2>2 DEF OpsInv, Emptied, AllIdle
<1>7. Paid'
  BY DEF OpsInv, Paid, PaysFor, Wanted
<1> QED
  BY <1>1, <1>2, <1>3, <1>4, <1>5, <1>6, <1>7 DEF OpsInv

(* The invariant holds of every behaviour of the commands: any number of checkouts, builds and
   locations, commands and failed calls. *)
THEOREM OpsInvariant == Spec => []OpsInv
<1>1. Init => OpsInv
  BY InitObjects, InitQuiet, InitRecords, InitStanding DEF OpsInv
<1>2. OpsInv /\ [Next]_vars => OpsInv'
  <2>1. ASSUME OpsInv, Next
        PROVE  OpsInv'
    BY <2>1, TypesStep, RecordsStep, AnnotatedStep, StandingStep, EmptiedStep, PaidStep DEF OpsInv
  <2> QED
    BY <2>1, OpsInvStutters
<1> QED
  BY <1>1, <1>2, PTL DEF Spec

(* Every command keeps the types of the release, its records and the managed cache. *)
THEOREM OperationsTypes == Spec => []TypeOK
<1>1. OpsInv => TypeOK
  BY DEF OpsInv, Types
<1> QED
  BY <1>1, OpsInvariant, PTL

(* The recorded build, and the rollback target a deploy recorded, keep their Deployment, dispatch
   Secret, routing manifest and plan through every deploy, failed upgrade, rollback, sweep and
   first sync (deploy.ts's transfer out of Helm's release, gc.ts, migrate.ts), and no Deployment
   loses the Secret its pods read. *)
THEOREM RecordedBuildsWhole == Spec => []BuildsWhole
<1>1. OpsInv => BuildsWhole
  <2> SUFFICES ASSUME OpsInv, ~torn, state # NoState
               PROVE  /\ Whole(state.build) \subseteq live
                      /\ state.build \in Wide => Stable \in live
                      /\ state.prev # NoBuild /\ ~state.reverted => Whole(state.prev) \subseteq live
                      /\ \A b \in Builds : Deployment(b) \in live => Secret(b) \in live
    BY DEF BuildsWhole
  <2>1. state.prev # NoBuild => state.prev \in Builds
    BY DEF OpsInv, Types, TypeOK, Record
  <2> QED
    BY <2>1 DEF OpsInv, Standing, Whole
<1> QED
  BY <1>1, OpsInvariant, PTL

(* A destroy that reports success has left nothing of the release in the cluster but the
   unlabelled HPAs that were stray when it began; and of the cloud resources and paid caches its
   plans list, or without any its infrastructure file, only what it reported as skipped
   (destroy.ts). *)
THEOREM DestroyIsHonest == Spec => []DestroyHonest
<1>1. OpsInv => DestroyHonest
  BY DEF OpsInv, Emptied
<1> QED
  BY <1>1, OpsInvariant, PTL

(* No step of a deploy leaves a paid Memorystore instance that no checkout's coordinates name:
   the intent is recorded before the cloud is called, and the coordinates go last
   (deploy.ts, managed-cache-cleanup.ts). *)
THEOREM PaidCacheStaysNamed == Spec => PaidCacheNamed
<1>1. OpsInv /\ [Next]_vars =>
        [\A l \in Locations :
            (instance'[l] # "none" /\ ~Named(l)') =>
                \/ instance[l] # "none" /\ ~Named(l)
                \/ \E m \in Machines : cmd[m].destroy]_vars
  BY NamedStep DEF OpsInv
<1> QED
  BY <1>1, OpsInvariant, PTL DEF Spec, PaidCacheNamed
===============================================================================
