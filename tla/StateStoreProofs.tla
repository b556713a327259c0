-------------------------- MODULE StateStoreProofs --------------------------
(***************************************************************************)
(* Proofs about StateStore, for any set of operators, Jobs, checkouts and  *)
(* builds.  The inductive invariant says what a write in flight guarantees *)
(* as long as the resourceVersion it read is still current.  Two more are  *)
(* built on it: what the local files may be ahead of, and what the stamps  *)
(* of all copies in existence say of each other.                           *)
(***************************************************************************)
EXTENDS StateStore, TLAPS

-----------------------------------------------------------------------------
(* The variables a process owns keep their types. *)
ProcTypeOK ==
    /\ pc \in [Procs -> Stages]
    /\ localSeen \in [Procs -> State \cup {NoState}]
    /\ base \in [Procs -> State \cup {NoState}]
    /\ baseFrom \in [Procs -> {"cluster", "local", "none"}]
    /\ target \in [Procs -> State \cup {NoState}]
    /\ seenRv \in [Procs -> Nat]
    /\ outcome \in [Procs -> Outcomes]

(* The shared stores keep theirs. *)
StoreTypeOK ==
    /\ cluster \in State \cup {NoState}
    /\ rv \in Nat
    /\ local \in [Checkouts -> State \cup {NoState, Corrupt}]
    /\ clock \in Nat
    /\ wire \subseteq [proc: Procs, rv: Nat, state: State]

(* A process inside writeState has a record to write. *)
TargetTyped ==
    \A p \in Procs : pc[p] \in {"readForWrite", "put"} => target[p] \in State

(* The atomic rename puts a record into one local file. *)
LEMMA WriteLocalTyped ==
    ASSUME StoreTypeOK, NEW p, NEW s \in State, WriteLocal(p, s)
    PROVE  local' \in [Checkouts -> State \cup {NoState, Corrupt}]
  BY DEF StoreTypeOK, WriteLocal

(* End returns a process to its initial, well-typed condition. *)
LEMMA EndTyped ==
    ASSUME ProcTypeOK, NEW p \in Procs, NEW r \in Outcomes, End(p, r)
    PROVE  ProcTypeOK'
  BY DEF ProcTypeOK, End, Stages

(* A writeState that throws leaves its process well-typed. *)
LEMMA FailTyped ==
    ASSUME ProcTypeOK, NEW p \in Procs, NEW r \in Outcomes, Fail(p, r)
    PROVE  ProcTypeOK'
<1>1. CASE End(p, r)
  BY <1>1, EndTyped
<1>2. CASE ~End(p, r)
  BY <1>2 DEF ProcTypeOK, Fail, Stages
<1> QED
  BY <1>1, <1>2

(* A readState that returns leaves its process well-typed. *)
LEMMA HoldTyped ==
    ASSUME ProcTypeOK, NEW p \in Procs, NEW s \in State \cup {NoState},
           NEW from \in {"cluster", "local", "none"}, Hold(p, s, from)
    PROVE  ProcTypeOK'
  BY DEF ProcTypeOK, Hold, Stages

(* writeState's body is a record before it is stamped. *)
LEMMA BeginWriteTyped ==
    ASSUME TypeOK, NEW p \in Procs, NEW b \in Builds,
           NEW prev \in Builds \cup {NoBuild}, BeginWrite(p, b, prev),
           outcome' \in [Procs -> Outcomes]
    PROVE  TypeOK' /\ target'[p] \in State
<1> DEFINE t == [buildId |-> b, previousBuildId |-> prev, generation |-> 0,
                 stamp |-> 0,
                 lineage |-> IF base[p] = NoState THEN {}
                             ELSE base[p].lineage \cup {base[p].stamp},
                 origin |-> baseFrom[p]]
<1>1. t.lineage \in SUBSET Nat
  BY DEF TypeOK, State
<1>2. t \in State
  BY <1>1 DEF TypeOK, State
<1>3. OwnFileQuiet(p) \in State \cup {NoState}
  BY ConstantsAssumption DEF TypeOK, OwnFileQuiet, OwnFile, Procs
<1>4. target' = [target EXCEPT ![p] = t]
  BY DEF BeginWrite
<1>5. target' \in [Procs -> State \cup {NoState}] /\ target'[p] \in State
  BY <1>2, <1>4 DEF TypeOK
<1> QED
  BY <1>3, <1>5 DEF TypeOK, BeginWrite, Stages

(* Stamping keeps a record a record. *)
LEMMA StampedTyped ==
    ASSUME TypeOK, NEW p \in Procs, NEW g \in Nat, target[p] \in State
    PROVE  /\ Stamped(p, g) \in State
           /\ Stamped(p, g).generation > g
           /\ Stamped(p, g).generation > generationOf(base[p])
           /\ Stamped(p, g).lineage = target[p].lineage
           /\ Stamped(p, g).origin = target[p].origin
<1>1. generationOf(localSeen[p]) \in Nat /\ generationOf(base[p]) \in Nat
  BY DEF TypeOK, generationOf, State
<1>2. /\ NextGeneration(p, g) \in Nat
      /\ NextGeneration(p, g) > g
      /\ NextGeneration(p, g) > generationOf(base[p])
  BY <1>1 DEF NextGeneration, Max2
<1>3. PICK g1 \in Nat : g1 = NextGeneration(p, g)
  BY <1>2
<1>4. Stamped(p, g) = [target[p] EXCEPT !.generation = g1, !.stamp = clock + 1]
  BY <1>3 DEF Stamped
<1>5. clock + 1 \in Nat
  BY DEF TypeOK
<1>6. Stamped(p, g) \in State
  BY <1>4, <1>5 DEF State
<1>7. /\ Stamped(p, g).generation = g1
      /\ Stamped(p, g).lineage = target[p].lineage
      /\ Stamped(p, g).origin = target[p].origin
  BY <1>4 DEF State
<1> QED
  BY <1>2, <1>3, <1>6, <1>7

(* What the wire carries and what readState compares are records. *)
LEMMA ServerTyped ==
    ASSUME TypeOK, NEW req \in wire, Server(req)
    PROVE  TypeOK'
<1>1. req.proc \in Procs /\ req.state \in State /\ req.rv \in Nat
  BY DEF TypeOK
<1>2. ProcTypeOK
  BY DEF TypeOK, ProcTypeOK
<1>3. ProcTypeOK'
  <2>1. CASE End(req.proc, "committed")
    BY <1>1, <1>2, <2>1, EndTyped DEF Outcomes
  <2>2. CASE UNCHANGED <<pc, outcome, memory>>
    BY <1>2, <2>2 DEF ProcTypeOK, memory
  <2>3. CASE req.rv # rv
    BY <1>1, <1>2, <2>3 DEF Server, ProcTypeOK, memory, Stages
  <2> QED
    BY <2>1, <2>2, <2>3 DEF Server
<1> QED
  BY <1>1, <1>3 DEF Server, TypeOK, ProcTypeOK

(* Every step keeps the types. *)
LEMMA TypeStep ==
    ASSUME TypeOK, TargetTyped, [Next]_vars
    PROVE  TypeOK'
<1>1. ProcTypeOK
  BY DEF TypeOK, ProcTypeOK
<1>2. StoreTypeOK
  BY DEF TypeOK, StoreTypeOK
<1>3. ASSUME ProcTypeOK', StoreTypeOK' PROVE TypeOK'
  BY <1>3 DEF ProcTypeOK, StoreTypeOK, TypeOK
<1>4. ASSUME NEW p \in Procs, Read(p) PROVE TypeOK'
  <2>1. StoreTypeOK'
    BY <1>2, <1>4 DEF StoreTypeOK, Read, ReadLocal, ReadCluster, ReadClusterFails,
       RecoverFromSelectors
  <2>2. CASE ReadLocal(p)
    <3>1. CASE End(p, "readFailed")
      BY <1>1, <1>3, <2>1, <3>1, EndTyped DEF Outcomes
    <3>2. CASE ~End(p, "readFailed")
      <4>1. OwnFile(p) \in State \cup {NoState, Corrupt}
        BY ConstantsAssumption DEF TypeOK, OwnFile, Procs
      <4>2. ProcTypeOK'
        BY <1>1, <2>2, <3>2, <4>1 DEF ReadLocal, ProcTypeOK, Stages, Outcomes
      <4> QED BY <1>3, <2>1, <4>2
    <3> QED BY <3>1, <3>2
  <2>3. CASE ReadCluster(p)
    <3>1. CASE End(p, "disagreement")
      BY <1>1, <1>3, <2>1, <3>1, EndTyped DEF Outcomes
    <3>2. CASE Hold(p, cluster, "cluster")
      BY <1>1, <1>2, <1>3, <2>1, <3>2, HoldTyped DEF StoreTypeOK
    <3>3. localSeen[p] \in State \cup {NoState}
      BY DEF TypeOK
    <3>4. CASE \E from \in {"local", "none"} : Hold(p, localSeen[p], from)
      <4>1. PICK from \in {"local", "none"} : Hold(p, localSeen[p], from)
        BY <3>4
      <4> QED
        BY <1>1, <1>3, <2>1, <3>3, <4>1, HoldTyped
    <3> QED
      BY <2>3, <3>1, <3>2, <3>4 DEF ReadCluster
  <2>4. CASE ReadClusterFails(p)
    BY <1>1, <1>3, <2>1, <2>4, EndTyped DEF ReadClusterFails, Outcomes
  <2>5. CASE RecoverFromSelectors(p)
    <3>1. ProcTypeOK'
      BY <1>1, <2>5 DEF RecoverFromSelectors, ProcTypeOK, memory, Stages, Outcomes
    <3> QED BY <1>3, <2>1, <3>1
  <2> QED
    BY <1>4, <2>2, <2>3, <2>4, <2>5 DEF Read
<1>5. ASSUME NEW p \in Procs, Begin(p) PROVE TypeOK'
  <2>1. outcome' \in [Procs -> Outcomes]
    BY <1>1, <1>5 DEF Begin, CommitDeploy, CommitFirst, CommitRollback,
         RecordFailedPromotion, ProcTypeOK, Outcomes
  <2>2. base[p] # NoState => /\ base[p].buildId \in Builds
                             /\ base[p].previousBuildId \in Builds \cup {NoBuild}
    BY DEF TypeOK, State
  <2>3. ASSUME NEW b \in Builds, CommitDeploy(p, b) PROVE TypeOK'
    BY <2>1, <2>2, <2>3, BeginWriteTyped DEF CommitDeploy
  <2>4. ASSUME NEW b \in Builds, NEW prev \in Builds \cup {NoBuild},
               CommitFirst(p, b, prev)
        PROVE TypeOK'
    BY <2>1, <2>4, BeginWriteTyped DEF CommitFirst
  <2>5. CASE CommitRollback(p)
    BY <2>1, <2>2, <2>5, BeginWriteTyped DEF CommitRollback
  <2>6. CASE RecordFailedPromotion(p)
    BY <2>1, <2>2, <2>6, BeginWriteTyped DEF RecordFailedPromotion
  <2> QED
    BY <1>5, <2>3, <2>4, <2>5, <2>6 DEF Begin
<1>6. ASSUME NEW p \in Procs, ReadForWrite(p), target[p] \in State PROVE TypeOK'
  <2>1. generationOf(cluster) \in Nat
    BY DEF TypeOK, generationOf, State
  <2>2. CASE Fail(p, "moved") /\ UNCHANGED <<local, clock>>
    <3>1. ProcTypeOK'
      BY <1>1, <2>2, FailTyped DEF Outcomes
    <3> QED
      BY <1>2, <1>3, <1>6, <2>2, <3>1 DEF ReadForWrite, StoreTypeOK
  <2>3. CASE ~(Fail(p, "moved") /\ UNCHANGED <<local, clock>>)
    <3> DEFINE s == Stamped(p, generationOf(cluster))
    <3>1. s \in State
      BY <1>6, <2>1, StampedTyped
    <3> HIDE DEF s
    <3>2. /\ target' = [target EXCEPT ![p] = s]
          /\ WriteLocal(p, s)
          /\ seenRv' = [seenRv EXCEPT ![p] = rv]
          /\ clock' = clock + 1
          /\ pc' = [pc EXCEPT ![p] = "put"]
          /\ UNCHANGED <<outcome, localSeen, base, baseFrom, cluster, rv, wire>>
      BY <1>6, <2>3 DEF ReadForWrite, s
    <3>3. ProcTypeOK'
      BY <1>1, <1>2, <3>1, <3>2 DEF ProcTypeOK, StoreTypeOK, Stages
    <3>4. StoreTypeOK'
      BY <1>2, <3>1, <3>2, WriteLocalTyped DEF StoreTypeOK
    <3> QED BY <1>3, <3>3, <3>4
  <2> QED BY <2>2, <2>3
<1>7. ASSUME NEW p \in Procs, ReadForWriteFails(p), target[p] \in State PROVE TypeOK'
  <2>1. ProcTypeOK'
    BY <1>1, <1>7, FailTyped DEF ReadForWriteFails, Outcomes
  <2>2. Stamped(p, 0) \in State
    BY <1>7, StampedTyped
  <2>3. StoreTypeOK'
    BY <1>2, <1>7, <2>2, WriteLocalTyped DEF ReadForWriteFails, StoreTypeOK
  <2> QED BY <1>3, <2>1, <2>3
<1>8. ASSUME NEW p \in Procs, Put(p), target[p] \in State PROVE TypeOK'
  BY <1>8 DEF Put, TypeOK, memory, Stages
<1>9. ASSUME NEW p \in Procs, PutTimeout(p) PROVE TypeOK'
  BY <1>9 DEF PutTimeout, TypeOK, memory, Stages
<1>10. ASSUME NEW p \in Procs, Classify(p) \/ ClassifyUnreadable(p) PROVE TypeOK'
  <2>1. \E r \in Outcomes : Fail(p, r)
    BY <1>10 DEF Classify, ClassifyUnreadable, Outcomes
  <2>2. ProcTypeOK'
    BY <1>1, <2>1, FailTyped
  <2> QED
    BY <1>2, <1>3, <1>10, <2>2 DEF Classify, ClassifyUnreadable, StoreTypeOK
<1>11. ASSUME NEW p \in Procs, Crash(p) PROVE TypeOK'
  <2>1. ProcTypeOK'
    BY <1>1, <1>11, EndTyped DEF Crash, Outcomes
  <2> QED
    BY <1>2, <1>3, <1>11, <2>1 DEF Crash, StoreTypeOK
<1>12. ASSUME NEW req \in wire, Drop(req) PROVE TypeOK'
  BY <1>12 DEF Drop, TypeOK, memory
<1>13. ASSUME NEW c \in Checkouts, LoseLocal(c) PROVE TypeOK'
  BY <1>13 DEF LoseLocal, TypeOK, memory
<1>14. CASE UNCHANGED vars
  BY <1>14 DEF vars, memory, TypeOK
<1>15. ASSUME NEW p \in Procs, Write(p) PROVE TypeOK'
  BY <1>6, <1>7, <1>8, <1>9, <1>10, <1>15
     DEF Write, TargetTyped, ReadForWrite, ReadForWriteFails, Put
<1> QED
  BY <1>4, <1>5, <1>11, <1>12, <1>13, <1>14, <1>15, ServerTyped DEF Next

-----------------------------------------------------------------------------
(* The inductive invariant. *)
IInv == TypeOK /\ Fenced

(* A stamped write that passed S19 may follow the record it read. *)
LEMMA StampSupersedes ==
    ASSUME TypeOK, BaseFence, TargetFence, NEW p \in Procs,
           pc[p] = "readForWrite", ~MovedSince(p, generationOf(cluster))
    PROVE  Supersedes(Stamped(p, generationOf(cluster)))
<1> DEFINE s == Stamped(p, generationOf(cluster))
<1>1. generationOf(cluster) \in Nat
  BY DEF TypeOK, generationOf, State
<1>2. /\ s.generation > generationOf(cluster)
      /\ s.lineage = target[p].lineage
      /\ s.origin = target[p].origin
  BY <1>1, StampedTyped DEF TargetFence
<1>3. ASSUME s.origin = "cluster", cluster \in State
      PROVE  cluster.stamp \in s.lineage
  <2>1. baseFrom[p] = "cluster"
    BY <1>2, <1>3 DEF TargetFence
  <2>2. base[p] \in State /\ base[p] # NoState
    BY <2>1, ConstantsAssumption DEF BaseFence
  <2>3. ~(cluster.generation > base[p].generation)
    BY <1>3, <2>2 DEF MovedSince, generationOf
  <2>4. base[p] = cluster
    BY <1>3, <2>1, <2>2, <2>3 DEF BaseFence, State
  <2> QED
    BY <1>2, <2>1, <2>4 DEF TargetFence
<1> QED
  BY <1>2, <1>3 DEF Supersedes

(* A process that ends, or goes back to hold its base, keeps the fences. *)
LEMMA EndFenced ==
    ASSUME IInv, NEW p \in Procs, NEW r, End(p, r) \/ Fail(p, r),
           UNCHANGED <<cluster, rv, wire>>
    PROVE  Fenced'
<1>1. \A q \in Procs : q # p => /\ pc'[q] = pc[q]
                                /\ base'[q] = base[q]
                                /\ baseFrom'[q] = baseFrom[q]
                                /\ target'[q] = target[q]
                                /\ seenRv'[q] = seenRv[q]
  BY DEF IInv, TypeOK, End, Fail
<1>2. pc'[p] \in {"idle", "holding"}
  BY DEF IInv, TypeOK, End, Fail
<1>3. baseFrom'[p] = "cluster" => baseFrom[p] = "cluster" /\ base'[p] = base[p]
  BY DEF IInv, TypeOK, End, Fail
<1>4. BaseFence'
  BY <1>1, <1>3 DEF IInv, Fenced, BaseFence
<1>5. TargetFence'
  BY <1>1, <1>2 DEF IInv, Fenced, TargetFence
<1>6. PutFence'
  BY <1>1, <1>2 DEF IInv, Fenced, PutFence, Supersedes
<1>7. WireFence'
  BY DEF IInv, Fenced, WireFence, Supersedes
<1> QED
  BY <1>4, <1>5, <1>6, <1>7 DEF Fenced

(* Every step keeps the fences. *)
LEMMA FenceStep ==
    ASSUME IInv, [Next]_vars
    PROVE  Fenced'
<1> USE DEF IInv
<1>1. TypeOK'
  BY TypeStep DEF Fenced, TargetFence, PutFence, TargetTyped
<1>2. ASSUME NEW p \in Procs, NEW s, NEW from, Hold(p, s, from),
             UNCHANGED <<cluster, rv, wire>>,
             from = "cluster" => s = cluster /\ cluster \in State
      PROVE  Fenced'
  <2>1. \A q \in Procs : q # p => /\ pc'[q] = pc[q]
                                  /\ base'[q] = base[q]
                                  /\ baseFrom'[q] = baseFrom[q]
    BY <1>2 DEF TypeOK, Hold
  <2>2. pc'[p] = "holding" /\ base'[p] = s /\ baseFrom'[p] = from
    BY <1>2 DEF TypeOK, Hold
  <2>3. BaseFence'
    BY <1>2, <2>1, <2>2 DEF Fenced, BaseFence, State
  <2>4. TargetFence' /\ PutFence' /\ WireFence'
    BY <1>2, <2>1, <2>2
       DEF Fenced, TargetFence, PutFence, WireFence, Supersedes, Hold
  <2> QED BY <2>3, <2>4 DEF Fenced
<1>3. ASSUME NEW p \in Procs, Read(p) PROVE Fenced'
  <2>1. CASE ReadLocal(p)
    <3>1. CASE End(p, "readFailed")
      BY <2>1, <3>1, EndFenced DEF ReadLocal
    <3>2. CASE ~End(p, "readFailed")
      BY <2>1, <3>2 DEF ReadLocal, TypeOK, Fenced, BaseFence, TargetFence,
           PutFence, WireFence, Supersedes
    <3> QED BY <3>1, <3>2
  <2>2. CASE ReadCluster(p)
    <3>1. CASE End(p, "disagreement")
      BY <2>2, <3>1, EndFenced DEF ReadCluster
    <3>2. CASE Hold(p, cluster, "cluster") /\ cluster # NoState
      BY <1>2, <2>2, <3>2 DEF ReadCluster, TypeOK
    <3>3. ASSUME NEW from \in {"local", "none"}, Hold(p, localSeen[p], from)
          PROVE  Fenced'
      BY <1>2, <2>2, <3>3 DEF ReadCluster
    <3> QED
      BY <2>2, <3>1, <3>2, <3>3 DEF ReadCluster
  <2>3. CASE ReadClusterFails(p)
    BY <2>3, EndFenced DEF ReadClusterFails
  <2>4. CASE RecoverFromSelectors(p)
    BY <2>4 DEF RecoverFromSelectors, memory, TypeOK, Fenced, BaseFence,
         TargetFence, PutFence, WireFence, Supersedes
  <2> QED
    BY <1>3, <2>1, <2>2, <2>3, <2>4 DEF Read
<1>4. ASSUME NEW p \in Procs, NEW b \in Builds, NEW prev \in Builds \cup {NoBuild},
             BeginWrite(p, b, prev), outcome' \in [Procs -> Outcomes]
      PROVE  Fenced'
  <2>1. \A q \in Procs : q # p => pc'[q] = pc[q] /\ target'[q] = target[q]
    BY <1>4 DEF TypeOK, BeginWrite
  <2>2. /\ pc'[p] = "readForWrite"
        /\ target'[p].origin = baseFrom[p]
        /\ base[p] # NoState => base[p].stamp \in target'[p].lineage
    BY <1>4 DEF TypeOK, BeginWrite
  <2>3. UNCHANGED <<cluster, rv, wire, base, baseFrom, seenRv>>
    BY <1>4 DEF BeginWrite
  <2>4. target'[p] \in State
    BY <1>4, BeginWriteTyped
  <2>5. BaseFence' /\ WireFence'
    BY <2>3 DEF Fenced, BaseFence, WireFence, Supersedes
  <2>6. TargetFence'
    BY <2>1, <2>2, <2>3, <2>4, ConstantsAssumption DEF Fenced, TargetFence, BaseFence
  <2>7. PutFence'
    BY <2>1, <2>2, <2>3 DEF Fenced, PutFence, Supersedes
  <2> QED BY <2>5, <2>6, <2>7 DEF Fenced
<1>5. ASSUME NEW p \in Procs, Begin(p) PROVE Fenced'
  <2>1. outcome' \in [Procs -> Outcomes]
    BY <1>1 DEF TypeOK
  <2>2. base[p] # NoState => /\ base[p].buildId \in Builds
                             /\ base[p].previousBuildId \in Builds \cup {NoBuild}
    BY DEF TypeOK, State
  <2> QED
    BY <1>4, <1>5, <2>1, <2>2 DEF Begin, CommitDeploy, CommitFirst, CommitRollback,
         RecordFailedPromotion
<1>6. ASSUME NEW p \in Procs, ReadForWrite(p) PROVE Fenced'
  <2>1. CASE Fail(p, "moved")
    BY <1>6, <2>1, EndFenced DEF ReadForWrite
  <2>2. CASE ~Fail(p, "moved")
    <3> DEFINE s == Stamped(p, generationOf(cluster))
    <3>1. /\ ~MovedSince(p, generationOf(cluster))
          /\ target' = [target EXCEPT ![p] = s]
          /\ seenRv' = [seenRv EXCEPT ![p] = rv]
          /\ pc' = [pc EXCEPT ![p] = "put"]
          /\ UNCHANGED <<base, baseFrom, cluster, rv, wire>>
      BY <1>6, <2>2 DEF ReadForWrite
    <3>2. Supersedes(s)
      BY <1>6, <3>1, StampSupersedes DEF Fenced, ReadForWrite
    <3>3. s \in State
      <4>1. generationOf(cluster) \in Nat
        BY DEF TypeOK, generationOf, State
      <4> QED
        BY <1>6, <4>1, StampedTyped DEF Fenced, TargetFence, ReadForWrite
    <3> HIDE DEF s
    <3>4. /\ pc'[p] = "put" /\ target'[p] = s /\ seenRv'[p] = rv
          /\ \A q \in Procs : q # p => /\ pc'[q] = pc[q]
                                        /\ target'[q] = target[q]
                                        /\ seenRv'[q] = seenRv[q]
      BY <3>1 DEF TypeOK
    <3>5. BaseFence' /\ WireFence'
      BY <3>1 DEF Fenced, BaseFence, WireFence, Supersedes
    <3>6. TargetFence'
      BY <3>1, <3>4 DEF Fenced, TargetFence
    <3>7. PutFence'
      BY <3>1, <3>2, <3>3, <3>4 DEF Fenced, PutFence, Supersedes, TypeOK
    <3> QED BY <3>5, <3>6, <3>7 DEF Fenced
  <2> QED BY <2>1, <2>2
<1>7. ASSUME NEW p \in Procs, Put(p) PROVE Fenced'
  <2>1. /\ pc' = [pc EXCEPT ![p] = "awaitPut"]
        /\ wire' = wire \cup {[proc |-> p, rv |-> seenRv[p], state |-> target[p]]}
        /\ UNCHANGED <<cluster, rv, base, baseFrom, target, seenRv>>
    BY <1>7 DEF Put, memory
  <2>2. BaseFence' /\ TargetFence' /\ PutFence'
    BY <2>1 DEF Fenced, BaseFence, TargetFence, PutFence, Supersedes, TypeOK
  <2>3. WireFence'
    BY <1>7, <2>1 DEF Fenced, WireFence, PutFence, Supersedes, Put
  <2> QED BY <2>2, <2>3 DEF Fenced
<1>8. ASSUME NEW p \in Procs, PutTimeout(p) PROVE Fenced'
  BY <1>8 DEF PutTimeout, memory, TypeOK, Fenced, BaseFence, TargetFence,
       PutFence, WireFence, Supersedes
<1>9. ASSUME NEW p \in Procs,
             \/ ReadForWriteFails(p) \/ Classify(p) \/ ClassifyUnreadable(p) \/ Crash(p)
      PROVE  Fenced'
  BY <1>9, EndFenced DEF ReadForWriteFails, Classify, ClassifyUnreadable, Crash
<1>10. ASSUME NEW req \in wire, Server(req) PROVE Fenced'
  <2>1. req.state \in State /\ req.proc \in Procs
    BY DEF TypeOK
  <2>2. CASE req.rv = rv
    <3>1. cluster' = req.state /\ rv' = rv + 1 /\ wire' \subseteq wire
      BY <1>10, <2>2 DEF Server
    <3>2. \A q \in Procs : /\ baseFrom'[q] = "cluster" =>
                                 baseFrom[q] = "cluster" /\ base'[q] = base[q]
                           /\ pc'[q] \in {"readForWrite", "put"} =>
                                 /\ pc'[q] = pc[q] /\ target'[q] = target[q]
                                 /\ seenRv'[q] = seenRv[q] /\ baseFrom'[q] = baseFrom[q]
                                 /\ base'[q] = base[q]
      BY <1>10, <2>1, <2>2 DEF Server, End, memory, TypeOK
    <3>3. Supersedes(req.state)
      BY <2>2 DEF Fenced, WireFence
    <3>4. BaseFence'
      BY <2>1, <3>1, <3>2, <3>3 DEF Fenced, BaseFence, Supersedes, generationOf, State
    <3>5. TargetFence'
      BY <3>2 DEF Fenced, TargetFence
    <3>6. PutFence'
      BY <3>1, <3>2 DEF Fenced, PutFence, TypeOK
    <3>7. WireFence'
      BY <3>1 DEF Fenced, WireFence, TypeOK
    <3> QED BY <3>4, <3>5, <3>6, <3>7 DEF Fenced
  <2>3. CASE req.rv # rv
    BY <1>10, <2>1, <2>3 DEF Server, memory, TypeOK, Fenced, BaseFence, TargetFence,
         PutFence, WireFence, Supersedes
  <2> QED BY <2>2, <2>3
<1>11. ASSUME NEW req \in wire, Drop(req) PROVE Fenced'
  BY <1>11 DEF Drop, memory, Fenced, BaseFence, TargetFence, PutFence, WireFence,
       Supersedes
<1>12. ASSUME NEW c \in Checkouts, LoseLocal(c) PROVE Fenced'
  BY <1>12 DEF LoseLocal, memory, Fenced, BaseFence, TargetFence, PutFence,
       WireFence, Supersedes
<1>13. CASE UNCHANGED vars
  BY <1>13 DEF vars, memory, Fenced, BaseFence, TargetFence, PutFence, WireFence,
       Supersedes
<1>14. ASSUME NEW p \in Procs, Write(p) PROVE Fenced'
  BY <1>6, <1>7, <1>8, <1>9, <1>14 DEF Write
<1> QED
  BY <1>3, <1>5, <1>9, <1>10, <1>11, <1>12, <1>13, <1>14 DEF Next

(* The inductive invariant holds initially. *)
LEMMA InitIInv == Init => IInv
<1> SUFFICES ASSUME Init PROVE IInv
  OBVIOUS
<1>1. \A b \in Builds : Seed(b) \in State
  BY DEF Seed, State
<1>2. cluster \in State \cup {NoState}
  BY <1>1 DEF Init
<1>3. TypeOK
  BY <1>2, ConstantsAssumption DEF Init, TypeOK, Stages, Outcomes
<1>4. Fenced
  BY DEF Init, Fenced, BaseFence, TargetFence, PutFence, WireFence
<1> QED BY <1>3, <1>4 DEF IInv

(* Type correctness and the fences hold in every state of every behaviour:  *)
(* whatever subset of reads, writes and timeouts overlap, a write whose     *)
(* resourceVersion is current may follow the record in the ConfigMap.       *)
THEOREM FencedAlways == Spec => [](TypeOK /\ Fenced)
<1>1. IInv /\ [Next]_vars => IInv'
  BY TypeStep, FenceStep DEF IInv, Fenced, TargetFence, PutFence, TargetTyped
<1> QED
  BY <1>1, InitIInv, PTL DEF Spec, IInv

(* What a step does to the ConfigMap follows from the fence on the wire. *)
LEMMA ClusterStep ==
    ASSUME IInv, [Next]_vars, cluster' # cluster
    PROVE  cluster' \in State /\ Supersedes(cluster')
<1>1. \E req \in wire : Server(req) /\ req.rv = rv /\ cluster' = req.state
  BY DEF Next, vars, Read, ReadLocal, ReadCluster, ReadClusterFails,
     RecoverFromSelectors, Begin, CommitDeploy, CommitFirst, CommitRollback,
     RecordFailedPromotion, BeginWrite, Write, ReadForWrite, ReadForWriteFails,
     Put, PutTimeout, Classify, ClassifyUnreadable, Crash, Drop, LoseLocal, Server
<1> QED
  BY <1>1 DEF IInv, TypeOK, Fenced, WireFence

(* No lost update (N23, S19), for any number of processes: a record whose   *)
(* writer based it on a ConfigMap record replaces only a record it descends *)
(* from.                                                                     *)
THEOREM NoLostUpdateTheorem == Spec => NoLostUpdate
<1>1. ASSUME IInv, [Next]_vars PROVE [DescendsFromReplaced]_vars
  BY <1>1, ClusterStep DEF DescendsFromReplaced, Supersedes, IInv, TypeOK
<1> QED
  BY <1>1, FencedAlways, PTL DEF Spec, IInv, NoLostUpdate

(* The generation of the ConfigMap's record only grows (N21). *)
THEOREM GenerationGrowsTheorem == Spec => GenerationGrows
<1>1. ASSUME IInv, [Next]_vars
      PROVE  [cluster' # cluster => generationOf(cluster') > generationOf(cluster)]_vars
  BY <1>1, ClusterStep DEF Supersedes, generationOf
<1> QED
  BY <1>1, FencedAlways, PTL DEF Spec, IInv, GenerationGrows

-----------------------------------------------------------------------------
(* The ledger. *)

(* The build pointers of s are those of a promotion over c, of c rolled     *)
(* back, or c's own.                                                        *)
PointerStep(c, s) ==
    \/ s.buildId # c.buildId /\ s.previousBuildId = c.buildId
    \/ /\ c.previousBuildId # NoBuild
       /\ s.buildId = c.previousBuildId /\ s.previousBuildId = c.buildId
    \/ s.buildId = c.buildId /\ s.previousBuildId = c.previousBuildId

(* A record whose writer had read the ConfigMap is one operation on it. *)
Applies(s) == s.origin = "cluster" => cluster \in State /\ PointerStep(cluster, s)

(* Every write under way that is based on the ConfigMap and may still be    *)
(* accepted is one ledger operation on the present record.                  *)
WriteInv ==
    /\ \A p \in Procs :
          /\ pc[p] = "readForWrite" /\ baseFrom[p] = "cluster"
             => PointerStep(base[p], target[p])
          /\ pc[p] = "put" /\ seenRv[p] = rv => Applies(target[p])
    /\ \A req \in wire : req.rv = rv => Applies(req.state)

(* A stamped write that passed S19 is an operation on the record its writer *)
(* had read, for that record is still the present one.                      *)
LEMMA StampApplies ==
    ASSUME IInv, WriteInv, NEW p \in Procs, pc[p] = "readForWrite",
           ~MovedSince(p, generationOf(cluster))
    PROVE  Applies(Stamped(p, generationOf(cluster)))
<1>1. target[p] \in State /\ target[p].origin = baseFrom[p]
  BY DEF IInv, Fenced, TargetFence
<1>2. /\ Stamped(p, generationOf(cluster)).origin = baseFrom[p]
      /\ Stamped(p, generationOf(cluster)).buildId = target[p].buildId
      /\ Stamped(p, generationOf(cluster)).previousBuildId = target[p].previousBuildId
  BY <1>1 DEF Stamped, State
<1>3. CASE baseFrom[p] = "cluster"
  <2>1. /\ base[p] \in State /\ base[p] # NoState /\ cluster \in State
        /\ base[p].generation <= cluster.generation
        /\ base[p].generation = cluster.generation => base[p] = cluster
    BY <1>3, ConstantsAssumption DEF IInv, Fenced, BaseFence
  <2>2. generationOf(cluster) = cluster.generation
    BY <2>1 DEF generationOf
  <2>3. base[p].generation \in Nat /\ cluster.generation \in Nat
    BY <2>1 DEF State
  <2>4. base[p] = cluster
    BY <2>1, <2>2, <2>3 DEF MovedSince
  <2> QED
    BY <1>2, <1>3, <2>1, <2>4 DEF WriteInv, Applies, PointerStep
<1> QED
  BY <1>2, <1>3 DEF Applies

(* Every step keeps WriteInv. *)
LEMMA WriteStep ==
    ASSUME IInv, WriteInv, [Next]_vars
    PROVE  WriteInv'
<1> USE DEF IInv
<1>1. ASSUME NEW p \in Procs, UNCHANGED <<cluster, rv, wire>>,
             pc'[p] \notin {"readForWrite", "put"},
             \A q \in Procs : q # p => /\ pc'[q] = pc[q]
                                       /\ base'[q] = base[q]
                                       /\ baseFrom'[q] = baseFrom[q]
                                       /\ target'[q] = target[q]
                                       /\ seenRv'[q] = seenRv[q]
      PROVE  WriteInv'
  BY <1>1 DEF WriteInv, Applies
<1>2. ASSUME NEW p \in Procs, NEW r, End(p, r) \/ Fail(p, r),
             UNCHANGED <<cluster, rv, wire>>
      PROVE  WriteInv'
  <2>1. pc'[p] \notin {"readForWrite", "put"}
    BY <1>2 DEF TypeOK, End, Fail
  <2>2. \A q \in Procs : q # p => /\ pc'[q] = pc[q]
                                  /\ base'[q] = base[q]
                                  /\ baseFrom'[q] = baseFrom[q]
                                  /\ target'[q] = target[q]
                                  /\ seenRv'[q] = seenRv[q]
    BY <1>2 DEF TypeOK, End, Fail
  <2> QED BY <1>1, <1>2, <2>1, <2>2
<1>3. ASSUME NEW p \in Procs, Read(p) PROVE WriteInv'
  <2>1. CASE ReadLocal(p)
    <3>1. CASE End(p, "readFailed")
      BY <1>2, <2>1, <3>1 DEF ReadLocal
    <3>2. CASE ~End(p, "readFailed")
      <4>1. /\ pc' = [pc EXCEPT ![p] = "readCluster"]
            /\ UNCHANGED <<cluster, rv, wire, base, baseFrom, target, seenRv>>
        BY <2>1, <3>2 DEF ReadLocal
      <4> QED BY <1>1, <4>1 DEF TypeOK
    <3> QED BY <3>1, <3>2
  <2>2. ASSUME NEW s, NEW from, Hold(p, s, from), UNCHANGED <<cluster, rv, wire>>
        PROVE  WriteInv'
    BY <1>1, <2>2 DEF Hold, TypeOK
  <2>3. CASE ReadCluster(p)
    BY <1>2, <2>2, <2>3 DEF ReadCluster
  <2>4. CASE ReadClusterFails(p)
    BY <1>2, <2>4 DEF ReadClusterFails
  <2>5. CASE RecoverFromSelectors(p)
    BY <1>1, <2>5 DEF RecoverFromSelectors, memory, TypeOK
  <2> QED
    BY <1>3, <2>1, <2>3, <2>4, <2>5 DEF Read
<1>4. ASSUME NEW p \in Procs, NEW b, NEW prev, BeginWrite(p, b, prev),
             baseFrom[p] = "cluster" =>
                \/ b # base[p].buildId /\ prev = base[p].buildId
                \/ /\ base[p].previousBuildId # NoBuild
                   /\ b = base[p].previousBuildId /\ prev = base[p].buildId
                \/ b = base[p].buildId /\ prev = base[p].previousBuildId
      PROVE  WriteInv'
  <2>1. \A q \in Procs : q # p => pc'[q] = pc[q] /\ target'[q] = target[q]
    BY <1>4 DEF TypeOK, BeginWrite
  <2>2. /\ pc'[p] = "readForWrite"
        /\ target'[p].buildId = b /\ target'[p].previousBuildId = prev
        /\ UNCHANGED <<cluster, rv, wire, base, baseFrom, seenRv>>
    BY <1>4 DEF TypeOK, BeginWrite
  <2> QED
    BY <1>4, <2>1, <2>2 DEF WriteInv, Applies, PointerStep
<1>5. ASSUME NEW p \in Procs, Begin(p) PROVE WriteInv'
  <2>1. baseFrom[p] = "cluster" => base[p] # NoState
    BY ConstantsAssumption DEF Fenced, BaseFence
  <2>2. ASSUME NEW b \in Builds, CommitDeploy(p, b) PROVE WriteInv'
    BY <1>4, <2>2 DEF CommitDeploy
  <2>3. ASSUME NEW b, NEW prev, CommitFirst(p, b, prev) PROVE WriteInv'
    BY <1>4, <2>1, <2>3 DEF CommitFirst
  <2>4. CASE CommitRollback(p)
    BY <1>4, <2>4 DEF CommitRollback
  <2>5. CASE RecordFailedPromotion(p)
    BY <1>4, <2>5 DEF RecordFailedPromotion
  <2> QED
    BY <1>5, <2>2, <2>3, <2>4, <2>5 DEF Begin
<1>6. ASSUME NEW p \in Procs, ReadForWrite(p) PROVE WriteInv'
  <2>1. CASE Fail(p, "moved")
    BY <1>2, <1>6, <2>1 DEF ReadForWrite
  <2>2. CASE ~Fail(p, "moved")
    <3> DEFINE s == Stamped(p, generationOf(cluster))
    <3>1. /\ ~MovedSince(p, generationOf(cluster))
          /\ target' = [target EXCEPT ![p] = s]
          /\ seenRv' = [seenRv EXCEPT ![p] = rv]
          /\ pc' = [pc EXCEPT ![p] = "put"]
          /\ UNCHANGED <<base, baseFrom, cluster, rv, wire>>
      BY <1>6, <2>2 DEF ReadForWrite
    <3>2. Applies(s)
      BY <1>6, <3>1, StampApplies DEF ReadForWrite
    <3> HIDE DEF s
    <3> QED
      BY <3>1, <3>2 DEF WriteInv, Applies, TypeOK
  <2> QED BY <2>1, <2>2
<1>7. ASSUME NEW p \in Procs, Put(p) PROVE WriteInv'
  <2>1. /\ wire' = wire \cup {[proc |-> p, rv |-> seenRv[p], state |-> target[p]]}
        /\ pc[p] = "put" /\ pc' = [pc EXCEPT ![p] = "awaitPut"]
        /\ UNCHANGED <<cluster, rv, base, baseFrom, target, seenRv>>
    BY <1>7 DEF Put, memory
  <2> QED BY <2>1 DEF WriteInv, Applies, TypeOK
<1>8. ASSUME NEW p \in Procs, PutTimeout(p) PROVE WriteInv'
  BY <1>1, <1>8 DEF PutTimeout, memory, TypeOK
<1>9. ASSUME NEW p \in Procs,
             \/ ReadForWriteFails(p) \/ Classify(p) \/ ClassifyUnreadable(p) \/ Crash(p)
      PROVE  WriteInv'
  BY <1>2, <1>9 DEF ReadForWriteFails, Classify, ClassifyUnreadable, Crash
<1>10. ASSUME NEW req \in wire, Server(req) PROVE WriteInv'
  <2>1. req.state \in State /\ req.proc \in Procs
    BY DEF TypeOK
  <2>2. CASE req.rv = rv
    <3>1. cluster' = req.state /\ rv' = rv + 1 /\ wire' \subseteq wire
      BY <1>10, <2>2 DEF Server
    <3>2. \A q \in Procs :
             \/ /\ pc'[q] = pc[q]
                /\ base'[q] = base[q] /\ baseFrom'[q] = baseFrom[q]
                /\ target'[q] = target[q] /\ seenRv'[q] = seenRv[q]
             \/ pc'[q] = "idle"
      BY <1>10, <2>1, <2>2 DEF Server, End, memory, TypeOK
    <3>3. /\ \A q \in Procs : pc[q] = "put" => seenRv[q] # rv + 1
          /\ \A r \in wire : r.rv # rv + 1
      BY DEF Fenced, PutFence, WireFence, TypeOK
    <3> QED
      BY <3>1, <3>2, <3>3 DEF WriteInv
  <2>3. CASE req.rv # rv
    <3>1. /\ wire' \subseteq wire
          /\ \A q \in Procs : pc'[q] = pc[q] \/ pc'[q] = "classify"
          /\ UNCHANGED <<cluster, rv, base, baseFrom, target, seenRv>>
      BY <1>10, <2>1, <2>3 DEF Server, memory, TypeOK
    <3> QED BY <3>1 DEF WriteInv, Applies
  <2> QED BY <2>2, <2>3
<1>11. ASSUME NEW req \in wire, Drop(req) PROVE WriteInv'
  BY <1>11 DEF Drop, memory, WriteInv, Applies
<1>12. ASSUME NEW c \in Checkouts, LoseLocal(c) PROVE WriteInv'
  BY <1>12 DEF LoseLocal, memory, WriteInv, Applies
<1>13. CASE UNCHANGED vars
  BY <1>13 DEF vars, memory, WriteInv, Applies
<1>14. ASSUME NEW p \in Procs, Write(p) PROVE WriteInv'
  BY <1>6, <1>7, <1>8, <1>9, <1>14 DEF Write
<1> QED
  BY <1>3, <1>5, <1>9, <1>10, <1>11, <1>12, <1>13, <1>14 DEF Next

(* A step that changes the ConfigMap is a step of the ledger. *)
LEMMA LedgerStep ==
    ASSUME IInv, WriteInv, [Next]_vars, cluster' # cluster
    PROVE  Ledger!Next
<1>1. PICK req \in wire : req.rv = rv /\ cluster' = req.state
  BY DEF Next, vars, Read, ReadLocal, ReadCluster, ReadClusterFails,
     RecoverFromSelectors, Begin, CommitDeploy, CommitFirst, CommitRollback,
     RecordFailedPromotion, BeginWrite, Write, ReadForWrite, ReadForWriteFails,
     Put, PutTimeout, Classify, ClassifyUnreadable, Crash, Drop, LoseLocal, Server
<1>2. cluster' \in State /\ cluster'.generation > generationOf(cluster)
  BY ClusterStep DEF Supersedes
<1>3. /\ generationOf(cluster') > generationOf(cluster)
      /\ cluster'.buildId \in Builds
      /\ cluster'.previousBuildId \in Builds \cup {NoBuild}
      /\ cluster'.origin \in {"cluster", "local", "none"}
  BY <1>2 DEF generationOf, State
<1>4. CASE cluster'.origin = "cluster"
  <2>1. cluster \in State /\ PointerStep(cluster, cluster')
    BY <1>1, <1>4 DEF WriteInv, Applies
  <2>2. cluster.buildId # NoBuild
    BY <2>1, ConstantsAssumption DEF State
  <2>3. Ledger!Commit
    BY <1>2, <1>4, <2>1, <2>2
       DEF Ledger!Commit, Ledger!Promote, Ledger!Rollback, Ledger!RecordFailure,
           Exists, PointerStep
  <2> QED BY <1>2, <1>3, <2>3 DEF Ledger!Next, Exists
<1>5. CASE cluster'.origin # "cluster"
  <2>1. Ledger!Restore
    BY <1>2, <1>3, <1>5 DEF Ledger!Restore, Exists
  <2> QED BY <1>2, <1>3, <2>1 DEF Ledger!Next, Exists
<1> QED BY <1>4, <1>5

(* Refinement: the store implements the ledger, for any number of operators *)
(* and Jobs, whatever reads, writes, timeouts, lost answers and crashes     *)
(* overlap.                                                                  *)
THEOREM StoreImplementsLedger == Spec => ImplementsLedger
<1>1. ASSUME Init PROVE Ledger!Init /\ WriteInv
  <2>1. CASE Seeded
    <3>1. PICK b \in Builds : cluster = Seed(b)
      BY <1>1, <2>1 DEF Init
    <3>2. cluster \in State
      BY <3>1 DEF Seed, State
    <3> QED
      BY <1>1, <3>1, <3>2 DEF Init, Ledger!Init, Exists, Seed, generationOf, WriteInv
  <2>2. CASE ~Seeded
    <3>1. cluster = NoState /\ cluster \notin State
      BY <1>1, <2>2, ConstantsAssumption DEF Init
    <3> QED
      BY <1>1, <3>1 DEF Init, Ledger!Init, Exists, generationOf, WriteInv
  <2> QED BY <2>1, <2>2
<1>2. ASSUME IInv, WriteInv, [Next]_vars PROVE [Ledger!Next]_(Ledger!record)
  <2>1. CASE cluster' = cluster
    BY <2>1 DEF Ledger!record, Exists, generationOf
  <2>2. CASE cluster' # cluster
    BY <1>2, <2>2, LedgerStep
  <2> QED BY <2>1, <2>2
<1>3. ASSUME IInv, WriteInv, [Next]_vars PROVE WriteInv'
  BY <1>3, WriteStep
<1> QED
  BY <1>1, <1>2, <1>3, FencedAlways, PTL DEF Spec, IInv, ImplementsLedger, Ledger!Spec

-----------------------------------------------------------------------------
(***************************************************************************)
(* The local files                                                         *)
(***************************************************************************)

(* Each operator runs in a checkout of its own. *)
OwnCheckouts == \A p, q \in Operators : CheckoutOf[p] = CheckoutOf[q] => p = q

(* A file written on top of a ConfigMap record is at most one generation    *)
(* ahead of the ConfigMap, and then descends from its record.               *)
LocalFence ==
    \A c \in Checkouts : local[c] \in State /\ local[c].origin = "cluster" =>
        /\ cluster \in State
        /\ local[c].generation <= cluster.generation + 1
        /\ local[c].generation > cluster.generation => cluster.stamp \in local[c].lineage

(* The file of an operator that goes by the ConfigMap's record is not ahead *)
(* of it: readState chose the newer copy, and nobody else writes the file.  *)
FileBehind(p) ==
    /\ pc[p] \in {"idle", "readCluster"} => baseFrom[p] = "none"
    /\ pc[p] = "readCluster" =>
           generationOf(local[CheckoutOf[p]]) <= generationOf(localSeen[p])
    /\ pc[p] \in {"holding", "readForWrite"} /\ baseFrom[p] = "cluster" =>
           generationOf(local[CheckoutOf[p]]) <= base[p].generation
    /\ pc[p] = "readForWrite" /\ baseFrom[p] = "cluster" =>
           generationOf(localSeen[p]) <= base[p].generation

LocalInv == IInv /\ LocalFence /\ \A p \in Operators : FileBehind(p)

(* A step of p leaves what the other processes know alone. *)
LEMMA ProcFrame ==
    ASSUME TypeOK, NEW p \in Procs, Read(p) \/ Begin(p) \/ Write(p) \/ Crash(p),
           NEW q \in Procs \ {p}
    PROVE  /\ pc'[q] = pc[q] /\ base'[q] = base[q] /\ baseFrom'[q] = baseFrom[q]
           /\ localSeen'[q] = localSeen[q] /\ target'[q] = target[q]
<1> DEFINE Same == /\ pc'[q] = pc[q] /\ base'[q] = base[q] /\ baseFrom'[q] = baseFrom[q]
                   /\ localSeen'[q] = localSeen[q] /\ target'[q] = target[q]
<1>e. ASSUME NEW r, End(p, r) \/ Fail(p, r) PROVE Same
  BY <1>e DEF End, Fail, TypeOK
<1>h. ASSUME NEW s, NEW from, Hold(p, s, from) PROVE Same
  BY <1>h DEF Hold, TypeOK
<1>b. ASSUME NEW b, NEW prev, BeginWrite(p, b, prev) PROVE Same
  BY <1>b DEF BeginWrite, TypeOK
<1>1. CASE Read(p)
  <2>1. CASE ReadLocal(p)
    BY <1>e, <2>1 DEF ReadLocal, TypeOK
  <2>2. CASE ReadCluster(p) \/ ReadClusterFails(p)
    BY <1>e, <1>h, <2>2 DEF ReadCluster, ReadClusterFails
  <2>3. CASE RecoverFromSelectors(p)
    BY <2>3 DEF RecoverFromSelectors, memory, TypeOK
  <2> QED
    BY <1>1, <2>1, <2>2, <2>3 DEF Read
<1>2. CASE Begin(p)
  BY <1>2, <1>b DEF Begin, CommitDeploy, CommitFirst, CommitRollback, RecordFailedPromotion
<1>3. CASE Write(p)
  <2>1. CASE ReadForWrite(p) \/ ReadForWriteFails(p)
    BY <1>e, <2>1 DEF ReadForWrite, ReadForWriteFails, TypeOK
  <2>2. CASE Put(p) \/ PutTimeout(p)
    BY <2>2 DEF Put, PutTimeout, memory, TypeOK
  <2>3. CASE Classify(p) \/ ClassifyUnreadable(p)
    BY <1>e, <2>3 DEF Classify, ClassifyUnreadable
  <2> QED
    BY <1>3, <2>1, <2>2, <2>3 DEF Write
<1>4. CASE Crash(p)
  BY <1>4, <1>e DEF Crash
<1> QED
  BY <1>1, <1>2, <1>3, <1>4

(* Ending, or failing, an operation leaves the operator without a base. *)
LEMMA EndBehind ==
    ASSUME TypeOK, NEW p \in Operators, NEW r, End(p, r) \/ Fail(p, r)
    PROVE  FileBehind(p)'
<1>1. p \in Procs /\ p \notin Jobs
  BY ConstantsAssumption DEF Procs
<1>2. End(p, r)
  BY <1>1 DEF Fail
<1>3. pc'[p] = "idle" /\ baseFrom'[p] = "none"
  BY <1>1, <1>2 DEF End, TypeOK
<1> QED
  BY <1>3 DEF FileBehind

(* What an operator writes into its file on top of a ConfigMap record.      *)
LEMMA StampedLocal ==
    ASSUME LocalInv, NEW p \in Operators, pc[p] = "readForWrite", NEW g \in Nat,
           (g = generationOf(cluster) /\ ~MovedSince(p, g)) \/ g = 0,
           Stamped(p, g).origin = "cluster"
    PROVE  /\ cluster \in State
           /\ Stamped(p, g).generation <= cluster.generation + 1
           /\ Stamped(p, g).generation > cluster.generation
                => cluster.stamp \in Stamped(p, g).lineage
<1>0. p \in Procs /\ TypeOK /\ target[p] \in State
  BY DEF LocalInv, IInv, Fenced, TargetFence, Procs
<1>1. /\ Stamped(p, g).lineage = target[p].lineage
      /\ Stamped(p, g).origin = target[p].origin
  BY <1>0, StampedTyped
<1>2. baseFrom[p] = "cluster" /\ base[p].stamp \in Stamped(p, g).lineage
  BY <1>0, <1>1 DEF LocalInv, IInv, Fenced, TargetFence
<1>3. /\ base[p] \in State /\ cluster \in State
      /\ base[p].generation <= cluster.generation
      /\ base[p].generation = cluster.generation => base[p] = cluster
  BY <1>0, <1>2 DEF LocalInv, IInv, Fenced, BaseFence
<1>4. generationOf(localSeen[p]) <= base[p].generation
  BY <1>2 DEF LocalInv, FileBehind
<1>5. /\ generationOf(localSeen[p]) \in Nat /\ base[p].generation \in Nat
      /\ cluster.generation \in Nat
      /\ generationOf(base[p]) = base[p].generation
      /\ generationOf(cluster) = cluster.generation
  BY <1>0, <1>3 DEF generationOf, TypeOK, State
<1>6. g <= base[p].generation
  BY <1>3, <1>5, ConstantsAssumption DEF MovedSince
<1>7. NextGeneration(p, g) = base[p].generation + 1
  BY <1>4, <1>5, <1>6 DEF NextGeneration, Max2
<1>8. Stamped(p, g).generation = base[p].generation + 1
  BY <1>0, <1>7 DEF Stamped, State
<1> QED
  BY <1>2, <1>3, <1>5, <1>8

(* What an operator's own step leaves it with. *)
LEMMA OwnFileStep ==
    ASSUME LocalInv, NEW p \in Operators, Read(p) \/ Begin(p) \/ Write(p) \/ Crash(p)
    PROVE  FileBehind(p)'
<1> USE ConstantsAssumption
<1> DEFINE f == local[CheckoutOf[p]]
<1>0. TypeOK /\ FileBehind(p) /\ p \in Procs /\ p \notin Jobs /\ CheckoutOf[p] \in Checkouts
  BY DEF LocalInv, IInv, Procs
<1>g. \A x \in State \cup {NoState, Corrupt} : generationOf(x) \in Nat
  BY DEF generationOf, State
<1>e. ASSUME NEW r, End(p, r) \/ Fail(p, r) PROVE FileBehind(p)'
  BY <1>0, <1>e, EndBehind
<1>1. CASE ReadLocal(p)
  <2>1. CASE OwnFile(p) # Corrupt /\ ~End(p, "readFailed")
    <3>1. pc[p] = "idle" /\ pc'[p] = "readCluster" /\ localSeen'[p] = f /\ local' = local
          /\ baseFrom' = baseFrom
      BY <1>0, <1>1, <2>1 DEF ReadLocal, OwnFile, TypeOK
    <3>2. generationOf(f) \in Nat
      BY <1>0, <1>g DEF TypeOK
    <3> QED
      BY <1>0, <3>1, <3>2 DEF FileBehind
  <2> QED
    BY <1>1, <1>e, <2>1 DEF ReadLocal
<1>2. CASE ReadCluster(p)
  <2>1. local' = local /\ pc[p] = "readCluster"
    BY <1>2 DEF ReadCluster
  <2>2. ASSUME NEW s, NEW from, Hold(p, s, from),
               from = "cluster" => s \in State /\ generationOf(localSeen[p]) <= s.generation
        PROVE  FileBehind(p)'
    <3>1. pc'[p] = "holding" /\ base'[p] = s /\ baseFrom'[p] = from
      BY <1>0, <2>2 DEF Hold, TypeOK
    <3>2. from = "cluster" => generationOf(f) <= s.generation
      <4> SUFFICES ASSUME from = "cluster" PROVE generationOf(f) <= s.generation
        OBVIOUS
      <4>1. generationOf(f) <= generationOf(localSeen[p])
        BY <1>0, <2>1 DEF FileBehind
      <4>2. generationOf(f) \in Nat /\ generationOf(localSeen[p]) \in Nat
        BY <1>0, <1>g DEF TypeOK
      <4>3. s.generation \in Nat
        BY <2>2 DEF State
      <4> QED
        BY <2>2, <4>1, <4>2, <4>3
    <3> QED
      BY <2>1, <3>1, <3>2 DEF FileBehind
  <2>3. ASSUME Hold(p, cluster, "cluster"), cluster # NoState,
               localSeen[p] = NoState \/ ClusterIsNewer(localSeen[p], cluster)
        PROVE  FileBehind(p)'
    <3>1. cluster \in State /\ cluster.generation \in Nat
      BY <1>0, <2>3 DEF TypeOK, State
    <3>2. generationOf(localSeen[p]) <= cluster.generation
      BY <1>0, <2>3, <3>1 DEF TypeOK, State, generationOf, ClusterIsNewer
    <3> QED
      BY <2>2, <2>3, <3>1, <3>2
  <2> QED
    BY <1>2, <1>e, <2>2, <2>3 DEF ReadCluster
<1>3. CASE RecoverFromSelectors(p)
  <2>1. pc[p] = "idle" /\ pc'[p] = "holding" /\ baseFrom' = baseFrom
    BY <1>0, <1>3 DEF RecoverFromSelectors, memory, TypeOK
  <2> QED
    BY <1>0, <2>1 DEF FileBehind
<1>4. CASE Begin(p)
  <2>1. PICK b, prev : BeginWrite(p, b, prev)
    BY <1>4 DEF Begin, CommitDeploy, CommitFirst, CommitRollback, RecordFailedPromotion
  <2>2. /\ pc[p] = "holding" /\ pc'[p] = "readForWrite" /\ local' = local
        /\ base' = base /\ baseFrom' = baseFrom /\ localSeen'[p] = OwnFileQuiet(p)
    BY <1>0, <2>1 DEF BeginWrite, TypeOK
  <2>3. generationOf(OwnFileQuiet(p)) = generationOf(f)
    BY <1>0 DEF OwnFileQuiet, OwnFile, generationOf
  <2> QED
    BY <1>0, <2>2, <2>3 DEF FileBehind
<1>5. CASE ReadForWrite(p)
  <2>1. CASE pc' = [pc EXCEPT ![p] = "put"]
    BY <1>0, <2>1 DEF FileBehind, TypeOK
  <2> QED
    BY <1>5, <1>e, <2>1 DEF ReadForWrite
<1>6. CASE Put(p) \/ PutTimeout(p)
  BY <1>0, <1>6 DEF Put, PutTimeout, memory, FileBehind, TypeOK
<1>7. CASE ReadClusterFails(p) \/ ReadForWriteFails(p) \/ Classify(p) \/ ClassifyUnreadable(p) \/ Crash(p)
  BY <1>7, <1>e DEF ReadClusterFails, ReadForWriteFails, Classify, ClassifyUnreadable, Crash
<1> QED
  BY <1>1, <1>2, <1>3, <1>4, <1>5, <1>6, <1>7 DEF Read, Write

(* How a step changes the local files. *)
LEMMA FileStep ==
    ASSUME LocalInv, NEW p \in Procs, Read(p) \/ Begin(p) \/ Write(p) \/ Crash(p)
    PROVE  \/ local' = local
           \/ /\ p \in Operators /\ pc[p] = "readForWrite"
              /\ \E g \in Nat :
                    /\ local' = [local EXCEPT ![CheckoutOf[p]] = Stamped(p, g)]
                    /\ (g = generationOf(cluster) /\ ~MovedSince(p, g)) \/ g = 0
<1>0. TypeOK
  BY DEF LocalInv, IInv
<1>1. CASE Write(p)
  <2>1. generationOf(cluster) \in Nat
    BY <1>0 DEF TypeOK, generationOf, State
  <2> QED
    BY <1>1, <2>1 DEF Write, ReadForWrite, ReadForWriteFails, WriteLocal, Put, PutTimeout, Classify,
                      ClassifyUnreadable, Procs
<1>2. CASE Read(p) \/ Begin(p) \/ Crash(p)
  BY <1>2 DEF Read, ReadLocal, ReadCluster, ReadClusterFails, RecoverFromSelectors, Begin,
              CommitDeploy, CommitFirst, CommitRollback, RecordFailedPromotion, BeginWrite, Crash
<1> QED
  BY <1>1, <1>2

(* Every step keeps the local files behind or descended. *)
LEMMA LocalStep ==
    ASSUME OwnCheckouts, LocalInv, [Next]_vars
    PROVE  LocalInv'
<1> USE ConstantsAssumption
<1>0. TypeOK /\ IInv /\ Operators \subseteq Procs /\ CheckoutOf \in [Operators -> Checkouts]
  BY DEF LocalInv, IInv, Procs
<1>i. IInv'
  BY <1>0, TypeStep, FenceStep DEF IInv, Fenced, TargetFence, PutFence, TargetTyped
<1>t. TypeOK'
  BY <1>i DEF IInv
<1>g. \A x \in State \cup {NoState, Corrupt} : generationOf(x) \in Nat
  BY DEF generationOf, State
<1>1. ASSUME NEW p \in Procs, Read(p) \/ Begin(p) \/ Write(p) \/ Crash(p) PROVE LocalInv'
  <2>1. cluster' = cluster
    BY <1>1 DEF Read, ReadLocal, ReadCluster, ReadClusterFails,
     RecoverFromSelectors, Begin, CommitDeploy, CommitFirst, CommitRollback,
     RecordFailedPromotion, BeginWrite, Write, ReadForWrite, ReadForWriteFails,
     Put, PutTimeout, Classify, ClassifyUnreadable, Crash
  <2>2. ASSUME NEW q \in Operators PROVE FileBehind(q)'
    <3>1. CASE q = p
      BY <1>1, <2>2, <3>1, OwnFileStep
    <3>2. CASE q # p
      <4>1. /\ pc'[q] = pc[q] /\ base'[q] = base[q] /\ baseFrom'[q] = baseFrom[q]
            /\ localSeen'[q] = localSeen[q]
        BY <1>0, <1>1, <2>2, <3>2, ProcFrame
      <4>2. local'[CheckoutOf[q]] = local[CheckoutOf[q]]
        BY <1>0, <1>1, <2>2, <3>2, FileStep DEF OwnCheckouts, TypeOK
      <4> QED
        BY <2>2, <4>1, <4>2 DEF LocalInv, FileBehind
    <3> QED
      BY <3>1, <3>2
  <2>3. LocalFence'
    <3> SUFFICES ASSUME NEW c \in Checkouts, local'[c] \in State, local'[c].origin = "cluster"
                 PROVE  /\ cluster \in State
                        /\ local'[c].generation <= cluster.generation + 1
                        /\ local'[c].generation > cluster.generation
                              => cluster.stamp \in local'[c].lineage
      BY <2>1 DEF LocalFence
    <3>1. CASE local'[c] = local[c]
      BY <3>1 DEF LocalInv, LocalFence
    <3>2. CASE local'[c] # local[c]
      <4>1. PICK g \in Nat :
               /\ p \in Operators /\ pc[p] = "readForWrite"
               /\ local' = [local EXCEPT ![CheckoutOf[p]] = Stamped(p, g)]
               /\ (g = generationOf(cluster) /\ ~MovedSince(p, g)) \/ g = 0
        BY <1>1, <3>2, FileStep
      <4>2. local'[c] = Stamped(p, g)
        BY <1>0, <3>2, <4>1 DEF TypeOK
      <4> QED
        BY <4>1, <4>2, StampedLocal
    <3> QED
      BY <3>1, <3>2
  <2> QED
    BY <1>i, <2>2, <2>3 DEF LocalInv
<1>2. ASSUME NEW req \in wire, Server(req) \/ Drop(req) PROVE LocalInv'
  <2>1. local' = local
    BY <1>2 DEF Server, Drop
  <2>2. LocalFence'
    <3> SUFFICES ASSUME NEW c \in Checkouts, local[c] \in State, local[c].origin = "cluster"
                 PROVE  /\ cluster' \in State
                        /\ local[c].generation <= cluster'.generation + 1
                        /\ local[c].generation > cluster'.generation
                              => cluster'.stamp \in local[c].lineage
      BY <2>1 DEF LocalFence
    <3>1. CASE cluster' = cluster
      BY <3>1 DEF LocalInv, LocalFence
    <3>2. CASE cluster' # cluster
      <4>1. cluster' \in State /\ cluster'.generation > generationOf(cluster)
        BY <1>0, <3>2, ClusterStep DEF Supersedes
      <4>2. cluster \in State /\ local[c].generation <= cluster.generation + 1
        BY DEF LocalInv, LocalFence
      <4>3. /\ cluster.generation \in Nat /\ cluster'.generation \in Nat
            /\ local[c].generation \in Nat /\ generationOf(cluster) = cluster.generation
        BY <4>1, <4>2 DEF State, generationOf
      <4> QED
        BY <4>1, <4>2, <4>3
    <3> QED
      BY <3>1, <3>2
  <2>3. ASSUME NEW q \in Operators PROVE FileBehind(q)'
    <3>1. CASE UNCHANGED <<pc, memory>>
      BY <2>1, <2>3, <3>1 DEF memory, LocalInv, FileBehind
    <3>2. CASE End(req.proc, "committed")
      <4>1. CASE req.proc = q
        BY <1>0, <2>3, <3>2, <4>1, EndBehind
      <4>2. CASE req.proc # q
        <5>1. /\ pc'[q] = pc[q] /\ base'[q] = base[q] /\ baseFrom'[q] = baseFrom[q]
              /\ localSeen'[q] = localSeen[q]
          BY <1>0, <2>3, <3>2, <4>2 DEF End, TypeOK
        <5> QED
          BY <2>1, <2>3, <5>1 DEF LocalInv, FileBehind
      <4> QED
        BY <4>1, <4>2
    <3>3. CASE pc' = [pc EXCEPT ![req.proc] = "classify"] /\ UNCHANGED memory
      <4>1. pc'[q] = pc[q] \/ pc'[q] = "classify"
        BY <1>0, <2>3, <3>3 DEF TypeOK
      <4> QED
        BY <2>1, <2>3, <3>3, <4>1 DEF memory, LocalInv, FileBehind
    <3> QED
      BY <1>2, <3>1, <3>2, <3>3 DEF Server, Drop
  <2> QED
    BY <1>i, <2>2, <2>3 DEF LocalInv
<1>3. ASSUME NEW c \in Checkouts, LoseLocal(c) PROVE LocalInv'
  <2>1. UNCHANGED <<cluster, pc, memory>>
    BY <1>3 DEF LoseLocal
  <2>2. \A d \in Checkouts : local'[d] = local[d] \/ local'[d] \in {NoState, Corrupt}
    BY <1>0, <1>3 DEF LoseLocal, TypeOK
  <2>3. LocalFence'
    BY <2>1, <2>2 DEF LocalInv, LocalFence
  <2>4. ASSUME NEW q \in Operators PROVE FileBehind(q)'
    <3> DEFINE d == CheckoutOf[q]
    <3>1. generationOf(local'[d]) = generationOf(local[d]) \/ generationOf(local'[d]) = 0
      BY <1>0, <2>2, <2>4 DEF generationOf
    <3>2. FileBehind(q) /\ q \in Procs
      BY <1>0, <2>4 DEF LocalInv
    <3>3. generationOf(localSeen[q]) \in Nat
      BY <1>0, <1>g, <3>2 DEF TypeOK
    <3>4. baseFrom[q] = "cluster" => base[q].generation \in Nat
      BY <1>0, <3>2 DEF IInv, Fenced, BaseFence, State
    <3> HIDE DEF d
    <3> QED
      BY <2>1, <3>1, <3>2, <3>3, <3>4 DEF FileBehind, memory, d
  <2> QED
    BY <1>i, <2>3, <2>4 DEF LocalInv
<1>4. CASE UNCHANGED vars
  BY <1>i, <1>4 DEF vars, memory, LocalInv, LocalFence, FileBehind
<1> QED
  BY <1>1, <1>2, <1>3, <1>4 DEF Next

(* No local file is a ConfigMap writer's at the start. *)
LEMMA LocalInit == Init => LocalInv
<1> SUFFICES ASSUME Init PROVE LocalInv
  OBVIOUS
<1>1. IInv
  BY InitIInv
<1> QED
  BY <1>1, ConstantsAssumption DEF Init, LocalInv, LocalFence, FileBehind, Procs

(* S19's order, with a checkout per operator: a write that lost, was        *)
(* refused, or reached only the local file never leaves a file that beats a *)
(* ConfigMap record it did not descend from.                                *)
THEOREM LoserNeverWinsTheorem ==
    ASSUME OwnCheckouts PROVE Spec => []LoserNeverWins
<1>1. Init => LocalInv
  BY LocalInit
<1>2. LocalInv /\ [Next]_vars => LocalInv'
  BY LocalStep
<1>3. LocalInv => LoserNeverWins
  BY DEF LocalInv, LocalFence, LoserNeverWins
<1> QED
  BY <1>1, <1>2, <1>3, PTL DEF Spec
-----------------------------------------------------------------------------
(***************************************************************************)
(* Stamps                                                                  *)
(***************************************************************************)

(* The records that exist anywhere: stored, remembered or on the wire. *)
Copies ==
    {r \in {cluster} \cup {local[c] : c \in Checkouts}
            \cup {localSeen[p] : p \in Procs} \cup {base[p] : p \in Procs}
            \cup {target[p] : p \in {q \in Procs : pc[q] \in {"put", "awaitPut", "classify"}}}
            \cup {req.state : req \in wire} : r \in State}

(* A stamp names one record, and what descends from it has a later          *)
(* generation.                                                              *)
StampsName ==
    \A r, s \in Copies :
        /\ r.stamp <= clock /\ \A x \in r.lineage : x <= clock
        /\ r.stamp \in s.lineage => r.generation < s.generation
        /\ r.stamp = s.stamp => r.generation = s.generation

(* A record under construction descends from the base alone. *)
TargetDescends ==
    \A p \in Procs : pc[p] = "readForWrite" =>
        target[p].lineage = IF base[p] = NoState THEN {}
                            ELSE base[p].lineage \cup {base[p].stamp}

StampInv == IInv /\ StampsName /\ TargetDescends
(* What every copy is, and where it can be. *)
Known == Copies \cup {NoState, Corrupt}

Writing == {"put", "awaitPut", "classify"}

(* Every place that holds a record holds a known one. *)
LEMMA CopiesKnown ==
    ASSUME TypeOK
    PROVE  /\ cluster \in Known
           /\ \A c \in Checkouts : local[c] \in Known
           /\ \A p \in Procs : localSeen[p] \in Known /\ base[p] \in Known
           /\ \A p \in Procs : pc[p] \in Writing => target[p] \in Known
           /\ \A req \in wire : req.state \in Known
<1>1. cluster \in Known
  BY DEF TypeOK, Known, Copies
<1>2. \A c \in Checkouts : local[c] \in Known
  BY DEF TypeOK, Known, Copies
<1>3. \A p \in Procs : localSeen[p] \in Known
  BY DEF TypeOK, Known, Copies
<1>4. \A p \in Procs : base[p] \in Known
  BY DEF TypeOK, Known, Copies
<1>5. \A p \in Procs : pc[p] \in Writing => target[p] \in Known
  BY DEF TypeOK, Known, Copies, Writing
<1>6. \A req \in wire : req.state \in Known
  BY DEF TypeOK, Known, Copies
<1> QED
  BY <1>1, <1>2, <1>3, <1>4, <1>5, <1>6

(* Conversely the copies are no more than what those places hold. *)
LEMMA CopiesBound ==
    ASSUME NEW D,
           cluster' \in D, \A c \in Checkouts : local'[c] \in D,
           \A p \in Procs : localSeen'[p] \in D /\ base'[p] \in D,
           \A p \in Procs : pc'[p] \in Writing => target'[p] \in D,
           \A req \in wire' : req.state \in D
    PROVE  Copies' \subseteq D
  BY DEF Copies, Writing

(* Only a write that is stamped brings a record into being. *)
LEMMA CopyStep ==
    ASSUME IInv, [Next]_vars
    PROVE  \/ Copies' \subseteq Copies /\ clock' = clock
           \/ \E p \in Procs, g \in Nat :
                 /\ pc[p] = "readForWrite" /\ clock' = clock + 1
                 /\ Copies' \subseteq Copies \cup {Stamped(p, g)}
<1> USE ConstantsAssumption
<1>0. TypeOK
  BY DEF IInv
<1>k. /\ cluster \in Known
      /\ \A c \in Checkouts : local[c] \in Known
      /\ \A p \in Procs : localSeen[p] \in Known /\ base[p] \in Known
      /\ \A p \in Procs : pc[p] \in Writing => target[p] \in Known
      /\ \A req \in wire : req.state \in Known
      /\ NoState \in Known
  BY <1>0, CopiesKnown DEF Known
<1>n. ASSUME NEW s, Copies' \subseteq Known \cup {s} PROVE Copies' \subseteq Copies \cup {s}
  BY <1>n DEF Known, Copies
<1>o. ASSUME Copies' \subseteq Known PROVE Copies' \subseteq Copies
  BY <1>o DEF Known, Copies
<1> HIDE DEF Known
<1> DEFINE Plain(p) ==
             \/ Read(p) \/ Begin(p) \/ Crash(p)
             \/ Put(p) \/ PutTimeout(p) \/ Classify(p) \/ ClassifyUnreadable(p)
             \/ ReadForWrite(p) /\ Fail(p, "moved") /\ UNCHANGED <<local, clock>>
             \/ ReadForWriteFails(p) /\ UNCHANGED <<local, clock>>
<1>1. ASSUME NEW p \in Procs, Plain(p) PROVE Copies' \subseteq Copies /\ clock' = clock
  <2>o. OwnFile(p) \in Known /\ OwnFileQuiet(p) \in Known
    BY <1>0, <1>k DEF OwnFile, OwnFileQuiet, Procs
  <2>f. \A q \in Procs \ {p} :
           /\ pc'[q] = pc[q] /\ base'[q] = base[q] /\ localSeen'[q] = localSeen[q]
           /\ target'[q] = target[q]
    BY <1>0, <1>1, ProcFrame DEF Write
  <2>e. ASSUME NEW r, End(p, r) \/ Fail(p, r)
        PROVE  /\ localSeen'[p] \in Known /\ base'[p] \in Known /\ pc'[p] \notin Writing
    BY <1>0, <1>k, <2>e DEF End, Fail, TypeOK, Writing
  <2>1. /\ localSeen'[p] \in Known /\ base'[p] \in Known
        /\ pc'[p] \in Writing => target'[p] \in Known
    <3>1. CASE ReadLocal(p)
      BY <1>0, <1>k, <2>e, <2>o, <3>1 DEF ReadLocal, TypeOK, Writing
    <3>2. CASE ReadCluster(p) \/ ReadClusterFails(p)
      <4>1. ASSUME NEW s \in Known, NEW from, Hold(p, s, from)
            PROVE  localSeen'[p] \in Known /\ base'[p] \in Known /\ pc'[p] \notin Writing
        BY <1>0, <1>k, <4>1 DEF Hold, TypeOK, Writing
      <4> QED
        BY <1>k, <2>e, <3>2, <4>1 DEF ReadCluster, ReadClusterFails
    <3>3. CASE RecoverFromSelectors(p)
      BY <1>0, <1>k, <3>3 DEF RecoverFromSelectors, memory, TypeOK, Writing
    <3>4. CASE Begin(p)
      <4>1. PICK b, prev : BeginWrite(p, b, prev)
        BY <3>4 DEF Begin, CommitDeploy, CommitFirst, CommitRollback, RecordFailedPromotion
      <4>2. localSeen'[p] = OwnFileQuiet(p) /\ base' = base /\ pc'[p] = "readForWrite"
        BY <1>0, <4>1 DEF BeginWrite, TypeOK
      <4> QED
        BY <1>k, <2>o, <4>2 DEF Writing
    <3>5. CASE Fail(p, "moved")
      BY <2>e, <3>5
    <3>6. CASE Put(p) \/ PutTimeout(p)
      <4>1. pc[p] \in Writing /\ target' = target /\ base' = base /\ localSeen' = localSeen
        BY <3>6 DEF Put, PutTimeout, memory, Writing
      <4> QED
        BY <1>k, <4>1
    <3>7. CASE ReadForWriteFails(p) \/ Classify(p) \/ ClassifyUnreadable(p) \/ Crash(p)
      BY <2>e, <3>7 DEF ReadForWriteFails, Classify, ClassifyUnreadable, Crash
    <3> QED
      BY <1>1, <3>1, <3>2, <3>3, <3>4, <3>5, <3>6, <3>7 DEF Read
  <2>2. \A q \in Procs : /\ localSeen'[q] \in Known /\ base'[q] \in Known
                         /\ pc'[q] \in Writing => target'[q] \in Known
    BY <1>k, <2>f, <2>1
  <2>3. local' = local /\ clock' = clock /\ cluster' = cluster
    BY <1>1 DEF Read, ReadLocal, ReadCluster, ReadClusterFails, RecoverFromSelectors, Begin,
         CommitDeploy, CommitFirst, CommitRollback, RecordFailedPromotion, BeginWrite,
         ReadForWrite, ReadForWriteFails, Put, PutTimeout, Classify, ClassifyUnreadable, Crash
  <2>4. wire' = wire \/ (pc[p] = "put" /\ \A req \in wire' : req \in wire \/ req.state = target[p])
    BY <1>1 DEF Read, ReadLocal, ReadCluster, ReadClusterFails,
         RecoverFromSelectors, Begin, CommitDeploy, CommitFirst, CommitRollback,
         RecordFailedPromotion, BeginWrite, ReadForWrite, ReadForWriteFails,
         Put, PutTimeout, Classify, ClassifyUnreadable, Crash
  <2>5. \A req \in wire' : req.state \in Known
    BY <1>k, <2>4 DEF Writing
  <2>6. Copies' \subseteq Known
    BY <1>k, <2>2, <2>3, <2>5, CopiesBound
  <2> QED
    BY <1>o, <2>3, <2>6
<1>2. ASSUME NEW p \in Procs, ReadForWrite(p) \/ ReadForWriteFails(p), NEW g \in Nat,
             \/ local' = [local EXCEPT ![CheckoutOf[p]] = Stamped(p, g)]
             \/ local' = local /\ target' = [target EXCEPT ![p] = Stamped(p, g)],
             clock' = clock + 1,
             \/ target' = [target EXCEPT ![p] = Stamped(p, g)] /\ UNCHANGED <<localSeen, base>>
             \/ Fail(p, "unreadable")
      PROVE  Copies' \subseteq Copies \cup {Stamped(p, g)}
  <2> DEFINE D == Known \cup {Stamped(p, g)}
  <2>1. \A c \in Checkouts : local'[c] \in D
    BY <1>0, <1>k, <1>2 DEF TypeOK
  <2>2. \A q \in Procs \ {p} :
           /\ pc'[q] = pc[q] /\ base'[q] = base[q] /\ localSeen'[q] = localSeen[q]
           /\ target'[q] = target[q]
    BY <1>0, <1>2, ProcFrame DEF Write
  <2>3. /\ localSeen'[p] \in D /\ base'[p] \in D
        /\ pc'[p] \in Writing => target'[p] \in D
    BY <1>0, <1>k, <1>2 DEF Fail, End, TypeOK, Writing
  <2>4. cluster' = cluster /\ wire' = wire
    BY <1>2 DEF ReadForWrite, ReadForWriteFails
  <2>5. Copies' \subseteq D
    <3> HIDE DEF D
    <3>1. \A x \in Known : x \in D
      BY DEF D
    <3> QED
      BY <1>k, <2>1, <2>2, <2>3, <2>4, <3>1, CopiesBound
  <2> QED
    BY <1>n, <2>5
<1>3. ASSUME NEW req \in wire, Server(req) \/ Drop(req)
      PROVE  Copies' \subseteq Copies /\ clock' = clock
  <2>1. local' = local /\ clock' = clock /\ wire' \subseteq wire /\ cluster' \in {cluster, req.state}
    BY <1>3 DEF Server, Drop
  <2>2. \A q \in Procs : /\ localSeen'[q] \in Known /\ base'[q] \in Known
                         /\ pc'[q] \in Writing => target'[q] \in Known
    <3>1. CASE UNCHANGED <<pc, memory>>
      BY <1>k, <3>1 DEF memory
    <3>2. CASE End(req.proc, "committed")
      BY <1>0, <1>k, <3>2 DEF End, TypeOK, Writing
    <3>3. CASE /\ pc[req.proc] = "awaitPut" /\ UNCHANGED memory
               /\ pc' = [pc EXCEPT ![req.proc] = "classify"]
      BY <1>0, <1>k, <3>3 DEF memory, TypeOK, Writing
    <3> QED
      BY <1>3, <3>1, <3>2, <3>3 DEF Server, Drop
  <2>3. Copies' \subseteq Known
    BY <1>k, <2>1, <2>2, CopiesBound
  <2> QED
    BY <1>o, <2>1, <2>3
<1>4. ASSUME NEW c \in Checkouts, LoseLocal(c) PROVE Copies' \subseteq Copies /\ clock' = clock
  <2>1. \A d \in Checkouts : local'[d] \in Known
    BY <1>0, <1>k, <1>4 DEF LoseLocal, TypeOK, Known
  <2>2. Copies' \subseteq Known
    BY <1>k, <1>4, <2>1, CopiesBound DEF LoseLocal, memory
  <2> QED
    BY <1>o, <1>4, <2>2 DEF LoseLocal
<1>5. CASE UNCHANGED vars
  BY <1>5 DEF vars, memory, Copies
<1>6. ASSUME NEW p \in Procs, Read(p) \/ Begin(p) \/ Write(p) \/ Crash(p)
      PROVE  \/ Copies' \subseteq Copies /\ clock' = clock
             \/ \E g \in Nat : /\ pc[p] = "readForWrite" /\ clock' = clock + 1
                               /\ Copies' \subseteq Copies \cup {Stamped(p, g)}
  <2>1. generationOf(cluster) \in Nat
    BY <1>0 DEF TypeOK, generationOf, State
  <2>2. CASE ReadForWrite(p) /\ ~Plain(p)
    <3>1. /\ pc[p] = "readForWrite"
          /\ target' = [target EXCEPT ![p] = Stamped(p, generationOf(cluster))]
          /\ UNCHANGED <<localSeen, base>> /\ clock' = clock + 1
          /\ \/ local' = [local EXCEPT ![CheckoutOf[p]] = Stamped(p, generationOf(cluster))]
             \/ local' = local
      BY <1>0, <2>2 DEF ReadForWrite, WriteLocal, TypeOK
    <3> QED
      BY <1>2, <2>1, <2>2, <3>1
  <2>3. CASE ReadForWriteFails(p) /\ p \in Operators
    <3>1. /\ pc[p] = "readForWrite" /\ clock' = clock + 1 /\ Fail(p, "unreadable")
          /\ local' = [local EXCEPT ![CheckoutOf[p]] = Stamped(p, 0)]
      BY <2>3 DEF ReadForWriteFails, WriteLocal
    <3> QED
      BY <1>2, <2>3, <3>1
  <2>4. CASE Plain(p)
    BY <1>1, <2>4
  <2>5. Plain(p) \/ ReadForWrite(p) \/ (ReadForWriteFails(p) /\ p \in Operators)
    BY <1>6 DEF Write, ReadForWriteFails
  <2> QED
    BY <2>2, <2>3, <2>4, <2>5
<1> QED
  BY <1>3, <1>4, <1>5, <1>6 DEF Next

(* A fresh stamp names a record that descends from its base alone. *)
LEMMA StampStep ==
    ASSUME StampInv, [Next]_vars
    PROVE  StampsName'
<1>0. IInv /\ TypeOK /\ clock \in Nat
  BY DEF StampInv, IInv, TypeOK
<1>t. \A r \in Copies : r \in State
  BY DEF Copies
<1>1. CASE Copies' \subseteq Copies /\ clock' = clock
  BY <1>1 DEF StampInv, StampsName
<1>2. ASSUME NEW p \in Procs, NEW g \in Nat, pc[p] = "readForWrite", clock' = clock + 1,
             Copies' \subseteq Copies \cup {Stamped(p, g)}
      PROVE  StampsName'
  <2> DEFINE n == Stamped(p, g)
  <2>1. target[p] \in State
    BY <1>0, <1>2 DEF IInv, Fenced, TargetFence
  <2>2. n \in State /\ n.generation > generationOf(base[p]) /\ n.lineage = target[p].lineage
    BY <1>0, <1>2, <2>1, StampedTyped
  <2>3. n.stamp = clock + 1
    BY <2>1 DEF Stamped, State
  <2>4. n.lineage = IF base[p] = NoState THEN {} ELSE base[p].lineage \cup {base[p].stamp}
    BY <1>2, <2>2 DEF StampInv, TargetDescends
  <2>5. base[p] # NoState => base[p] \in Copies /\ generationOf(base[p]) = base[p].generation
    <3> SUFFICES ASSUME base[p] # NoState
                 PROVE  base[p] \in Copies /\ generationOf(base[p]) = base[p].generation
      OBVIOUS
    <3>1. base[p] \in State
      BY <1>0 DEF TypeOK
    <3> QED
      BY <3>1 DEF Copies, generationOf
  <2> HIDE DEF n
  <2>6. \A r \in Copies : /\ r.stamp \in Nat /\ r.generation \in Nat /\ r.lineage \subseteq Nat
                         /\ r.stamp <= clock /\ \A x \in r.lineage : x <= clock
    BY <1>t DEF StampInv, StampsName, State
  <2>7. n.generation \in Nat /\ \A x \in n.lineage : x \in Nat /\ x <= clock
    BY <2>2, <2>4, <2>5, <2>6 DEF State
  <2>8. \A r \in Copies : r.stamp \in n.lineage => r.generation < n.generation
    <3> SUFFICES ASSUME NEW r \in Copies, r.stamp \in n.lineage
                 PROVE  r.generation < n.generation
      OBVIOUS
    <3>1. base[p] # NoState
      BY <2>4
    <3>2. r.generation <= base[p].generation
      BY <2>4, <2>5, <2>6, <3>1 DEF StampInv, StampsName
    <3> QED
      BY <2>2, <2>5, <2>6, <2>7, <3>1, <3>2
  <2>9. /\ \A r \in Copies : r.stamp # n.stamp /\ n.stamp \notin r.lineage
        /\ n.stamp \notin n.lineage
    BY <1>0, <2>3, <2>6, <2>7
  <2>10. ASSUME NEW r \in Copies \cup {n}, NEW s \in Copies \cup {n}
         PROVE  /\ r.stamp <= clock + 1 /\ \A x \in r.lineage : x <= clock + 1
                /\ r.stamp \in s.lineage => r.generation < s.generation
                /\ r.stamp = s.stamp => r.generation = s.generation
    <3>1. r.stamp <= clock + 1 /\ \A x \in r.lineage : x <= clock + 1
      BY <1>0, <2>3, <2>6, <2>7, <2>10
    <3>2. CASE r \in Copies /\ s \in Copies
      BY <3>1, <3>2 DEF StampInv, StampsName
    <3>3. CASE r \in Copies /\ s = n
      BY <2>8, <2>9, <3>1, <3>3
    <3>4. CASE r = n
      BY <2>9, <2>10, <3>1, <3>4
    <3> QED
      BY <2>10, <3>2, <3>3, <3>4
  <2> QED
    BY <1>2, <2>10 DEF StampsName, n
<1> QED
  BY <1>0, <1>1, <1>2, CopyStep

(* The body of a write keeps naming the base it was made from. *)
LEMMA DescendsStep ==
    ASSUME StampInv, [Next]_vars
    PROVE  TargetDescends'
<1>0. IInv /\ TypeOK
  BY DEF StampInv, IInv
<1>1. ASSUME NEW p \in Procs, Read(p) \/ Begin(p) \/ Write(p) \/ Crash(p)
      PROVE  TargetDescends'
  <2>1. \A q \in Procs \ {p} : pc'[q] = pc[q] /\ base'[q] = base[q] /\ target'[q] = target[q]
    BY <1>0, <1>1, ProcFrame
  <2>2. pc'[p] = "readForWrite" =>
           target'[p].lineage = IF base'[p] = NoState THEN {}
                                ELSE base'[p].lineage \cup {base'[p].stamp}
    <3>1. CASE Begin(p)
      <4>1. PICK b, prev : BeginWrite(p, b, prev)
        BY <3>1 DEF Begin, CommitDeploy, CommitFirst, CommitRollback, RecordFailedPromotion
      <4> QED
        BY <1>0, <4>1 DEF BeginWrite, TypeOK
    <3>2. CASE Read(p) \/ Write(p) \/ Crash(p)
      <4>1. ASSUME NEW r, End(p, r) \/ Fail(p, r) PROVE pc'[p] # "readForWrite"
        BY <1>0, <4>1 DEF End, Fail, TypeOK
      <4>2. ASSUME NEW s, NEW from, Hold(p, s, from) PROVE pc'[p] # "readForWrite"
        BY <1>0, <4>2 DEF Hold, TypeOK
      <4>3. pc'[p] # "readForWrite"
        BY <1>0, <3>2, <4>1, <4>2
           DEF Read, Write, Crash, ReadLocal, ReadCluster, ReadClusterFails, RecoverFromSelectors,
               ReadForWrite, ReadForWriteFails, Put, PutTimeout, Classify, ClassifyUnreadable, TypeOK
      <4> QED
        BY <4>3
    <3> QED
      BY <1>1, <3>1, <3>2
  <2> QED
    BY <2>1, <2>2 DEF StampInv, TargetDescends
<1>2. ASSUME NEW req \in wire, Server(req) \/ Drop(req) PROVE TargetDescends'
  <2>1. ASSUME NEW q \in Procs, pc'[q] = "readForWrite"
        PROVE  pc[q] = "readForWrite" /\ base'[q] = base[q] /\ target'[q] = target[q]
    BY <1>0, <1>2, <2>1 DEF Server, Drop, End, memory, TypeOK
  <2> QED
    BY <2>1 DEF StampInv, TargetDescends
<1>3. ASSUME NEW c \in Checkouts, LoseLocal(c) PROVE TargetDescends'
  BY <1>3 DEF LoseLocal, memory, StampInv, TargetDescends
<1>4. CASE UNCHANGED vars
  BY <1>4 DEF vars, memory, StampInv, TargetDescends
<1> QED
  BY <1>1, <1>2, <1>3, <1>4 DEF Next

(* The first record, if there is one, has no ancestor. *)
LEMMA StampInit == Init => StampInv
<1> SUFFICES ASSUME Init PROVE StampInv
  OBVIOUS
<1>1. IInv
  BY InitIInv
<1>2. Copies \subseteq {cluster}
  BY ConstantsAssumption DEF Init, Copies
<1>3. cluster \in State => cluster.stamp = 1 /\ cluster.lineage = {} /\ clock = 1
  BY ConstantsAssumption DEF Init, Seed
<1>4. StampsName
  BY <1>2, <1>3 DEF StampsName, Copies
<1>5. TargetDescends
  BY DEF Init, TargetDescends
<1> QED
  BY <1>1, <1>4, <1>5 DEF StampInv

(* N21 and N69: whichever checkouts and Jobs write, whatever write reached  *)
(* only a local file, readState returns no record that the other copy it    *)
(* looked at descends from.                                                  *)
THEOREM ReadReturnsNewestTheorem == Spec => ReadReturnsNewest
<1>1. Init => StampInv
  BY StampInit
<1>2. StampInv /\ [Next]_vars => StampInv'
  BY StampStep, DescendsStep, TypeStep, FenceStep
     DEF StampInv, IInv, Fenced, TargetFence, PutFence, TargetTyped
<1> DEFINE Newest == \A p \in Procs :
          pc[p] = "readCluster" /\ pc'[p] = "holding" /\ base'[p] # NoState
          => NotSuperseded(base'[p], cluster) /\ NotSuperseded(base'[p], localSeen[p])
<1>3. ASSUME StampInv, Next, NEW p \in Procs,
             pc[p] = "readCluster", pc'[p] = "holding", base'[p] # NoState
      PROVE  NotSuperseded(base'[p], cluster) /\ NotSuperseded(base'[p], localSeen[p])
  <2>0. TypeOK
    BY <1>3 DEF StampInv, IInv
  <2>e. ASSUME NEW r, End(p, r) PROVE FALSE
    BY <1>3, <2>0, <2>e DEF End, TypeOK
  <2>1. ReadCluster(p)
    <3>1. PICK q \in Procs : Read(q) \/ Begin(q) \/ Write(q) \/ Crash(q)
      <4>1. ASSUME NEW req \in wire, Server(req) \/ Drop(req) PROVE FALSE
        BY <1>3, <2>0, <4>1 DEF Server, Drop, End, TypeOK
      <4>2. ASSUME NEW c \in Checkouts, LoseLocal(c) PROVE FALSE
        BY <1>3, <4>2 DEF LoseLocal
      <4> QED
        BY <1>3, <4>1, <4>2 DEF Next
    <3>2. q = p
      BY <1>3, <2>0, <3>1, ProcFrame
    <3>3. ~Begin(p) /\ ~Write(p)
      BY <1>3 DEF Begin, CommitDeploy, CommitFirst, CommitRollback, RecordFailedPromotion,
                  BeginWrite, Write, ReadForWrite, ReadForWriteFails, Put, PutTimeout, Classify,
                  ClassifyUnreadable
    <3> QED
      BY <1>3, <2>e, <3>1, <3>2, <3>3
         DEF Crash, Read, ReadLocal, ReadClusterFails, RecoverFromSelectors
  <2>g. \A r \in Copies : r.generation \in Nat
    BY DEF Copies, State
  <2>2. \A r, s \in Copies : r.generation >= s.generation => r.stamp \notin s.lineage
    BY <1>3, <2>g DEF StampInv, StampsName
  <2>s. \A r \in Copies : r.stamp \notin r.lineage
    BY <2>g, <2>2
  <2>3. (cluster # NoState => cluster \in Copies) /\ (localSeen[p] # NoState => localSeen[p] \in Copies)
    BY <2>0 DEF TypeOK, Copies
  <2>h. ASSUME NEW s, NEW from, Hold(p, s, from) PROVE base'[p] = s
    BY <2>0, <2>h DEF Hold, TypeOK
  <2>n. NoState \notin State
    BY ConstantsAssumption
  <2>4. CASE cluster = NoState \/ localSeen[p] = NoState
    <3>1. base'[p] \in {cluster, localSeen[p]}
      BY <2>1, <2>4, <2>e, <2>h DEF ReadCluster
    <3> QED
      BY <1>3, <2>s, <2>3, <2>4, <2>n, <3>1 DEF NotSuperseded
  <2>5. CASE cluster # NoState /\ localSeen[p] # NoState
    <3>1. \/ base'[p] = localSeen[p] /\ LocalIsNewer(localSeen[p], cluster)
          \/ base'[p] = cluster /\ ClusterIsNewer(localSeen[p], cluster)
      BY <2>1, <2>5, <2>e, <2>h DEF ReadCluster
    <3>2. \/ base'[p] = localSeen[p] /\ localSeen[p].generation >= cluster.generation
          \/ base'[p] = cluster /\ cluster.generation >= localSeen[p].generation
      BY <2>g, <2>3, <2>5, <3>1 DEF LocalIsNewer, ClusterIsNewer
    <3> QED
      BY <2>2, <2>s, <2>3, <2>5, <3>2 DEF NotSuperseded
  <2> QED
    BY <2>4, <2>5
<1>4. StampInv /\ [Next]_vars => [Newest]_vars
  BY <1>3
<1> QED
  BY <1>1, <1>2, <1>4, PTL DEF Spec, ReadReturnsNewest
=============================================================================
