----------------------------- MODULE MCUseCache -----------------------------
(* Small instances of UseCache. *)
EXTENDS UseCache, TLC

CONSTANTS r1, r2, q1, q2, k1, tag

OneKey == [k \in {k1} |-> {tag}]

SameReplica == [q \in Requests |-> r1]

(* r1 ahead of Valkey's clock, r2 behind. *)
Skewed == r1 :> 2 @@ r2 :> -2

(* The replica that serves the requests revalidates, or its peer does. *)
EitherUpdates == r1 :> {tag} @@ r2 :> {tag}

Deadlines == {Hard, ProfileWithExpire(1)}

Symmetry == Permutations(Requests)

VARIABLE scope   \* which of the two bounds below a behaviour stays in

(* "crowd": both requests and both replicas, within two ticks, one set and    *)
(* one update.  "alone": one request at a time and the peer's updates, until  *)
(* the bounds of the constants.                                               *)
InScope ==
    \/ /\ scope = "crowd"
       /\ now <= StartTime + 1 /\ Epoch <= 1 /\ writes[r1] <= 1
       /\ Epoch = 1 => \A r \in Replicas : update[r] = Absent
    \/ /\ scope = "alone"
       /\ \E q \in Requests : req[q] = NotRunning
       /\ update[r1] = Absent

MCInit == Init /\ scope \in {"crowd", "alone"}

MCNext == Next /\ UNCHANGED scope

MCSpec == MCInit /\ [][MCNext]_<<vars, scope>>
=============================================================================
