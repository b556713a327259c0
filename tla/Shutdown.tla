-------------------------------- MODULE Shutdown --------------------------------
(***************************************************************************)
(* The two kinds of pods of a release that drain: a pool pod (PoolServer)   *)
(* and a routing pod (RoutingServer).  They share no state, so a behaviour  *)
(* is about one of them.                                                    *)
(***************************************************************************)
EXTENDS PoolServer

CONSTANTS Callouts, Connections, On, DrainDelay

ASSUME RoutingAssumption ==
    DrainDelay \in Nat /\ On \in [Callouts -> Connections]

VARIABLES tier,   \* the pod this behaviour is about
          process, ready, withdrawn, waited, due, stopping, conn, call, budget, held

Routing == INSTANCE RoutingServer

routing == <<process, ready, withdrawn, waited, due, stopping, conn, call, budget, held>>
allVars == <<tier, vars, routing>>

ShutdownInit == tier \in {"pool", "routing"} /\ Init /\ Routing!Init

PoolNext == tier = "pool" /\ Next /\ UNCHANGED <<tier, routing>>
RoutingNext == tier = "routing" /\ Routing!Next /\ UNCHANGED <<tier, vars>>

ShutdownSpec ==
  /\ ShutdownInit /\ [][PoolNext \/ RoutingNext]_allVars
  /\ WF_vars(GraceEnds) /\ WF_vars(FlushEnds) /\ WF_vars(StopSettles) /\ WF_vars(Exit)
  /\ Routing!Fairness

(***************************************************************************)
(* What a stopping pod does is honest and in order: a pool pod passes      *)
(* nothing off as whole that it cut (HonestEndings), and a routing pod     *)
(* closes its listener only after its endpoint was withdrawn.              *)
(***************************************************************************)
HonestStops == HonestEndings /\ Routing!DrainOrdered

(***************************************************************************)
(* A stop ends in process.exit, of either pod, although no handler, client *)
(* or proxy makes progress, except for a routing pod one of whose health   *)
(* requests is held open; and no callout outlives its budget, if it has    *)
(* one.                                                                    *)
(***************************************************************************)
StopsTerminate == DrainTerminates /\ Routing!RoutingStops
=================================================================================
