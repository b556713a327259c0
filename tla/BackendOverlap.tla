--------------------------- MODULE BackendOverlap ---------------------------
(***************************************************************************)
(* How one stable Service is moved from one build to another:              *)
(* replaceServiceSelector of src/cutover/service-selector.ts with the      *)
(* Compute reads of src/cutover/gke-backends.ts.                           *)
(*                                                                         *)
(* A generic Service is moved by a single compare-and-swap.  A Service     *)
(* behind a GKE load balancer is moved through an overlap: the ready pods  *)
(* of both builds get a temporary label, the selector becomes that label,  *)
(* and only when the load balancer reports every incoming endpoint healthy *)
(* for a while does the selector become the incoming build's.  Any error   *)
(* puts the original selector back, and the process may die anywhere.      *)
(*                                                                         *)
(* Pool and Service are the same number.  The pods of a build in a pool    *)
(* are a count of ready pods and the temporary labels they carry.          *)
(***************************************************************************)
EXTENDS Integers, FiniteSets

CONSTANTS
    Builds,        \* build ids
    AnyVersion,    \* a selector without a version label
    NumServices,   \* stable Services, in the order they are switched
    NegServices,   \* the ones with a network endpoint group
    LostAnswers,   \* requests that may be applied although they report an error
    MaxFaults      \* bound: failed requests, kills and lost pods

Services == 1 .. NumServices

ASSUME OverlapAssumption ==
    /\ AnyVersion \notin Builds
    /\ NumServices \in Nat \ {0}
    /\ NegServices \subseteq Services
    /\ MaxFaults \in Nat
    /\ LostAnswers \subseteq {"label", "stage", "final", "hpa"}

VARIABLES
    svc,      \* selector of each Service
    note,     \* it carries the recovery annotation
    label,    \* temporary labels on the pods of a build behind a Service
    ready,    \* ready pods of a build behind a Service
    changed,  \* incoming build whose pods changed since the call listed them
    lb,       \* builds whose endpoints Compute reports healthy
    gfe,      \* builds the front ends send traffic to
    call,     \* the replaceServiceSelector call in progress
    keys,     \* temporary labels handed out so far
    unsure,   \* history: a failed call said it left the overlap in place
    abrupt,   \* history: Services whose finished switch the error path took back
    faults    \* failures so far

traffic == <<svc, note, label>>
balancer == <<lb, gfe>>
told == <<unsure, abrupt>>
overlapVars == <<traffic, ready, changed, balancer, call, keys, told, faults>>

(* Something fails, as often as the bound lets it. *)
Fault ==
    /\ faults < MaxFaults
    /\ faults' = faults + 1

Selector == [ver: Builds \cup {AnyVersion}, keys: SUBSET Nat]

ForBuild(b) == [ver |-> b, keys |-> {}]

NoCall == [stage |-> "none"]

Busy == call.stage \notin {"none", "ok", "failed"}

(* Ready pods the selector of Service s matches, by build. *)
Matches(s, selector) ==
    {b \in Builds : /\ ready[b][s] > 0
                    /\ selector.ver \in {b, AnyVersion}
                    /\ selector.keys \subseteq label[s][b]}

Selected(s) == Matches(s, svc[s])

(* A build whose pods behind Service s went: the call in progress there     *)
(* compares the incoming ones with those it listed.                         *)
Noticed(b, s) == IF Busy /\ call.svc = s /\ call.to.ver = b THEN {b} ELSE {}

(* The call: from the selector that was read to the same one with the      *)
(* version (and component) of the other build.                             *)
Target(from, build) == [from EXCEPT !.ver = build]

Overlap == [ver |-> AnyVersion, keys |-> call.from.keys \cup {call.key}]

Open(s, from, to) ==
    /\ call' = [stage |-> "plan", svc |-> s, from |-> from, to |-> to,
                key |-> keys + 1, steady |-> FALSE]
    /\ keys' = keys + 1
    /\ UNCHANGED <<traffic, ready, changed, balancer, told, faults>>

Stage(next) == call' = [call EXCEPT !.stage = next]

(* A compare-and-swap on the whole selector (replace). *)
Swap(from, to) ==
    /\ svc[call.svc] = from
    /\ svc' = [svc EXCEPT ![call.svc] = to]

(* Taking the temporary label off every pod the call recorded.  One that    *)
(* keeps it because its patch failed is selected by nobody.                 *)
Cleanup == label' = [label EXCEPT ![call.svc] = [b \in Builds |-> @[b] \ {call.key}]]

-----------------------------------------------------------------------------
(* A Service without a NEG, or with only the ingress marker, takes a single *)
(* compare-and-swap.                                                        *)
SwapGeneric ==
    /\ call.stage = "plan"
    /\ call.svc \notin NegServices
    /\ Swap(call.from, call.to)
    /\ Stage("ok")
    /\ UNCHANGED <<note, label, ready, changed, balancer, keys, told, faults>>

(* Its failure, an occupied selector included. *)
SwapGenericFails ==
    /\ call.stage = "plan"
    /\ call.svc \notin NegServices
    /\ Fault
    /\ Stage("failed")
    /\ UNCHANGED <<traffic, ready, changed, balancer, keys, told>>

(* Discovery and the two pod lists.  No project identity, no attached       *)
(* backend, or no ready incoming pod: nothing was touched yet.              *)
Discover ==
    /\ call.stage = "plan"
    /\ call.svc \in NegServices
    /\ \/ /\ Matches(call.svc, call.to) # {}
          /\ Stage("label")
          /\ changed' = [changed EXCEPT ![call.svc] = {}]
          /\ UNCHANGED faults
       \/ Stage("failed") /\ Fault /\ UNCHANGED changed
    /\ UNCHANGED <<traffic, ready, balancer, keys, told>>

(* Labelling every listed pod, outgoing and incoming. *)
LabelPods ==
    /\ call.stage = "label"
    /\ LET s == call.svc
           listed == Matches(s, call.from) \cup Matches(s, call.to)
       IN label' = [label EXCEPT ![s] = [b \in Builds |->
                        @[b] \cup (IF b \in listed THEN {call.key} ELSE {})]]
    /\ Stage("stage")
    /\ UNCHANGED <<svc, note, ready, changed, balancer, keys, told, faults>>

(* A label patch reported an error: each recorded pod may or may not carry  *)
(* the label; no selector names it.                                         *)
LabelFails ==
    /\ call.stage = "label"
    /\ \/ UNCHANGED label
       \/ /\ "label" \in LostAnswers
          /\ \E b \in Builds :
                label' = [label EXCEPT ![call.svc][b] = @ \cup {call.key}]
    /\ Fault
    /\ Stage("failed")
    /\ UNCHANGED <<svc, note, ready, changed, balancer, keys, told>>

(* The selector becomes the overlap; the annotation remembers how to undo   *)
(* it if the process is killed.                                             *)
StageOverlap ==
    /\ call.stage = "stage"
    /\ Swap(call.from, Overlap)
    /\ note' = [note EXCEPT ![call.svc] = TRUE]
    /\ \/ Stage("poll") /\ UNCHANGED faults
       \/ "stage" \in LostAnswers /\ Stage("recover") /\ Fault
    /\ UNCHANGED <<label, ready, changed, balancer, keys, told>>

StageOverlapFails ==
    /\ call.stage = "stage"
    /\ Fault
    /\ Stage("recover")
    /\ UNCHANGED <<traffic, ready, changed, balancer, keys, told>>

(* Compute reports every incoming endpoint healthy in every attached        *)
(* backend, and the backend drains connections.                             *)
Healthy == call.to.ver \in lb[call.svc]

Intact == call.to.ver \notin changed[call.svc]

(* One round of the polling loop: the incoming pods are still the listed    *)
(* ones; an unhealthy round starts the waiting over.                        *)
Poll ==
    /\ call.stage = "poll"
    /\ Intact
    /\ call' = [call EXCEPT !.steady = Healthy]
    /\ UNCHANGED <<traffic, ready, changed, balancer, keys, told, faults>>

(* Fault: health is not required to last. *)
Stable_FirstPoll == call.stage = "poll" /\ Healthy

(* Consecutive healthy rounds for 30 s.  External: that is long enough for  *)
(* the front ends to learn what Compute reports.                            *)
Stable ==
    /\ call.stage = "poll"
    /\ call.steady
    /\ Healthy
    /\ call.to.ver \in gfe[call.svc]

(* The last compare-and-swap: the incoming build alone, annotation gone.    *)
FinishOverlap ==
    /\ Stable
    /\ Intact
    /\ note[call.svc]
    /\ Swap(Overlap, call.to)
    /\ note' = [note EXCEPT ![call.svc] = FALSE]
    /\ \/ Stage("ok") /\ Cleanup /\ UNCHANGED faults
       \/ "final" \in LostAnswers /\ Stage("recover") /\ Fault /\ UNCHANGED label
    /\ UNCHANGED <<ready, changed, balancer, keys, told>>

(* A changed pod set, the 300 s deadline, an API error, a lost race for the *)
(* final swap.                                                              *)
PollFails ==
    /\ call.stage = "poll"
    /\ Fault
    /\ Stage("recover")
    /\ UNCHANGED <<traffic, ready, changed, balancer, keys, told>>

(* The error path reads the selector back and restores the original over    *)
(* its own overlap or its own result, never over a third party's.  Taking   *)
(* back its own result is one swap, with no overlap and no wait: the front  *)
(* ends may not have the original build any more.                           *)
Recover ==
    /\ call.stage = "recover"
    /\ LET s == call.svc IN
         \/ /\ svc[s] = call.from
            /\ Cleanup
            /\ UNCHANGED <<svc, note, abrupt>>
         \/ /\ svc[s] # call.from
            /\ \/ svc[s] = Overlap /\ note[s] /\ note' = [note EXCEPT ![s] = FALSE]
                  /\ UNCHANGED abrupt
               \/ svc[s] = call.to /\ abrupt' = abrupt \cup {s} /\ UNCHANGED note
            /\ svc' = [svc EXCEPT ![s] = call.from]
            /\ Cleanup
    /\ Stage("failed")
    /\ UNCHANGED <<ready, changed, balancer, keys, unsure, faults>>

(* The selector cannot be read, restored, or is not ours: labels and both   *)
(* builds stay, and the error says so.                                      *)
RecoverFails ==
    /\ call.stage = "recover"
    /\ Stage("failed")
    /\ unsure' = unsure \cup {call.svc}
    /\ UNCHANGED <<traffic, ready, changed, balancer, keys, abrupt, faults>>

OverlapStep ==
    \/ SwapGeneric
    \/ SwapGenericFails
    \/ Discover
    \/ LabelPods
    \/ LabelFails
    \/ StageOverlap
    \/ StageOverlapFails
    \/ Poll
    \/ FinishOverlap
    \/ PollFails
    \/ Recover
    \/ RecoverFails

-----------------------------------------------------------------------------
(* External: the load balancer follows the selector in its own time. *)

(* The NEG controller registers a build's endpoints and they pass their     *)
(* health check.                                                            *)
LbAttach(s) ==
    /\ lb' = [lb EXCEPT ![s] = @ \cup Selected(s)]
    /\ lb' # lb
    /\ UNCHANGED <<traffic, ready, changed, gfe, call, keys, told, faults>>

(* It deregisters what the Service no longer selects. *)
LbDetach(s) ==
    /\ lb' = [lb EXCEPT ![s] = @ \cap Selected(s)]
    /\ lb' # lb
    /\ UNCHANGED <<traffic, ready, changed, gfe, call, keys, told, faults>>

(* The front ends learn the current endpoints. *)
GfeSync(s) ==
    /\ gfe' = [gfe EXCEPT ![s] = lb[s]]
    /\ gfe' # gfe
    /\ UNCHANGED <<traffic, ready, changed, lb, call, keys, told, faults>>

(* Where requests to Service s can go. *)
Backends(s) == IF s \in NegServices THEN {b \in gfe[s] : ready[b][s] > 0} ELSE Selected(s)

=============================================================================
