----------------------------- MODULE MCRequestPath -----------------------------
(* Two builds during a cutover.                                            *)
EXTENDS RequestPath

CONSTANTS r1, r2, old, new

MCRequests == {r1, r2}
MCBuilds == {old, new}

App(mw, covers, conditional) == [mw |-> mw, covers |-> covers, conditional |-> conditional,
                               failOpen |-> mw # "none"]

Plain == App("none", {}, FALSE)
Guarded == App("node", {"page", "asset", "ws"}, TRUE)
ImageGuard == App("node", {"page", "image"}, FALSE)

MCApps == {a \in [MCBuilds -> {Plain, Guarded, App("edge", {"page"}, FALSE),
                               App("odd", {"page"}, FALSE)}] :
             Guarded \in {a[old], a[new]} /\ a[old].mw # "odd"}
          \cup {[b \in MCBuilds |-> ImageGuard]}

Shape(k, get, cond, owners, hint, big, target) ==
    [kind |-> k, get |-> get, cond |-> cond, owners |-> owners, hint |-> hint,
     big |-> big, target |-> target]

(* Requests that only meet the cutover and the faults of the hand-over.    *)
Alone ==
    {Shape(k, TRUE, TRUE, {}, NoBuild, big, "good") : k \in {"page", "image", "ws"}, big \in BOOLEAN}
    \cup {Shape("page", FALSE, TRUE, o, h, FALSE, "good") :
              o \in {{}, {old}, {old, new}}, h \in {NoBuild, old}}
    \cup {Shape("asset", TRUE, TRUE, o, NoBuild, FALSE, "good") : o \in {{old}, {old, new}}}
    \cup {Shape(k, TRUE, TRUE, {}, NoBuild, FALSE, t) : k \in {"data", "ppr"}, t \in {"good", "bad"}}

(* Two requests for one URL, the first spared by the matcher's conditions. *)
Pair(k) == [r \in MCRequests |-> Shape(k, TRUE, r = r2, {}, NoBuild, FALSE, "good")]

MCFacts == {[r \in {r1} |-> s] : s \in Alone} \cup {Pair(k) : k \in {"page", "asset", "image"}}
================================================================================
