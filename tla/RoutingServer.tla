----------------------------- MODULE RoutingServer -----------------------------
(***************************************************************************)
(* The process of the routing service: main() of routing-service/index.ts   *)
(* and the HTTP/2 server of routing-service/server.ts, from its start to    *)
(* the end of its drain.  What a callout decides is RequestPath's subject;  *)
(* here it is answered by its handler or by the budget's timer.             *)
(*                                                                          *)
(* Each connection carries the callouts of one session.  Time is counted    *)
(* from the moment readiness is withdrawn, in ticks up to the drain delay.  *)
(***************************************************************************)
EXTENDS Naturals, FiniteSets

CONSTANTS Callouts, Connections,
          On,           \* the connection of a callout
          DrainDelay    \* ROUTING_DRAIN_DELAY_MS

VARIABLES process,   \* "starting", "listening", "up", "exited"
          ready,
          withdrawn, \* drainStarted is set
          waited,    \* time since then
          due,       \* when the delay of stop() is over
          stopping,  \* "no", "delay", "closing", "closed"
          conn,      \* "new", "handshake", "open", "closing", "gone"
          call,      \* each callout: its stream and whether its handler still runs
          budget,    \* ROUTING_REQUEST_TIMEOUT_MS > 0
          held       \* a peer holds a request of the health server open

routingVars == <<process, ready, withdrawn, waited, due, stopping, conn, call, budget, held>>

Init ==
    /\ process = "starting" /\ ready = FALSE
    /\ withdrawn = FALSE /\ waited = 0 /\ due = 0
    /\ stopping = "no"
    /\ conn = [k \in Connections |-> "new"]
    /\ call = [c \in Callouts |-> [st |-> "new", handler |-> FALSE]]
    /\ budget \in BOOLEAN /\ held = FALSE

--------------------------------------------------------------------------------
(* The manifest is checked against the image, middleware is loaded and the  *)
(* port is bound; any of it may fail.                                       *)
Start ==
    /\ process = "starting"
    /\ process' \in {"listening", "exited"}
    /\ UNCHANGED <<budget, held, ready, withdrawn, waited, due, stopping, conn, call>>

(* The health server answers, and from here signals are handled; its port   *)
(* may be taken.                                                            *)
HealthServerStarts ==
    /\ process = "listening" /\ process' \in {"up", "exited"}
    /\ ready' \in BOOLEAN      \* the instrumentation hook may have failed
    /\ UNCHANGED <<budget, held, withdrawn, waited, due, stopping, conn, call>>

Serving == process \in {"listening", "up"}
Accepting == Serving /\ stopping \in {"no", "delay"}

Connect(k) ==
    /\ Accepting /\ conn[k] = "new"
    /\ conn' = [conn EXCEPT ![k] = "handshake"]
    /\ UNCHANGED <<budget, held, process, ready, withdrawn, waited, due, stopping, call>>

(* A handshake accepted before the listener closed may end after it.        *)
SessionOpens(k) ==
    /\ Serving /\ conn[k] = "handshake"
    /\ conn' = [conn EXCEPT ![k] = IF stopping = "closing" THEN "closing" ELSE "open"]
    /\ UNCHANGED <<budget, held, process, ready, withdrawn, waited, due, stopping, call>>

(* The streams of the connections ks break.                                 *)
Broken(ks) ==
    [c \in Callouts |-> IF On[c] \in ks /\ call[c].st \in {"handling", "answered"}
                          THEN [call[c] EXCEPT !.st = IF @ = "answered" THEN "done" ELSE "cut"]
                          ELSE call[c]]

PeerCloses(k) ==
    /\ Serving /\ conn[k] \in {"handshake", "open", "closing"}
    /\ conn' = [conn EXCEPT ![k] = "gone"]
    /\ call' = Broken({k})
    /\ UNCHANGED <<budget, held, process, ready, withdrawn, waited, due, stopping>>

--------------------------------------------------------------------------------
(* Callouts.  A session that is closing takes no new stream.                *)
CalloutArrives(c) ==
    /\ Serving /\ conn[On[c]] = "open" /\ call[c].st = "new"
    /\ call' = [call EXCEPT ![c] = [st |-> "handling", handler |-> TRUE]]
    /\ UNCHANGED <<budget, held, process, ready, withdrawn, waited, due, stopping, conn>>

(* The handler settles; its answer counts if the timer has not answered.    *)
HandlerSettles(c) ==
    /\ Serving /\ call[c].handler
    /\ call' = [call EXCEPT ![c] = [st |-> IF @.st = "handling" THEN "answered" ELSE @.st,
                                    handler |-> FALSE]]
    /\ UNCHANGED <<budget, held, process, ready, withdrawn, waited, due, stopping, conn>>

(* Over the budget: 500 or an untouched request, while the handler goes on. *)
(* A budget of 0 is no timer.                                               *)
BudgetSpent(c) ==
    /\ Serving /\ budget /\ call[c].st = "handling"
    /\ call' = [call EXCEPT ![c].st = "answered"]
    /\ UNCHANGED <<budget, held, process, ready, withdrawn, waited, due, stopping, conn>>

StreamEnds(c) ==
    /\ Serving /\ call[c].st = "answered"
    /\ call' = [call EXCEPT ![c].st = "done"]
    /\ UNCHANGED <<budget, held, process, ready, withdrawn, waited, due, stopping, conn>>

--------------------------------------------------------------------------------
(* The drain.  beginDrain withdraws readiness once, from the preStop hook's *)
(* request or from the signal, whichever comes first.                       *)
beginDrain == withdrawn' = TRUE /\ ready' = FALSE

PreStop ==
    /\ process = "up"
    /\ beginDrain
    /\ UNCHANGED <<budget, held, process, waited, due, stopping, conn, call>>

(* The first signal asks for a stop after what is left of the delay; one    *)
(* before the handler is installed kills.                                   *)
Sigterm ==
    \/ /\ process = "up" /\ stopping = "no"
       /\ beginDrain
       /\ due' = IF withdrawn /\ waited > DrainDelay THEN waited ELSE DrainDelay
       /\ stopping' = "delay"
       /\ UNCHANGED <<budget, held, process, waited, conn, call>>
    \/ /\ process = "listening" /\ process' = "exited"
       /\ UNCHANGED <<budget, held, ready, withdrawn, waited, due, stopping, conn, call>>

Tick ==
    /\ Serving /\ withdrawn /\ waited <= DrainDelay
    /\ waited' = waited + 1
    /\ UNCHANGED <<budget, held, process, ready, withdrawn, due, stopping, conn, call>>

(* The delay is over: no more connections, and every session is asked to    *)
(* finish its streams.                                                      *)
ListenerCloses ==
    /\ Serving /\ stopping = "delay" /\ waited >= due
    /\ stopping' = "closing"
    /\ conn' = [k \in Connections |-> IF conn[k] = "open" THEN "closing" ELSE conn[k]]
    /\ UNCHANGED <<budget, held, process, ready, withdrawn, waited, due, call>>

(* A session that was asked to close and has no stream left ends.           *)
SessionEnds(k) ==
    /\ Serving /\ conn[k] = "closing"
    /\ \A c \in Callouts : On[c] = k => call[c].st \notin {"handling", "answered"}
    /\ conn' = [conn EXCEPT ![k] = "gone"]
    /\ UNCHANGED <<budget, held, process, ready, withdrawn, waited, due, stopping, call>>

(* After the grace period every session and every socket is destroyed, one  *)
(* whose handshake never ended included.                                    *)
GraceDeadline ==
    /\ Serving /\ stopping = "closing"
    /\ conn' = [k \in Connections |-> IF conn[k] = "new" THEN "new" ELSE "gone"]
    /\ call' = Broken(Connections)
    /\ UNCHANGED <<budget, held, process, ready, withdrawn, waited, due, stopping>>

ServerClosed ==
    /\ Serving /\ stopping = "closing"
    /\ \A k \in Connections : conn[k] \in {"new", "gone"}
    /\ stopping' = "closed"
    /\ UNCHANGED <<budget, held, process, ready, withdrawn, waited, due, conn, call>>

(* The health server's port is reachable by probes: a peer may begin a      *)
(* request and not end it.                                                  *)
HealthRequest ==
    /\ process = "up" /\ stopping # "closed" /\ ~held
    /\ held' = TRUE
    /\ UNCHANGED <<process, ready, withdrawn, waited, due, stopping, conn, call, budget>>

HealthRequestEnds ==
    /\ process = "up" /\ held
    /\ held' = FALSE
    /\ UNCHANGED <<process, ready, withdrawn, waited, due, stopping, conn, call, budget>>

(* The health server closes, its idle connections at once and a request     *)
(* that is still arriving whenever its peer ends it: close() has no         *)
(* deadline.  Then the process exits.                                       *)
Exit ==
    /\ Serving /\ stopping = "closed" /\ ~held
    /\ process' = "exited"
    /\ UNCHANGED <<budget, held, ready, withdrawn, waited, due, stopping, conn, call>>

Exited == process = "exited" /\ UNCHANGED routingVars

Next ==
    \/ Start \/ HealthServerStarts \/ PreStop \/ Sigterm \/ Tick
    \/ ListenerCloses \/ GraceDeadline \/ ServerClosed \/ Exit \/ Exited
    \/ HealthRequest \/ HealthRequestEnds
    \/ \E k \in Connections : Connect(k) \/ SessionOpens(k) \/ PeerCloses(k) \/ SessionEnds(k)
    \/ \E c \in Callouts : \/ CalloutArrives(c) \/ HandlerSettles(c)
                           \/ BudgetSpent(c) \/ StreamEnds(c)

(* Timers fire and the server's own events are delivered.  Handlers, peers  *)
(* and the load balancer are under no obligation.                           *)
Fairness ==
    /\ WF_routingVars(Tick) /\ WF_routingVars(ListenerCloses) /\ WF_routingVars(GraceDeadline)
    /\ WF_routingVars(ServerClosed) /\ WF_routingVars(Exit)
    /\ \A c \in Callouts : WF_routingVars(BudgetSpent(c))

--------------------------------------------------------------------------------
(* The listener closes only after readiness has been withdrawn for the      *)
(* whole delay, in which the load balancer stops sending callouts: whether  *)
(* preStop, the signal or both came, and in which order; and once it is     *)
(* closed no session is left that nobody asked to finish, also not one      *)
(* whose handshake ended late (index.ts shutdown, server.ts stop).          *)
DrainOrdered ==
    stopping \in {"closing", "closed"} => /\ ~ready /\ waited >= DrainDelay
                                         /\ \A k \in Connections : conn[k] # "open"

(* With a budget, a callout that was accepted is answered within it or      *)
(* loses its connection; a stop closes the server, although handlers never  *)
(* settle, handshakes never finish and the proxy keeps its streams open;    *)
(* and the process exits unless a peer holds a request of the health server *)
(* open, for which health.close() would wait.                               *)
RoutingStops ==
    /\ \A c \in Callouts : budget /\ call[c].st = "handling" ~>
                            call[c].st \in {"answered", "done", "cut"} \/ process = "exited"
    /\ stopping = "delay" ~> stopping = "closed"
    /\ stopping = "closed" /\ ~held ~> process = "exited"
================================================================================
