----------------------------- MODULE PoolServer -----------------------------
(***************************************************************************)
(* One pool pod: createPoolServer (pool-server/server.ts), the upgrade     *)
(* path it hands sockets to (websocket-upgrade.ts), and the start-up       *)
(* verification and signal handler of startPoolServer (index.ts).          *)
(*                                                                         *)
(* A response and an upgraded socket are tracked from the event that       *)
(* creates them to the `finish`/`close` event that settles them.  Those    *)
(* events are steps of their own: a destroyed socket is still tracked      *)
(* until its `close` is delivered, and the drain may run in between.       *)
(* Durations are not modelled: a timer may fire at any moment after it is  *)
(* armed.                                                                  *)
(***************************************************************************)
EXTENDS Naturals, FiniteSets, Sequences, SequencesExt, FrameCursor

CONSTANTS Responses,   \* HTTP exchanges
          Sockets,     \* upgraded connections
          Streams      \* client-bound frame sequences a sibling pool may send

(* A pod serves a finite number of exchanges and upgrades before it stops. *)
ASSUME PoolAssumption == IsFiniteSet(Responses) /\ IsFiniteSet(Sockets)

VARIABLES
  pod,           \* "starting" (before listen), "probing", "up", "exited"
  instrumented,  \* register() of the instrumentation hook did not fail
  verified,      \* routeModulesVerified
  phase,         \* the drain: "none", "grace", "flush", "closing", "done"
  serverClosed,  \* the callback of server.close()
  resp,          \* [Responses -> activeResponses entry and the ServerResponse]
  ws,            \* [Sockets -> upgradedSockets entry and the socket]
  metrics,       \* drainMetrics
  imageWork      \* a background image refresh is running

vars == <<pod, instrumented, verified, phase, serverClosed, resp, ws, metrics, imageWork>>

draining == phase # "none"

ContentTypes == {"none", "sse", "finite"}
Stages == {"resolve", "proxy", "prepare", "load", "handler", "replying", "settled"}

NoResp == [st |-> "new", ctype |-> "none", eventStream |-> FALSE, headersSent |-> FALSE,
           ended |-> FALSE, dead |-> FALSE, action |-> "none"]
NoSocket == [st |-> "new", stage |-> "resolve", own |-> "handshake", signalled |-> FALSE,
             dead |-> FALSE, ended |-> FALSE, told |-> "none", gone |-> FALSE,
             stream |-> << >>, pos |-> 0, cursor |-> Fresh, torn |-> FALSE]
NoMetrics == [httpAtStart |-> 0, completed |-> 0, clientClosed |-> 0, sseEnded |-> 0,
              sseForced |-> 0, httpForced |-> 0, wsAtStart |-> 0, peerClosed |-> 0,
              signalled |-> 0, tunnelled |-> 0, wsForced |-> 0]

Active == {r \in Responses: resp[r].st = "active"}
Open == {s \in Sockets: ws[s].st = "open"}

Init ==
  /\ pod = "starting" /\ instrumented \in BOOLEAN /\ verified = FALSE
  /\ phase = "none" /\ serverClosed = FALSE /\ imageWork = FALSE
  /\ resp = [r \in Responses |-> NoResp]
  /\ ws = [s \in Sockets |-> NoSocket]
  /\ metrics = NoMetrics
-----------------------------------------------------------------------------
(***************************************************************************)
(* Start-up.  Readiness is withheld until a route module of the pool was   *)
(* loaded and every edge output maps to staged files; the signal handler   *)
(* is installed after that check, so an earlier SIGTERM simply kills.      *)
(***************************************************************************)
Listen == pod = "starting" /\ pod' = "probing"
          /\ UNCHANGED <<instrumented, verified, phase, serverClosed, resp, ws, metrics, imageWork>>

VerifyOutputs ==
  /\ pod = "probing"
  /\ pod' = "up"
  /\ verified' \in IF instrumented THEN BOOLEAN ELSE {FALSE}
  /\ UNCHANGED <<instrumented, phase, serverClosed, resp, ws, metrics, imageWork>>

Serving == pod \in {"probing", "up"}

-----------------------------------------------------------------------------
(***************************************************************************)
(* HTTP.  A request that arrives while draining is refused with 503 and    *)
(* never tracked.  The tracked content type follows setHeader,             *)
(* removeHeader and the headers argument of writeHead.                     *)
(***************************************************************************)
Request(r) ==
  /\ Serving /\ ~draining /\ resp[r].st = "new"
  /\ resp' = [resp EXCEPT ![r].st = "active"]
  /\ UNCHANGED <<pod, instrumented, verified, phase, serverClosed, ws, metrics, imageWork>>

Running(r) == /\ Serving /\ resp[r].st = "active" /\ ~resp[r].ended
              /\ UNCHANGED <<pod, instrumented, verified, phase, serverClosed, ws, metrics>>

SetHeader(r, t) ==
  /\ Running(r) /\ ~resp[r].headersSent /\ t # "none"
  /\ resp' = [resp EXCEPT ![r].ctype = t, ![r].eventStream = (t = "sse")]
  /\ UNCHANGED imageWork

RemoveHeader(r) ==
  /\ Running(r) /\ ~resp[r].headersSent /\ resp[r].ctype # "none"
  /\ resp' = [resp EXCEPT ![r].ctype = "none", ![r].eventStream = FALSE]
  /\ UNCHANGED imageWork

(* writeHead: a content type among its arguments replaces the one set before. *)
Committed(x, t) ==
  IF t = "none" THEN [x EXCEPT !.headersSent = TRUE]
  ELSE [x EXCEPT !.headersSent = TRUE, !.ctype = t, !.eventStream = (t = "sse")]

WriteHead(r, t) ==
  /\ Running(r) /\ ~resp[r].headersSent
  /\ resp' = [resp EXCEPT ![r] = Committed(@, t)]
  /\ UNCHANGED imageWork

(* The handler finishes its body; it may leave an image refresh behind. *)
HandlerEnds(r) ==
  /\ Running(r) /\ resp[r].headersSent
  /\ resp' = [resp EXCEPT ![r].ended = TRUE]
  /\ imageWork' \in {imageWork, TRUE}

(* An escaped error: a 500 when no header was sent, an end of the body otherwise. *)
HandlerThrows(r) ==
  /\ Running(r)
  /\ resp' = [resp EXCEPT ![r] = IF @.headersSent THEN [@ EXCEPT !.ended = TRUE]
                                 ELSE [Committed(@, "finite") EXCEPT !.ended = TRUE]]
  /\ UNCHANGED imageWork

ImageWorkSettles ==
  /\ Serving /\ imageWork /\ imageWork' = FALSE
  /\ UNCHANGED <<pod, instrumented, verified, phase, serverClosed, resp, ws, metrics>>

ClientLeaves(r) ==
  /\ Serving /\ resp[r].st = "active" /\ ~resp[r].dead
  /\ resp' = [resp EXCEPT ![r].dead = TRUE]
  /\ UNCHANGED <<pod, instrumented, verified, phase, serverClosed, ws, metrics, imageWork>>

(* settleResponse: the first of `finish` and `close` settles and counts. *)
SettledMetrics(m, x, finished) ==
  CASE ~draining               -> m
    [] x.action = "end-sse"    -> [m EXCEPT !.sseEnded = @ + 1]
    [] x.action = "force-close" -> m
    [] OTHER -> IF finished THEN [m EXCEPT !.completed = @ + 1]
                ELSE [m EXCEPT !.clientClosed = @ + 1]

Settle(r, finished) ==
  /\ Serving /\ resp[r].st = "active"
  /\ resp' = [resp EXCEPT ![r] = [NoResp EXCEPT !.st = "settled"]]
  /\ metrics' = SettledMetrics(metrics, resp[r], finished)
  /\ UNCHANGED <<pod, instrumented, verified, phase, serverClosed, ws, imageWork>>

Finish(r) == resp[r].ended /\ ~resp[r].dead /\ Settle(r, TRUE)
Close(r) == resp[r].dead /\ Settle(r, FALSE)
-----------------------------------------------------------------------------
(***************************************************************************)
(* Upgrades.  handleWebSocketUpgrade validates synchronously and then      *)
(* passes through resolution, and either a cross-pool proxy request or     *)
(* cache preparation, module load and the generated handler; every wait    *)
(* has the handshake deadline, and a failed stage answers over HTTP, ends  *)
(* the socket and reports "rejected".                                      *)
(***************************************************************************)
SocketStep(s) == /\ Serving /\ ws[s].st = "open"
                 /\ UNCHANGED <<pod, instrumented, verified, phase, serverClosed, resp, imageWork>>

(* The `upgrade` event; a draining pod answers 503 and tracks nothing. *)
Upgrade(s) ==
  /\ Serving /\ ~draining /\ ws[s].st = "new"
  /\ ws' = [ws EXCEPT ![s].st = "open",
                      ![s].stage = "resolve"]
  /\ UNCHANGED <<pod, instrumented, verified, phase, serverClosed, resp, metrics, imageWork>>

(* A stage succeeds. A trusted verdict skips nothing but the wait of "resolve". *)
Advance(s) ==
  /\ SocketStep(s)
  /\ \E next \in Stages:
       /\ <<ws[s].stage, next>> \in {<<"resolve", "proxy">>, <<"resolve", "prepare">>,
                                     <<"prepare", "load">>, <<"load", "handler">>}
       /\ ws' = [ws EXCEPT ![s].stage = next]
  /\ UNCHANGED metrics

(* writeHttpResponse: failed validation, a refused resolution, an unknown or edge output, a     *)
(* failed preparation or load, a proxy error, the handshake deadline.  It ends the socket itself. *)
Reject(s) ==
  /\ SocketStep(s) /\ ws[s].stage \in {"resolve", "prepare", "load", "proxy"}
  /\ ws' = [ws EXCEPT ![s].stage = "replying", ![s].ended = TRUE]
  /\ UNCHANGED metrics

(* The sibling pool answered without upgrading and its response was relayed, *)
(* or the relay was cut (1 MiB, an error) and the socket destroyed.          *)
RelayRejection(s) ==
  /\ SocketStep(s) /\ ws[s].stage = "proxy"
  /\ \E cut \in BOOLEAN:
       ws' = [ws EXCEPT ![s].stage = "settled", ![s].dead = @ \/ cut, ![s].ended = @ \/ ~cut]
  /\ UNCHANGED metrics

(* The disposition of a rejection: the server ends a socket nobody ended yet. *)
RejectedSocket(x) ==
  IF ~x.dead /\ ~x.ended
  THEN [x EXCEPT !.stage = "settled", !.signalled = TRUE, !.ended = TRUE]
  ELSE [x EXCEPT !.stage = "settled"]

ReplyFlushed(s) ==
  /\ SocketStep(s) /\ ws[s].stage = "replying"
  /\ ws' = [ws EXCEPT ![s] = RejectedSocket(@)]
  /\ UNCHANGED metrics

HandlerDeclines(s) ==
  /\ SocketStep(s) /\ ws[s].stage = "handler"
  /\ ws' = [ws EXCEPT ![s] = RejectedSocket(@)]
  /\ UNCHANGED metrics

HandlerAccepts(s) ==
  /\ SocketStep(s) /\ ws[s].stage = "handler"
  /\ ws' = [ws EXCEPT ![s].stage = "settled", ![s].own = "local"]
  /\ UNCHANGED metrics

(* The generated handler throws, answers nonsense or misses the deadline, or a *)
(* reply cannot be written in time: the socket is destroyed.                   *)
UpgradeFails(s) ==
  /\ SocketStep(s) /\ ws[s].stage \in {"handler", "replying"}
  /\ ws' = [ws EXCEPT ![s].stage = "settled", ![s].dead = TRUE]
  /\ UNCHANGED metrics

(* Fault: the frame bytes that came with the upgrade response are not observed. *)
Relayed_HeadUnseen(x, n) ==
  IF x.pos = 0 THEN [x EXCEPT !.pos = n]
  ELSE [x EXCEPT !.pos = @ + n,
                 !.cursor = Observe(@, SubSeq(FlattenSeq(x.stream), x.pos + 1, x.pos + n))]

(* A relayed byte range reaches the client; the cursor observes the same bytes. *)
Relayed(x, n) ==
  LET bytes == SubSeq(FlattenSeq(x.stream), x.pos + 1, x.pos + n)
  IN [x EXCEPT !.pos = @ + n, !.cursor = Observe(@, bytes)]

Left(x) == Len(FlattenSeq(x.stream)) - x.pos

(* proxyUpgradeToPool: the head bytes of the response are relayed before the pipe exists. *)
ProxyUpgraded(s) ==
  /\ SocketStep(s) /\ ws[s].stage = "proxy" /\ ~ws[s].dead /\ ~ws[s].ended
  /\ \E stream \in Streams:
       LET x == [ws[s] EXCEPT !.stage = "settled", !.own = "tunnel", !.stream = stream]
       IN \E n \in 0..Left(x): ws' = [ws EXCEPT ![s] = Relayed(x, n)]
  /\ UNCHANGED metrics

RelayChunk(s) ==
  /\ SocketStep(s) /\ ws[s].own = "tunnel" /\ ~ws[s].dead /\ ~ws[s].cursor.relayStopped
  /\ \E n \in 1..Left(ws[s]): ws' = [ws EXCEPT ![s] = Relayed(@, n)]
  /\ UNCHANGED metrics

(* The client leaves, or the sibling pool closes its end of a tunnel. *)
PeerLeaves(s) ==
  /\ SocketStep(s) /\ ~ws[s].dead
  /\ ws' = [ws EXCEPT ![s].dead = TRUE, ![s].gone = TRUE]
  /\ UNCHANGED metrics

(* Fault: every close during the drain is counted. *)
CloseMetrics_All(m, x) == IF draining THEN [m EXCEPT !.peerClosed = @ + 1] ELSE m

(* The close listener: an unsignalled close during the drain is the peer's doing. *)
CloseMetrics(m, x) ==
  IF draining /\ ~x.signalled THEN [m EXCEPT !.peerClosed = @ + 1] ELSE m

SocketClose(s) ==
  /\ SocketStep(s) /\ (ws[s].dead \/ ws[s].ended)
  /\ ws' = [ws EXCEPT ![s] = [NoSocket EXCEPT !.st = "closed", !.signalled = ws[s].signalled,
                                              !.told = ws[s].told, !.gone = ws[s].gone]]
  /\ metrics' = CloseMetrics(metrics, ws[s])
-----------------------------------------------------------------------------
(***************************************************************************)
(* Drain: stop() of the server inside the signal handler.                  *)
(***************************************************************************)
Sigterm ==
  /\ pod = "up" /\ ~draining
  /\ verified' = FALSE
  /\ phase' = "grace"
  /\ metrics' = [NoMetrics EXCEPT !.httpAtStart = Cardinality(Active),
                                  !.wsAtStart = Cardinality(Open)]
  /\ UNCHANGED <<pod, instrumented, serverClosed, resp, ws, imageWork>>

(* No handler is installed yet. *)
SigtermEarly ==
  /\ pod \in {"starting", "probing"} /\ pod' = "exited"
  /\ UNCHANGED <<instrumented, verified, phase, serverClosed, resp, ws, metrics, imageWork>>

ServerCloses ==
  /\ Serving /\ draining /\ ~serverClosed /\ Active = {}
  /\ serverClosed' = TRUE
  /\ UNCHANGED <<pod, instrumented, verified, phase, resp, ws, metrics, imageWork>>

(* The terminal pass over the responses that are neither ended nor destroyed. *)
TerminalResp(x) ==
  IF x.st # "active" \/ x.ended \/ x.dead THEN x
  ELSE IF x.eventStream THEN [x EXCEPT !.action = "end-sse", !.ended = TRUE]
  ELSE [x EXCEPT !.action = "force-close", !.dead = TRUE]

(***************************************************************************)
(* The terminal pass over the sockets: 1001 into a local socket, 1001 into *)
(* a tunnel whose relay is between frames (injectTunnelCloseFrame stops    *)
(* the relay), an HTTP end for a handshake.  `torn` records a frame        *)
(* written into the middle of a relayed one or after its close frame.      *)
(***************************************************************************)
Boundaries(stream) == {Len(FlattenSeq(SubSeq(stream, 1, k))): k \in 0..Len(stream)}
CloseSent(x) == \E k \in 1..Len(x.stream):
                  /\ x.stream[k][1] % 16 = 8
                  /\ x.pos > Len(FlattenSeq(SubSeq(x.stream, 1, k - 1)))

InjectCloseFrame(x) ==
  [x EXCEPT !.cursor = StopRelay(@), !.told = "going-away",
            !.torn = x.pos \notin Boundaries(x.stream) \/ CloseSent(x)]

TerminalSocket(x) ==
  IF x.st # "open" \/ x.dead THEN x
  ELSE LET y == [x EXCEPT !.signalled = TRUE]
       IN CASE x.own = "local"  -> [y EXCEPT !.told = "going-away"]
            [] x.own = "tunnel" -> IF AtFrameBoundary(x.cursor) THEN InjectCloseFrame(y)
                                   ELSE [y EXCEPT !.told = "relay"]
            [] OTHER            -> [y EXCEPT !.told = "http", !.ended = TRUE]

Told(w, what) == Cardinality({s \in Sockets: w[s].told = what})
Moved(f, g, P(_)) == Cardinality({k \in DOMAIN f: f[k] # g[k] /\ P(g[k])})

TerminalMetrics(R, W) ==
  [metrics EXCEPT !.httpForced = @ + Moved(resp, R, LAMBDA x: x.action = "force-close"),
                  !.signalled = Told(W, "going-away"),
                  !.tunnelled = Told(W, "relay")]

(* After the flush window whatever is left is destroyed; a stream whose EOF is still queued *)
(* becomes sseForced, an ended but unflushed finite response httpForced.                     *)
SweptResp(x) == IF x.st = "active" /\ ~x.dead
                THEN [x EXCEPT !.dead = TRUE, !.action = "force-close"] ELSE x
SweptSocket(x) == IF x.st = "open" /\ ~x.dead
                  THEN [x EXCEPT !.dead = TRUE, !.signalled = TRUE] ELSE x

Sweep(R, W, m) ==
  /\ resp' = [r \in Responses |-> SweptResp(R[r])]
  /\ ws' = [s \in Sockets |-> SweptSocket(W[s])]
  /\ metrics' =
       LET left == {r \in Responses: R[r].st = "active" /\ ~R[r].dead}
           eof == {r \in left: R[r].action = "end-sse"}
       IN [m EXCEPT !.sseForced = @ + Cardinality(eof),
                    !.httpForced = @ + Cardinality(left \ eof),
                    !.wsForced = Cardinality({s \in Sockets: W[s].st = "open" /\ ~W[s].dead})]
  /\ phase' = "closing"

(* Fault: only a completed wait ends the grace period. *)
GraceOver_NoDeadline == phase = "grace" /\ Active = {} /\ Open = {} /\ serverClosed

(* The wait ends when everything has left, or at the deadline whatever is left. *)
GraceOver == phase = "grace"

GraceEnds ==
  /\ Serving /\ GraceOver
  /\ LET R == [r \in Responses |-> TerminalResp(resp[r])]
         W == [s \in Sockets |-> TerminalSocket(ws[s])]
         m == TerminalMetrics(R, W)
     IN IF \/ \E r \in Responses: R[r] # resp[r] /\ R[r].action = "end-sse"
           \/ \E s \in Sockets: W[s] # ws[s]
        THEN phase' = "flush" /\ resp' = R /\ ws' = W /\ metrics' = m
        ELSE Sweep(R, W, m)
  /\ UNCHANGED <<pod, instrumented, verified, serverClosed, imageWork>>

FlushEnds ==
  /\ Serving /\ phase = "flush"
  /\ Sweep(resp, ws, metrics)
  /\ UNCHANGED <<pod, instrumented, verified, serverClosed, imageWork>>

(* closeAllConnections, then the race of the close callback and 250 ms. *)
StopSettles ==
  /\ Serving /\ phase = "closing" /\ phase' = "done"
  /\ UNCHANGED <<pod, instrumented, verified, serverClosed, resp, ws, metrics, imageWork>>

(* process.exit(0) after the image refreshes, or by the hard-exit timer, which is armed for a *)
(* second more than the grace period.                                                        *)
Exit ==
  /\ Serving
  /\ \/ phase = "done" /\ ~imageWork
     \/ phase \in {"flush", "closing", "done"}
  /\ pod' = "exited"
  /\ UNCHANGED <<instrumented, verified, phase, serverClosed, resp, ws, metrics, imageWork>>

(* An event loop that stalls past both deadlines may run the hard exit before the wait of the *)
(* grace period ends.                                                                        *)
HardExit ==
  /\ Serving /\ phase = "grace"
  /\ pod' = "exited"
  /\ UNCHANGED <<instrumented, verified, phase, serverClosed, resp, ws, metrics, imageWork>>

Exited == pod = "exited" /\ UNCHANGED vars
-----------------------------------------------------------------------------
Http(r) == \/ Request(r) \/ RemoveHeader(r) \/ HandlerEnds(r) \/ HandlerThrows(r)
           \/ \E t \in ContentTypes: SetHeader(r, t) \/ WriteHead(r, t)
           \/ ClientLeaves(r) \/ Finish(r) \/ Close(r)

Socket(s) == \/ Upgrade(s) \/ Advance(s) \/ Reject(s) \/ RelayRejection(s) \/ ReplyFlushed(s)
             \/ HandlerDeclines(s) \/ HandlerAccepts(s) \/ UpgradeFails(s)
             \/ ProxyUpgraded(s) \/ RelayChunk(s) \/ PeerLeaves(s) \/ SocketClose(s)

Drain == Sigterm \/ ServerCloses \/ GraceEnds \/ FlushEnds \/ StopSettles \/ Exit \/ HardExit

Next ==
  \/ Listen \/ VerifyOutputs \/ SigtermEarly \/ ImageWorkSettles \/ Drain \/ Exited
  \/ \E r \in Responses: Http(r)
  \/ \E s \in Sockets: Socket(s)

(***************************************************************************)
(* Only the timers of the drain are fair.  Handlers, clients, image        *)
(* refreshes and the close callback may take for ever.                     *)
(***************************************************************************)
Spec == /\ Init /\ [][Next]_vars
        /\ WF_vars(GraceEnds) /\ WF_vars(FlushEnds) /\ WF_vars(StopSettles) /\ WF_vars(Exit)
-----------------------------------------------------------------------------
TypeOK ==
  /\ pod \in {"starting", "probing", "up", "exited"}
  /\ phase \in {"none", "grace", "flush", "closing", "done"}
  /\ {instrumented, verified, serverClosed, imageWork} \subseteq BOOLEAN
  /\ \A r \in Responses: /\ resp[r].st \in {"new", "active", "settled"}
                         /\ resp[r].ctype \in ContentTypes
                         /\ resp[r].action \in {"none", "end-sse", "force-close"}
  /\ \A s \in Sockets: /\ ws[s].st \in {"new", "open", "closed"}
                       /\ ws[s].stage \in Stages
                       /\ ws[s].own \in {"handshake", "local", "tunnel"}
                       /\ ws[s].told \in {"none", "going-away", "relay", "http"}

(***************************************************************************)
(* The categories of the "drain complete" line partition the responses     *)
(* that were in flight when the drain began: every one is either counted   *)
(* in exactly one of them or still tracked and not yet acted upon          *)
(* (DrainMetrics, server.ts).                                              *)
(***************************************************************************)
HttpAccounting ==
  draining =>
    LET m == metrics
    IN m.completed + m.clientClosed + m.sseEnded + m.sseForced + m.httpForced
         + Cardinality({r \in Active: resp[r].action # "force-close"}) = m.httpAtStart

(***************************************************************************)
(* peerClosed, signalled and tunnelled are mutually exclusive and sum to   *)
(* the sockets open when the drain began, less the handshakes the server   *)
(* ended and the sockets that are still undecided, whatever becomes of a   *)
(* handshake between those two moments (DrainMetrics, server.ts).          *)
(***************************************************************************)
SocketAccounting ==
  draining =>
    LET m == metrics
        ended == {s \in Sockets: ws[s].st # "new" /\ ws[s].signalled
                                 /\ ws[s].told \in {"none", "http"}}
    IN /\ m.peerClosed + m.signalled + m.tunnelled <= m.wsAtStart
       /\ m.wsAtStart <= m.peerClosed + m.signalled + m.tunnelled + Cardinality(ended)
                         + Cardinality({s \in Open: ~ws[s].signalled})

(* The "drain complete" line accounts for every response and every socket. *)
DrainAccounting == HttpAccounting /\ SocketAccounting

(***************************************************************************)
(* The drain never writes its 1001 into the middle of a frame a tunnel is  *)
(* relaying, nor after the close frame of the sibling pool (N90, N91), for *)
(* every split of the relayed bytes into chunks.                           *)
(***************************************************************************)
NoTornFrame == \A s \in Sockets: ~ws[s].torn

(***************************************************************************)
(* The drain ends with a clean EOF only a response that really is an event *)
(* stream: a finite body that was cut short is reset, never passed off as  *)
(* complete (stop(), "a normal end would falsely authenticate ...").       *)
(***************************************************************************)
EofOnlyForEventStreams ==
  \A r \in Responses: resp[r].action = "end-sse" => resp[r].ctype = "sse"

(* What the drain sends is honest: nothing it interrupts looks whole to the *)
(* peer, neither a frame nor a body.                                        *)
HonestEndings == NoTornFrame /\ EofOnlyForEventStreams

(***************************************************************************)
(* Shutdown terminates: a drain that began ends in process.exit although   *)
(* no handler, client, refresh or close callback is assumed to make        *)
(* progress (N41).                                                         *)
(***************************************************************************)
DrainTerminates == draining ~> (pod = "exited")
=============================================================================
