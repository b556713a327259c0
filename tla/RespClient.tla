------------------------------ MODULE RespClient ------------------------------
(***************************************************************************)
(* The hand-written RESP2 client of                                        *)
(* src/pool-server/valkey-cache/resp-client.ts.  Replies carry no name:    *)
(* the n-th reply on a connection belongs to the n-th command written to   *)
(* it, and one FIFO `queue` serves every connection the client ever opens. *)
(*                                                                         *)
(* Node runs promise continuations (microtasks) to the end before the next *)
(* socket event or timer, so an event's action waits until no continuation *)
(* is due (Idle).  Bytes are frames and halves of frames.                  *)
(***************************************************************************)
EXTENDS Naturals, Sequences, FiniteSets

CONSTANTS
    Commands,       \* the commands callers issue, once each
    Multis,         \* the ones that are MULTI transactions
    Configs,        \* client options and environments to explore
    MaxGen,         \* bound on connection ids
    MaxNoise        \* bound on frames the server sends unasked

(* password: AUTH is needed; breaker: circuitBreakerMs > 0; noise: the     *)
(* server may send frames nobody asked for; quits: quit() may be called.   *)
ConfigType == [password: BOOLEAN, breaker: BOOLEAN, noise: BOOLEAN, quits: BOOLEAN]

(* AUTH and QUIT are the client's own; the names of the frames nobody asked *)
(* for are no command's either.                                            *)
ASSUME RespClientAssumption ==
    /\ Multis \subseteq Commands
    /\ Commands \cap {"AUTH", "QUIT", "extra", "bad"} = {}
    /\ Configs \subseteq ConfigType
    /\ MaxGen \in Nat \ {0} /\ MaxNoise \in Nat

VARIABLES
    opt,            \* the configuration
    generation,     \* this.generation
    socket,         \* the connection this.socket is, 0 for undefined
    connecting,     \* the attempt whose promise this.connecting is, or 0
    conn,           \* per attempt: the socket's stage and the replies it owes
    queue,          \* this.queue
    half,           \* part of the next frame is buffered
    cmds,           \* per command: its stage, its connection, its reply
    due,            \* connect() promises that settled, their handlers due
    open,           \* wallClockNow() < circuitOpenUntil
    ended,          \* this.ended
    quitting,       \* where quit() stands
    noise,          \* frames sent unasked so far
    crossed         \* history: two connections have been mixed up, see below

clientVars == <<opt, generation, socket, connecting, conn, queue, half, cmds, due, open, ended,
                quitting, noise, crossed>>

Gens == 1 .. MaxGen

ClientInit ==
    /\ opt \in Configs
    /\ generation = 0 /\ socket = 0 /\ connecting = 0
    /\ conn = [g \in Gens |-> [stage |-> "none", owes |-> <<>>, authed |-> ~opt.password]]
    /\ queue = <<>> /\ half = FALSE
    /\ cmds = [c \in Commands |-> [st |-> "idle", on |-> 0, reply |-> "none"]]
    /\ due = {}
    /\ open = FALSE /\ ended = FALSE /\ quitting = "no" /\ noise = 0
    /\ crossed = FALSE

(* No continuation is due: the event loop may take an event. *)
Idle == due = {} /\ quitting # "answered" /\ \A c \in Commands : cmds[c].st # "go"

(* RespMulti.exec writes MULTI, the command and EXEC in one go. *)
Parts(c) == IF c \in Multis THEN <<1, 2, 3>> ELSE <<1>>

QueueEntry(c, part, on) == [cmd |-> c, part |-> part, on |-> on, gen |-> generation]

Entries(q) == {q[i] : i \in 1 .. Len(q)}

(* ---- failAll ------------------------------------------------------------ *)

(* Fault: the in-flight commands are dropped, not rejected. *)
Rejected_None(q, cs) == cs

(* The commands a rejection of every entry of q fails. *)
Rejected(q, cs) ==
    [c \in Commands |->
        IF \E e \in Entries(q) : e.cmd = c /\ cs[c].st = "sent"
        THEN [cs[c] EXCEPT !.st = "failed"] ELSE cs[c]]

(* q, cs and d are the queue, the commands and the due continuations as    *)
(* the caller has left them.                                               *)
FailAll(g, fromConnect, q, cs, d) ==
    IF g # generation
    THEN /\ queue' = q /\ cmds' = cs /\ due' = d
         /\ UNCHANGED <<generation, socket, connecting, conn, half, open, quitting>>
    ELSE /\ generation' = generation + 1
         /\ conn' = IF socket = 0 THEN conn ELSE [conn EXCEPT ![socket].stage = "destroyed"]
         /\ socket' = 0 /\ connecting' = 0 /\ queue' = <<>> /\ half' = FALSE
         /\ open' = (open \/ (opt.breaker /\ (fromConnect \/ q # <<>>)))
         /\ cmds' = Rejected(q, cs)
         /\ due' = d \cup {[gen |-> e.on, ok |-> FALSE] :
                              e \in {x \in Entries(q) : x.cmd = "AUTH"}}
         /\ quitting' = IF \E e \in Entries(q) : e.cmd = "QUIT" THEN "answered" ELSE quitting

(* ---- commands ----------------------------------------------------------- *)

(* A destroyed socket is replaced at the next command; its own "close"     *)
(* event, which would empty the queue, may come later, and is stale then.  *)
(* A dial that finds the queue not empty has crossed two connections.      *)
ensureConnected(c) ==
    LET becomes(s, on) == cmds' = [cmds EXCEPT ![c] = [@ EXCEPT !.st = s, !.on = on]]
        keep == UNCHANGED <<generation, connecting, conn, crossed>>
    IN  CASE ended -> becomes("failed", 0) /\ keep
          [] ~ended /\ connecting # 0 -> becomes("waiting", connecting) /\ keep
          [] ~ended /\ connecting = 0 /\ socket # 0 /\ conn[socket].stage = "up" ->
                becomes("go", 0) /\ keep
          [] OTHER ->
                IF open THEN becomes("failed", 0) /\ keep
                ELSE /\ generation < MaxGen
                     /\ generation' = generation + 1
                     /\ connecting' = generation'
                     /\ conn' = [conn EXCEPT ![generation'].stage = "dialing"]
                     /\ crossed' = (crossed \/ queue # <<>>)
                     /\ becomes("waiting", generation')

(* A caller issues c: from an event or from another continuation. *)
Send(c) ==
    /\ cmds[c].st = "idle"
    /\ ensureConnected(c)
    /\ UNCHANGED <<opt, socket, queue, half, due, open, ended, quitting, noise>>

(* What is put on the wire of this.socket, and queued. *)
Written(entries) ==
    /\ queue' = queue \o entries
    /\ conn' = IF conn[socket].stage = "up"
               THEN [conn EXCEPT ![socket].owes = @ \o entries] ELSE conn

(* The continuation of send(), or of exec(): write on whatever socket is   *)
(* there by now.                                                           *)
write(c) ==
    /\ cmds[c].st = "go"
    /\ IF socket = 0
       THEN cmds' = [cmds EXCEPT ![c].st = "failed"] /\ UNCHANGED <<queue, conn>>
       ELSE /\ cmds' = [cmds EXCEPT ![c] = [@ EXCEPT !.st = "sent", !.on = socket]]
            /\ Written([i \in 1 .. Len(Parts(c)) |-> QueueEntry(c, i, socket)])
    /\ UNCHANGED <<crossed, opt, generation, socket, connecting, half, due, open, ended, quitting, noise>>

(* The command timeout of an entry, for the generation it was written in.  *)
CommandTimeout(e) ==
    /\ Idle /\ e \in Entries(queue)
    /\ FailAll(e.gen, FALSE, queue, cmds, due)
    /\ UNCHANGED <<crossed, opt, ended, noise>>

(* ---- connecting --------------------------------------------------------- *)

(* The socket is ready: it is exposed, and AUTH is written first. *)
DialSucceeds(g) ==
    /\ Idle /\ conn[g].stage = "dialing"
    /\ socket' = g
    /\ IF opt.password
       THEN /\ queue' = Append(queue, QueueEntry("AUTH", 1, g))
            /\ conn' = [conn EXCEPT ![g] = [@ EXCEPT !.stage = "up",
                                                     !.owes = <<QueueEntry("AUTH", 1, g)>>]]
            /\ UNCHANGED due
       ELSE /\ conn' = [conn EXCEPT ![g].stage = "up"]
            /\ due' = due \cup {[gen |-> g, ok |-> TRUE]}
            /\ UNCHANGED queue
    /\ UNCHANGED <<crossed, opt, generation, connecting, half, cmds, open, ended, quitting, noise>>

(* Refused, closed before it was ready, or the connect timeout. *)
DialFails(g) ==
    /\ Idle /\ conn[g].stage = "dialing"
    /\ conn' = [conn EXCEPT ![g].stage = "destroyed"]
    /\ due' = due \cup {[gen |-> g, ok |-> FALSE]}
    /\ UNCHANGED <<crossed, opt, generation, socket, connecting, queue, half, cmds, open, ended, quitting,
                   noise>>

(* connect() resolved: its handler clears the gate and closes the breaker, *)
(* whatever attempt is current; the commands that waited go on.  When a    *)
(* newer attempt is under way, the client forgets that it is (crossed).    *)
ConnectResolved(g) ==
    /\ [gen |-> g, ok |-> TRUE] \in due
    /\ due' = due \ {[gen |-> g, ok |-> TRUE]}
    /\ connecting' = 0 /\ open' = FALSE
    /\ crossed' = (crossed \/ connecting \notin {0, g})
    /\ cmds' = [c \in Commands |->
                   IF cmds[c].st = "waiting" /\ cmds[c].on = g
                   THEN [cmds[c] EXCEPT !.st = "go"] ELSE cmds[c]]
    /\ UNCHANGED <<opt, generation, socket, conn, queue, half, ended, quitting, noise>>

(* connect() rejected: failAll for its attempt, and whoever waited fails. *)
ConnectRejected(g) ==
    /\ [gen |-> g, ok |-> FALSE] \in due
    /\ FailAll(g, TRUE, queue,
               [c \in Commands |->
                   IF cmds[c].st = "waiting" /\ cmds[c].on = g
                   THEN [cmds[c] EXCEPT !.st = "failed"] ELSE cmds[c]],
               due \ {[gen |-> g, ok |-> FALSE]})
    /\ UNCHANGED <<crossed, opt, ended, noise>>

(* The socket reports an error, or closes with no event served between. *)
SocketFails(g) ==
    /\ Idle /\ conn[g].stage = "up"
    /\ IF g = generation
       THEN FailAll(g, FALSE, queue, cmds, due)
       ELSE /\ conn' = [conn EXCEPT ![g].stage = "destroyed"]
            /\ UNCHANGED <<generation, socket, connecting, queue, half, cmds, due, open, quitting>>
    /\ UNCHANGED <<crossed, opt, ended, noise>>

(* The server ends the connection: the socket is destroyed at once, its    *)
(* "close" event comes in a later phase of the loop.                       *)
SocketEnds(g) ==
    /\ Idle /\ conn[g].stage = "up"
    /\ conn' = [conn EXCEPT ![g].stage = "closing"]
    /\ UNCHANGED <<crossed, opt, generation, socket, connecting, queue, half, cmds, due, open, ended,
                   quitting, noise>>

SocketCloses(g) ==
    /\ Idle /\ conn[g].stage = "closing"
    /\ IF g = generation
       THEN FailAll(g, FALSE, queue, cmds, due)
       ELSE /\ conn' = [conn EXCEPT ![g].stage = "destroyed"]
            /\ UNCHANGED <<generation, socket, connecting, queue, half, cmds, due, open, quitting>>
    /\ UNCHANGED <<crossed, opt, ended, noise>>

(* ---- replies ------------------------------------------------------------ *)

(* What the first n frames do to the commands, the i-th for the i-th entry *)
(* of the queue: an error (at errAt, 0 for none) fails its command, the     *)
(* last frame of a command is its answer.                                  *)
Replies(n, frames, errAt) ==
    [c \in Commands |->
        LET last == {i \in 1 .. n : queue[i].cmd = c /\ queue[i].part = Len(Parts(c))} IN
        IF cmds[c].st # "sent" THEN cmds[c]
        ELSE IF errAt \in 1 .. n /\ queue[errAt].cmd = c THEN [cmds[c] EXCEPT !.st = "failed"]
        ELSE IF last = {} THEN cmds[c]
        ELSE LET i == CHOOSE i \in last : TRUE IN
             [cmds[c] EXCEPT !.st = "ok", !.reply = <<frames[i].cmd, frames[i].part>>]]

(* connect() goes on when AUTH is answered, quit() when QUIT is. *)
Continued(n, errAt) ==
    due \cup {[gen |-> queue[i].on, ok |-> errAt # i] : i \in {j \in 1 .. n : queue[j].cmd = "AUTH"}}

(* Fault: bytes are buffered although no command is in flight. *)
Unsolicited_Kept(arrived, more, n) == FALSE

(* Bytes arrived that no command in flight can own. *)
Unsolicited(arrived, more, n) == n = Len(queue) /\ (Len(arrived) > n \/ more)

Superseded(g) == g # generation

(* What a chunk may hold after k replies: nothing more; a frame nobody     *)
(* asked for, sent while no command was in flight; or, at any time, bytes  *)
(* no scan accepts (a protocol error, a reply over the size cap).          *)
Unasked(g, k) ==
    {<<>>} \cup (IF ~opt.noise \/ noise = MaxNoise THEN {}
                 ELSE {<<QueueEntry("bad", 1, g)>>} \cup
                      (IF k = Len(conn[g].owes) THEN {<<QueueEntry("extra", 1, g)>>} ELSE {}))

(* A chunk: k replies, what came unasked, and perhaps part of the next     *)
(* reply.  onData and drainInbound: one frame for the head of the queue    *)
(* at a time.                                                              *)
onData(g, k, extra, more, errAt) ==
    LET owes == conn[g].owes
        arrived == SubSeq(owes, 1, k) \o extra
        bad == {i \in DOMAIN arrived : arrived[i].cmd = "bad"}
        usable == IF bad = {} THEN Len(arrived) ELSE (CHOOSE i \in bad : \A j \in bad : i <= j) - 1
        n == IF usable < Len(queue) THEN usable ELSE Len(queue)
        rest == SubSeq(queue, n + 1, Len(queue))
        leaves(m) == [conn EXCEPT ![g].owes = SubSeq(arrived, m + 1, Len(arrived))
                                                \o SubSeq(@, k + 1, Len(@))]
    IN  /\ Idle /\ conn[g].stage = "up"
        /\ more => k < Len(owes) /\ extra = <<>>
        /\ arrived # <<>> \/ (more /\ ~half)
        /\ errAt <= n
        /\ noise' = noise + Len(extra)
        /\ IF Superseded(g)
           THEN /\ conn' = leaves(Len(arrived))
                /\ UNCHANGED <<generation, socket, connecting, queue, half, cmds, due, open, quitting>>
           ELSE IF (n < Len(queue) /\ usable < Len(arrived)) \/ Unsolicited(arrived, more, n)
           THEN FailAll(g, FALSE, rest, Replies(n, arrived, errAt), Continued(n, errAt))
           ELSE /\ queue' = rest /\ half' = more
                /\ cmds' = Replies(n, arrived, errAt)
                /\ due' = Continued(n, errAt)
                /\ conn' = [leaves(n) EXCEPT ![g].authed =
                              @ \/ \E i \in 1 .. n : queue[i].cmd = "AUTH" /\ errAt # i]
                /\ quitting' = IF \E i \in 1 .. n : queue[i].cmd = "QUIT"
                               THEN "answered" ELSE quitting
                /\ UNCHANGED <<generation, socket, connecting, open>>
        /\ UNCHANGED <<crossed, opt, ended>>

(* ---- the breaker and quit ----------------------------------------------- *)

(* The breaker's window passes. *)
WindowPasses ==
    /\ Idle /\ open /\ open' = FALSE
    /\ UNCHANGED <<crossed, opt, generation, socket, connecting, conn, queue, half, cmds, due, ended,
                   quitting, noise>>

Quit ==
    /\ opt.quits /\ quitting = "no"
    /\ ended' = TRUE
    /\ IF socket # 0 /\ conn[socket].stage = "up"
       THEN Written(<<QueueEntry("QUIT", 1, socket)>>) /\ quitting' = "asked"
       ELSE quitting' = "answered" /\ UNCHANGED <<queue, conn>>
    /\ UNCHANGED <<crossed, opt, generation, socket, connecting, half, cmds, due, open, noise>>

(* After QUIT's answer, or its failure: failAll, whatever is current. *)
QuitFinishes ==
    /\ quitting = "answered"
    /\ generation' = generation + 1
    /\ conn' = IF socket = 0 THEN conn ELSE [conn EXCEPT ![socket].stage = "destroyed"]
    /\ socket' = 0 /\ connecting' = 0 /\ queue' = <<>> /\ half' = FALSE
    /\ open' = (open \/ (opt.breaker /\ queue # <<>>))
    /\ cmds' = Rejected(queue, cmds)
    /\ due' = due \cup {[gen |-> e.on, ok |-> FALSE] :
                           e \in {x \in Entries(queue) : x.cmd = "AUTH"}}
    /\ quitting' = "done"
    /\ UNCHANGED <<crossed, opt, ended, noise>>

ClientNext ==
    \/ \E c \in Commands : Send(c) \/ write(c)
    \/ \E e \in Entries(queue) : CommandTimeout(e)
    \/ \E g \in Gens : \/ DialSucceeds(g) \/ DialFails(g)
                       \/ ConnectResolved(g) \/ ConnectRejected(g)
                       \/ SocketFails(g) \/ SocketEnds(g) \/ SocketCloses(g)
                       \/ \E k \in 0 .. Len(conn[g].owes), more \in BOOLEAN, errAt \in 0 .. Len(queue) :
                             \E extra \in Unasked(g, k) : onData(g, k, extra, more, errAt)
    \/ WindowPasses \/ Quit \/ QuitFinishes

(* Continuations run; the connect timeout and the command timeout fire.    *)
(* Nothing is assumed of the server or of the network.                     *)
Fairness ==
    /\ \A c \in Commands : WF_clientVars(write(c))
    /\ \A g \in Gens : WF_clientVars(ConnectResolved(g)) /\ WF_clientVars(ConnectRejected(g))
                       /\ WF_clientVars(DialFails(g))
    /\ WF_clientVars(\E e \in Entries(queue) : CommandTimeout(e))
    /\ WF_clientVars(QuitFinishes)

ClientSpec == ClientInit /\ [][ClientNext]_clientVars /\ Fairness

(* ---- properties --------------------------------------------------------- *)

EntryOK(e) == /\ e.cmd \in Commands \cup {"AUTH", "QUIT", "extra", "bad"}
              /\ e.part \in 1 .. 3 /\ e.on \in Gens /\ e.gen \in 1 .. MaxGen + 2

ClientTypeOK ==
    /\ opt \in ConfigType
    /\ generation \in 0 .. MaxGen + 2
    /\ socket \in 0 .. MaxGen /\ connecting \in 0 .. MaxGen
    /\ \A g \in Gens : /\ conn[g].stage \in {"none", "dialing", "up", "closing", "destroyed"}
                       /\ conn[g].authed \in BOOLEAN
                       /\ \A e \in Entries(conn[g].owes) : EntryOK(e)
    /\ \A e \in Entries(queue) : EntryOK(e)
    /\ {half, open, ended} \subseteq BOOLEAN
    /\ \A c \in Commands : cmds[c].st \in {"idle", "waiting", "go", "sent", "ok", "failed"}
    /\ due \subseteq [gen: Gens, ok: BOOLEAN]
    /\ quitting \in {"no", "asked", "answered", "done"}
    /\ noise \in 0 .. MaxNoise /\ crossed \in BOOLEAN

Own(c) == cmds[c].st = "ok" => cmds[c].reply = <<c, Len(Parts(c))>>

(* A command resolves with its own reply and no other: frames are matched  *)
(* to commands by position alone, through unsolicited frames, chunks that  *)
(* end inside a frame, timeouts, ended connections, reconnects and quit,   *)
(* unless the client has crossed two connections: dialled with commands of *)
(* an earlier one still queued, or forgotten a dial that was under way.    *)
OwnReply == ~crossed => \A c \in Commands : Own(c)

(* What resp-client.ts says of every failure (the comment of failAll: "we  *)
(* resync from a clean slate and let the next command reconnect"): no      *)
(* reply maps to the wrong caller, whatever the server did before.  TLC    *)
(* refutes it with a connection ended while commands are in flight.        *)
EveryReplyIsOwn == \A c \in Commands : Own(c)

(* Every command a caller issues settles, with a value or an error, even   *)
(* if the server never answers: a render waits on it.                      *)
CommandsSettle ==
    \A c \in Commands : cmds[c].st # "idle" ~> cmds[c].st \in {"ok", "failed"}
===============================================================================
