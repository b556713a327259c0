------------------------------ MODULE Invocation ------------------------------
(***************************************************************************)
(* One exchange of src/pool-server/dispatch.ts with whatever produces the  *)
(* response: a generated handler behind the process's loopback listener    *)
(* (invokeLocalHandlerOverHttp), the edge sandbox, another pool            *)
(* (proxyToPool) or an external rewrite target.  The handler, its stream,  *)
(* its after() work, the client and four timers move independently; the    *)
(* module keeps who may still write to the client's response, and when the *)
(* exchange is settled and its slot in the listener freed.                 *)
(*                                                                         *)
(* A body is Chunks chunks.  Header text, URLs and the merging of response *)
(* headers are left out.  A slow client fills the socket's buffer; it      *)
(* reads in the end, leaves, or neither.                                   *)
(***************************************************************************)
EXTENDS Naturals, FiniteSets

CONSTANTS
    Exchanges,      \* the kinds of exchange to explore
    Chunks,         \* chunks of a whole body
    MaxAfter        \* bound on after() jobs

(* kind: who answers; prefix: a PPR shell goes before the body; capture:   *)
(* captureActive; limited: an execution deadline is known; discard: the    *)
(* response is drained, not forwarded; renders: renderError is given.      *)
ExchangeType == [kind: {"local", "edge", "proxy", "external"}, prefix: BOOLEAN,
                 capture: BOOLEAN, limited: BOOLEAN, discard: BOOLEAN, renders: BOOLEAN]

ASSUME InvocationAssumption ==
    /\ Chunks \in Nat \ {0} /\ MaxAfter \in Nat
    /\ Exchanges \subseteq ExchangeType
    /\ \A e \in Exchanges : e.prefix \/ e.capture \/ e.discard => e.kind = "local"

VARIABLES
    x,          \* the exchange
    up,         \* the answering side: its stage and the chunks it has sent
    tail,       \* the canonical resume: its stage and its chunks
    res,        \* the client's response: its head, what was written, its end
    client,     \* "there" or "gone"
    full,       \* the last write returned false: the writer awaits "drain"
    timers,     \* timers that are armed
    writer,     \* where writeInnerResponse, or the pipe, has come to
    inner,      \* loopback responses that have not closed
    after,      \* pendingWaitUntil
    jobs,       \* after() jobs registered so far
    settled     \* "no", "resolved" or "rejected"

exchangeVars == <<x, up, tail, res, client, full, timers, writer, inner, after, jobs,
                  settled>>

local == x.kind = "local"
edge == x.kind = "edge"
proxied == x.kind \in {"proxy", "external"}

ExchangeInit ==
    /\ x \in Exchanges
    /\ up = [stage |-> "dialing", sent |-> 0]
    /\ tail = [stage |-> "none", sent |-> 0]
    /\ res = [head |-> IF x.discard THEN "sent" ELSE "none", shell |-> FALSE, chunks |-> 0,
              tail |-> 0, end |-> "open"]
    /\ client = "there" /\ full = FALSE
    /\ timers = {"head"} \cup (IF x.limited /\ x.kind # "proxy" THEN {"exec"} ELSE {})
                         \cup (IF x.kind = "external" THEN {"absolute"} ELSE {})
    /\ writer = "none"
    /\ inner = IF local THEN {"main"} ELSE {}
    /\ after = 0
    /\ jobs = 0
    /\ settled = "no"

Writable == res.end = "open" /\ client = "there"

(* ---- endings of the response ------------------------------------------ *)

(* A plain error response if nothing was sent; otherwise how it ends. *)
ErrorOr(status, ending) ==
    IF x.discard \/ ~Writable THEN res
    ELSE IF res.head = "none" THEN [res EXCEPT !.head = status, !.end = "ended"]
    ELSE [res EXCEPT !.end = ending]

Settle(how) == settled' = IF settled = "no" THEN how ELSE settled

(* finishReject: the rejection reaches the server's request listener, which *)
(* answers 500 or ends what was started.                                    *)
Reject ==
    /\ Settle("rejected")
    /\ res' = IF settled = "no" THEN ErrorOr("500", "ended") ELSE res

(* ---- the head --------------------------------------------------------- *)

(* The upstream's response head arrives.  A local one that postponed, with *)
(* its state captured, has its resume posted beside it, unless the         *)
(* response is discarded.                                                  *)
HeadArrives ==
    /\ up.stage = "dialing"
    /\ up' = [up EXCEPT !.stage = "open"]
    /\ timers' = timers \ {"head"}
    /\ IF settled # "no"
       THEN UNCHANGED <<writer, res, tail>>     \* nobody is left to take it
       ELSE /\ writer' = IF x.discard THEN "drain" ELSE IF x.prefix THEN "peek" ELSE "copy"
            /\ res' = IF x.discard \/ x.prefix THEN res ELSE [res EXCEPT !.head = "ok"]
            /\ \/ UNCHANGED tail
               \/ x.capture /\ ~x.discard /\ tail' = [tail EXCEPT !.stage = "posted"]
    /\ UNCHANGED <<full, x, client, inner, after, jobs, settled>>

(* ---- the answering side ----------------------------------------------- *)

SendChunk ==
    /\ up.stage = "open" /\ up.sent < Chunks
    /\ up' = [up EXCEPT !.sent = @ + 1]
    /\ UNCHANGED <<full, x, tail, res, client, timers, writer, inner, after, jobs, settled>>

SendEnd ==
    /\ up.stage = "open" /\ up.sent = Chunks
    /\ up' = [up EXCEPT !.stage = "ended"]
    /\ UNCHANGED <<full, x, tail, res, client, timers, writer, inner, after, jobs, settled>>

(* The connection fails, and the request reports it; of an edge exchange,  *)
(* the sandbox fails before it answers.                                    *)
UpstreamBreaks ==
    /\ up.stage \in {"dialing", "open"}
    /\ settled = "no"
    /\ up' = [up EXCEPT !.stage = "broken"]
    /\ writer' = "aborted"
    /\ \/ /\ local
          /\ Reject
          /\ timers' = timers \ {"head", "exec"}
       \/ /\ proxied
          /\ Settle("resolved")
          /\ res' = ErrorOr("502", "destroyed")
          /\ timers' = timers \ {"head", "absolute"}
       \/ /\ edge /\ up.stage = "dialing"
          /\ Settle("resolved")
          /\ res' = ErrorOr("500", "destroyed")
          /\ timers' = timers \ {"head", "exec"}
    /\ UNCHANGED <<full, x, tail, client, inner, after, jobs>>

(* After its head a local or an edge response may fail as a stream: the    *)
(* writer learns it at its next read.                                      *)
StreamBreaks ==
    /\ local \/ edge
    /\ up.stage = "open" /\ settled = "no"
    /\ up' = [up EXCEPT !.stage = "broken"]
    /\ UNCHANGED <<full, x, tail, res, client, timers, writer, inner, after, jobs, settled>>

(* The generated handler throws: before its head it is replaced by the     *)
(* error page, whose response goes on, or by a plain 500; after it the     *)
(* inner response is ended where it stands.                                *)
HandlerThrows ==
    /\ local /\ up.stage \in {"dialing", "open"}
    /\ IF up.stage = "dialing" /\ x.renders
       THEN UNCHANGED <<up, res, settled, writer>>
       ELSE /\ up' = [up EXCEPT !.stage = "cut"]
            /\ Reject
            /\ writer' = "aborted"
    /\ UNCHANGED <<full, x, tail, client, timers, inner, after, jobs>>

(* waitUntil, from a handler that is running or as its response closes. *)
Registers(n) == after' = after + n /\ jobs' = jobs + n

HandlerDefers ==
    /\ local \/ edge
    /\ up.stage = "open" /\ jobs < MaxAfter
    /\ Registers(1)
    /\ UNCHANGED <<full, x, up, tail, res, client, timers, writer, inner, settled>>

InnerCloses ==
    /\ \E i \in inner :
           /\ (IF i = "main" THEN up.stage ELSE tail.stage) \in {"ended", "cut", "broken", "destroyed"}
           /\ inner' = inner \ {i}
    /\ \E n \in 0..1 : jobs + n <= MaxAfter /\ Registers(n)
    /\ UNCHANGED <<full, x, up, tail, res, client, timers, writer, settled>>

(* A job settles, perhaps after deferring another. *)
JobSettles ==
    /\ after > 0
    /\ \E n \in 0..1 : /\ jobs + n <= MaxAfter
                       /\ after' = after - 1 + n
                       /\ jobs' = jobs + n
    /\ UNCHANGED <<full, x, up, tail, res, client, timers, writer, inner, settled>>

(* ---- the resume ------------------------------------------------------- *)

(* The resume reaches the listener, which knows it only while the          *)
(* invocation holds its slot.                                              *)
ResumeArrives ==
    /\ tail.stage = "posted"
    /\ IF settled = "no"
       THEN /\ tail' = [tail EXCEPT !.stage = "running"]
            /\ inner' = inner \cup {"resume"}
       ELSE /\ tail' = [tail EXCEPT !.stage = "refused"]
            /\ UNCHANGED inner
    /\ UNCHANGED <<full, x, up, res, client, timers, writer, after, jobs, settled>>

ResumeAnswers ==
    /\ tail.stage = "running"
    /\ \E stage \in {"open", "refused"} : tail' = [tail EXCEPT !.stage = stage]
    /\ inner' = IF tail'.stage = "refused" THEN inner \ {"resume"} ELSE inner
    /\ UNCHANGED <<full, x, up, res, client, timers, writer, after, jobs, settled>>

ResumeSends ==
    /\ tail.stage = "open"
    /\ tail' = IF tail.sent < Chunks THEN [tail EXCEPT !.sent = @ + 1]
               ELSE [tail EXCEPT !.stage = "ended"]
    /\ UNCHANGED <<full, x, up, res, client, timers, writer, inner, after, jobs, settled>>

(* Its deadline, or its connection, ends the wait for its head. *)
ResumeGivenUp ==
    /\ tail.stage \in {"posted", "running"}
    /\ tail' = [tail EXCEPT !.stage = "destroyed"]
    /\ UNCHANGED <<full, x, up, res, client, timers, writer, inner, after, jobs, settled>>

(* ---- writeInnerResponse and the pipes --------------------------------- *)

Pending == up.sent > res.chunks

(* The first chunk, or its absence, tells a resumed tail from a whole      *)
(* document; only then is the head written.                                *)
Peek ==
    /\ writer = "peek"
    /\ up.sent > 0 \/ up.stage = "ended"
    /\ \E document \in IF up.sent > 0 THEN BOOLEAN ELSE {FALSE} :
           res' = IF Writable
                  THEN [res EXCEPT !.head = "ok", !.shell = ~document,
                                   !.chunks = IF up.sent > 0 THEN 1 ELSE 0]
                  ELSE res
    /\ writer' = "copy" /\ full' \in BOOLEAN
    /\ UNCHANGED <<x, up, tail, client, timers, inner, after, jobs, settled>>

(* writeChunkSafely: a write that fills the buffer is awaited. *)
Copy ==
    /\ writer = "copy" /\ ~full /\ Writable /\ Pending
    /\ res' = [res EXCEPT !.chunks = @ + 1]
    /\ full' \in BOOLEAN
    /\ UNCHANGED <<x, up, tail, client, timers, writer, inner, after, jobs, settled>>

(* The client is gone: the edge stream is dropped and its response ended.  *)
CopyStops ==
    /\ writer = "copy" /\ edge /\ client = "gone" /\ (Pending \/ full)
    /\ writer' = "closing" /\ full' = FALSE
    /\ UNCHANGED <<x, up, tail, res, client, timers, inner, after, jobs, settled>>

(* The next read throws: the stream broke. *)
WriterFindsBroken ==
    /\ writer \in {"peek", "copy", "drain"} /\ ~full
    /\ up.stage = "broken" /\ settled = "no"
    /\ writer' = "aborted"
    /\ IF local THEN Reject /\ UNCHANGED timers
       ELSE /\ Settle("resolved")
            /\ res' = ErrorOr("500", "destroyed")
            /\ timers' = timers \ {"exec"}
    /\ UNCHANGED <<full, x, up, tail, client, inner, after, jobs>>

(* The body is whole; a resume, if one was posted, follows it. *)
CopyEnds ==
    /\ writer = "copy" /\ ~full /\ up.stage = "ended" /\ ~Pending
    /\ IF tail.stage = "none"
       THEN /\ res' = IF Writable THEN [res EXCEPT !.end = "ended"] ELSE res
            /\ writer' = IF proxied THEN "done" ELSE "closing"
            /\ IF proxied THEN Settle("resolved") ELSE UNCHANGED settled
            /\ timers' = IF proxied THEN timers \ {"absolute"} ELSE timers
       ELSE writer' = "suffix" /\ UNCHANGED <<res, settled, timers>>
    /\ UNCHANGED <<full, x, up, tail, client, inner, after, jobs>>

Suffix ==
    /\ writer = "suffix" /\ ~full
    /\ \/ /\ tail.stage \in {"open", "ended"} /\ tail.sent > res.tail /\ Writable
          /\ res' = [res EXCEPT !.tail = @ + 1]
          /\ full' \in BOOLEAN
          /\ UNCHANGED writer
       \/ /\ (tail.stage = "ended" /\ tail.sent = res.tail) \/ tail.stage \in {"refused", "destroyed"}
          /\ res' = IF Writable THEN [res EXCEPT !.end = "ended"] ELSE res
          /\ writer' = "closing" /\ UNCHANGED full
    /\ UNCHANGED <<x, up, tail, client, timers, inner, after, jobs, settled>>

(* The resumed stream breaks after its head. *)
SuffixBreaks ==
    /\ tail.stage = "open"
    /\ tail' = [tail EXCEPT !.stage = "broken"]
    /\ writer' = IF writer = "suffix" /\ ~full THEN "aborted" ELSE writer
    /\ IF writer = "suffix" /\ ~full /\ settled = "no" THEN Reject ELSE UNCHANGED <<res, settled>>
    /\ UNCHANGED <<full, x, up, client, timers, inner, after, jobs>>

SuffixFindsBroken ==
    /\ writer = "suffix" /\ ~full /\ tail.stage = "broken"
    /\ writer' = "aborted"
    /\ Reject
    /\ UNCHANGED <<full, x, up, tail, client, timers, inner, after, jobs>>

Drain ==
    /\ writer = "drain" /\ up.stage = "ended"
    /\ writer' = "closing"
    /\ UNCHANGED <<full, x, up, tail, res, client, timers, inner, after, jobs, settled>>

(* ---- closeThenSettle -------------------------------------------------- *)

(* Fault: after() work is drained without waiting for the inner responses  *)
(* to close.                                                               *)
WaitForInner_Skipped ==
    /\ writer = "closing"
    /\ writer' = "draining"
    /\ UNCHANGED <<full, x, up, tail, res, client, timers, inner, after, jobs, settled>>

WaitForInner ==
    /\ writer = "closing" /\ inner = {}
    /\ writer' = "draining"
    /\ UNCHANGED <<full, x, up, tail, res, client, timers, inner, after, jobs, settled>>

SettleWaitUntil ==
    /\ writer = "draining" /\ after = 0
    /\ writer' = "done"
    /\ Settle("resolved")
    /\ timers' = timers \ {"exec"}
    /\ UNCHANGED <<full, x, up, tail, res, client, inner, after, jobs>>

(* ---- timers and the client -------------------------------------------- *)

Destroyed(u) == IF u.stage \in {"dialing", "open"} THEN [u EXCEPT !.stage = "destroyed"] ELSE u

HeadDeadline ==
    /\ "head" \in timers
    /\ up' = Destroyed(up)
    /\ timers' = timers \ {"head", "exec", "absolute"}
    /\ res' = ErrorOr("504", "ended")
    /\ writer' = "aborted"
    /\ Settle("resolved")
    /\ UNCHANGED <<full, x, tail, client, inner, after, jobs>>

(* Fault: a started response is ended, not destroyed. *)
ExecutionDeadline_Ends ==
    /\ "exec" \in timers
    /\ up' = Destroyed(up)
    /\ timers' = timers \ {"head", "exec"}
    /\ res' = ErrorOr("504", "ended")
    /\ writer' = "aborted"
    /\ Settle("resolved")
    /\ UNCHANGED <<full, x, tail, client, inner, after, jobs>>

(* Fault: the execution deadline bounds only the wait for the head. *)
ExecutionDeadline_HeadOnly ==
    /\ "exec" \in timers /\ up.stage = "dialing"
    /\ up' = Destroyed(up)
    /\ timers' = timers \ {"head", "exec"}
    /\ res' = ErrorOr("504", "destroyed")
    /\ writer' = "aborted"
    /\ Settle("resolved")
    /\ UNCHANGED <<full, x, tail, client, inner, after, jobs>>

(* What the deadline interrupts: of an edge exchange the reads of its      *)
(* stream and its after() work, not the copy's wait for "drain".           *)
WithinExecution == ~(edge /\ full)

(* maxDuration: stays armed while the body streams and after() work runs.  *)
(* An external rewrite has none.                                           *)
ExecutionDeadline ==
    /\ "exec" \in timers /\ WithinExecution
    /\ up' = Destroyed(up)
    /\ timers' = timers \ {"head", "exec"}
    /\ res' = ErrorOr("504", "destroyed")
    /\ writer' = "aborted"
    /\ Settle("resolved")
    /\ UNCHANGED <<full, x, tail, client, inner, after, jobs>>

AbsoluteDeadline ==
    /\ "absolute" \in timers
    /\ up' = Destroyed(up)
    /\ timers' = timers \ {"head", "absolute"}
    /\ res' = ErrorOr("504", "destroyed")
    /\ writer' = "aborted"
    /\ Settle("resolved")
    /\ UNCHANGED <<full, x, tail, client, inner, after, jobs>>

(* The client reads what was written: "drain". *)
ClientReads ==
    /\ full /\ client = "there" /\ full' = FALSE
    /\ UNCHANGED <<x, up, tail, res, client, timers, writer, inner, after, jobs, settled>>

(* abortOnClientClose: a local handler or a proxied request is cancelled;  *)
(* the edge sandbox finds out at its next write.                           *)
ClientLeaves ==
    /\ client = "there" /\ res.end = "open" /\ ~x.discard
    /\ client' = "gone"
    /\ IF edge THEN UNCHANGED <<up, timers, writer, settled>>
       ELSE /\ up' = Destroyed(up)
            /\ timers' = timers \ {"head", "exec", "absolute"}
            /\ writer' = "aborted"
            /\ Settle(IF local THEN "rejected" ELSE "resolved")
    /\ UNCHANGED <<full, x, tail, res, inner, after, jobs>>

(* ---- the specification ------------------------------------------------ *)

Continuations ==
    \/ Peek \/ Copy \/ CopyStops \/ WriterFindsBroken \/ CopyEnds \/ Suffix \/ SuffixFindsBroken \/ Drain
    \/ WaitForInner \/ SettleWaitUntil
Environment ==
    \/ HeadArrives \/ SendChunk \/ SendEnd \/ UpstreamBreaks \/ StreamBreaks \/ HandlerThrows \/ HandlerDefers
    \/ JobSettles \/ ResumeArrives \/ ResumeAnswers \/ ResumeSends \/ SuffixBreaks
    \/ ClientReads \/ ClientLeaves
Deadlines == HeadDeadline \/ ExecutionDeadline \/ AbsoluteDeadline

ExchangeNext == Continuations \/ Environment \/ Deadlines \/ InnerCloses \/ ResumeGivenUp

(* The process runs its own continuations, its timers fire, and a response *)
(* that has ended closes.  The handler, the upstream, the client and the   *)
(* after() jobs owe nothing.                                               *)
ExchangeSpec ==
    /\ ExchangeInit /\ [][ExchangeNext]_exchangeVars
    /\ WF_exchangeVars(Continuations) /\ WF_exchangeVars(HeadDeadline)
    /\ WF_exchangeVars(ExecutionDeadline) /\ WF_exchangeVars(AbsoluteDeadline)
    /\ WF_exchangeVars(InnerCloses) /\ WF_exchangeVars(ResumeGivenUp)

(* ---- properties ------------------------------------------------------- *)

(* The state has its types; what is written of a body never exceeds it. *)
ExchangeTypeOK ==
    /\ x \in Exchanges /\ x \in ExchangeType
    /\ up \in [stage: {"dialing", "open", "ended", "cut", "broken", "destroyed"}, sent: 0..Chunks]
    /\ tail \in [stage: {"none", "posted", "running", "open", "ended", "refused", "broken",
                         "destroyed"}, sent: 0..Chunks]
    /\ res \in [head: {"none", "sent", "ok", "500", "502", "504"}, shell: BOOLEAN,
                chunks: 0..Chunks, tail: 0..Chunks, end: {"open", "ended", "destroyed"}]
    /\ client \in {"there", "gone"} /\ full \in BOOLEAN
    /\ timers \subseteq {"head", "exec", "absolute"}
    /\ writer \in {"none", "peek", "copy", "suffix", "drain", "closing", "draining", "done", "aborted"}
    /\ inner \subseteq {"main", "resume"}
    /\ after \in 0..MaxAfter /\ jobs \in 0..MaxAfter
    /\ settled \in {"no", "resolved", "rejected"}

(* A response that ends as if complete, with the upstream's own status, is *)
(* complete: proxied, edge and time-limited exchanges cut by an error or a *)
(* deadline destroy the connection.  A local handler that fails in the     *)
(* middle is ended where it stands, which the rejected invocation records. *)
CleanEndIsWhole ==
    (res.head = "ok" /\ res.end = "ended" /\ settled # "rejected") => res.chunks = Chunks

(* "Draining before the close event races the callback and silently loses  *)
(* after()": an invocation that resolves in good order leaves no inner     *)
(* response open and no after() job running.                               *)
AfterWorkAwaited == (local /\ writer = "done") => inner = {} /\ after = 0

(* Every exchange with a deadline on its whole life is settled, although   *)
(* handler, upstream, client and after() work do nothing: unless it is an  *)
(* edge exchange whose client neither reads nor leaves, which awaits       *)
(* "drain" for ever (writeChunkSafely outside withinExecution).            *)
LimitedSettles ==
    ((x.limited /\ (local \/ edge)) \/ x.kind = "external") =>
        <>(settled # "no") \/ <>[](edge /\ full /\ client = "there")

(* dispatch-proxy.test.ts:1094 "keeps maxDuration active after an edge     *)
(* response starts streaming": such an exchange is settled whatever its    *)
(* client does.  The code does not: TLC refutes it with a client that      *)
(* neither reads nor leaves.                                               *)
MaxDurationSettles == (x.limited /\ edge) => <>(settled # "no")
=============================================================================
