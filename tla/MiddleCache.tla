------------------------------ MODULE MiddleCache ------------------------------
(***************************************************************************)
(* The middle cache: a reverse proxy in front of the pool server, in the    *)
(* same pod.  Every request visits the pool first; when the pool hands a    *)
(* static file off, the proxy serves it from its LRU cache or from disk.    *)
(* One mutex guards the LRU, two semaphores bound fills and served files,   *)
(* and a stop waits for the upgraded connections that Go's Shutdown does    *)
(* not wait for.                                                            *)
(*                                                                          *)
(* What the pool answers and when clients finish are drawn.  File contents  *)
(* are left out: a response has a validator or it has none.                 *)
(***************************************************************************)
EXTENDS Naturals, Sequences, FiniteSets, SequencesExt, FiniteSetsExt

CONSTANTS Downloads,               \* requests through the proxy
          AssetOf,                 \* the file the pool would hand off for each
          SizeOf,                  \* its length
          MaxServes, MaxReads,     \* capacities of serves and reads
          MaxCacheBytes, MaxEntries, MaxFileBytes

ASSUME CacheAssumption ==
    /\ {MaxServes, MaxReads, MaxEntries, MaxFileBytes} \subseteq Nat \ {0}
    /\ MaxCacheBytes \in Nat /\ MaxCacheBytes >= MaxFileBytes

VARIABLES dl,              \* each request: where its handler is, what it answered
          lru, size,       \* cached files, the most recently used first; their bytes
          serves, reads,   \* semaphores
          inHandler,       \* the wait group around the handler
          drain

cacheVars == <<dl, lru, size, serves, reads, inHandler, drain>>

CacheInit(w) ==
    /\ dl = [r \in w |-> [at |-> "new", out |-> "none"]]
    /\ lru = <<>> /\ size = 0
    /\ serves = 0 /\ reads = 0 /\ inHandler = 0
    /\ drain = "serving"

Running == drain \in {"serving", "draining", "waiting"}

(* The handler of r goes on, with what it has decided to answer.           *)
Goes(r, at, out) == dl' = [dl EXCEPT ![r] = [at |-> at, out |-> out]]

--------------------------------------------------------------------------------
(* A stop closes the listener and the idle connections.                    *)
CacheArrives(r) ==
    /\ drain = "serving" /\ dl[r].at = "new"
    /\ Goes(r, "pool", "none") /\ inHandler' = inHandler + 1
    /\ UNCHANGED <<lru, size, serves, reads, drain>>

(* The pool's response is streamed, upgraded, or an error of the transport *)
(* is answered.                                                            *)
PoolAnswers(r) ==
    /\ Running /\ dl[r].at = "pool"
    /\ \/ \E at \in {"relaying", "upgraded"} : Goes(r, at, "pool") /\ UNCHANGED inHandler
       \/ Goes(r, "closed", "502") /\ inHandler' = inHandler - 1
    /\ UNCHANGED <<lru, size, serves, reads, drain>>

(* An empty 200 with a file's id: only the pool's file branch stamps it,   *)
(* for GET and HEAD of a file that is in both inventories.                 *)
PoolHandsOff(r) ==
    /\ Running /\ dl[r].at = "pool"
    /\ IF serves < MaxServes
         THEN Goes(r, "lookup", "none") /\ serves' = serves + 1 /\ UNCHANGED inHandler
         ELSE Goes(r, "closed", "503") /\ inHandler' = inHandler - 1 /\ UNCHANGED serves
    /\ UNCHANGED <<lru, size, reads, drain>>

Without(f) == SelectSeq(lru, LAMBDA g : g # f)

Get(r) ==
    /\ Running /\ dl[r].at = "lookup"
    /\ IF AssetOf[r] \in Range(lru)
         THEN Goes(r, "sending", "etag") /\ lru' = <<AssetOf[r]>> \o Without(AssetOf[r])
         ELSE Goes(r, "opening", "none") /\ UNCHANGED lru
    /\ UNCHANGED <<size, serves, reads, inHandler, drain>>

(* The handler returns without a file: both its holds are given back.      *)
Unavailable(r) ==
    Goes(r, "closed", "502") /\ serves' = serves - 1 /\ inHandler' = inHandler - 1

(* A file that opens is read under the semaphore or, when that is full,    *)
(* streamed from disk without a validator.                                 *)
Open(r) ==
    /\ Running /\ dl[r].at = "opening"
    /\ \/ /\ IF reads < MaxReads
               THEN Goes(r, "filling", "none") /\ reads' = reads + 1
               ELSE Goes(r, "sending", "plain") /\ UNCHANGED reads
          /\ UNCHANGED <<serves, inHandler>>
       \/ Unavailable(r) /\ UNCHANGED reads
    /\ UNCHANGED <<lru, size, drain>>

Bytes(s) == FoldSeq(LAMBDA f, n : SizeOf[f] + n, 0, s)

(* The longest front part of the LRU that leaves room for f.               *)
Evicted(f) ==
    LET Fits(n) == n < MaxEntries /\ Bytes(SubSeq(lru, 1, n)) + SizeOf[f] <= MaxCacheBytes
    IN  SubSeq(lru, 1, Max({n \in 0 .. Len(lru) : Fits(n)}))

(* A file that another fill stored meanwhile is kept as it is.             *)
Put(f) ==
    IF f \in Range(lru)
      THEN UNCHANGED <<lru, size>>
      ELSE /\ lru' = <<f>> \o Evicted(f)
           /\ size' = size - (Bytes(lru) - Bytes(Evicted(f))) + SizeOf[f]

(* The fill ends: a small file is cached, a large one only hashed, and a   *)
(* failed read is streamed, or refused if it cannot be rewound.            *)
FillEnds(r) ==
    /\ Running /\ dl[r].at = "filling"
    /\ reads' = reads - 1
    /\ \/ /\ Goes(r, "sending", "etag")
          /\ IF SizeOf[AssetOf[r]] <= MaxFileBytes THEN Put(AssetOf[r]) ELSE UNCHANGED <<lru, size>>
          /\ UNCHANGED <<serves, inHandler>>
       \/ Goes(r, "sending", "plain") /\ UNCHANGED <<lru, size, serves, inHandler>>
       \/ Unavailable(r) /\ UNCHANGED <<lru, size>>
    /\ UNCHANGED drain

(* The client took the response, left, or its tunnel closed.               *)
HandlerReturns(r) ==
    /\ Running /\ dl[r].at \in {"sending", "relaying", "upgraded"}
    /\ Goes(r, "closed", dl[r].out) /\ inHandler' = inHandler - 1
    /\ serves' = IF dl[r].at = "sending" THEN serves - 1 ELSE serves
    /\ UNCHANGED <<lru, size, reads, drain>>

--------------------------------------------------------------------------------
OpenAt == {"pool", "lookup", "opening", "filling", "sending", "relaying"}

(* SIGTERM; looked at only where the proxy has requests.                   *)
Sigterm ==
    /\ drain = "serving" /\ dl # <<>>
    /\ drain' = "draining"
    /\ UNCHANGED <<dl, lru, size, serves, reads, inHandler>>

(* Shutdown returns when every connection is idle; a hijacked connection   *)
(* is none of its own.                                                     *)
ShutdownReturns ==
    /\ drain = "draining"
    /\ \A r \in DOMAIN dl : dl[r].at \notin OpenAt
    /\ drain' = "waiting"
    /\ UNCHANGED <<dl, lru, size, serves, reads, inHandler>>

Finished ==
    /\ drain = "waiting" /\ inHandler = 0
    /\ drain' = "stopped"
    /\ UNCHANGED <<dl, lru, size, serves, reads, inHandler>>

(* One minute for both waits; what is open then is cut.                    *)
DrainDeadline ==
    /\ drain \in {"draining", "waiting"}
    /\ drain' = "cut"
    /\ UNCHANGED <<dl, lru, size, serves, reads, inHandler>>

(* File steps and the timer happen by themselves; the pool's answer and    *)
(* the client's reading need not.                                          *)
CacheFairness ==
    /\ \A r \in Downloads : /\ WF_cacheVars(r \in DOMAIN dl /\ Get(r))
                            /\ WF_cacheVars(r \in DOMAIN dl /\ Open(r))
                            /\ WF_cacheVars(r \in DOMAIN dl /\ FillEnds(r))
    /\ WF_cacheVars(DrainDeadline)

--------------------------------------------------------------------------------
At(ats) == Cardinality({r \in DOMAIN dl : dl[r].at \in ats})

(* The cache holds each file once and no more bytes or files than it may,  *)
(* also when two requests filled the same file; each semaphore and the     *)
(* wait group equal what the handlers hold; and a stop that did not run    *)
(* into its deadline left no connection open, upgraded ones included       *)
(* (main.go fileCache.put, fileCache.serve, serveUntilStopped).            *)
CacheBounded ==
    /\ size = Bytes(lru) /\ size <= MaxCacheBytes
    /\ Len(lru) = Cardinality(Range(lru)) /\ Len(lru) <= MaxEntries
    /\ reads = At({"filling"})
    /\ serves = At({"lookup", "opening", "filling", "sending"})
    /\ inHandler = At(OpenAt \cup {"upgraded"})
    /\ drain = "stopped" => inHandler = 0

(* A request that was handed off is answered and a stop ends, whatever the *)
(* other clients and the pool do.                                          *)
CacheProgresses ==
    /\ \A r \in Downloads : (r \in DOMAIN dl /\ dl[r].at = "lookup")
                              ~> (r \in DOMAIN dl /\ (dl[r].out # "none" \/ drain = "cut"))
    /\ drain = "draining" ~> drain \in {"stopped", "cut"}
================================================================================
