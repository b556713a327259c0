------------------------------- MODULE Admission -------------------------------
(***************************************************************************)
(* The budgets of a pod.  In the pool server: the bytes of request bodies   *)
(* held in memory, the slots and source bytes of the image optimizer, and   *)
(* the file hashes behind static assets' validators; in the sidecar, the    *)
(* file cache (MiddleCache).  Each is a counter that many requests charge   *)
(* and release from callbacks, in any order.                                *)
(*                                                                          *)
(* Bytes are small naturals.  What Next's optimizer, its response cache and *)
(* the application's routes do is drawn when they are asked.  An image      *)
(* route may itself ask the pod for another image (Parent).                 *)
(***************************************************************************)
EXTENDS MiddleCache

CONSTANTS Uploads, Images, Assets,   \* the requests, by what they charge
          Workloads,                 \* sets of requests explored together
          KeyOf,                     \* the single-flight key of an image request
          Covered,                   \* keys whose source middleware may cover
          FileOf,                    \* the file of an asset request
          Parent,                    \* the request whose source asks for this image
          None,
          MaxBody, MaxInflightBody,            \* MAX_BODY_BYTES, MAX_INFLIGHT_BODY_BYTES
          MaxImage, MaxInflightImage, MaxActive, \* MAX_IMAGE_BYTES, ..., slots
          MaxHashes, MaxPendingHashes, MaxMemoized

Requests == Uploads \cup Images \cup Assets \cup Downloads
Keys == {KeyOf[r] : r \in Images}
Files == {FileOf[r] : r \in Assets}

(* The floors the code puts under its settings.                            *)
ASSUME BudgetAssumption ==
    /\ {MaxBody, MaxImage, MaxActive, MaxHashes, MaxPendingHashes, MaxMemoized} \subseteq Nat \ {0}
    /\ MaxInflightBody \in Nat /\ MaxInflightBody >= MaxBody
    /\ MaxInflightImage \in Nat /\ MaxInflightImage >= MaxImage

VARIABLES st,          \* each request: where it is, what it charges, its answer
          inflightBodyBytes,
          activeImages, reservedImageBytes, waiters, flight,
          activeHashes, hashQueue, pending, memo

bodyVars == <<inflightBodyBytes>>
imageVars == <<activeImages, reservedImageBytes, waiters, flight>>
hashVars == <<activeHashes, hashQueue, pending, memo>>
vars == <<st, inflightBodyBytes, imageVars, hashVars, cacheVars>>

Fresh == [at |-> "new", charge |-> 0, out |-> "none"]

Init ==
    /\ \E w \in Workloads : /\ st = [r \in w \ Downloads |-> Fresh]
                           /\ CacheInit(w \cap Downloads)
    /\ inflightBodyBytes = 0
    /\ activeImages = 0 /\ reservedImageBytes = 0 /\ waiters = <<>>
    /\ flight = [k \in Keys |-> None]
    /\ activeHashes = 0 /\ hashQueue = <<>> /\ pending = {} /\ memo = <<>>

Live == DOMAIN st

--------------------------------------------------------------------------------
(* Request bodies.                                                         *)

BodyFrame == UNCHANGED <<imageVars, hashVars, cacheVars>>

UploadStarts(r) ==
    /\ r \in Uploads /\ st[r].at = "new"
    /\ st' = [st EXCEPT ![r].at = "reading"]
    /\ UNCHANGED bodyVars /\ BodyFrame

(* A failed read keeps nothing: its charge is released and, for a limit,   *)
(* the refusal is answered before the connection is closed.                *)
ReadFails(r, at, out) ==
    /\ st' = [st EXCEPT ![r] = [@ EXCEPT !.at = at, !.out = out, !.charge = 0]]
    /\ inflightBodyBytes' = inflightBodyBytes - st[r].charge

(* One chunk: over the request's cap is a 413, over the process's a 503.   *)
UploadChunk(r) ==
    /\ r \in Uploads /\ st[r].at = "reading"
    /\ \E n \in 1 .. MaxBody :
         IF st[r].charge + n > MaxBody THEN ReadFails(r, "refused", "413")
         ELSE IF inflightBodyBytes + n > MaxInflightBody THEN ReadFails(r, "refused", "503")
         ELSE /\ st' = [st EXCEPT ![r].charge = @ + n]
              /\ inflightBodyBytes' = inflightBodyBytes + n
    /\ BodyFrame

UploadAborts(r) ==
    /\ r \in Uploads /\ st[r].at = "reading"
    /\ ReadFails(r, "closed", "aborted")
    /\ BodyFrame

(* The buffer stays with the request: the charge outlives the read.        *)
UploadEnds(r) ==
    /\ r \in Uploads /\ st[r].at = "reading"
    /\ st' = [st EXCEPT ![r].at = "serving"]
    /\ UNCHANGED bodyVars /\ BodyFrame

(* Fault: both events release.                                             *)
ReleaseBody_EveryEvent(r, s) == inflightBodyBytes' = inflightBodyBytes - s.charge

(* The first of the response's finish and close events releases.           *)
ReleaseBody(r, s) ==
    inflightBodyBytes' = inflightBodyBytes - (IF s.at = "finished" THEN 0 ELSE s.charge)

ResponseFinishes(r) ==
    /\ r \in Uploads /\ st[r].at \in {"serving", "refused"}
    /\ ReleaseBody(r, st[r])
    /\ st' = [st EXCEPT ![r].at = "finished", ![r].out = IF @ = "none" THEN "ok" ELSE @]
    /\ BodyFrame

ResponseCloses(r) ==
    /\ r \in Uploads /\ st[r].at \in {"serving", "refused", "finished"}
    /\ ReleaseBody(r, st[r])
    /\ st' = [st EXCEPT ![r].at = "closed", ![r].charge = 0]
    /\ BodyFrame

--------------------------------------------------------------------------------
(* Image admission.                                                        *)

ImageFrame == UNCHANGED <<bodyVars, hashVars, cacheVars>>

(* A slot is free and the worst case of one source fits the byte budget.   *)
FitsImage(active, reserved) ==
    active < MaxActive /\ reserved + MaxImage <= MaxInflightImage

(* Admit from the head while the worst case fits: the number admitted is   *)
(* the largest prefix of the queue that does.                              *)
Pump(s, active, reserved) ==
    LET Fits(n) == \A i \in 0 .. n - 1 : FitsImage(active + i, reserved + i * MaxImage)
        n == Max({i \in 0 .. Len(waiters) : Fits(i)})
        granted == {waiters[i] : i \in 1 .. n} IN
    <<[r \in DOMAIN s |-> IF r \in granted
                            THEN [s[r] EXCEPT !.at = "admitted", !.charge = MaxImage] ELSE s[r]],
      active + n, reserved + n * MaxImage, SubSeq(waiters, n + 1, Len(waiters))>>

Settled(p) == /\ st' = p[1] /\ activeImages' = p[2]
              /\ reservedImageBytes' = p[3] /\ waiters' = p[4]

(* Everyone who waits for the work of r.                                   *)
Joined(r) == {q \in Live \cap Images : KeyOf[q] = KeyOf[r] /\ st[q].at = "joined"}

(* The work of r gives its answer to everyone who joined it.               *)
Outcome(r, out) ==
    [q \in DOMAIN st |-> IF q = r THEN [st[q] EXCEPT !.out = out]
                         ELSE IF q \in Joined(r) THEN [st[q] EXCEPT !.at = "done", !.out = out]
                         ELSE st[q]]

(* The admissions of `over` are released and the queue is served.          *)
Release(s, over) ==
    Pump([q \in DOMAIN s |-> IF q \in over THEN [s[q] EXCEPT !.at = "done", !.charge = 0] ELSE s[q]],
         activeImages - Cardinality(over),
         reservedImageBytes - MapThenSumSet(LAMBDA q : st[q].charge, over))

(* A stale image was answered before its refresh began.                    *)
Background(r) == st[r].out # "none"
Refreshing(k) == {q \in Live \cap Images : KeyOf[q] = k /\ Background(q)
                                          /\ st[q].at \in {"source", "fetching", "encoding"}}

(* The work ends.  In the foreground everyone is answered and the key is   *)
(* free; a refresh releases everyone whose cache lookup waits for it.      *)
Ends(r, out) ==
    IF Background(r)
      THEN /\ Settled(Release(st, {r} \cup {q \in Live \cap Images : KeyOf[q] = KeyOf[r]
                                                             /\ st[q].at = "awaiting"}))
           /\ UNCHANGED flight
      ELSE /\ Settled(Release(Outcome(r, out), {r}))
           /\ flight' = [flight EXCEPT ![KeyOf[r]] = None]

(* A request joins the work in flight for its key or starts it: admitted   *)
(* at once only if nobody waits.                                           *)
ImageArrives(r) ==
    /\ r \in Images /\ st[r].at = "new"
    /\ Parent[r] # None => Parent[r] \in Live /\ st[Parent[r]].at = "fetching"
    /\ IF flight[KeyOf[r]] # None
         THEN /\ st' = [st EXCEPT ![r].at = "joined"]
              /\ UNCHANGED imageVars
         ELSE /\ flight' = [flight EXCEPT ![KeyOf[r]] = r]
              /\ IF waiters = <<>> /\ FitsImage(activeImages, reservedImageBytes)
                   THEN Settled(<<[st EXCEPT ![r].at = "admitted", ![r].charge = MaxImage],
                                  activeImages + 1, reservedImageBytes + MaxImage, waiters>>)
                   ELSE Settled(<<[st EXCEPT ![r].at = "queued"],
                                  activeImages, reservedImageBytes, Append(waiters, r)>>)
    /\ ImageFrame

(* A waiter that was not admitted in time is shed; it has read nothing.    *)
AdmissionDeadline(r) ==
    /\ r \in Images /\ st[r].at = "queued"
    /\ st' = [Outcome(r, "503") EXCEPT ![r].at = "done"]
    /\ waiters' = SelectSeq(waiters, LAMBDA q : q # r)
    /\ flight' = [flight EXCEPT ![KeyOf[r]] = None]
    /\ UNCHANGED <<activeImages, reservedImageBytes>> /\ ImageFrame

(* A source that middleware may cover is never answered from the cache.    *)
(* Otherwise the response cache hits, misses, fails, or answers stale and  *)
(* keeps the admission for the refresh, its own or one already running.    *)
CacheLookup(r) ==
    /\ r \in Images /\ st[r].at = "admitted"
    /\ \/ /\ KeyOf[r] \in Covered \/ Refreshing(KeyOf[r]) = {}
          /\ st' = [st EXCEPT ![r].at = "source"]
          /\ UNCHANGED imageVars
       \/ KeyOf[r] \notin Covered /\ \E out \in {"image", "error"} : Ends(r, out)
       \/ /\ KeyOf[r] \notin Covered
          /\ st' = [Outcome(r, "image") EXCEPT
                       ![r].at = IF Refreshing(KeyOf[r]) = {} THEN "source" ELSE "awaiting"]
          /\ flight' = [flight EXCEPT ![KeyOf[r]] = None]
          /\ UNCHANGED <<activeImages, reservedImageBytes, waiters>>
    /\ ImageFrame

(* Fault: a true-up is only bookkeeping.                                   *)
settleSourceBytes_NoPump(r, n) ==
    Settled(<<[st EXCEPT ![r].at = "encoding", ![r].charge = n], activeImages,
              reservedImageBytes - st[r].charge + n, waiters>>)

(* The source is in memory: true the reservation up to its size, which may *)
(* admit a waiter.                                                         *)
settleSourceBytes(r, n) ==
    Settled(Pump([st EXCEPT ![r].at = "encoding", ![r].charge = n], activeImages,
                 reservedImageBytes - st[r].charge + n))

(* A local file is read at once unless its size is over the cap; a route   *)
(* or an external host is fetched.                                         *)
SourceStarts(r) ==
    /\ r \in Images /\ st[r].at = "source"
    /\ \/ (\E n \in 0 .. MaxImage : settleSourceBytes(r, n)) /\ UNCHANGED flight
       \/ Ends(r, "error")
       \/ st' = [st EXCEPT ![r].at = "fetching"] /\ UNCHANGED imageVars
    /\ ImageFrame

(* The answer arrives: within the cap, or refused.  A route that asked for *)
(* another image answers after it got that one.                            *)
FetchArrives(r) ==
    /\ r \in Images /\ st[r].at = "fetching"
    /\ \A c \in Live \cap Images : Parent[c] = r => st[c].at = "new" \/ st[c].out # "none"
    /\ \/ (\E n \in 1 .. MaxImage : settleSourceBytes(r, n)) /\ UNCHANGED flight
       \/ Ends(r, "error")
    /\ ImageFrame

(* Fault: the self-fetch waits for as long as its route does.              *)
FetchDeadline_Never(r) == FALSE /\ UNCHANGED vars

(* The self-fetch's abort signal, or the external fetch's one deadline for *)
(* all its hops.                                                           *)
FetchDeadline(r) ==
    /\ r \in Images /\ st[r].at = "fetching"
    /\ Ends(r, "error")
    /\ ImageFrame

EncodeEnds(r) ==
    /\ r \in Images /\ st[r].at = "encoding"
    /\ \E out \in {"image", "error"} : Ends(r, out)
    /\ ImageFrame

--------------------------------------------------------------------------------
(* Hashes of static files.                                                 *)

HashFrame == UNCHANGED <<bodyVars, imageVars, cacheVars>>

(* The memo is a bounded list, the least recently used first.              *)
Touched(f) == Append(SelectSeq(memo, LAMBDA g : g # f), f)
Remembered(f) ==
    LET m == Touched(f) IN SubSeq(m, 1 + Max({0, Len(m) - MaxMemoized}), Len(m))

(* A known digest is used, one being computed is shared, and past the      *)
(* bound the asset goes out without a validator.                           *)
AssetArrives(r) ==
    /\ r \in Assets /\ st[r].at = "new"
    /\ LET f == FileOf[r] IN
       CASE f \in Range(memo) ->
              /\ st' = [st EXCEPT ![r].at = "done", ![r].out = "etag"]
              /\ memo' = Touched(f)
              /\ UNCHANGED <<activeHashes, hashQueue, pending>>
         [] f \notin Range(memo) /\ f \in pending ->
              st' = [st EXCEPT ![r].at = "hashing"] /\ UNCHANGED hashVars
         [] f \notin Range(memo) \cup pending /\ Cardinality(pending) >= MaxPendingHashes ->
              st' = [st EXCEPT ![r].at = "done", ![r].out = "plain"] /\ UNCHANGED hashVars
         [] OTHER ->
              /\ st' = [st EXCEPT ![r].at = "hashing"]
              /\ pending' = pending \cup {f}
              /\ IF activeHashes < MaxHashes
                   THEN activeHashes' = activeHashes + 1 /\ UNCHANGED hashQueue
                   ELSE hashQueue' = Append(hashQueue, f) /\ UNCHANGED activeHashes
              /\ UNCHANGED memo
    /\ HashFrame

(* A stream that settled hands its slot to the head of the queue.          *)
HashNext ==
    IF hashQueue = <<>>
      THEN activeHashes' = activeHashes - 1 /\ UNCHANGED hashQueue
      ELSE hashQueue' = Tail(hashQueue) /\ UNCHANGED activeHashes

(* A running hash ends or its file cannot be read: every sharer is told.   *)
HashEnds(f) ==
    /\ f \in pending /\ f \notin Range(hashQueue)
    /\ pending' = pending \ {f}
    /\ \E ok \in BOOLEAN :
         /\ HashNext
         /\ memo' = IF ok THEN Remembered(f) ELSE memo
         /\ st' = [r \in Live |-> IF r \in Assets /\ st[r].at = "hashing" /\ FileOf[r] = f
                                   THEN [st[r] EXCEPT !.at = "done",
                                                      !.out = IF ok THEN "etag" ELSE "error"]
                                   ELSE st[r]]
    /\ HashFrame

--------------------------------------------------------------------------------
CacheFrame == UNCHANGED <<st, bodyVars, imageVars, hashVars>>

Next == \/ \E r \in Live : UploadStarts(r)
        \/ \E r \in Live : UploadChunk(r)
        \/ \E r \in Live : UploadAborts(r)
        \/ \E r \in Live : UploadEnds(r)
        \/ \E r \in Live : ResponseFinishes(r)
        \/ \E r \in Live : ResponseCloses(r)
        \/ \E r \in Live : ImageArrives(r)
        \/ \E r \in Live : AdmissionDeadline(r)
        \/ \E r \in Live : CacheLookup(r)
        \/ \E r \in Live : SourceStarts(r)
        \/ \E r \in Live : FetchArrives(r)
        \/ \E r \in Live : FetchDeadline(r)
        \/ \E r \in Live : EncodeEnds(r)
        \/ \E r \in Live : AssetArrives(r)
        \/ \E f \in Files : HashEnds(f)
        \/ \E r \in DOMAIN dl : CacheArrives(r) /\ CacheFrame
        \/ \E r \in DOMAIN dl : PoolAnswers(r) /\ CacheFrame
        \/ \E r \in DOMAIN dl : PoolHandsOff(r) /\ CacheFrame
        \/ \E r \in DOMAIN dl : Get(r) /\ CacheFrame
        \/ \E r \in DOMAIN dl : Open(r) /\ CacheFrame
        \/ \E r \in DOMAIN dl : FillEnds(r) /\ CacheFrame
        \/ \E r \in DOMAIN dl : HandlerReturns(r) /\ CacheFrame
        \/ Sigterm /\ CacheFrame
        \/ ShutdownReturns /\ CacheFrame
        \/ Finished /\ CacheFrame
        \/ DrainDeadline /\ CacheFrame

(* Timers fire, and Next's cache, the encoder and file streams settle.     *)
(* Nothing is assumed of clients, routes or remote hosts.                  *)
Fairness ==
    /\ \A r \in Images : /\ WF_vars(r \in Live /\ AdmissionDeadline(r))
                         /\ WF_vars(r \in Live /\ CacheLookup(r))
                         /\ WF_vars(r \in Live /\ SourceStarts(r))
                         /\ WF_vars(r \in Live /\ FetchDeadline(r))
                         /\ WF_vars(r \in Live /\ EncodeEnds(r))
    /\ \A f \in Files : WF_vars(HashEnds(f))
    /\ CacheFairness

Spec == Init /\ [][Next]_vars /\ Fairness

--------------------------------------------------------------------------------
Charge(rs) == MapThenSumSet(LAMBDA r : st[r].charge, rs)

(* Every counter equals what the open requests hold, whatever the order of *)
(* chunks, aborts, finish and close events, true-ups, sheds and background *)
(* refreshes: nothing leaks, nothing is returned twice (index.ts           *)
(* releaseBodyBudgetWhenResponseCompletes, grantImageAdmission;            *)
(* http-cache.ts hashFileWithAdmission).  The same of the sidecar.         *)
CountersBalance ==
    LET open == {r \in Live \cap Uploads : st[r].at \in {"reading", "serving"}}
        held == {r \in Live \cap Images :
                   st[r].at \in {"admitted", "source", "fetching", "encoding", "awaiting"}} IN
    /\ inflightBodyBytes = Charge(open)
    /\ activeImages = Cardinality(held) /\ reservedImageBytes = Charge(held)
    /\ Cardinality(pending) = activeHashes + Len(hashQueue)
    /\ CacheBounded

(* Nobody waits beside free capacity: a release, a true-up, a shed or a    *)
(* failed hash always serves the queue.                                    *)
NoIdleCapacity ==
    /\ waiters # <<>> => ~FitsImage(activeImages, reservedImageBytes)
    /\ hashQueue # <<>> => activeHashes = MaxHashes

(* Every image and asset request is answered and every image charge comes  *)
(* back, also when a source is a route that asks this pod for the same     *)
(* image or for one that cannot be admitted; the sidecar's handed off      *)
(* requests too, and its stop ends.                                        *)
EveryoneAnswered ==
    /\ \A r \in Images \cup Assets :
         (r \in Live /\ st[r].at # "new") ~> (r \in Live /\ st[r].out # "none")
    /\ \A r \in Images : (r \in Live /\ st[r].charge > 0) ~> (r \in Live /\ st[r].charge = 0)
    /\ CacheProgresses
================================================================================
