--------------------------- MODULE RequestPathProofs ---------------------------
(***************************************************************************)
(* What a release promises of every request that crosses it, proved for    *)
(* any number of requests, any two builds and any applications: nothing    *)
(* unscreened leaves it, middleware's header set reaches the handler, and  *)
(* middleware runs once.                                                   *)
(***************************************************************************)
EXTENDS RequestPath, FiniteSetTheorems, TLAPS

-------------------------------------------------------------------------------
(* Types: the dispatch headers, the answer, a request on its way.          *)

Places == {"client", "edge", "route", "queue", "hop", "forward", "pool", "resolve", "done"}

Wire == [by: Builds \cup {NoBuild}, verdict: Verdicts, set: BOOLEAN, target: Routes,
         digest: BOOLEAN, fresh: BOOLEAN, context: BOOLEAN]

Outcome == [what: {"none", "answer", "error"} \cup Content, build: Builds \cup {NoBuild},
            hdrs: Builds \cup {NoBuild}]

Travelling == [at: Places, b: Builds \cup {NoBuild}, wire: Wire, body: BOOLEAN,
               hdrs: Builds \cup {NoBuild}, seen: SUBSET Builds, runs: [Builds -> Nat],
               degraded: BOOLEAN, retried: BOOLEAN, hopped: BOOLEAN, verdict: Verdicts,
               fwd: Nat, strayed: BOOLEAN, out: Outcome]

Typed ==
    /\ app \in [Builds -> AppType]
    /\ fact \in [DOMAIN fact -> FactType]
    /\ edgeBuild \in Builds /\ poolBuild \in Builds
    /\ cdn \in [Kinds -> Builds \cup {NoBuild}]
    /\ st \in [DOMAIN fact -> Travelling]

-------------------------------------------------------------------------------
(* The inductive invariant.  Each part is a predicate on a request's       *)
(* record s, so that a step is judged by the record it leaves.             *)

(* What the CDN keeps for a kind of URL no middleware of its build may     *)
(* cover.                                                                  *)
CdnOK ==
    \A k \in Kinds : cdn[k] # NoBuild =>
        /\ ~(HasMiddleware(cdn[k]) /\ k \in app[cdn[k]].covers)
        /\ k = "image" => ~SourceCovered(cdn[k])

(* Middleware has seen only requests it matches.                           *)
SeenOK(s, r) == \A b \in s.seen : Matches(b, r)

(* At the edge nothing has happened yet but this build's middleware, and   *)
(* the verdict tells what it did.                                          *)
EdgeOK(s, r) ==
    /\ s.at \in {"client", "edge"} => s.seen = {} /\ \A c \in Builds : s.runs[c] = 0
    /\ s.at \in {"client", "edge", "route"} => s.wire = NoVerdict
    /\ s.at \in {"client", "edge", "route", "queue"} => s.body /\ s.fwd = 0
    /\ s.at \notin {"client", "done"} => s.b \in Builds
    /\ s.at = "route" =>
         /\ s.verdict = "ran" <=> s.b \in s.seen
         /\ s.verdict \in {"skip-nomatch", "none"} => ~Matches(s.b, r)
         /\ app[s.b].mw = "none" => s.verdict = "none"
         /\ ~s.degraded => /\ ~s.retried => s.runs[s.b] = 0
                           /\ s.runs[s.b] <= 1
                           /\ s.runs[s.b] = 1 => s.verdict = "ran"
                           /\ \A c \in Builds : c # s.b => s.runs[c] = 0

Late == {"queue", "hop", "forward", "pool", "resolve"}

(* A verdict on its way is of the build the request is with, which let the *)
(* request through or does not match it, unless the context or the body    *)
(* has changed since; and it comes with middleware's header set.           *)
WireOK(s, r) ==
    /\ s.at \in Late /\ s.wire.by # NoBuild =>
         /\ s.wire.by = s.b
         /\ s.wire.verdict \in MW_EVALUATED_TRUSTED /\ s.wire.context /\ Matches(s.b, r) =>
              s.b \in s.seen \/ ~s.body
         /\ s.b \in s.seen => s.wire.set \/ s.hdrs = s.b
         /\ ~s.body => s.wire.digest
         /\ s.at \in {"pool", "resolve"} => s.wire.context
         /\ s.at = "resolve" => s.body
    /\ s.at = "hop" /\ ~fact[r].get => s.wire.digest
    /\ ~s.body => ~fact[r].get /\ s.degraded

(* A request is forwarded once: the build it came from is not owed it.     *)
ForwardOK(s, r) == s.at \in Late /\ s.fwd > 0 => Retained(Other(s.b), r)

(* As long as no hand-over failed, middleware that has run is known to     *)
(* have.                                                                   *)
PassOK(s) ==
    ~s.degraded =>
        /\ \A c \in Builds : s.runs[c] <= 1
        /\ s.at \in Late =>
             /\ s.runs[s.b] = 1 => s.wire.by = s.b /\ s.wire.verdict = "ran"
             /\ s.fwd = 0 => \A c \in Builds : c # s.b => s.runs[c] = 0

(* The answer.                                                             *)
OutOK(s, r) ==
    /\ s.at # "done" => s.out.what = "none"
    /\ s.out.what \in Content /\ Matches(s.out.build, r) => s.out.build \in s.seen
    /\ s.out.what = "hit" /\ fact[r].kind = "image" => ~SourceCovered(s.out.build)
    /\ s.out.what \in {"content", "image"} /\ s.out.build \in s.seen =>
         s.out.hdrs = s.out.build \/ s.strayed

RequestOK(s, r) ==
    /\ SeenOK(s, r) /\ EdgeOK(s, r) /\ WireOK(s, r) /\ ForwardOK(s, r) /\ PassOK(s) /\ OutOK(s, r)

PathInv == Typed /\ CdnOK /\ \A r \in DOMAIN fact : \A s \in {st[r]} : RequestOK(s, r)

-------------------------------------------------------------------------------
(* About the operators.                                                    *)

(* There are two builds.                                                   *)
LEMMA OtherBuild ==
    ASSUME NEW b \in Builds
    PROVE  Other(b) \in Builds /\ Other(b) # b /\ Other(Other(b)) = b
<1>1. Cardinality(Builds \ {b}) = 1 /\ IsFiniteSet(Builds \ {b})
  BY BuildAssumption, FS_RemoveElement
<1>2. PICK c : Builds \ {b} = {c}
  BY <1>1, FS_Singleton
<1>3. c \in Builds /\ c # b /\ \A d \in Builds : d = b \/ d = c
  BY <1>2
<1>4. Other(b) = c
  BY <1>3 DEF Other
<1>5. Other(c) = b
  BY <1>3 DEF Other
<1> QED
  BY <1>3, <1>4, <1>5

(* No request is owed to both builds.                                      *)
LEMMA RetainedOnce ==
    ASSUME NEW b \in Builds, NEW r
    PROVE  ~(Retained(b, r) /\ Retained(Other(b), r))
BY OtherBuild DEF Retained

(* A pool grants shared freshness only to what no middleware may cover.    *)
LEMMA SharedUncovered ==
    ASSUME NEW b, NEW r, "shared" \in PoolCacheControls(b, r)
    PROVE  /\ ~(HasMiddleware(b) /\ fact[r].kind \in app[b].covers)
           /\ fact[r].kind = "image" => ~SourceCovered(b)
<1>1. PICK own \in AppCacheControls, response \in ResponseCacheControls :
          PoolCacheControl(b, r, own, response) = "shared"
  BY DEF PoolCacheControls
<1>2. forcedCdnCacheControl(b, r) = "none"
  <2>1. forcedCdnCacheControl(b, r) \in {"none", "nostore", "nocache"}
    BY DEF forcedCdnCacheControl
  <2> QED
    BY <1>1, <2>1 DEF PoolCacheControl, explicitCacheControlWins
<1> QED
  BY <1>2 DEF forcedCdnCacheControl, MayCover

(* The edge never does.                                                    *)
LEMMA EdgeNotShared == "shared" \notin EdgeCacheControls
BY DEF EdgeCacheControls, withMiddlewareCachePolicy, ResponseCacheControls

-------------------------------------------------------------------------------
(* The shape of a step.                                                    *)

(* A request moved to another place.                                       *)
LEMMA Moved ==
    ASSUME NEW s \in Travelling, NEW at \in Places, NEW t, t = [s EXCEPT !.at = at]
    PROVE  /\ t \in Travelling /\ t.at = at /\ t.b = s.b /\ t.wire = s.wire /\ t.body = s.body
           /\ t.hdrs = s.hdrs /\ t.seen = s.seen /\ t.runs = s.runs /\ t.degraded = s.degraded
           /\ t.retried = s.retried /\ t.hopped = s.hopped /\ t.verdict = s.verdict
           /\ t.fwd = s.fwd /\ t.out = s.out
BY DEF Travelling

(* The predicates read what the application and the request are.           *)
LEMMA SameFacts ==
    ASSUME app' = app, NEW x, NEW r, fact'[r] = fact[r]
    PROVE  RequestOK(x, r)' <=> RequestOK(x, r)
BY DEF RequestOK, SeenOK, EdgeOK, WireOK, ForwardOK, PassOK, OutOK, Matches, HasMiddleware,
       conditionPresent, Retained, SourceCovered

(* One request changes, and perhaps an entry of the CDN.                   *)
LEMMA StepKeeps ==
    ASSUME PathInv, Static, NEW r \in DOMAIN fact, NEW t \in Travelling, RequestOK(t, r),
           st' = [st EXCEPT ![r] = t],
           cdn' \in [Kinds -> Builds \cup {NoBuild}], CdnOK'
    PROVE  PathInv'
<1>1. /\ UNCHANGED <<app, fact, edgeBuild, poolBuild>>
      /\ st \in [DOMAIN fact -> Travelling]
  BY DEF Static, PathInv, Typed
<1>2. st' \in [DOMAIN fact -> Travelling]
  BY <1>1
<1>3. Typed'
  BY <1>1, <1>2 DEF PathInv, Typed
<1>4. ASSUME NEW q \in DOMAIN fact, NEW x, x = st'[q] PROVE RequestOK(x, q)'
  <2>1. CASE q = r
    BY <1>1, <1>4, <2>1, SameFacts
  <2>2. CASE q # r
    BY <1>1, <1>4, <2>2, SameFacts DEF PathInv
  <2> QED
    BY <2>1, <2>2
<1> QED
  BY <1>1, <1>3, <1>4 DEF PathInv

(* A request goes on.                                                      *)
LEMMA GoKeeps ==
    ASSUME PathInv, NEW r \in DOMAIN fact, NEW s \in Travelling, NEW at \in Places, Go(r, s, at),
           \A t \in Travelling : t = [s EXCEPT !.at = at] => RequestOK(t, r)
    PROVE  PathInv'
<1>1. PICK t \in Travelling : t = [s EXCEPT !.at = at]
  BY Moved
<1>2. st' = [st EXCEPT ![r] = t] /\ cdn' = cdn /\ Static
  BY <1>1 DEF Go
<1>3. CdnOK'
  BY <1>2 DEF PathInv, CdnOK, Static, HasMiddleware, SourceCovered
<1> QED
  BY <1>1, <1>2, <1>3, StepKeeps DEF PathInv, Typed

(* A request is answered.                                                  *)
LEMMA AnswerKeeps ==
    ASSUME PathInv, NEW r \in DOMAIN fact, NEW s \in Travelling,
           NEW what \in {"answer", "error"} \cup Content, NEW b \in Builds, NEW ccs,
           Answer(r, s, what, b, ccs),
           SeenOK(s, r), ~s.degraded => \A c \in Builds : s.runs[c] <= 1,
           what \in Content /\ Matches(b, r) => b \in s.seen,
           what = "hit" /\ fact[r].kind = "image" => ~SourceCovered(b),
           what \in {"content", "image"} /\ b \in s.seen => s.hdrs = b \/ s.strayed,
           "shared" \in ccs => /\ ~(HasMiddleware(b) /\ fact[r].kind \in app[b].covers)
                               /\ fact[r].kind = "image" => ~SourceCovered(b)
    PROVE  PathInv'
<1>1. PICK o \in Outcome : o = [what |-> what, build |-> b, hdrs |-> s.hdrs]
  BY DEF Outcome, Travelling
<1>2. PICK t : t = [Fresh EXCEPT !.at = "done", !.seen = s.seen, !.runs = s.runs,
                                 !.degraded = s.degraded, !.strayed = s.strayed, !.fwd = s.fwd, !.out = o]
  OBVIOUS
<1>3. Fresh \in Travelling
  <2>1. NoVerdict \in Wire
    BY DEF NoVerdict, Signed, Wire, Verdicts, Routes
  <2>2. Fresh.out \in Outcome /\ Fresh.runs \in [Builds -> Nat]
    BY DEF Fresh, Outcome
  <2> QED
    BY <2>1, <2>2 DEF Fresh, Travelling, Places, Verdicts
<1>4. /\ t \in Travelling /\ t.at = "done" /\ t.seen = s.seen /\ t.runs = s.runs
      /\ t.degraded = s.degraded /\ t.strayed = s.strayed /\ t.out = o /\ t.body = Fresh.body
  BY <1>2, <1>3 DEF Travelling, Places
<1>5. o.what = what /\ o.build = b /\ o.hdrs = s.hdrs /\ Fresh.body = TRUE
  BY <1>1 DEF Fresh
<1>6. RequestOK(t, r)
  BY <1>4, <1>5 DEF RequestOK, SeenOK, EdgeOK, WireOK, ForwardOK, PassOK, OutOK, Late
<1>7. /\ st' = [st EXCEPT ![r] = t] /\ Static
      /\ \/ cdn' = cdn
         \/ "shared" \in ccs /\ cdn' = [cdn EXCEPT ![fact[r].kind] = b]
  BY <1>1, <1>2 DEF Answer
<1>8. fact[r].kind \in Kinds /\ cdn \in [Kinds -> Builds \cup {NoBuild}]
  BY DEF PathInv, Typed, FactType
<1>9. cdn' \in [Kinds -> Builds \cup {NoBuild}]
      /\ \A k \in Kinds : cdn'[k] = cdn[k] \/ ("shared" \in ccs /\ k = fact[r].kind /\ cdn'[k] = b)
  BY <1>7, <1>8
<1>10. CdnOK'
  <2>1. ASSUME NEW k \in Kinds, NEW c, c = cdn'[k], c # NoBuild
        PROVE  /\ ~(HasMiddleware(c) /\ k \in app[c].covers)
               /\ k = "image" => ~SourceCovered(c)
    <3>1. CASE c = cdn[k]
      BY <2>1, <3>1 DEF PathInv, CdnOK
    <3>2. CASE "shared" \in ccs /\ k = fact[r].kind /\ c = b
      BY <3>2
    <3> QED
      BY <1>9, <2>1, <3>1, <3>2
  <2>2. app' = app
    BY <1>7 DEF Static
  <2> QED
    BY <2>1, <2>2 DEF CdnOK, HasMiddleware, SourceCovered
<1> QED
  BY <1>4, <1>6, <1>7, <1>9, <1>10, StepKeeps

-------------------------------------------------------------------------------
(* Where a step starts.                                                    *)

(* The invariant at one request.                                           *)
LEMMA Here ==
    ASSUME PathInv, NEW r \in DOMAIN fact
    PROVE  /\ st[r] \in Travelling /\ RequestOK(st[r], r)
           /\ fact[r] \in FactType /\ app \in [Builds -> AppType]
           /\ edgeBuild \in Builds /\ poolBuild \in Builds
BY DEF PathInv, Typed

(* The headers a proof covers.                                             *)
LEMMA SignedIs ==
    ASSUME NEW b \in Builds \cup {NoBuild}, NEW v \in Verdicts, NEW set \in BOOLEAN,
           NEW target \in Routes, NEW digest \in BOOLEAN,
           NEW w, w = Signed(b, v, set, target, digest)
    PROVE  /\ w \in Wire /\ w.by = b /\ w.verdict = v /\ w.set = set /\ w.target = target
           /\ w.digest = digest /\ w.fresh = TRUE /\ w.context = TRUE
BY DEF Signed, Wire

(* Cleared headers.                                                        *)
LEMMA NoVerdictIs == NoVerdict \in Wire /\ NoVerdict.by = NoBuild /\ NoVerdict.target = "own"
BY DEF NoVerdict, Signed, Wire, Verdicts, Routes

-------------------------------------------------------------------------------
(* The initial states.                                                     *)
LEMMA PathInit == Init => PathInv
<1> SUFFICES ASSUME Init PROVE PathInv
  OBVIOUS
<1>1. Fresh \in Travelling /\ Fresh.at = "client" /\ Fresh.wire = NoVerdict /\ Fresh.body = TRUE
      /\ Fresh.seen = {} /\ Fresh.fwd = 0 /\ (\A c \in Builds : Fresh.runs[c] = 0)
      /\ Fresh.out.what = "none" /\ Fresh.degraded = FALSE
  <2>1. Fresh.out \in Outcome /\ Fresh.runs \in [Builds -> Nat]
    BY DEF Fresh, Outcome
  <2> QED
    BY <2>1, NoVerdictIs DEF Fresh, Travelling, Places, Verdicts
<1>2. Typed
  BY <1>1, BuildAssumption, DataAssumption DEF Init, Typed
<1>3. CdnOK
  BY DEF Init, CdnOK
<1>4. ASSUME NEW r \in DOMAIN fact, NEW s, s = st[r] PROVE RequestOK(s, r)
  <2>1. s = Fresh
    BY <1>4 DEF Init
  <2> QED
    BY <1>1, <2>1 DEF RequestOK, SeenOK, EdgeOK, WireOK, ForwardOK, PassOK, OutOK, Late, Content
<1> QED
  BY <1>2, <1>3, <1>4 DEF PathInv

-------------------------------------------------------------------------------
(* The edge.                                                               *)

(* Arrive: a stored entry is of a kind no middleware may cover.            *)
LEMMA ArriveKeeps == ASSUME PathInv, NEW r \in DOMAIN fact, Arrive(r) PROVE PathInv'
<1>1. PICK s \in Travelling : s = st[r] /\ RequestOK(s, r)
  BY Here
<1>2. s.at = "client" /\ fact[r].kind \in Kinds /\ edgeBuild \in Builds
  BY <1>1, Here DEF Arrive, FactType
<1>3. s.seen = {} /\ (\A c \in Builds : s.runs[c] = 0) /\ s.wire = NoVerdict /\ s.body /\ s.fwd = 0
      /\ s.out.what = "none"
  BY <1>1, <1>2 DEF RequestOK, EdgeOK, OutOK
<1>4. CASE fact[r].get /\ cdn[fact[r].kind] # NoBuild
  <2>1. PICK b \in Builds : b = cdn[fact[r].kind]
    BY <1>2, <1>4 DEF PathInv, Typed
  <2>2. Answer(r, s, "hit", b, {"private"})
    BY <1>1, <1>4, <2>1 DEF Arrive
  <2>3. ~(HasMiddleware(b) /\ fact[r].kind \in app[b].covers)
        /\ (fact[r].kind = "image" => ~SourceCovered(b))
    BY <1>2, <1>4, <2>1 DEF PathInv, CdnOK
  <2>4. ~Matches(b, r) /\ SeenOK(s, r) /\ "shared" \notin {"private"} /\ "hit" \in Content
    BY <1>3, <2>3 DEF Matches, SeenOK, Content
  <2>5. ~s.degraded => \A c \in Builds : s.runs[c] <= 1
    BY <1>3
  <2> QED
    BY <2>2, <2>3, <2>4, <2>5, <1>3, AnswerKeeps
<1>5. CASE ~(fact[r].get /\ cdn[fact[r].kind] # NoBuild)
  <2>1. PICK u : u = [s EXCEPT !.b = edgeBuild]
    OBVIOUS
  <2>2. u \in Travelling /\ u.b = edgeBuild /\ u.seen = s.seen /\ u.runs = s.runs /\ u.wire = s.wire
        /\ u.body = s.body /\ u.fwd = s.fwd /\ u.out = s.out
    BY <1>2, <2>1 DEF Travelling
  <2>3. Go(r, u, "edge") /\ "edge" \in Places
    BY <1>1, <1>5, <2>1 DEF Arrive, Places
  <2>4. ASSUME NEW t \in Travelling, t = [u EXCEPT !.at = "edge"] PROVE RequestOK(t, r)
      <3>1. t.at = "edge" /\ t.b = u.b /\ t.wire = u.wire /\ t.body = u.body
             /\ t.hdrs = u.hdrs /\ t.seen = u.seen /\ t.runs = u.runs /\ t.degraded = u.degraded
             /\ t.retried = u.retried /\ t.verdict = u.verdict /\ t.fwd = u.fwd /\ t.out = u.out
        BY <2>2, <2>3, <2>4, Moved
      <3> QED
        BY <3>1, <1>2, <1>3, <2>2
           DEF RequestOK, SeenOK, EdgeOK, WireOK, ForwardOK, PassOK, OutOK, Late, Content
  <2> QED
    BY <2>2, <2>3, <2>4, GoKeeps
<1> QED
  BY <1>4, <1>5

(* A request leaves the edge without a verdict.                            *)
LEMMA ClearKeeps ==
    ASSUME PathInv, NEW r \in DOMAIN fact, NEW s \in Travelling, ClearVerdict(r, s),
           s.wire = NoVerdict, s.body, s.fwd = 0, s.b \in Builds, s.out.what = "none", SeenOK(s, r),
           ~s.degraded => \A c \in Builds : s.runs[c] = 0
    PROVE  PathInv'
<1>1. PICK u : u = [s EXCEPT !.verdict = "error", !.retried = FALSE]
  OBVIOUS
<1>2. u \in Travelling /\ u.b = s.b /\ u.seen = s.seen /\ u.runs = s.runs /\ u.wire = s.wire
      /\ u.body = s.body /\ u.fwd = s.fwd /\ u.out = s.out /\ u.degraded = s.degraded
  BY <1>1 DEF Travelling, Verdicts
<1>3. Go(r, u, "queue") /\ "queue" \in Places
  BY <1>1 DEF ClearVerdict, Places
<1>4. ASSUME NEW t \in Travelling, t = [u EXCEPT !.at = "queue"] PROVE RequestOK(t, r)
    <2>1. t.at = "queue" /\ t.b = u.b /\ t.wire = u.wire /\ t.body = u.body
           /\ t.hdrs = u.hdrs /\ t.seen = u.seen /\ t.runs = u.runs /\ t.degraded = u.degraded
           /\ t.retried = u.retried /\ t.verdict = u.verdict /\ t.fwd = u.fwd /\ t.out = u.out
      BY <1>2, <1>4 DEF Travelling
    <2> QED
      BY <2>1, <1>2, NoVerdictIs
         DEF RequestOK, SeenOK, EdgeOK, WireOK, ForwardOK, PassOK, OutOK, Late, Content
<1> QED
  BY <1>2, <1>3, <1>4, GoKeeps

(* EdgeAdmit: nothing has run yet.                                         *)
LEMMA EdgeAdmitKeeps == ASSUME PathInv, NEW r \in DOMAIN fact, EdgeAdmit(r) PROVE PathInv'
<1>1. PICK s \in Travelling : s = st[r] /\ RequestOK(s, r)
  BY Here
<1>2. s.at = "edge"
  BY <1>1 DEF EdgeAdmit
<1>3. s.seen = {} /\ (\A c \in Builds : s.runs[c] = 0) /\ s.wire = NoVerdict /\ s.body /\ s.fwd = 0
      /\ s.out.what = "none" /\ s.b \in Builds /\ SeenOK(s, r)
  BY <1>1, <1>2 DEF RequestOK, EdgeOK, OutOK
<1>4. CASE ClearVerdict(r, s)
  BY <1>3, <1>4, ClearKeeps
<1>5. CASE Answer(r, s, "answer", s.b, {"private"})
  <2>1. "shared" \notin {"private"} /\ "answer" \notin Content /\ "answer" # "hit"
        /\ "answer" \notin {"content", "image"}
    BY DEF Content
  <2>2. \A c \in Builds : s.runs[c] <= 1
    BY <1>3
  <2> QED
    BY <1>3, <1>5, <2>1, <2>2, AnswerKeeps
<1>6. ASSUME Go(r, [s EXCEPT !.verdict = IF app[s.b].mw = "none" THEN "none" ELSE "error"], "route")
      PROVE  PathInv'
  <2>1. PICK v \in Verdicts : v = IF app[s.b].mw = "none" THEN "none" ELSE "error"
    BY DEF Verdicts
  <2>2. PICK u : u = [s EXCEPT !.verdict = v]
    OBVIOUS
  <2>3. u \in Travelling /\ u.b = s.b /\ u.seen = s.seen /\ u.runs = s.runs /\ u.wire = s.wire
        /\ u.body = s.body /\ u.fwd = s.fwd /\ u.out = s.out /\ u.verdict = v
    BY <2>2 DEF Travelling
  <2>4. Go(r, u, "route") /\ "route" \in Places
    BY <1>6, <2>1, <2>2 DEF Places
  <2>5. ASSUME NEW t \in Travelling, t = [u EXCEPT !.at = "route"] PROVE RequestOK(t, r)
      <3>1. t.at = "route" /\ t.b = u.b /\ t.wire = u.wire /\ t.body = u.body
             /\ t.hdrs = u.hdrs /\ t.seen = u.seen /\ t.runs = u.runs /\ t.degraded = u.degraded
             /\ t.retried = u.retried /\ t.verdict = u.verdict /\ t.fwd = u.fwd /\ t.out = u.out
        BY <2>3, <2>4, <2>5, Moved
      <3> QED
        BY <3>1, <1>3, <2>1, <2>3
           DEF RequestOK, SeenOK, EdgeOK, WireOK, ForwardOK, PassOK, OutOK, Late, Content, Matches,
               HasMiddleware
  <2> QED
    BY <2>3, <2>4, <2>5, GoKeeps
<1> QED
  BY <1>1, <1>4, <1>5, <1>6 DEF EdgeAdmit

(* Another run is counted.                                                 *)
LEMMA RunsIs ==
    ASSUME NEW s \in Travelling, NEW b \in Builds, NEW n \in Nat
    PROVE  [s.runs EXCEPT ![b] = @ + n] \in [Builds -> Nat]
<1>1. PICK g \in [Builds -> Nat] : g = s.runs
  BY DEF Travelling
<1> QED
  BY <1>1

(* After the middleware stage the verdict tells what this build's          *)
(* middleware did.                                                         *)
AfterMiddleware(m, r) ==
    /\ SeenOK(m, r)
    /\ m.verdict = "ran" <=> m.b \in m.seen
    /\ m.verdict \in {"skip-nomatch", "none"} => ~Matches(m.b, r)
    /\ app[m.b].mw = "none" => m.verdict = "none"
    /\ ~m.degraded => /\ m.runs[m.b] <= 1
                      /\ m.runs[m.b] = 1 => m.verdict = "ran"
                      /\ \A c \in Builds : c # m.b => m.runs[c] = 0

(* EdgeMiddleware establishes it.                                          *)
LEMMA EdgeMiddlewareIs ==
    ASSUME NEW r, NEW s \in Travelling, RequestOK(s, r), s.at = "route", NEW m,
           m = EdgeMiddleware(s, r)
    PROVE  /\ m \in Travelling /\ m.b = s.b /\ m.wire = s.wire /\ m.body = s.body
           /\ m.fwd = s.fwd /\ m.out = s.out /\ AfterMiddleware(m, r)
<1>1. /\ s.b \in Builds /\ SeenOK(s, r) /\ (s.verdict = "ran" <=> s.b \in s.seen)
      /\ (s.verdict \in {"skip-nomatch", "none"} => ~Matches(s.b, r))
      /\ (app[s.b].mw = "none" => s.verdict = "none")
      /\ (~s.degraded => /\ ~s.retried => s.runs[s.b] = 0
                         /\ s.runs[s.b] <= 1
                         /\ s.runs[s.b] = 1 => s.verdict = "ran"
                         /\ \A c \in Builds : c # s.b => s.runs[c] = 0)
  BY DEF RequestOK, EdgeOK
<1>2. CASE m = s
  BY <1>1, <1>2 DEF AfterMiddleware
<1>3. CASE m = [s EXCEPT !.verdict = "skip-nomatch"] /\ ~s.retried /\ app[s.b].mw # "none"
             /\ ~Matches(s.b, r)
  <2>1. /\ m \in Travelling /\ m.b = s.b /\ m.wire = s.wire /\ m.body = s.body
        /\ m.fwd = s.fwd /\ m.out = s.out /\ m.seen = s.seen /\ m.runs = s.runs
        /\ m.degraded = s.degraded /\ m.verdict = "skip-nomatch"
    BY <1>3 DEF Travelling, Verdicts
  <2>2. s.b \notin s.seen
    BY <1>1, <1>3 DEF SeenOK
  <2> QED
    BY <1>1, <1>3, <2>1, <2>2 DEF AfterMiddleware, SeenOK
<1>4. CASE m = [s EXCEPT !.verdict = "ran", !.seen = @ \cup {s.b}, !.runs[s.b] = @ + 1]
             /\ ~s.retried /\ app[s.b].mw = "node" /\ Matches(s.b, r)
  <2>1. PICK f \in [Builds -> Nat] : f = [s.runs EXCEPT ![s.b] = @ + 1]
    BY <1>1, RunsIs
  <2>2. PICK x \in SUBSET Builds : x = s.seen \cup {s.b}
    BY <1>1 DEF Travelling
  <2>3. m = [s EXCEPT !.verdict = "ran", !.seen = x, !.runs = f]
    BY <1>4, <2>1, <2>2 DEF Travelling
  <2>4. /\ m \in Travelling /\ m.b = s.b /\ m.wire = s.wire /\ m.body = s.body
        /\ m.fwd = s.fwd /\ m.out = s.out /\ m.seen = x /\ m.runs = f
        /\ m.degraded = s.degraded /\ m.verdict = "ran"
    BY <2>3 DEF Travelling, Verdicts
  <2>5. SeenOK(m, r)
    BY <1>1, <1>4, <2>2, <2>4 DEF SeenOK
  <2>6. ~s.degraded => f[s.b] <= 1 /\ \A c \in Builds : c # s.b => f[c] = 0
    BY <1>1, <1>4, <2>1 DEF Travelling
  <2> QED
    BY <1>4, <2>2, <2>4, <2>5, <2>6 DEF AfterMiddleware
<1> QED
  BY <1>2, <1>3, <1>4 DEF EdgeMiddleware

(* EdgeRoute: what is stamped tells what middleware did.                   *)
LEMMA EdgeRouteKeeps == ASSUME PathInv, NEW r \in DOMAIN fact, EdgeRoute(r) PROVE PathInv'
<1>1. PICK s0 \in Travelling : s0 = st[r] /\ RequestOK(s0, r) /\ s0.at = "route"
  BY Here DEF EdgeRoute
<1>2. PICK s : s = EdgeMiddleware(s0, r)
  OBVIOUS
<1>3. /\ s \in Travelling /\ s.b \in Builds /\ s.wire = NoVerdict /\ s.body /\ s.fwd = 0
      /\ s.out.what = "none" /\ AfterMiddleware(s, r)
  BY <1>1, <1>2, EdgeMiddlewareIs DEF RequestOK, EdgeOK, OutOK
<1>4. SeenOK(s, r) /\ (~s.degraded => \A c \in Builds : s.runs[c] <= 1)
  BY <1>3 DEF AfterMiddleware, Travelling
<1>5. ASSUME NEW what \in {"answer", "error"}, NEW ccs \in {{"private"}, EdgeCacheControls},
             Answer(r, s, what, s.b, ccs)
      PROVE  PathInv'
  <2>1. "shared" \notin ccs
    BY EdgeNotShared
  <2>2. what \notin Content /\ what # "hit" /\ what \notin {"content", "image"}
        /\ what \in {"answer", "error"} \cup Content
    BY DEF Content
  <2> QED
    BY <1>3, <1>4, <1>5, <2>1, <2>2, AnswerKeeps
<1>6. ASSUME Go(r, [s EXCEPT !.retried = TRUE], "route") PROVE PathInv'
  <2>1. PICK u : u = [s EXCEPT !.retried = TRUE]
    OBVIOUS
  <2>2. u \in Travelling /\ u.b = s.b /\ u.seen = s.seen /\ u.runs = s.runs /\ u.wire = s.wire
        /\ u.body = s.body /\ u.fwd = s.fwd /\ u.out = s.out /\ u.verdict = s.verdict
        /\ u.degraded = s.degraded /\ u.retried = TRUE
    BY <1>3, <2>1 DEF Travelling
  <2>3. Go(r, u, "route") /\ "route" \in Places
    BY <1>6, <2>1 DEF Places
  <2>4. ASSUME NEW t \in Travelling, t = [u EXCEPT !.at = "route"] PROVE RequestOK(t, r)
    <3>1. t.at = "route" /\ t.b = u.b /\ t.wire = u.wire /\ t.body = u.body
          /\ t.seen = u.seen /\ t.runs = u.runs /\ t.degraded = u.degraded
          /\ t.retried = u.retried /\ t.verdict = u.verdict /\ t.fwd = u.fwd /\ t.out = u.out
      BY <2>2, <2>4 DEF Travelling
    <3> QED
      BY <1>3, <1>4, <2>2, <3>1 DEF AfterMiddleware, RequestOK, SeenOK, EdgeOK, WireOK, ForwardOK,
         PassOK, OutOK, Late, Content
  <2> QED
    BY <2>2, <2>3, <2>4, GoKeeps
<1>7. ASSUME ClearVerdict(r, [s EXCEPT !.degraded = TRUE]) PROVE PathInv'
  <2>1. PICK u : u = [s EXCEPT !.degraded = TRUE]
    OBVIOUS
  <2>2. u \in Travelling /\ u.b = s.b /\ u.seen = s.seen /\ u.wire = s.wire
        /\ u.body = s.body /\ u.fwd = s.fwd /\ u.out = s.out /\ u.degraded = TRUE
    BY <1>3, <2>1 DEF Travelling
  <2>3. SeenOK(u, r) /\ ClearVerdict(r, u)
    BY <1>4, <1>7, <2>1, <2>2 DEF SeenOK
  <2> QED
    BY <1>3, <2>2, <2>3, ClearKeeps
<1>8. ASSUME NEW target \in Routes,
             Go(r, [s EXCEPT !.wire = Stamp(s, target), !.verdict = "error", !.retried = FALSE],
                "queue")
      PROVE  PathInv'
  <2>1. PICK w : w = Stamp(s, target)
    OBVIOUS
  <2>2. /\ w \in Wire /\ w.by = s.b /\ w.verdict = s.verdict /\ (w.set <=> s.verdict = "ran")
        /\ w.context = TRUE
    <3>1. s.b \in Builds \cup {NoBuild} /\ s.verdict \in Verdicts /\ FALSE \in BOOLEAN
      BY <1>3 DEF Travelling
    <3>2. PICK set \in BOOLEAN : set = (s.verdict = "ran")
      OBVIOUS
    <3>3. w = Signed(s.b, s.verdict, set, target, FALSE)
      BY <2>1, <3>2 DEF Stamp
    <3>4. w \in Wire /\ w.by = s.b /\ w.verdict = s.verdict /\ w.set = set /\ w.context = TRUE
      BY <3>1, <3>3 DEF Signed, Wire
    <3> QED
      BY <3>2, <3>4
  <2>3. PICK u : u = [s EXCEPT !.wire = w, !.verdict = "error", !.retried = FALSE]
    OBVIOUS
  <2>4. u \in Travelling /\ u.b = s.b /\ u.seen = s.seen /\ u.runs = s.runs /\ u.wire = w
        /\ u.body = s.body /\ u.fwd = s.fwd /\ u.out = s.out /\ u.degraded = s.degraded
    BY <1>3, <2>2, <2>3 DEF Travelling, Verdicts
  <2>5. Go(r, u, "queue") /\ "queue" \in Places
    BY <1>8, <2>1, <2>3 DEF Places
  <2>6. ASSUME NEW t \in Travelling, t = [u EXCEPT !.at = "queue"] PROVE RequestOK(t, r)
    <3>1. t.at = "queue" /\ t.b = u.b /\ t.wire = u.wire /\ t.body = u.body
          /\ t.seen = u.seen /\ t.runs = u.runs /\ t.degraded = u.degraded
          /\ t.fwd = u.fwd /\ t.out = u.out
      BY <2>4, <2>6 DEF Travelling
    <3>2. /\ t.at = "queue" /\ t.b = s.b /\ t.wire = w /\ t.body /\ t.seen = s.seen
          /\ t.runs = s.runs /\ t.degraded = s.degraded /\ t.fwd = 0 /\ t.out.what = "none"
      BY <1>3, <2>4, <3>1
    <3>3. SeenOK(t, r) /\ EdgeOK(t, r) /\ ForwardOK(t, r) /\ OutOK(t, r)
      BY <1>3, <1>4, <3>2 DEF SeenOK, EdgeOK, ForwardOK, OutOK, Late, Content
    <3>4. WireOK(t, r)
      BY <1>3, <2>2, <3>2 DEF WireOK, AfterMiddleware, MW_EVALUATED_TRUSTED
    <3>5. PassOK(t)
      BY <1>3, <1>4, <2>2, <3>2 DEF PassOK, AfterMiddleware
    <3> QED
      BY <3>3, <3>4, <3>5 DEF RequestOK
  <2> QED
    BY <2>4, <2>5, <2>6, GoKeeps
<1>9. ASSUME NEW p \in Plans, NEW ran PROVE EdgeTarget(p, ran) \in Routes
  BY <1>9 DEF Plans, EdgeTarget, OutputOf, Routes
<1>10. PICK p \in Plans :
         LET ran == EdgeRuns(s0, r)
             away == ran /\ p.mw \in {"rewrite", "external"} IN
         CASE ran /\ p.mw = "throw" -> Answer(r, s, "error", s.b, {"private"})
           [] ran /\ p.mw \in {"redirect", "respond"} ->
                Answer(r, s, "answer", s.b, EdgeCacheControls)
           [] ~away /\ normalizeResolvedRedirect(p, s) -> Go(r, [s EXCEPT !.retried = TRUE], "route")
           [] ~away /\ p.route = "redirect" -> Answer(r, s, "answer", s.b, EdgeCacheControls)
           [] ~fitsPoolHeaderBudget(r) -> ClearVerdict(r, [s EXCEPT !.degraded = TRUE])
           [] OTHER -> Go(r, [s EXCEPT !.wire = Stamp(s, EdgeTarget(p, ran)),
                                       !.verdict = "error", !.retried = FALSE], "queue")
  BY <1>1, <1>2 DEF EdgeRoute
<1>11. \/ Answer(r, s, "error", s.b, {"private"})
       \/ Answer(r, s, "answer", s.b, EdgeCacheControls)
       \/ Go(r, [s EXCEPT !.retried = TRUE], "route")
       \/ ClearVerdict(r, [s EXCEPT !.degraded = TRUE])
       \/ Go(r, [s EXCEPT !.wire = Stamp(s, EdgeTarget(p, EdgeRuns(s0, r))),
                          !.verdict = "error", !.retried = FALSE], "queue")
  BY <1>10
<1> QED
  BY <1>5, <1>6, <1>7, <1>8, <1>9, <1>11

(* EdgeShed: no verdict is left.                                           *)
LEMMA EdgeShedKeeps == ASSUME PathInv, NEW r \in DOMAIN fact, EdgeShed(r) PROVE PathInv'
<1>1. PICK s \in Travelling : s = st[r] /\ RequestOK(s, r) /\ s.at \in {"edge", "route"}
  BY Here DEF EdgeShed
<1>2. PICK ran \in {0, 1} :
         LET t == [s EXCEPT !.runs[s.b] = @ + ran, !.degraded = TRUE] IN
         IF app[s.b].failOpen THEN ClearVerdict(r, t) ELSE Answer(r, t, "error", s.b, {"private"})
  BY <1>1 DEF EdgeShed
<1>3. SeenOK(s, r) /\ s.wire = NoVerdict /\ s.body /\ s.fwd = 0 /\ s.b \in Builds
      /\ s.out.what = "none"
  BY <1>1 DEF RequestOK, EdgeOK, OutOK
<1>4. PICK f \in [Builds -> Nat] : f = [s.runs EXCEPT ![s.b] = @ + ran]
  <2>1. ran \in Nat
    OBVIOUS
  <2> QED
    BY <1>3, <2>1, RunsIs
<1>5. PICK u : u = [s EXCEPT !.runs = f, !.degraded = TRUE]
  OBVIOUS
<1>6. u = [s EXCEPT !.runs[s.b] = @ + ran, !.degraded = TRUE]
  BY <1>4, <1>5 DEF Travelling
<1>7. u \in Travelling /\ u.b = s.b /\ u.seen = s.seen /\ u.wire = s.wire
      /\ u.body = s.body /\ u.fwd = s.fwd /\ u.out = s.out /\ u.degraded = TRUE
  BY <1>5 DEF Travelling
<1>8. SeenOK(u, r)
  BY <1>3, <1>7 DEF SeenOK
<1>9. CASE ClearVerdict(r, u)
  BY <1>3, <1>7, <1>8, <1>9, ClearKeeps
<1>10. CASE Answer(r, u, "error", s.b, {"private"})
  <2>1. "shared" \notin {"private"} /\ "error" \notin Content /\ "error" # "hit"
        /\ "error" \notin {"content", "image"}
    BY DEF Content
  <2> QED
    BY <1>3, <1>7, <1>8, <1>10, <2>1, AnswerKeeps
<1> QED
  BY <1>2, <1>6, <1>9, <1>10

-------------------------------------------------------------------------------
(* On the way.                                                             *)

(* ProofAges: a proof that no longer holds.                                *)
LEMMA ProofAgesKeeps == ASSUME PathInv, NEW r \in DOMAIN fact, ProofAges(r) PROVE PathInv'
<1>1. PICK s \in Travelling : s = st[r] /\ RequestOK(s, r) /\ s.at \in {"queue", "hop"}
  BY Here DEF ProofAges
<1>2. PICK w : w = [s.wire EXCEPT !.fresh = FALSE]
  OBVIOUS
<1>3. /\ w \in Wire /\ w.by = s.wire.by /\ w.verdict = s.wire.verdict /\ w.set = s.wire.set
      /\ w.digest = s.wire.digest /\ w.context = s.wire.context
  <2>1. PICK v \in Wire : v = s.wire
    BY DEF Travelling
  <2> QED
    BY <1>2, <2>1 DEF Wire
<1>4. PICK u : u = [s EXCEPT !.wire = w, !.degraded = TRUE]
  OBVIOUS
<1>5. u = [s EXCEPT !.wire.fresh = FALSE, !.degraded = TRUE]
  BY <1>2, <1>4 DEF Travelling
<1>6. u \in Travelling /\ u.b = s.b /\ u.seen = s.seen /\ u.runs = s.runs /\ u.wire = w
      /\ u.hdrs = s.hdrs /\ u.body = s.body /\ u.fwd = s.fwd /\ u.out = s.out /\ u.degraded = TRUE
  BY <1>3, <1>4 DEF Travelling
<1>7. Go(r, u, s.at) /\ s.at \in Places
  BY <1>1, <1>5 DEF ProofAges, Places
<1>8. ASSUME NEW t \in Travelling, t = [u EXCEPT !.at = s.at] PROVE RequestOK(t, r)
  <2>1. t.at = s.at /\ t.b = u.b /\ t.wire = u.wire /\ t.body = u.body /\ t.hdrs = u.hdrs
        /\ t.seen = u.seen /\ t.runs = u.runs /\ t.degraded = u.degraded
        /\ t.fwd = u.fwd /\ t.out = u.out
    BY <1>6, <1>8 DEF Travelling
  <2> QED
    BY <1>1, <1>3, <1>6, <2>1 DEF RequestOK, SeenOK, EdgeOK, WireOK, ForwardOK, PassOK, OutOK, Late
<1> QED
  BY <1>6, <1>7, <1>8, GoKeeps

(* ContextChanges: whether the conditions hold for this request changes,   *)
(* and the proof no longer covers it.                                      *)
LEMMA ContextChangesKeeps ==
    ASSUME PathInv, NEW r \in DOMAIN fact, ContextChanges(r) PROVE PathInv'
<1>1. PICK s \in Travelling : s = st[r] /\ RequestOK(s, r) /\ s.at \in {"queue", "hop"}
  BY Here DEF ContextChanges
<1>2. PICK w : w = [s.wire EXCEPT !.context = FALSE]
  OBVIOUS
<1>3. /\ w \in Wire /\ w.by = s.wire.by /\ w.digest = s.wire.digest /\ w.context = FALSE
  <2>1. PICK v \in Wire : v = s.wire
    BY DEF Travelling
  <2> QED
    BY <1>2, <2>1 DEF Wire
<1>4. PICK t : t = [s EXCEPT !.wire = w, !.seen = {}, !.degraded = TRUE]
  OBVIOUS
<1>5. /\ t \in Travelling /\ t.at = s.at /\ t.b = s.b /\ t.seen = {} /\ t.runs = s.runs
      /\ t.wire = w /\ t.body = s.body /\ t.fwd = s.fwd /\ t.out = s.out /\ t.degraded = TRUE
  BY <1>3, <1>4 DEF Travelling
<1>6. PICK f \in FactType : f = [fact[r] EXCEPT !.cond = ~@] /\ f.get = fact[r].get
                            /\ f.owners = fact[r].owners /\ f.hint = fact[r].hint
                            /\ f.kind = fact[r].kind
  <2>1. PICK g \in FactType : g = fact[r]
    BY Here
  <2>2. PICK d \in BOOLEAN : d = ~g.cond
    BY DEF FactType
  <2>3. PICK h : h = [g EXCEPT !.cond = d]
    OBVIOUS
  <2>4. /\ h \in FactType /\ h.get = g.get /\ h.owners = g.owners /\ h.hint = g.hint
        /\ h.kind = g.kind
    BY <2>3 DEF FactType
  <2>5. h = [fact[r] EXCEPT !.cond = ~@]
    BY <2>1, <2>2, <2>3 DEF FactType
  <2> QED
    BY <2>1, <2>4, <2>5
<1>7. st \in [DOMAIN fact -> Travelling] /\ fact \in [DOMAIN fact -> FactType]
  BY DEF PathInv, Typed
<1>8. st' = [st EXCEPT ![r] = t]
  <2>1. st' = [st EXCEPT ![r].wire.context = FALSE, ![r].seen = {}, ![r].degraded = TRUE]
    BY DEF ContextChanges
  <2>2. t = [st[r] EXCEPT !.wire.context = FALSE, !.seen = {}, !.degraded = TRUE]
    BY <1>1, <1>2, <1>4 DEF Travelling
  <2> QED
    BY <1>7, <2>1, <2>2
<1>9. fact' = [fact EXCEPT ![r] = f] /\ UNCHANGED <<app, edgeBuild, poolBuild, cdn>>
  BY <1>6, <1>7 DEF ContextChanges
<1>10. Typed'
  BY <1>5, <1>7, <1>8, <1>9 DEF PathInv, Typed
<1>11. CdnOK'
  BY <1>9 DEF PathInv, CdnOK, HasMiddleware, SourceCovered
<1>12. ASSUME NEW q \in DOMAIN fact, NEW x, x = st'[q] PROVE RequestOK(x, q)'
  <2>1. CASE q # r
    <3>1. fact'[q] = fact[q] /\ st'[q] = st[q] /\ app' = app
      BY <1>7, <1>8, <1>9, <2>1
    <3>2. RequestOK(x, q)
      BY <1>12, <3>1, Here
    <3> QED
      BY <3>1, <3>2, SameFacts
  <2>2. CASE q = r
    <3>1. x = t /\ fact'[q] = f /\ app' = app
      BY <1>7, <1>8, <1>9, <1>12, <2>2
    <3>2. SeenOK(x, q)' /\ PassOK(x)' /\ OutOK(x, q)'
      BY <1>1, <1>5, <3>1 DEF SeenOK, PassOK, OutOK, RequestOK, Content
    <3>3. EdgeOK(x, q)' /\ WireOK(x, q)'
      BY <1>1, <1>3, <1>5, <1>6, <2>2, <3>1 DEF RequestOK, EdgeOK, WireOK, Late
    <3>4. ForwardOK(x, q)'
      BY <1>1, <1>5, <1>6, <2>2, <3>1 DEF RequestOK, ForwardOK, Late, Retained
    <3> QED
      BY <3>2, <3>3, <3>4 DEF RequestOK
  <2> QED
    BY <2>1, <2>2
<1>13. DOMAIN fact' = DOMAIN fact
  BY <1>7, <1>9
<1> QED
  BY <1>10, <1>11, <1>12, <1>13 DEF PathInv

(* BodyChanges: the proof covers a digest of another body.                 *)
LEMMA BodyChangesKeeps == ASSUME PathInv, NEW r \in DOMAIN fact, BodyChanges(r) PROVE PathInv'
<1>1. PICK s \in Travelling : s = st[r] /\ RequestOK(s, r) /\ s.at = "hop" /\ ~fact[r].get
  BY Here DEF BodyChanges
<1>2. PICK u : u = [s EXCEPT !.body = FALSE, !.seen = {}, !.degraded = TRUE]
  OBVIOUS
<1>3. u \in Travelling /\ u.b = s.b /\ u.seen = {} /\ u.runs = s.runs /\ u.wire = s.wire
      /\ u.body = FALSE /\ u.fwd = s.fwd /\ u.out = s.out /\ u.degraded = TRUE
  BY <1>2 DEF Travelling
<1>4. Go(r, u, "hop") /\ "hop" \in Places
  BY <1>1, <1>2 DEF BodyChanges, Places
<1>5. ASSUME NEW t \in Travelling, t = [u EXCEPT !.at = "hop"] PROVE RequestOK(t, r)
  <2>1. t.at = "hop" /\ t.b = u.b /\ t.wire = u.wire /\ t.body = u.body
        /\ t.seen = u.seen /\ t.runs = u.runs /\ t.degraded = u.degraded
        /\ t.fwd = u.fwd /\ t.out = u.out
    BY <1>3, <1>5 DEF Travelling
  <2>2. SeenOK(t, r) /\ PassOK(t) /\ OutOK(t, r) /\ ForwardOK(t, r)
    BY <1>1, <1>3, <2>1 DEF RequestOK, SeenOK, PassOK, OutOK, ForwardOK, Content, Late
  <2>3. EdgeOK(t, r)
    BY <1>1, <1>3, <2>1 DEF RequestOK, EdgeOK
  <2>4. WireOK(t, r)
    BY <1>1, <1>3, <2>1 DEF RequestOK, WireOK, Late
  <2> QED
    BY <2>2, <2>3, <2>4 DEF RequestOK
<1> QED
  BY <1>3, <1>4, <1>5, GoKeeps

-------------------------------------------------------------------------------
(* The pool.                                                               *)

(* The trust boundary keeps a verdict only of the build that receives it.  *)
LEMMA ReceiveKeeps ==
    ASSUME PathInv, NEW r \in DOMAIN fact, NEW s \in Travelling, RequestOK(s, r), NEW b \in Builds,
           s.at \in {"queue", "hop", "forward"}, s.at # "queue" => b = s.b,
           Go(r, applyRequestTrustBoundary(s, b), "pool")
    PROVE  PathInv'
<1>1. PICK kept \in BOOLEAN : kept = verifyDispatchProof(s.wire, b)
  BY DEF verifyDispatchProof, proofCoveredHeaderNames, Travelling, Wire
<1>2. PICK w \in Wire : w = IF kept THEN s.wire ELSE NoVerdict
  BY NoVerdictIs DEF Travelling
<1>3. PICK d \in BOOLEAN : d = (s.degraded \/ (~kept /\ s.wire.by # NoBuild))
  OBVIOUS
<1>4. PICK u : u = [s EXCEPT !.b = b, !.wire = w, !.degraded = d]
  OBVIOUS
<1>5. u = applyRequestTrustBoundary(s, b)
  BY <1>1, <1>2, <1>3, <1>4 DEF applyRequestTrustBoundary, Travelling
<1>6. u \in Travelling /\ u.b = b /\ u.seen = s.seen /\ u.runs = s.runs /\ u.wire = w
      /\ u.hdrs = s.hdrs /\ u.body = s.body /\ u.fwd = s.fwd /\ u.out = s.out /\ u.degraded = d
  BY <1>4 DEF Travelling
<1>7. Go(r, u, "pool") /\ "pool" \in Places
  BY <1>5 DEF Places
<1>8. ASSUME NEW t \in Travelling, t = [u EXCEPT !.at = "pool"] PROVE RequestOK(t, r)
  <2>1. t.at = "pool" /\ t.b = u.b /\ t.wire = u.wire /\ t.body = u.body /\ t.hdrs = u.hdrs
        /\ t.seen = u.seen /\ t.runs = u.runs /\ t.degraded = u.degraded
        /\ t.fwd = u.fwd /\ t.out = u.out
    BY <1>6, <1>8 DEF Travelling
  <2>2. /\ t.at = "pool" /\ t.b = b /\ t.wire = w /\ t.body = s.body /\ t.hdrs = s.hdrs
        /\ t.seen = s.seen /\ t.runs = s.runs /\ t.degraded = d
        /\ t.fwd = s.fwd /\ t.out = s.out
    BY <1>6, <2>1
  <2>3. SeenOK(t, r) /\ EdgeOK(t, r) /\ OutOK(t, r)
    BY <2>2 DEF RequestOK, SeenOK, EdgeOK, OutOK, Content
  <2>4. s.b \in Builds /\ b # NoBuild /\ (s.at = "queue" => s.fwd = 0)
    BY BuildAssumption DEF RequestOK, EdgeOK
  <2>5. kept => s.b = b /\ w = s.wire /\ s.wire.by = b /\ s.wire.context
    BY <1>1, <1>2, <2>4 DEF RequestOK, WireOK, Late, verifyDispatchProof, proofCoveredHeaderNames
  <2>6. ~kept => w.by = NoBuild
    BY <1>2, NoVerdictIs
  <2>7. ForwardOK(t, r)
    BY <2>2, <2>4 DEF RequestOK, ForwardOK, Late, Travelling
  <2>8. WireOK(t, r)
    <3>1. CASE kept
      BY <1>3, <2>2, <2>4, <2>5, <3>1 DEF RequestOK, WireOK, Late
    <3>2. CASE ~kept
      BY <1>3, <2>2, <2>6, <3>2 DEF RequestOK, WireOK, Late
    <3> QED
      BY <3>1, <3>2
  <2>9. PassOK(t)
    <3> SUFFICES ASSUME ~d PROVE PassOK(t)
      BY <2>2 DEF PassOK
    <3>1. /\ \A c \in Builds : s.runs[c] <= 1 /\ s.runs[c] \in Nat
          /\ s.runs[s.b] = 1 => s.wire.by = s.b /\ s.wire.verdict = "ran"
          /\ s.fwd = 0 => \A c \in Builds : c # s.b => s.runs[c] = 0
      BY <1>3 DEF RequestOK, PassOK, Late, Travelling
    <3>2. CASE kept
      BY <2>2, <2>5, <3>1, <3>2 DEF PassOK
    <3>3. CASE ~kept
      <4>1. s.wire.by = NoBuild /\ s.wire.by # s.b
        BY <1>3, <2>4, <3>3, BuildAssumption
      <4>2. s.runs[s.b] = 0
        BY <2>4, <3>1, <4>1
      <4>3. s.runs[b] = 0
        BY <2>4, <3>1, <4>2
      <4>4. s.fwd = 0 => \A c \in Builds : s.runs[c] = 0
        BY <3>1, <4>2
      <4> QED
        BY <2>2, <3>1, <4>3, <4>4 DEF PassOK
    <3> QED
      BY <3>2, <3>3
  <2> QED
    BY <2>3, <2>7, <2>8, <2>9 DEF RequestOK
<1> QED
  BY <1>6, <1>7, <1>8, GoKeeps

(* PoolReceive: a pool of the selected build, or of the build it is for.   *)
LEMMA PoolReceiveKeeps == ASSUME PathInv, NEW r \in DOMAIN fact, PoolReceive(r) PROVE PathInv'
<1>1. PICK s \in Travelling : s = st[r] /\ RequestOK(s, r)
  BY Here
<1>2. CASE s.at = "queue" /\ Go(r, applyRequestTrustBoundary(s, poolBuild), "pool")
  BY <1>1, <1>2, Here, ReceiveKeeps
<1>3. CASE s.at \in {"hop", "forward"} /\ Go(r, applyRequestTrustBoundary(s, s.b), "pool")
  <2>1. s.b \in Builds
    BY <1>1, <1>3 DEF RequestOK, EdgeOK
  <2> QED
    BY <1>1, <1>3, <2>1, ReceiveKeeps
<1> QED
  BY <1>1, <1>2, <1>3 DEF PoolReceive

(* PoolForward: to the build that owns it, which will not send it back.    *)
LEMMA PoolForwardKeeps == ASSUME PathInv, NEW r \in DOMAIN fact, PoolForward(r) PROVE PathInv'
<1>1. PICK s \in Travelling : s = st[r] /\ RequestOK(s, r) /\ s.at = "pool" /\ Retained(s.b, r)
  BY Here DEF PoolForward
<1>2. s.b \in Builds
  BY <1>1 DEF RequestOK, EdgeOK
<1>3. PICK c \in Builds : c = Other(s.b) /\ Other(c) = s.b /\ c # s.b
  BY <1>2, OtherBuild
<1>4. s.fwd = 0
  BY <1>1, <1>2, RetainedOnce DEF RequestOK, ForwardOK, Late, Travelling
<1>5. PICK u : u = [s EXCEPT !.wire = NoVerdict, !.fwd = 1, !.b = c, !.hopped = FALSE]
  OBVIOUS
<1>6. u \in Travelling /\ u.b = c /\ u.seen = s.seen /\ u.runs = s.runs /\ u.wire = NoVerdict
      /\ u.body = s.body /\ u.fwd = 1 /\ u.out = s.out /\ u.degraded = s.degraded
  <2>1. PICK w \in Wire : w = NoVerdict
    BY NoVerdictIs
  <2>2. 1 \in Nat /\ FALSE \in BOOLEAN
    OBVIOUS
  <2> QED
    BY <1>5, <2>1, <2>2 DEF Travelling
<1>7. Go(r, u, "forward") /\ "forward" \in Places
  BY <1>1, <1>3, <1>4, <1>5 DEF PoolForward, Places
<1>8. ASSUME NEW t \in Travelling, t = [u EXCEPT !.at = "forward"] PROVE RequestOK(t, r)
  <2>1. t.at = "forward" /\ t.b = u.b /\ t.wire = u.wire /\ t.body = u.body
        /\ t.seen = u.seen /\ t.runs = u.runs /\ t.degraded = u.degraded
        /\ t.fwd = u.fwd /\ t.out = u.out
    BY <1>6, <1>8 DEF Travelling
  <2>2. t.at = "forward" /\ t.b = c /\ t.wire = NoVerdict /\ t.body = s.body
        /\ t.seen = s.seen /\ t.runs = s.runs /\ t.degraded = s.degraded
        /\ t.fwd = 1 /\ t.out = s.out
    BY <1>6, <2>1
  <2>3. SeenOK(t, r) /\ EdgeOK(t, r) /\ OutOK(t, r)
    BY <1>1, <2>2 DEF RequestOK, SeenOK, EdgeOK, OutOK, Content
  <2>4. WireOK(t, r) /\ ForwardOK(t, r)
    BY <1>1, <1>3, <2>2, NoVerdictIs DEF RequestOK, WireOK, ForwardOK
  <2>5. PassOK(t)
    BY <1>1, <1>3, <1>4, <2>2 DEF RequestOK, PassOK, Late
  <2> QED
    BY <2>3, <2>4, <2>5 DEF RequestOK
<1> QED
  BY <1>6, <1>7, <1>8, GoKeeps

(* PoolServe: from disk what no middleware may cover; a verdict over       *)
(* another body goes no further.                                           *)
LEMMA PoolServeKeeps == ASSUME PathInv, NEW r \in DOMAIN fact, PoolServe(r) PROVE PathInv'
<1>1. PICK s \in Travelling : s = st[r] /\ RequestOK(s, r) /\ s.at = "pool"
  BY Here DEF PoolServe
<1>2. s.b \in Builds
  BY <1>1 DEF RequestOK, EdgeOK
<1>3. ASSUME NEW cc, ServedFromDisk(s, r), Answer(r, s, "static", s.b, {cc}) PROVE PathInv'
  <2>1. ~(HasMiddleware(s.b) /\ fact[r].kind \in app[s.b].covers) /\ fact[r].kind # "image"
    BY <1>3 DEF ServedFromDisk, MayCover
  <2>2. ~Matches(s.b, r)
    BY <2>1 DEF Matches
  <2>3. SeenOK(s, r) /\ (~s.degraded => \A c \in Builds : s.runs[c] <= 1)
    BY <1>1 DEF RequestOK, PassOK
  <2>4. "static" \in {"answer", "error"} \cup Content /\ "static" # "hit"
        /\ "static" \notin {"content", "image"}
    BY DEF Content
  <2> QED
    BY <1>2, <1>3, <2>1, <2>2, <2>3, <2>4, AnswerKeeps
<1>4. ASSUME Go(r, enforceDispatchBodyBinding(s), "resolve") PROVE PathInv'
  <2>1. PICK w \in Wire : w = IF s.wire.digest => s.body THEN s.wire ELSE NoVerdict
    BY NoVerdictIs DEF Travelling
  <2>2. PICK u : u = [s EXCEPT !.wire = w]
    OBVIOUS
  <2>3. u = enforceDispatchBodyBinding(s)
    BY <2>1, <2>2 DEF enforceDispatchBodyBinding, dispatchProofBodyMatches, Travelling
  <2>4. u \in Travelling /\ u.b = s.b /\ u.seen = s.seen /\ u.runs = s.runs /\ u.wire = w
        /\ u.body = s.body /\ u.fwd = s.fwd /\ u.out = s.out /\ u.degraded = s.degraded
        /\ u.hdrs = s.hdrs
    BY <2>2 DEF Travelling
  <2>5. Go(r, u, "resolve") /\ "resolve" \in Places
    BY <1>4, <2>3 DEF Places
  <2>6. ASSUME NEW t \in Travelling, t = [u EXCEPT !.at = "resolve"] PROVE RequestOK(t, r)
    <3>1. t.at = "resolve" /\ t.b = u.b /\ t.wire = u.wire /\ t.body = u.body
          /\ t.seen = u.seen /\ t.runs = u.runs /\ t.degraded = u.degraded
          /\ t.fwd = u.fwd /\ t.out = u.out /\ t.hdrs = u.hdrs
      BY <2>4, <2>6 DEF Travelling
    <3>2. t.at = "resolve" /\ t.b = s.b /\ t.wire = w /\ t.body = s.body
          /\ t.seen = s.seen /\ t.runs = s.runs /\ t.degraded = s.degraded
          /\ t.fwd = s.fwd /\ t.out = s.out /\ t.hdrs = s.hdrs
      BY <2>4, <3>1
    <3>3. SeenOK(t, r) /\ EdgeOK(t, r) /\ OutOK(t, r) /\ ForwardOK(t, r)
      BY <1>1, <3>2 DEF RequestOK, SeenOK, EdgeOK, OutOK, Content, ForwardOK, Late
    <3>4. CASE w = s.wire /\ (s.wire.digest => s.body)
      <4>1. WireOK(t, r)
        BY <1>1, <3>2, <3>4 DEF RequestOK, WireOK, Late
      <4>2. PassOK(t)
        BY <1>1, <3>2, <3>4 DEF RequestOK, PassOK, Late
      <4> QED
        BY <3>3, <4>1, <4>2 DEF RequestOK
    <3>5. CASE w = NoVerdict /\ ~s.body
      <4>1. WireOK(t, r)
        BY <1>1, <3>2, <3>5, NoVerdictIs DEF RequestOK, WireOK
      <4>2. PassOK(t)
        BY <1>1, <3>2, <3>5 DEF RequestOK, PassOK, WireOK
      <4> QED
        BY <3>3, <4>1, <4>2 DEF RequestOK
    <3> QED
      BY <2>1, <3>4, <3>5
  <2> QED
    BY <2>4, <2>5, <2>6, GoKeeps
<1> QED
  BY <1>1, <1>3, <1>4 DEF PoolServe

(* What is dispatched was let through, and middleware's header set comes   *)
(* with a target that is a route.                                          *)
Resolved(r, s, target, set) ==
    /\ SeenOK(s, r) /\ ForwardOK(s, r)
    /\ s.b \in Builds /\ s.at = "resolve" /\ s.out.what = "none"
    /\ Matches(s.b, r) => s.b \in s.seen
    /\ target \in {"own", "other"} /\ s.b \in s.seen => set \/ s.hdrs = s.b
    /\ ~s.body => ~fact[r].get /\ s.degraded
    /\ ~s.degraded => /\ \A c \in Builds : s.runs[c] <= 1
                      /\ s.fwd = 0 => \A c \in Builds : c # s.b => s.runs[c] = 0

(* Dispatch: an answer, or a hop whose proof says that middleware ran.     *)
LEMMA DispatchKeeps ==
    ASSUME PathInv, NEW r \in DOMAIN fact, NEW s \in Travelling, NEW target, NEW set \in BOOLEAN,
           Resolved(r, s, target, set), Dispatch(r, s, target, set)
    PROVE  PathInv'
<1>1. PICK ccs : ccs = PoolCacheControls(s.b, r)
  OBVIOUS
<1>2. "shared" \in ccs => /\ ~(HasMiddleware(s.b) /\ fact[r].kind \in app[s.b].covers)
                          /\ fact[r].kind = "image" => ~SourceCovered(s.b)
  BY <1>1, SharedUncovered
<1>3. s.b \in Builds /\ SeenOK(s, r) /\ (~s.degraded => \A c \in Builds : s.runs[c] <= 1)
      /\ (Matches(s.b, r) => s.b \in s.seen)
  BY DEF Resolved
<1>4. PICK t : t = applyMiddlewareRequestHeaders(s, set)
  OBVIOUS
<1>5. /\ t \in Travelling /\ t.seen = s.seen /\ t.runs = s.runs /\ t.degraded = s.degraded
      /\ t.b = s.b /\ t.body = s.body /\ t.fwd = s.fwd /\ t.out = s.out
      /\ (set => t.hdrs = s.b) /\ (~set => t.hdrs = s.hdrs)
  <2>1. CASE set
    BY <1>3, <1>4, <2>1 DEF applyMiddlewareRequestHeaders, Travelling
  <2>2. CASE ~set
    BY <1>4, <2>2 DEF applyMiddlewareRequestHeaders
  <2> QED
    BY <2>1, <2>2
<1>6. SeenOK(t, r) /\ (~t.degraded => \A c \in Builds : t.runs[c] <= 1)
      /\ (Matches(s.b, r) => s.b \in t.seen)
  BY <1>3, <1>5 DEF SeenOK
<1>7. ASSUME NEW what \in {"content", "image"}, target \in {"own", "other"},
             Answer(r, t, what, s.b, ccs)
      PROVE  PathInv'
  <2>1. s.b \in t.seen => t.hdrs = s.b
    BY <1>5, <1>7 DEF Resolved
  <2>2. what \in {"answer", "error"} \cup Content /\ what # "hit"
    BY DEF Content
  <2> QED
    BY <1>2, <1>3, <1>5, <1>6, <1>7, <2>1, <2>2, AnswerKeeps
<1>8. ASSUME Answer(r, t, "external", s.b, ccs) PROVE PathInv'
  <2>1. "external" \in {"answer", "error"} \cup Content /\ "external" # "hit"
        /\ "external" \notin {"content", "image"}
    BY DEF Content
  <2> QED
    BY <1>2, <1>3, <1>5, <1>6, <1>8, <2>1, AnswerKeeps
<1>9. ASSUME Answer(r, s, "answer", s.b, ccs) PROVE PathInv'
  <2>1. "answer" \notin Content /\ "answer" # "hit" /\ "answer" \notin {"content", "image"}
    BY DEF Content
  <2> QED
    BY <1>2, <1>3, <1>9, <2>1, AnswerKeeps
<1>10. ASSUME target = "other", proxyToPool(r, s, set) PROVE PathInv'
  <2>1. PICK digest \in BOOLEAN : digest = ~fact[r].get
    OBVIOUS
  <2>2. PICK ws \in BOOLEAN : ws = (fact[r].kind = "ws")
    OBVIOUS
  <2>3. PICK e \in BOOLEAN : e = (ws /\ set)
    OBVIOUS
  <2>4. PICK w : w = Signed(s.b, "ran", e, "own", digest)
    OBVIOUS
  <2>5. w \in Wire /\ w.by = s.b /\ w.verdict = "ran" /\ w.set = e /\ w.digest = digest
        /\ w.context = TRUE
    BY <1>3, <2>4 DEF Signed, Wire, Verdicts, Routes
  <2>6. PICK v \in Travelling : v = IF ws THEN s ELSE t
    BY <1>5
  <2>7. /\ v.seen = s.seen /\ v.runs = s.runs /\ v.degraded = s.degraded
        /\ v.b = s.b /\ v.body = s.body /\ v.fwd = s.fwd /\ v.out = s.out
        /\ (set /\ ~ws => v.hdrs = s.b) /\ (~set => v.hdrs = s.hdrs)
    BY <1>5, <2>6
  <2>8. PICK u : u = [v EXCEPT !.wire = w, !.hopped = TRUE]
    OBVIOUS
  <2>9. u \in Travelling /\ u.b = v.b /\ u.seen = v.seen /\ u.runs = v.runs /\ u.wire = w
        /\ u.body = v.body /\ u.fwd = v.fwd /\ u.out = v.out /\ u.degraded = v.degraded
        /\ u.hdrs = v.hdrs
    BY <2>5, <2>8 DEF Travelling
  <2>10. Go(r, u, "hop") /\ "hop" \in Places
    BY <1>4, <1>10, <2>1, <2>2, <2>3, <2>4, <2>6, <2>8 DEF proxyToPool, Places
  <2>11. ASSUME NEW x \in Travelling, x = [u EXCEPT !.at = "hop"] PROVE RequestOK(x, r)
    <3>1. x.at = "hop" /\ x.b = u.b /\ x.wire = u.wire /\ x.body = u.body
          /\ x.seen = u.seen /\ x.runs = u.runs /\ x.degraded = u.degraded
          /\ x.fwd = u.fwd /\ x.out = u.out /\ x.hdrs = u.hdrs
      BY <2>9, <2>11 DEF Travelling
    <3>2. x.at = "hop" /\ x.b = s.b /\ x.wire = w /\ x.body = s.body
          /\ x.seen = s.seen /\ x.runs = s.runs /\ x.degraded = s.degraded
          /\ x.fwd = s.fwd /\ x.out = s.out
          /\ (set /\ ~ws => x.hdrs = s.b) /\ (~set => x.hdrs = s.hdrs)
      BY <2>7, <2>9, <3>1
    <3>3. SeenOK(x, r) /\ EdgeOK(x, r) /\ OutOK(x, r) /\ ForwardOK(x, r)
      BY <3>2 DEF Resolved, SeenOK, EdgeOK, OutOK, Content, ForwardOK, Late
    <3>4. s.b \in s.seen => e \/ x.hdrs = s.b
      BY <1>10, <2>3, <3>2 DEF Resolved
    <3>5. WireOK(x, r)
      BY <2>1, <2>5, <3>2, <3>4 DEF Resolved, WireOK
    <3>6. PassOK(x)
      BY <2>5, <3>2 DEF Resolved, PassOK
    <3> QED
      BY <3>3, <3>5, <3>6 DEF RequestOK
  <2> QED
    BY <2>9, <2>10, <2>11, GoKeeps
<1>11. \/ target \in {"own", "other"}
            /\ Answer(r, t, IF fact[r].kind = "image" THEN "image" ELSE "content", s.b, ccs)
       \/ target = "other" /\ proxyToPool(r, s, set)
       \/ Answer(r, t, "external", s.b, ccs)
       \/ Answer(r, s, "answer", s.b, ccs)
  BY <1>1, <1>4 DEF Dispatch, OwnsTarget
<1> QED
  BY <1>7, <1>8, <1>9, <1>10, <1>11

(* PoolTrusted: a verdict that got this far is this build's, for this      *)
(* context and this body.                                                  *)
LEMMA PoolTrustedKeeps == ASSUME PathInv, NEW r \in DOMAIN fact, PoolTrusted(r) PROVE PathInv'
<1>1. PICK s \in Travelling : s = st[r] /\ RequestOK(s, r) /\ s.at = "resolve" /\ UsesVerdict(s, r)
  BY Here DEF PoolTrusted
<1>2. PICK set \in BOOLEAN : set = s.wire.set
  BY DEF Travelling, Wire
<1>3. PICK target : target = IF s.wire.target = "ext" THEN "ext" ELSE ImageTarget(r, s.wire.target)
  OBVIOUS
<1>4. Dispatch(r, s, target, set)
  BY <1>1, <1>2, <1>3 DEF PoolTrusted
<1>5. Resolved(r, s, target, set)
  BY <1>1, <1>2 DEF Resolved, RequestOK, WireOK, EdgeOK, PassOK, OutOK, UsesVerdict, Late
<1> QED
  BY <1>4, <1>5, DispatchKeeps

(* The request as the local pass gets it: without a verdict.               *)
Unverified(z, s0, d) ==
    /\ z.b = s0.b /\ z.at = s0.at /\ z.seen = s0.seen /\ z.runs = s0.runs
    /\ z.degraded = d /\ z.body = s0.body /\ z.fwd = s0.fwd /\ z.out = s0.out

(* The local pass: middleware runs where it matches, and has not run       *)
(* before.                                                                 *)
LEMMA LocalMiddlewareIs ==
    ASSUME NEW r, NEW s0 \in Travelling, RequestOK(s0, r), s0.at = "resolve",
           fact[r] \in FactType, NEW d \in BOOLEAN,
           s0.degraded => d, UsesVerdict(s0, r) => d, fact[r].kind = "ws" /\ s0.wire.target = "ext" => d,
           NEW z \in Travelling, Unverified(z, s0, d),
           NEW s, s = LocalMiddleware(z, r)
    PROVE  /\ s \in Travelling /\ s.b = s0.b
           /\ \A target : \A set \in BOOLEAN :
                (target \in {"own", "other"} /\ s.verdict = "ran" => set)
                => Resolved(r, s, target, set)
<1>1. (s0.degraded => d) /\ (UsesVerdict(s0, r) => d) /\ (fact[r].kind = "ws" /\ s0.wire.target = "ext" => d)
  OBVIOUS
<1>3. /\ z \in Travelling /\ z.b = s0.b /\ z.at = s0.at /\ z.seen = s0.seen /\ z.runs = s0.runs
      /\ z.degraded = d /\ z.body = s0.body /\ z.fwd = s0.fwd /\ z.out = s0.out
  BY DEF Unverified
<1>4. s = LocalMiddleware(z, r)
  OBVIOUS
<1>5. /\ s0.b \in Builds /\ SeenOK(s0, r) /\ ForwardOK(s0, r) /\ s0.out.what = "none"
      /\ (~s0.body => ~fact[r].get /\ s0.degraded)
  BY DEF RequestOK, EdgeOK, WireOK, OutOK
<1>6. ~d => /\ \A c \in Builds : s0.runs[c] <= 1
            /\ s0.runs[s0.b] = 0
            /\ s0.fwd = 0 => \A c \in Builds : c # s0.b => s0.runs[c] = 0
  <2> SUFFICES ASSUME ~d
               PROVE  /\ \A c \in Builds : s0.runs[c] <= 1
                      /\ s0.runs[s0.b] = 0
                      /\ s0.fwd = 0 => \A c \in Builds : c # s0.b => s0.runs[c] = 0
    OBVIOUS
  <2>1. /\ \A c \in Builds : s0.runs[c] <= 1 /\ s0.runs[c] \in Nat
        /\ s0.runs[s0.b] = 1 => s0.wire.by = s0.b /\ s0.wire.verdict = "ran"
        /\ s0.fwd = 0 => \A c \in Builds : c # s0.b => s0.runs[c] = 0
    BY <1>1 DEF RequestOK, PassOK, Late, Travelling
  <2>2. s0.runs[s0.b] # 1
    BY <1>1, <1>5, <2>1, BuildAssumption
       DEF UsesVerdict, MW_EVALUATED_TRUSTED, trustedResolutionFromHeaders
  <2> QED
    BY <1>5, <2>1, <2>2
<1>7. CASE Matches(z.b, r)
  <2>1. PICK f \in [Builds -> Nat] : f = [z.runs EXCEPT ![z.b] = @ + 1]
    BY <1>3, <1>5, RunsIs
  <2>2. PICK x \in SUBSET Builds : x = z.seen \cup {z.b}
    BY <1>3, <1>5 DEF Travelling
  <2>3. s = [z EXCEPT !.verdict = "ran", !.seen = x, !.runs = f]
    BY <1>3, <1>4, <1>7, <2>1, <2>2 DEF LocalMiddleware, Travelling
  <2>4. /\ s \in Travelling /\ s.b = s0.b /\ s.at = s0.at /\ s.seen = x /\ s.runs = f
        /\ s.degraded = d /\ s.body = s0.body /\ s.fwd = s0.fwd /\ s.out = s0.out
        /\ s.verdict = "ran"
    BY <1>3, <2>3 DEF Travelling, Verdicts
  <2>5. SeenOK(s, r) /\ s.b \in s.seen /\ ForwardOK(s, r)
    BY <1>3, <1>5, <1>7, <2>2, <2>4 DEF SeenOK, ForwardOK, Late
  <2>6. ~d => /\ \A c \in Builds : f[c] <= 1
              /\ s0.fwd = 0 => \A c \in Builds : c # s0.b => f[c] = 0
    BY <1>3, <1>5, <1>6, <2>1 DEF Travelling
  <2>7. d \in BOOLEAN /\ (~s0.body => ~fact[r].get /\ d)
    BY <1>1, <1>5
  <2> QED
    BY <1>3, <1>5, <1>7, <2>4, <2>5, <2>6, <2>7 DEF Resolved
<1>8. CASE ~Matches(z.b, r)
  <2>1. s = [z EXCEPT !.verdict = "skip-nomatch"]
    BY <1>4, <1>8 DEF LocalMiddleware
  <2>2. /\ s \in Travelling /\ s.b = s0.b /\ s.at = s0.at /\ s.seen = s0.seen /\ s.runs = s0.runs
        /\ s.degraded = d /\ s.body = s0.body /\ s.fwd = s0.fwd /\ s.out = s0.out
        /\ s.verdict = "skip-nomatch"
    BY <1>3, <2>1 DEF Travelling, Verdicts
  <2>3. SeenOK(s, r) /\ s.b \notin s.seen /\ ForwardOK(s, r)
    BY <1>3, <1>5, <1>8, <2>2 DEF SeenOK, ForwardOK, Late
  <2>4. d \in BOOLEAN /\ (~s0.body => ~fact[r].get /\ d)
    BY <1>1, <1>5
  <2> QED
    BY <1>3, <1>5, <1>6, <1>8, <2>2, <2>3, <2>4 DEF Resolved
<1> QED
  BY <1>7, <1>8

(* PoolResolve: the pool's own middleware lets the request through.        *)
LEMMA PoolResolveKeeps == ASSUME PathInv, NEW r \in DOMAIN fact, PoolResolve(r) PROVE PathInv'
<1>1. PICK s0 \in Travelling : s0 = st[r] /\ RequestOK(s0, r) /\ s0.at = "resolve"
  BY Here DEF PoolResolve
<1>2a. PICK d \in BOOLEAN : d = (s0.degraded \/ UsesVerdict(s0, r)
                                  \/ (fact[r].kind = "ws" /\ s0.wire.target = "ext"))
  OBVIOUS
<1>2b. PICK z : z = [s0 EXCEPT !.wire = NoVerdict, !.degraded = d]
  OBVIOUS
<1>2. PICK s : s = LocalMiddleware(z, r)
  OBVIOUS
<1>3. /\ s \in Travelling /\ s.b = s0.b
      /\ \A target : \A set \in BOOLEAN :
           (target \in {"own", "other"} /\ s.verdict = "ran" => set)
           => Resolved(r, s, target, set)
  <2>1. fact[r] \in FactType
    BY Here
  <2>2. (s0.degraded => d) /\ (UsesVerdict(s0, r) => d) /\ (fact[r].kind = "ws" /\ s0.wire.target = "ext" => d)
    BY <1>2a
  <2>3. RequestOK(s0, r) /\ s0.at = "resolve"
    BY <1>1
  <2>4. z \in Travelling /\ Unverified(z, s0, d)
    <3>1. PICK w \in Wire : w = NoVerdict
      BY NoVerdictIs
    <3> QED
      BY <1>2b, <3>1 DEF Travelling, Unverified
  <2>5. s \in Travelling /\ s.b = s0.b
    BY <2>1, <2>2, <2>3, <2>4, <1>2, LocalMiddlewareIs
  <2>6. ASSUME NEW target, NEW set \in BOOLEAN,
               target \in {"own", "other"} /\ s.verdict = "ran" => set
        PROVE  Resolved(r, s, target, set)
    BY <2>1, <2>2, <2>3, <2>4, <2>6, <1>2, LocalMiddlewareIs
  <2> QED
    BY <2>5, <2>6
<1> DEFINE Ends(from, to, plan) ==
             LET ran == to.verdict = "ran"
                 ccs == PoolCacheControls(to.b, r) IN
             CASE app[to.b].mw = "odd" -> Answer(r, from, "error", to.b, {"private"})
               [] ran /\ plan.mw = "throw" -> Answer(r, to, "error", to.b, {"private"})
               [] ran /\ plan.mw \in {"redirect", "respond"} -> Answer(r, to, "answer", to.b, ccs)
               [] ran /\ plan.mw = "external" -> Dispatch(r, to, "ext", TRUE)
               [] ran /\ plan.mw = "rewrite" -> SameDeploymentRewrite(r, to, plan)
               [] OTHER -> Dispatch(r, to, ImageTarget(r, plan.route), ran)
<1>4. PICK p \in Plans : Ends(s0, s, p)
  <2> DEFINE plain == [st[r] EXCEPT !.wire = NoVerdict,
                                    !.degraded = @ \/ (UsesVerdict(st[r], r)
                                                       \/ (fact[r].kind = "ws"
                                                           /\ st[r].wire.target = "ext"))]
  <2>1. \E plan \in Plans : Ends(st[r], LocalMiddleware(plain, r), plan)
    BY Zenon DEF PoolResolve
  <2>2. z = plain
    BY <1>1, <1>2a, <1>2b DEF Travelling
  <2> HIDE DEF Ends, plain
  <2> QED
    BY <1>1, <1>2, <2>1, <2>2
<1>5. \/ Answer(r, s0, "error", s.b, {"private"})
      \/ Answer(r, s, "error", s.b, {"private"})
      \/ Answer(r, s, "answer", s.b, PoolCacheControls(s.b, r))
      \/ Dispatch(r, s, "ext", TRUE)
      \/ Dispatch(r, s, p.route, p.route \in {"own", "other"})
      \/ fact[r].kind = "image" /\ Dispatch(r, [s EXCEPT !.strayed = TRUE], "own", FALSE)
      \/ Dispatch(r, s, ImageTarget(r, p.route), s.verdict = "ran")
  BY <1>4 DEF SameDeploymentRewrite
<1>6. /\ SeenOK(s0, r) /\ (~s0.degraded => \A c \in Builds : s0.runs[c] <= 1) /\ s.b \in Builds
      /\ SeenOK(s, r) /\ (~s.degraded => \A c \in Builds : s.runs[c] <= 1)
  <2>1. Resolved(r, s, "own", TRUE)
    BY <1>3
  <2> QED
    BY <1>1, <2>1 DEF RequestOK, PassOK, Resolved
<1>7. ASSUME NEW what \in {"answer", "error"}, NEW x \in {s0, s},
             NEW ccs \in {{"private"}, PoolCacheControls(s.b, r)}, Answer(r, x, what, s.b, ccs)
      PROVE  PathInv'
  <2>1. "shared" \in ccs => /\ ~(HasMiddleware(s.b) /\ fact[r].kind \in app[s.b].covers)
                            /\ fact[r].kind = "image" => ~SourceCovered(s.b)
    BY SharedUncovered
  <2>2. what \notin Content /\ what # "hit" /\ what \notin {"content", "image"}
        /\ what \in {"answer", "error"} \cup Content
    BY DEF Content
  <2>3. /\ x \in Travelling /\ SeenOK(x, r)
        /\ ~x.degraded => \A c \in Builds : x.runs[c] <= 1
    BY <1>3, <1>6
  <2> QED
    BY <1>6, <1>7, <2>1, <2>2, <2>3, AnswerKeeps
<1>8. ASSUME NEW target, NEW set \in BOOLEAN, target \in {"own", "other"} /\ s.verdict = "ran" => set,
             Dispatch(r, s, target, set)
      PROVE  PathInv'
  BY <1>3, <1>8, DispatchKeeps
<1>9. CASE Dispatch(r, s, "ext", TRUE)
  BY <1>8, <1>9
<1>10. CASE Dispatch(r, s, p.route, p.route \in {"own", "other"})
  <2>1. CASE p.route \in {"own", "other"}
    <3>1. Dispatch(r, s, p.route, TRUE)
      BY <1>10, <2>1
    <3> QED
      BY <1>8, <3>1
  <2>2. CASE p.route \notin {"own", "other"}
    <3>1. (p.route \in {"own", "other"}) = FALSE
      BY <2>2
    <3>2. Dispatch(r, s, p.route, FALSE)
      BY <1>10, <3>1, Zenon
    <3> QED
      BY <1>8, <2>2, <3>2
  <2> QED
    BY <2>1, <2>2
<1>11. CASE Dispatch(r, s, ImageTarget(r, p.route), s.verdict = "ran")
  <2>1. PICK set \in BOOLEAN : set = (s.verdict = "ran")
    OBVIOUS
  <2>2. PICK target : target = ImageTarget(r, p.route)
    OBVIOUS
  <2> QED
    BY <1>8, <1>11, <2>1, <2>2
<1>12. CASE fact[r].kind = "image" /\ Dispatch(r, [s EXCEPT !.strayed = TRUE], "own", FALSE)
  <2>1. PICK x : x = [s EXCEPT !.strayed = TRUE]
    OBVIOUS
  <2>2. /\ x \in Travelling /\ x.b = s.b /\ x.seen = s.seen /\ x.runs = s.runs
        /\ x.degraded = s.degraded /\ x.strayed = TRUE
    BY <1>3, <2>1 DEF Travelling
  <2>3. Answer(r, x, "image", s.b, PoolCacheControls(s.b, r))
    BY <1>12, <2>1, <2>2 DEF Dispatch, OwnsTarget, applyMiddlewareRequestHeaders
  <2>4. SeenOK(x, r) /\ (~x.degraded => \A c \in Builds : x.runs[c] <= 1)
        /\ (Matches(s.b, r) => s.b \in x.seen)
    <3>1. Resolved(r, s, "own", TRUE)
      BY <1>3
    <3> QED
      BY <1>6, <2>2, <3>1 DEF SeenOK, Resolved
  <2>5. "shared" \in PoolCacheControls(s.b, r) =>
            /\ ~(HasMiddleware(s.b) /\ fact[r].kind \in app[s.b].covers)
            /\ fact[r].kind = "image" => ~SourceCovered(s.b)
    BY SharedUncovered
  <2>6. "image" \in {"answer", "error"} \cup Content /\ "image" # "hit"
    BY DEF Content
  <2> QED
    BY <1>6, <2>2, <2>3, <2>4, <2>5, <2>6, AnswerKeeps
<1> QED
  BY <1>5, <1>7, <1>9, <1>10, <1>11, <1>12

-------------------------------------------------------------------------------
(* The cutover, and the CDN's purge.                                       *)

(* Nothing of a request changes.                                           *)
LEMMA CutoverKeeps ==
    ASSUME PathInv, UNCHANGED <<app, fact, st>>, edgeBuild' \in Builds, poolBuild' \in Builds,
           cdn' \in [Kinds -> Builds \cup {NoBuild}],
           \A k \in Kinds : cdn'[k] = cdn[k] \/ cdn'[k] = NoBuild
    PROVE  PathInv'
<1>1. Typed'
  BY DEF PathInv, Typed
<1>2. CdnOK'
  BY DEF PathInv, CdnOK, HasMiddleware, SourceCovered
<1>3. ASSUME NEW r \in DOMAIN fact, NEW x, x = st'[r] PROVE RequestOK(x, r)'
  <2>1. RequestOK(x, r) /\ fact'[r] = fact[r] /\ app' = app
    BY <1>3, Here
  <2> QED
    BY <2>1, SameFacts
<1> QED
  BY <1>1, <1>2, <1>3 DEF PathInv

(* SwitchEdge, SwitchPool and PurgeCdn.                                    *)
LEMMA ReleaseKeeps == ASSUME PathInv, SwitchEdge \/ SwitchPool \/ PurgeCdn PROVE PathInv'
<1>1. edgeBuild \in Builds /\ poolBuild \in Builds /\ cdn \in [Kinds -> Builds \cup {NoBuild}]
  BY DEF PathInv, Typed
<1>2. CASE SwitchEdge
  BY <1>1, <1>2, OtherBuild, BuildAssumption, CutoverKeeps DEF SwitchEdge
<1>3. CASE SwitchPool
  BY <1>1, <1>3, CutoverKeeps DEF SwitchPool
<1>4. CASE PurgeCdn
  <2>1. cdn' \in [Kinds -> Builds \cup {NoBuild}]
        /\ \A k \in Kinds : cdn'[k] = cdn[k] \/ cdn'[k] = NoBuild
    BY <1>1, <1>4 DEF PurgeCdn
  <2> QED
    BY <1>1, <1>4, <2>1, CutoverKeeps DEF PurgeCdn
<1> QED
  BY <1>2, <1>3, <1>4

-------------------------------------------------------------------------------
(* Every step keeps the invariant.                                         *)
LEMMA PathStep == PathInv /\ [Next]_vars => PathInv'
<1> SUFFICES ASSUME PathInv, [Next]_vars PROVE PathInv'
  OBVIOUS
<1>1. CASE UNCHANGED vars
  <2>1. /\ UNCHANGED <<app, fact, st, edgeBuild, poolBuild, cdn>>
        /\ edgeBuild \in Builds /\ poolBuild \in Builds /\ cdn \in [Kinds -> Builds \cup {NoBuild}]
    BY <1>1 DEF vars, PathInv, Typed
  <2> QED
    BY <2>1, CutoverKeeps
<1>2. ASSUME NEW r \in DOMAIN fact,
             \/ Arrive(r) \/ EdgeAdmit(r) \/ EdgeRoute(r) \/ EdgeShed(r)
             \/ ProofAges(r) \/ ContextChanges(r) \/ BodyChanges(r)
             \/ PoolReceive(r) \/ PoolForward(r) \/ PoolServe(r) \/ PoolTrusted(r) \/ PoolResolve(r)
      PROVE  PathInv'
  BY <1>2, ArriveKeeps, EdgeAdmitKeeps, EdgeRouteKeeps, EdgeShedKeeps, ProofAgesKeeps,
     ContextChangesKeeps, BodyChangesKeeps, PoolReceiveKeeps, PoolForwardKeeps, PoolServeKeeps,
     PoolTrustedKeeps, PoolResolveKeeps
<1> QED
  BY <1>1, <1>2, ReleaseKeeps DEF Next

(* A release keeps, for every request, the promises that follow: verdicts  *)
(* are of the build that uses them, headers come with them, and the CDN    *)
(* holds nothing that middleware may cover.                                *)
THEOREM PathInvariant == Spec => []PathInv
<1>1. Init => PathInv
  BY PathInit
<1>2. PathInv /\ [Next]_vars => PathInv'
  BY PathStep
<1> QED
  BY <1>1, <1>2, PTL DEF Spec

(* NoUnscreenedContent: whatever leaves a build whose middleware matches   *)
(* the request was let through by that middleware, whichever of the CDN,   *)
(* the edge's verdict, a hop, a retained forward or a local resolution     *)
(* brought it there (pool-server/index.ts, routing-service/handler.ts).    *)
THEOREM NoUnscreenedContentTheorem == Spec => []NoUnscreenedContent
<1>1. PathInv => NoUnscreenedContent
  BY DEF PathInv, NoUnscreenedContent, RequestOK, OutOK
<1> QED
  BY <1>1, PathInvariant, PTL

(* HeaderSetTravels: the handler sees the header set its build's           *)
(* middleware left, on every path but the image request that middleware    *)
(* rewrote to a path without a route.                                      *)
THEOREM HeaderSetTheorem == Spec => []HeaderSetTravels
<1>1. PathInv => HeaderSetTravels
  BY DEF PathInv, HeaderSetTravels, RequestOK, OutOK
<1> QED
  BY <1>1, PathInvariant, PTL

(* SinglePass: a build's middleware runs once per request unless the       *)
(* hand-over of its verdict failed.                                        *)
THEOREM SinglePassTheorem == Spec => []SinglePass
<1>1. PathInv => SinglePass
  BY DEF PathInv, SinglePass, RequestOK, PassOK
<1> QED
  BY <1>1, PathInvariant, PTL

=============================================================================
