------------------------------ MODULE RequestPath ------------------------------
(***************************************************************************)
(* One request's way through a release: the CDN, the routing service that   *)
(* the gateway calls out to (the edge), the pool the edge names, a second   *)
(* pool or the retained previous build, and the response's way back into    *)
(* the CDN.  The routing verdict crosses each hop in headers that a proof   *)
(* keyed by the build's secret authenticates; a tier that cannot trust the  *)
(* verdict resolves the request again with its own middleware.              *)
(*                                                                          *)
(* URLs are abstracted to a kind, header sets to the build whose middleware *)
(* produced them, and what the application answers when it is asked to a    *)
(* plan drawn each time: two tiers may get two answers.                     *)
(***************************************************************************)
EXTENDS Naturals, FiniteSets

CONSTANTS Builds,        \* the outgoing and the incoming build
          Outgoing,      \* the build that serves at the start
          NoBuild,       \* no build
          Apps,          \* applications: [b \in Builds |-> [mw, covers, conditional, failOpen]]
          Facts,         \* workloads: what each of some requests is
          MaxForwards    \* bound on retained hops explored per request

ASSUME BuildAssumption == /\ IsFiniteSet(Builds) /\ Cardinality(Builds) = 2
                          /\ Outgoing \in Builds /\ NoBuild \notin Builds
ASSUME BoundAssumption == MaxForwards \in Nat \ {0}

Kinds == {"page", "ppr", "asset", "data", "image", "ws"}

(* mw: where middleware runs; covers: the URLs its matcher's sources meet; *)
(* conditional: the matcher has conditions too; failOpen: what a callout   *)
(* that was shed does.                                                     *)
AppType == [mw: {"none", "node", "edge", "odd"}, covers: SUBSET Kinds,
            conditional: BOOLEAN, failOpen: BOOLEAN]

FactType == [kind: Kinds, get: BOOLEAN, cond: BOOLEAN, owners: SUBSET Builds,
             hint: Builds \cup {NoBuild}, big: BOOLEAN, target: {"good", "bad"}]

ASSUME DataAssumption == /\ Apps \subseteq [Builds -> AppType]
                         /\ \A f \in Facts : f \in [DOMAIN f -> FactType]

(* fact holds a request's kind, whether it is a GET, whether the matcher's *)
(* conditions hold for it, the builds whose inventory lists its asset or   *)
(* action, the deployment it names, whether its header block is near the   *)
(* limit, and whether its target is well-formed.                           *)
VARIABLES app, fact, edgeBuild, poolBuild, cdn, st

vars == <<app, fact, edgeBuild, poolBuild, cdn, st>>

Verdicts == {"none", "skip-nomatch", "ran", "error"}

(* What an application says of caching: the routing verdict's own header,  *)
(* "absent" for none, and the header of the response.                      *)
AppCacheControls == {"absent", "shared", "private", "nostore"}
ResponseCacheControls == {"shared", "private", "nostore"}

(* The verdicts that let a pool skip its own middleware.                   *)
MW_EVALUATED_TRUSTED == {"ran", "skip-nomatch", "none"}

(* The dispatch headers and the proof over them, under the secret of build *)
(* b: the mint time, the request context the build's routing reads, and    *)
(* the digest of the body, when the signer read one.                       *)
Signed(b, verdict, set, target, digest) ==
    [by |-> b, verdict |-> verdict, set |-> set, target |-> target,
     digest |-> digest, fresh |-> TRUE, context |-> TRUE]

(* Every internal header cleared.                                          *)
NoVerdict == Signed(NoBuild, "error", FALSE, "own", FALSE)

(* What middleware does with a request, where routing sends one that it    *)
(* lets through or rewrites, and whether the i18n trailing-slash redirect  *)
(* of a request let through has to be retried.                             *)
Routes == {"own", "other", "missing", "ext", "loop", "redirect"}
Plans == [mw : {"next"}, route : Routes, slash : {FALSE}]
         \cup [mw : {"next"}, route : {"own"}, slash : {TRUE}]
         \cup [mw : {"rewrite"}, route : Routes, slash : {FALSE}]
         \cup [mw : {"respond", "redirect", "external", "throw"}, route : {"own"}, slash : {FALSE}]

Other(b) == CHOOSE c \in Builds : c # b

--------------------------------------------------------------------------------
(* Middleware coverage.                                                    *)

HasMiddleware(b) == app[b].mw # "none"

(* Fault: the shared consequences use the per-request verdict.             *)
MayCover_ThisRequest(b, k, r) ==
    HasMiddleware(b) /\ k \in app[b].covers /\ (app[b].conditional => fact[r].cond)

(* Source regexps only: "could middleware ever cover this pathname".       *)
MayCover(b, k, r) == HasMiddleware(b) /\ k \in app[b].covers

(* The request's headers, cookies, query and host meet the has and missing *)
(* conditions of a conditional matcher.                                    *)
conditionPresent(r) == fact[r].cond

(* The matcher as it gates a run: the source and the conditions.           *)
Matches(b, r) ==
    /\ HasMiddleware(b)
    /\ fact[r].kind \in app[b].covers
    /\ app[b].conditional => conditionPresent(r)

(* The target parses, decodes and is in its normal form.                   *)
prepareRequest(r) == fact[r].target = "good"

(* The dispatch headers fit the pool's header block beside the client's.   *)
fitsPoolHeaderBudget(r) == ~fact[r].big

(* An image request for a source that middleware may cover.                *)
SourceCovered(b) == HasMiddleware(b) /\ "asset" \in app[b].covers

(* The retention record's rule: forward to the peer build only what this   *)
(* build does not own and the peer does; a hint naming this build keeps    *)
(* the request here, one naming the peer sends its actions there.          *)
Retained(b, r) ==
    /\ fact[r].hint # b
    /\ Other(b) \in fact[r].owners
    /\ \/ ~fact[r].get /\ fact[r].hint = Other(b)
       \/ b \notin fact[r].owners

--------------------------------------------------------------------------------
(* Cache policy of a response.                                             *)

(* The verdict the pool forces on a response of build b, "none" for none.  *)
forcedCdnCacheControl(b, r) ==
    IF fact[r].kind = "ppr" THEN "nostore"
    ELSE IF fact[r].kind = "image" /\ SourceCovered(b) THEN "nostore"
    ELSE IF MayCover(b, fact[r].kind, r) THEN "nocache"
    ELSE "none"

(* Whether the application's explicit cache-control replaces the forced    *)
(* one.                                                                    *)
explicitCacheControlWins(forced, own, response) ==
    /\ forced = "nocache" /\ own # "absent"
    /\ own = "nostore" \/ (response # "nostore" /\ own # "shared")

PoolCacheControl(b, r, own, response) ==
    LET forced == forcedCdnCacheControl(b, r) IN
    IF forced = "none" THEN (IF own = "absent" THEN response ELSE own)
    ELSE IF explicitCacheControlWins(forced, own, response) THEN own ELSE forced

(* The cache-control values a pool response of build b may leave with.     *)
PoolCacheControls(b, r) ==
    {PoolCacheControl(b, r, own, response) :
        own \in AppCacheControls, response \in ResponseCacheControls}

(* A response the edge authors itself never grants shared freshness.       *)
withMiddlewareCachePolicy(cc) == IF cc = "shared" THEN "nocache" ELSE cc

EdgeCacheControls == {withMiddlewareCachePolicy(cc) : cc \in ResponseCacheControls}

--------------------------------------------------------------------------------
(* A request as it arrives.  seen, runs, degraded and strayed are history:  *)
(* the builds whose middleware let it through, how often each ran, whether  *)
(* the hand-over of a verdict failed, and whether middleware rewrote an     *)
(* image request to a path that has no route.                               *)
Fresh == [at |-> "client", b |-> NoBuild, wire |-> NoVerdict, body |-> TRUE,
          hdrs |-> NoBuild, seen |-> {}, runs |-> [b \in Builds |-> 0], degraded |-> FALSE,
          retried |-> FALSE, hopped |-> FALSE, verdict |-> "error", fwd |-> 0, strayed |-> FALSE,
          out |-> [what |-> "none", build |-> NoBuild, hdrs |-> NoBuild]]

Init ==
    /\ app \in Apps
    /\ fact \in Facts
    /\ edgeBuild = Outgoing
    /\ poolBuild = Outgoing
    /\ cdn = [k \in Kinds |-> NoBuild]
    /\ st = [r \in DOMAIN fact |-> Fresh]

Static == UNCHANGED <<app, fact, edgeBuild, poolBuild>>

(* The request is answered with content, or an outcome, of build b; only   *)
(* its history is kept.                                                    *)
Answer(r, s, what, b, ccs) ==
    /\ st' = [st EXCEPT ![r] =
                 [Fresh EXCEPT !.at = "done", !.seen = s.seen, !.runs = s.runs,
                               !.degraded = s.degraded, !.strayed = s.strayed, !.fwd = s.fwd,
                               !.out = [what |-> what, build |-> b, hdrs |-> s.hdrs]]]
    /\ \E cc \in ccs :
         cdn' = IF cc = "shared" /\ fact[r].get /\ s.fwd = 0 /\ fact[r].kind # "ws"
                  THEN [cdn EXCEPT ![fact[r].kind] = b] ELSE cdn
    /\ Static

Go(r, s, at) == /\ st' = [st EXCEPT ![r] = [s EXCEPT !.at = at]]
                /\ UNCHANGED cdn
                /\ Static

--------------------------------------------------------------------------------
(* The CDN answers a stored entry before the callout runs; otherwise the   *)
(* gateway calls the routing service.                                      *)
Arrive(r) ==
    /\ st[r].at = "client"
    /\ IF fact[r].get /\ cdn[fact[r].kind] # NoBuild
         THEN Answer(r, st[r], "hit", cdn[fact[r].kind], {"private"})
         ELSE Go(r, [st[r] EXCEPT !.b = edgeBuild], "edge")

(* No verdict leaves the edge: every internal header is cleared.           *)
ClearVerdict(r, s) == Go(r, [s EXCEPT !.verdict = "error", !.retried = FALSE], "queue")

(* The part of the handler before routing: a retained request, middleware  *)
(* only a pool can run and body requests go on without a verdict; a bad or *)
(* unnormalised target is answered here.  The retention file may lag, so   *)
(* the reader may also miss a retained request.                            *)
EdgeAdmit(r) ==
    LET s == st[r]
        mw == app[s.b].mw IN
    /\ s.at = "edge"
    /\ \/ Retained(s.b, r) /\ ClearVerdict(r, s)
       \/ mw = "edge" /\ ClearVerdict(r, s)
       \/ mw # "edge" /\ ~prepareRequest(r) /\ Answer(r, s, "answer", s.b, {"private"})
       \/ mw \in {"node", "odd"} /\ prepareRequest(r) /\ ~fact[r].get
            /\ ClearVerdict(r, s)
       \/ /\ mw # "edge" /\ prepareRequest(r)
          /\ mw = "none" \/ fact[r].get
          /\ Go(r, [s EXCEPT !.verdict = IF mw = "none" THEN "none" ELSE "error"], "route")

(* Whether this pass runs middleware.                                      *)
EdgeRuns(s, r) == ~s.retried /\ app[s.b].mw = "node" /\ Matches(s.b, r)

(* Fault: the retried pass starts without the first pass's verdict.        *)
EdgeMiddleware_RetryForgets(s, r) ==
    IF app[s.b].mw = "none" THEN s
    ELSE IF ~Matches(s.b, r) THEN [s EXCEPT !.verdict = "skip-nomatch"]
    ELSE IF app[s.b].mw = "node"
      THEN [s EXCEPT !.verdict = "ran", !.seen = @ \cup {s.b}, !.runs[s.b] = @ + 1]
      ELSE s

(* The middleware stage: a retry keeps the first pass's verdict and header *)
(* set, no match is recorded as such, an unknown module shape leaves the   *)
(* pessimistic verdict.                                                    *)
EdgeMiddleware(s, r) ==
    IF s.retried \/ app[s.b].mw = "none" THEN s
    ELSE IF ~Matches(s.b, r) THEN [s EXCEPT !.verdict = "skip-nomatch"]
    ELSE IF app[s.b].mw = "node"
      THEN [s EXCEPT !.verdict = "ran", !.seen = @ \cup {s.b}, !.runs[s.b] = @ + 1]
      ELSE s

(* The output or the external target that routing found; the edge follows  *)
(* no rewrite chain, so a loop leaves as an external target too.           *)
OutputOf(p) == IF p.route = "loop" THEN "ext" ELSE p.route

(* The target the edge stamps.  A rewrite by middleware reaches it as an   *)
(* external rewrite, whatever its origin; a pathname no pool owns goes to  *)
(* the default pool.                                                       *)
EdgeTarget(p, ran) ==
    IF ran /\ p.mw \in {"rewrite", "external"} THEN "ext" ELSE OutputOf(p)

(* Fault: the header set stays behind when the verdict is stamped.         *)
Stamp_NoHeaderSet(s, target) ==
    Signed(s.b, s.verdict, FALSE, target, FALSE)

(* What the edge hands over: its verdict, the header set middleware left   *)
(* and the target; it never sees a body.                                   *)
Stamp(s, target) == Signed(s.b, s.verdict, s.verdict = "ran", target, FALSE)

(* A trailing-slash redirect that contradicts the default locale: resolve  *)
(* the other form of the path, once.                                       *)
normalizeResolvedRedirect(p, s) == p.slash /\ ~s.retried

(* Routing with the middleware result: a throw answers 500, the spurious   *)
(* trailing-slash redirect is resolved again, redirects and middleware     *)
(* responses are answered here, everything else is stamped and signed      *)
(* unless the projected header block is over the pool's budget.            *)
EdgeRoute(r) ==
    /\ st[r].at = "route"
    /\ \E p \in Plans :
         LET ran == EdgeRuns(st[r], r)
             s == EdgeMiddleware(st[r], r)
             away == ran /\ p.mw \in {"rewrite", "external"} IN
         CASE ran /\ p.mw = "throw" -> Answer(r, s, "error", s.b, {"private"})
           [] ran /\ p.mw \in {"redirect", "respond"} ->
                Answer(r, s, "answer", s.b, EdgeCacheControls)
           [] ~away /\ normalizeResolvedRedirect(p, s) -> Go(r, [s EXCEPT !.retried = TRUE], "route")
           [] ~away /\ p.route = "redirect" -> Answer(r, s, "answer", s.b, EdgeCacheControls)
           [] ~fitsPoolHeaderBudget(r) -> ClearVerdict(r, [s EXCEPT !.degraded = TRUE])
           [] OTHER -> Go(r, [s EXCEPT !.wire = Stamp(s, EdgeTarget(p, ran)),
                                       !.verdict = "error", !.retried = FALSE], "queue")

(* The callout runs out of time, or its middleware is aborted by the shed  *)
(* signal: the policy continues without a verdict or answers 500.          *)
EdgeShed(r) ==
    LET s == st[r] IN
    /\ s.at \in {"edge", "route"}
    /\ \E ran \in {0} \cup (IF s.at = "route" /\ EdgeRuns(s, r) THEN {1} ELSE {}) :
         LET t == [s EXCEPT !.runs[s.b] = @ + ran, !.degraded = TRUE] IN
         IF app[s.b].failOpen THEN ClearVerdict(r, t) ELSE Answer(r, t, "error", s.b, {"private"})

--------------------------------------------------------------------------------
(* A proof waiting in a queue outlives its window.                         *)
ProofAges(r) ==
    /\ st[r].at \in {"queue", "hop"} /\ st[r].wire.by # NoBuild /\ st[r].wire.fresh
    /\ Go(r, [st[r] EXCEPT !.wire.fresh = FALSE, !.degraded = TRUE], st[r].at)

(* The request context the proof covers differs at the next tier (a load   *)
(* balancer that sets a forwarded header after the callout), and with it   *)
(* what a conditional matcher would say.                                   *)
ContextChanges(r) ==
    /\ st[r].at \in {"queue", "hop"} /\ st[r].wire.by # NoBuild /\ st[r].wire.context
    /\ st' = [st EXCEPT ![r].wire.context = FALSE, ![r].seen = {}, ![r].degraded = TRUE]
    /\ fact' = [fact EXCEPT ![r].cond = ~@]
    /\ UNCHANGED <<app, edgeBuild, poolBuild, cdn>>

(* The body the second pool reads is not the one the first pool signed.    *)
BodyChanges(r) ==
    /\ st[r].at = "hop" /\ ~fact[r].get /\ st[r].body
    /\ Go(r, [st[r] EXCEPT !.body = FALSE, !.seen = {}, !.degraded = TRUE], "hop")

(* What the proof covers of the request beside the dispatch headers: its   *)
(* target, its authority and the headers that the build's matchers and     *)
(* content negotiation read are the ones that were signed.                 *)
proofCoveredHeaderNames(w) == w.context

(* The proof holds under this build's secret, for this request context and *)
(* inside its window.                                                      *)
verifyDispatchProof(w, b) == w.by = b /\ proofCoveredHeaderNames(w) /\ w.fresh

(* The trust boundary: the verdict is kept only with a proof that holds.   *)
applyRequestTrustBoundary(s, b) ==
    LET kept == verifyDispatchProof(s.wire, b) IN
    [s EXCEPT !.b = b,
              !.wire = IF kept THEN @ ELSE NoVerdict,
              !.degraded = @ \/ (~kept /\ s.wire.by # NoBuild)]

(* The stable Service sends the request to a pool of the selected build; a *)
(* hop or a retained forward names the build it is for.                    *)
PoolReceive(r) ==
    LET s == st[r] IN
    \/ s.at = "queue" /\ Go(r, applyRequestTrustBoundary(s, poolBuild), "pool")
    \/ s.at \in {"hop", "forward"} /\ Go(r, applyRequestTrustBoundary(s, s.b), "pool")

(* The retained hop carries no verdict and its answer is never stored.     *)
PoolForward(r) ==
    LET s == st[r] IN
    /\ s.at = "pool" /\ fact[r].kind # "ws" /\ s.fwd < MaxForwards
    /\ Retained(s.b, r)
    /\ Go(r, [s EXCEPT !.wire = NoVerdict, !.fwd = @ + 1, !.b = Other(s.b),
                       !.hopped = FALSE], "forward")

(* The body read here is the one the signer digested, if it read one.      *)
dispatchProofBodyMatches(s) == s.wire.digest => s.body

(* A verdict bound to another body is revoked.                             *)
enforceDispatchBodyBinding(s) ==
    IF dispatchProofBodyMatches(s) THEN s ELSE [s EXCEPT !.wire = NoVerdict]

(* The asset and prerendered-data fast path: no middleware may cover it.   *)
ServedFromDisk(s, r) ==
    fact[r].kind \in {"asset", "data"} /\ ~MayCover(s.b, fact[r].kind, r)

(* The request stays here: a malformed target is answered, assets and      *)
(* prerendered data are served from disk when no middleware may cover the  *)
(* path, anything else is read, its body binding enforced, and resolved.   *)
PoolServe(r) ==
    LET s == st[r]
        k == fact[r].kind IN
    /\ s.at = "pool"
    /\ \/ /\ ServedFromDisk(s, r)
          /\ Answer(r, s, "static", s.b, {IF k = "asset" THEN "shared" ELSE "private"})
       \/ /\ k = "asset" => ~ServedFromDisk(s, r)
          /\ Go(r, enforceDispatchBodyBinding(s), "resolve")

(* The local resolver's middleware pass.                                   *)
LocalMiddleware(s, r) ==
    IF Matches(s.b, r)
      THEN [s EXCEPT !.verdict = "ran", !.seen = @ \cup {s.b}, !.runs[s.b] = @ + 1]
      ELSE [s EXCEPT !.verdict = "skip-nomatch"]

(* Install middleware's request-header set over the client's.              *)
applyMiddlewareRequestHeaders(s, set) == IF set THEN [s EXCEPT !.hdrs = s.b] ELSE s

(* The hop to the pool that owns the route: same build by name, verdict    *)
(* "ran", a fresh proof over the body this pool buffered.  An upgrade      *)
(* carries the header set beside the client's, a request has it installed. *)
proxyToPool(r, s, set) ==
    LET ws == fact[r].kind = "ws"
        t == IF ws THEN s ELSE applyMiddlewareRequestHeaders(s, set) IN
    Go(r, [t EXCEPT !.wire = Signed(s.b, "ran", ws /\ set, "own", ~fact[r].get),
                    !.hopped = TRUE], "hop")

(* This pool serves the target: pool ownership is the build's, so a pool   *)
(* that a hop reached owns the route.                                      *)
OwnsTarget(s, target) == target = "own" \/ (target = "other" /\ s.hopped)

(* Dispatch of a resolution: `set` tells whether it carries the header set *)
(* of middleware.                                                          *)
Dispatch(r, s, target, set) ==
    LET ccs == PoolCacheControls(s.b, r)
        t == applyMiddlewareRequestHeaders(s, set) IN
    CASE OwnsTarget(s, target) ->
           Answer(r, t, IF fact[r].kind = "image" THEN "image" ELSE "content", s.b, ccs)
      [] target = "other" /\ ~OwnsTarget(s, target) -> proxyToPool(r, s, set)
      [] target = "ext" /\ fact[r].kind # "ws" -> Answer(r, t, "external", s.b, ccs)
      [] OTHER -> Answer(r, s, "answer", s.b, ccs)

(* An upgrade needs an output.                                             *)
trustedResolutionFromHeaders(s) == s.wire.target # "ext"

(* The verdict is used when it is a trusted one.                           *)
UsesVerdict(s, r) ==
    /\ s.wire.by # NoBuild
    /\ s.wire.verdict \in MW_EVALUATED_TRUSTED
    /\ fact[r].kind = "ws" => trustedResolutionFromHeaders(s)

(* An image request keeps to the optimizer unless routing sent it away.    *)
ImageTarget(r, target) ==
    IF fact[r].kind = "image" /\ target \in {"own", "other", "missing"} THEN "own" ELSE target

PoolTrusted(r) ==
    LET s == st[r] IN
    /\ s.at = "resolve" /\ UsesVerdict(s, r)
    /\ Dispatch(r, s, IF s.wire.target = "ext" THEN "ext" ELSE ImageTarget(r, s.wire.target),
                s.wire.set)

(* A rewrite to this deployment is resolved again, without middleware; only *)
(* a result that is a route gets the header set back.  A target without a   *)
(* route is a 404, except that an image request goes on to the optimizer.   *)
SameDeploymentRewrite(r, s, p) ==
    IF fact[r].kind = "image" /\ p.route = "missing"
      THEN Dispatch(r, [s EXCEPT !.strayed = TRUE], "own", FALSE)
      ELSE Dispatch(r, s, p.route, p.route \in {"own", "other"})

(* The local resolution: a policy without an implementation and a throw    *)
(* are 500s; the slash retry continues without running middleware again.   *)
(* A verdict is not used for an upgrade stamped with an external rewrite,   *)
(* nor when the metadata beside it does not parse.                         *)
PoolResolve(r) ==
    /\ st[r].at = "resolve"
    /\ \E p \in Plans :
         LET unused == UsesVerdict(st[r], r) \/ (fact[r].kind = "ws" /\ st[r].wire.target = "ext")
             s == LocalMiddleware([st[r] EXCEPT !.wire = NoVerdict,
                                                             !.degraded = @ \/ unused], r)
             ran == s.verdict = "ran"
             odd == app[s.b].mw = "odd"
             ccs == PoolCacheControls(s.b, r) IN
         CASE odd -> Answer(r, st[r], "error", s.b, {"private"})
           [] ran /\ p.mw = "throw" -> Answer(r, s, "error", s.b, {"private"})
           [] ran /\ p.mw \in {"redirect", "respond"} ->
                Answer(r, s, "answer", s.b, ccs)
           [] ran /\ p.mw = "external" -> Dispatch(r, s, "ext", TRUE)
           [] ran /\ p.mw = "rewrite" -> SameDeploymentRewrite(r, s, p)
           [] OTHER -> Dispatch(r, s, ImageTarget(r, p.route), ran)

--------------------------------------------------------------------------------
(* The cutover: the edge Deployment and the stable Service change build in *)
(* their own time.                                                         *)
SwitchEdge == /\ edgeBuild = Outgoing
              /\ edgeBuild' = Other(Outgoing)
              /\ UNCHANGED <<app, fact, poolBuild, cdn, st>>

SwitchPool == /\ poolBuild # edgeBuild
              /\ poolBuild' = edgeBuild
              /\ UNCHANGED <<app, fact, edgeBuild, cdn, st>>

(* invalidateCdnBuildTag, after the traffic has moved and only if it        *)
(* succeeds: the outgoing build's tagged entries go, immutable assets stay. *)
PurgeCdn == /\ poolBuild # Outgoing
            /\ \E k \in Kinds \ {"asset"} : cdn[k] = Outgoing
            /\ cdn' = [k \in Kinds |-> IF k # "asset" /\ cdn[k] = Outgoing
                                         THEN NoBuild ELSE cdn[k]]
            /\ UNCHANGED <<app, fact, edgeBuild, poolBuild, st>>

Next == \/ \E r \in DOMAIN fact : Arrive(r)
        \/ \E r \in DOMAIN fact : EdgeAdmit(r)
        \/ \E r \in DOMAIN fact : EdgeRoute(r)
        \/ \E r \in DOMAIN fact : EdgeShed(r)
        \/ \E r \in DOMAIN fact : ProofAges(r)
        \/ \E r \in DOMAIN fact : ContextChanges(r)
        \/ \E r \in DOMAIN fact : BodyChanges(r)
        \/ \E r \in DOMAIN fact : PoolReceive(r)
        \/ \E r \in DOMAIN fact : PoolForward(r)
        \/ \E r \in DOMAIN fact : PoolServe(r)
        \/ \E r \in DOMAIN fact : PoolTrusted(r)
        \/ \E r \in DOMAIN fact : PoolResolve(r)
        \/ SwitchEdge
        \/ SwitchPool
        \/ PurgeCdn

--------------------------------------------------------------------------------
Content == {"content", "static", "image", "external", "hit"}

(* Whatever reaches a client from a build whose middleware matches the     *)
(* request was let through by that build's middleware for this very        *)
(* request and body: not by another build's verdict, not by a verdict for  *)
(* a context or a body that changed, and not from a CDN entry that another *)
(* request, which the matcher's conditions spared, left behind             *)
(* (routing-service/handler.ts, pool-server/index.ts).                     *)
NoUnscreenedContent ==
    \A r \in DOMAIN fact :
        LET o == st[r].out IN
        /\ o.what \in Content /\ Matches(o.build, r) => o.build \in st[r].seen
        /\ o.what = "hit" /\ fact[r].kind = "image" => ~SourceCovered(o.build)

(* A handler that runs after its build's middleware did sees the header    *)
(* set middleware left, on every path: stamped by the edge, retried,       *)
(* rewritten, resolved locally or carried to a second pool; except an      *)
(* image that is served after a rewrite to a path without a route          *)
(* (pool-server/resolve.ts:295, 531-541, index.ts:2641).                   *)
HeaderSetTravels ==
    \A r \in DOMAIN fact :
        LET o == st[r].out IN
        o.what \in {"content", "image"} /\ o.build \in st[r].seen =>
            o.hdrs = o.build \/ st[r].strayed

(* The same without the exception: "the middleware's mutated request       *)
(* headers must ride along" (resolve.ts:251), whatever middleware's        *)
(* rewrite resolves to.  TLC refutes it with a missing path.               *)
HeaderSetAlwaysTravels ==
    \A r \in DOMAIN fact :
        LET o == st[r].out IN
        o.what \in {"content", "image"} /\ o.build \in st[r].seen => o.hdrs = o.build

(* Next's single-pass contract: a build's middleware runs once per request *)
(* unless the hand-over of its verdict failed (a shed callout, a header    *)
(* block over budget, a proof that no longer holds, metadata that does not *)
(* parse, an upgrade stamped with an external rewrite, which carries no    *)
(* output id).                                                             *)
SinglePass ==
    \A r \in DOMAIN fact : st[r].degraded \/ \A b \in Builds : st[r].runs[b] <= 1

Spec == Init /\ [][Next]_vars
================================================================================
