------------------------------- MODULE Dispatch -------------------------------
(***************************************************************************)
(* How src/pool-server/dispatch.ts answers a request that the resolver has *)
(* routed: the ladder of build artifacts, entries of the shared cache,     *)
(* recorded responses and invocations of Next, over the cache of           *)
(* IncrementalCache.tla.  Every await of the ladder is a step boundary; a  *)
(* cache read takes two, the entry and then the watermarks with the clock. *)
(*                                                                         *)
(* One route of one build is served, picked with the process's             *)
(* configuration at the start.  Its pages are siblings under one template; *)
(* the path, query and header text that select them is left out.  Next and *)
(* the background renders it schedules are external.                       *)
(***************************************************************************)
EXTENDS IncrementalCache, Sequences, SequencesExt, FiniteSets

CONSTANTS
    Scenarios,      \* configurations, routes and what clients ask of them
    Requests,       \* requests of clients
    Pages,          \* concrete pages of the route
    Template,       \* the key of the route's template
    Durations_,     \* what revalidateTag is called with
    ShellFillCooldown,  \* SHELL_FILL_COOLDOWN_MS, in ticks
    MaxPendingRegens,   \* MAX_PENDING_REGENS
    PlatformKeyCap,     \* PLATFORM_KEY_REGISTRY_CAP
    PlatformStoreCap,   \* PLATFORM_STORE_CAP
    ServedShellCap,     \* MAX_SERVED_FALLBACK_SHELLS
    Lossy,          \* a command to Valkey may fail
    MaxTime,        \* bound on the clock
    MaxUpdates,     \* bound on revalidateTag calls
    MaxWrites       \* bound on the entries Next writes

Tag == "tag"        \* the one tag of the route's content

(* shared: a registered classic handler on Valkey.  valkey: Valkey without *)
(* one.  emulate: the deploy harness.  plain: neither.                     *)
Modes == {"shared", "partial", "valkey", "emulate", "plain"}

(* asset: the build's artifact for the page, if any; ppr: decidePpr's      *)
(* routeKind; keyed: how many of the template's params allowQuery covers.  *)
Routes == [router: {"app", "pages"}, asset: {"none", "file", "seed", "ppr", "skeleton"},
           handler: BOOLEAN, window: Nat, tags: SUBSET {Tag},
           ppr: {"none", "build-shell", "root-params", "runtime-capture"},
           keyed: {"none", "partial", "full"}, strict: BOOLEAN, edge: BOOLEAN,
           owned: BOOLEAN, runtimeStatic: BOOLEAN, ssgTemplate: BOOLEAN]

(* A request's kind, and the preview or revalidation credential it bears.  *)
Kinds == {"document", "resumed", "head", "rsc", "prefetch", "segment", "data", "dataPrefetch",
          "write", "action"} \X {"none", "draft", "revalidate"}

Regens == {<<"regen", p>> : p \in Pages}    \* re-entries through res.revalidate
Ids == Requests \cup Regens

ASSUME DispatchAssumption ==
    /\ \A s \in Scenarios : /\ s.mode \in Modes /\ s.route \in Routes
                            /\ s.route.asset = "ppr" => s.route.handler
                            /\ s.kinds \subseteq Kinds /\ s.pages \subseteq Pages
    /\ Durations_ \subseteq Durations
    /\ Template \notin Pages
    /\ Requests \cap Regens = {}
    /\ Lossy \in BOOLEAN
    /\ {ShellFillCooldown, MaxPendingRegens, MaxTime, MaxUpdates, MaxWrites} \subseteq Nat
    /\ {PlatformKeyCap, PlatformStoreCap, ServedShellCap} \subseteq Nat \ {0}

VARIABLES
    scenario,       \* the process's configuration and its route
    now,            \* the clock
    marks,          \* the watermarks of the tag
    updates,        \* revalidateTag calls so far
    entries,        \* Valkey's entry under each key
    writes,         \* writes of entries so far
    req,            \* each request's progress through the ladder
    pendingRegens,  \* keys with a regeneration in flight
    platformSeenKeys,       \* keys served before, oldest first
    platformResponseStore,  \* recorded responses, oldest first
    servedFallbackShells,   \* pages given the fallback shell, oldest first
    shellFillLastAttempt,   \* when each page last passed the cooldown
    shellFills,     \* (history) pages a shell fill began for
    background,     \* renders in progress behind a response
    seen            \* (history) of each request: watermark and live entry since it began

shared == <<now, marks, updates, entries, writes>>
registries == <<pendingRegens, platformSeenKeys, platformResponseStore,
                servedFallbackShells, shellFillLastAttempt, shellFills>>
vars == <<scenario, shared, registries, background, req, seen>>

Keys == Pages \cup {Template}
NoEntry == [page |-> Template, lastModified |-> -1, postponed |-> FALSE, segments |-> FALSE]
Never == -1

route == scenario.route
mode == scenario.mode

(* The configuration createDispatcher is given. *)
incrementalCacheShared == mode \in {"shared", "partial"}
partialPrefetching == mode = "partial"
platformCache == mode \in {"shared", "partial", "valkey"}
checkShellStale == platformCache
emulatePlatformCache == mode = "emulate"
entrypointOwnsPprShell == mode = "emulate"

life == [revalidate |-> route.window, expire |-> NoWindow, tags |-> route.tags]

(* What a build leaves on disk for a page or for the template. *)
Seed(key) ==
    IF \/ route.router = "pages"
       \/ route.asset \notin {"seed", "ppr"} /\ route.ppr # "build-shell"
       \/ route.asset \in {"seed", "ppr"} /\ key = Template
       \/ route.asset \notin {"seed", "ppr"} /\ key # Template
    THEN NoEntry
    ELSE [page |-> key, lastModified |-> BuildTime, postponed |-> route.asset # "seed",
          segments |-> TRUE]

(* ---- kinds of requests ------------------------------------------------ *)

Reads == {"document", "resumed", "head", "rsc", "prefetch", "segment", "data", "dataPrefetch"}
isReadMethod(r) == r.kind \in Reads
isRSC(r) == r.kind \in {"rsc", "prefetch", "segment"}
isPagesData(r) == r.kind \in {"data", "dataPrefetch"}
isServerAction(r) == r.kind \in {"action", "resumed"}
isVerifiedPreviewRequest(r) == r.preview # "none"

classifyPprRequest(r) ==
    CASE r.kind \in {"head", "write", "action"} -> "other"
      [] r.kind = "segment" -> "segment-prefetch"
      [] r.kind = "rsc" -> "dynamic-rsc"
      [] r.kind = "prefetch" -> "other"
      [] r.kind = "resumed" -> "noncapturable-document"
      [] OTHER -> "capturable-document"

isPprDocument(r) == classifyPprRequest(r) \in {"capturable-document", "noncapturable-document"}

(* ---- the artifact of the request -------------------------------------- *)

prerender == route.asset \in {"seed", "ppr", "skeleton"}

(* A flight request of a prerendered App page names a variant output,      *)
(* whose handler is the page's.                                            *)
isVariant(r) == /\ route.router = "app"
                /\ \/ route.asset = "seed" /\ isRSC(r)
                   \/ route.asset = "ppr" /\ r.kind = "segment"

seedWithinRevalidateWindow ==
    /\ prerender /\ route.asset # "skeleton"
    /\ route.window = NoWindow \/ now - BuildTime < route.window

serveHandlerlessPrerender == prerender /\ ~route.handler /\ route.owned

serveConcretePrerenderSeed(r) ==
    /\ isReadMethod(r) /\ ~isPagesData(r) /\ ~isVerifiedPreviewRequest(r)
    /\ prerender /\ route.asset # "ppr"
    /\ r.fresh /\ ~r.tagsStale
    /\ ~(emulatePlatformCache /\ route.handler)
    /\ route.owned

servePagesDynamicFallbackShell(r) ==
    /\ IF emulatePlatformCache THEN ~Contains(servedFallbackShells, r.page) ELSE platformCache
    /\ isReadMethod(r) /\ ~isPagesData(r) /\ ~isVerifiedPreviewRequest(r)
    /\ route.asset = "skeleton" /\ route.owned

serveRscPrerenderVariant(r) == isReadMethod(r) /\ isVariant(r) /\ route.owned

serveStaticFile(r) == route.asset = "file" /\ isReadMethod(r)

(* ---- requests --------------------------------------------------------- *)

Idle == [at |-> "idle"]

(* What a request keeps while it is on the ladder. *)
NewRequest(page, kind, preview) ==
    [at |-> "arrived", page |-> page, kind |-> kind, preview |-> preview,
     fresh |-> FALSE, tagsStale |-> FALSE, usable |-> FALSE,
     read |-> <<>>, got |-> NoEntry, result |-> Miss,
     inject |-> "none", stale |-> FALSE, minimal |-> TRUE, capture |-> FALSE,
     record |-> FALSE, lost |-> FALSE]

(* The response: where its content came from, whose page it shows, when    *)
(* that content was stored and for whom it was rendered.                   *)
Answer(q, src, page, time, who) ==
    [at |-> "done", page |-> req[q].page, kind |-> req[q].kind, lost |-> req[q].lost,
     src |-> src, shows |-> page, time |-> time, who |-> who]
Plain(q, src) == Answer(q, src, req[q].page, now, q)
FromEntry(q, src, entry) == Answer(q, src, entry.page, entry.lastModified, "anyone")
FromBuild(q, src) == Answer(q, src, req[q].page, BuildTime, "anyone")

GoTo(q, r) == req' = [req EXCEPT ![q] = r]

(* Insertion into one of the capped registries, the oldest going first. *)
Insert(s, x, cap) == IF Len(s) >= cap THEN Append(Tail(s), x) ELSE Append(s, x)

Init ==
    /\ scenario \in Scenarios
    /\ now = BuildTime + 1
    /\ marks = [t \in {Tag} |-> NoMarks]
    /\ updates = 0
    /\ entries = [k \in Keys |-> NoEntry]
    /\ writes = 0
    /\ req = [q \in Ids |-> Idle]
    /\ pendingRegens = {}
    /\ platformSeenKeys = <<>>
    /\ platformResponseStore = <<>>
    /\ servedFallbackShells = <<>>
    /\ shellFillLastAttempt = [p \in Pages |-> Never]
    /\ shellFills = {}
    /\ background = {}
    /\ seen = [q \in Ids |-> [bar |-> Unset, entry |-> FALSE]]

(* dispatch begins: a speculative data request of a page that is not       *)
(* prerendered is skipped; the seed's window is judged now, its tags after *)
(* an await.                                                               *)
Begin(q, r) ==
    LET fresh == seedWithinRevalidateWindow
    IN  IF r.kind = "dataPrefetch" /\ ~prerender
        THEN [at |-> "done", page |-> r.page, kind |-> r.kind, lost |-> FALSE,
              src |-> "skip", shows |-> r.page, time |-> now, who |-> q]
        ELSE [r EXCEPT !.fresh = fresh,
                       !.at = IF fresh /\ checkShellStale /\ route.tags # {}
                              THEN "seedTags" ELSE "static"]

Arrive(q) ==
    /\ req[q].at \in {"idle", "done"}
    /\ \E p \in scenario.pages, k \in scenario.kinds : GoTo(q, Begin(q, NewRequest(p, k[1], k[2])))
    /\ UNCHANGED <<scenario, shared, registries, background>>

(* hasTagUpdates: any watermark makes build content stale, and so does a   *)
(* failure to read them.                                                   *)
hasTagUpdates(failed) == failed \/ \E t \in route.tags : marks[t] # NoMarks

Failures == {FALSE} \cup (IF Lossy THEN {TRUE} ELSE {})

SeedTags(q) ==
    /\ req[q].at = "seedTags"
    /\ \E failed \in Failures :
           GoTo(q, [req[q] EXCEPT !.at = "static", !.tagsStale = hasTagUpdates(failed)])
    /\ UNCHANGED <<scenario, shared, registries, background>>

(* ---- reads of the shared cache ---------------------------------------- *)

(* A read of key through getStored, getPeek, getSeed or Next's get, after  *)
(* which the request goes on at then.                                      *)
Reading(r, key, via, then) == [r EXCEPT !.at = "reading", !.read = <<key, via, then>>]

ReadEntry(q) ==
    /\ req[q].at = "reading"
    /\ LET key == req[q].read[1]
           via == req[q].read[2]
           stored == IF via = "getSeed" THEN NoEntry ELSE entries[key]
           got == IF stored = NoEntry /\ via # "getStored" THEN Seed(key) ELSE stored
       IN  GoTo(q, [req[q] EXCEPT !.at = "judging", !.got = got])
    /\ UNCHANGED <<scenario, shared, registries, background>>

(* A failed command is caught and makes the read a miss. *)
ReadMarks(q) ==
    /\ req[q].at = "judging"
    /\ \E failed \in Failures :
           LET r == req[q]
               result == IF failed \/ r.got = NoEntry THEN Miss
                         ELSE readEntry(r.got, life, marks, now, r.read[2] # "get")
           IN  GoTo(q, [r EXCEPT !.at = r.read[3], !.result = result, !.got = NoEntry,
                                 !.read = <<>>, !.lost = @ \/ failed])
    /\ UNCHANGED <<scenario, shared, registries, background>>

(* ---- the static part of the ladder ------------------------------------ *)

shellFillCooldownAllows(p) ==
    \/ shellFillLastAttempt[p] = Never
    \/ now - shellFillLastAttempt[p] >= ShellFillCooldown

productionOwnsShellFill == incrementalCacheShared /\ platformCache

isRejectedWrite(r) == prerender /\ ~isReadMethod(r) /\ (~route.handler \/ route.router = "pages")

(* Fault: the seed is served before the shared cache is asked. *)
StaticStep_SeedFirst(q, r) ==
    IF serveConcretePrerenderSeed(r) /\ ~isRSC(r) THEN FromBuild(q, "seed")
    ELSE IF serveHandlerlessPrerender THEN FromBuild(q, "handlerless")
    ELSE [r EXCEPT !.at = "route"]

(* What follows the shell fill: a stored entry supersedes the seed and the *)
(* seeded segment; then the artifact itself; then the route.               *)
StaticStep(q, r) ==
    LET servesSeed == serveConcretePrerenderSeed(r) \/ serveHandlerlessPrerender
    IN  IF isRejectedWrite(r) THEN Plain(q, "405")
        ELSE IF /\ prerender /\ route.asset # "ppr" /\ servesSeed /\ platformCache
                /\ isReadMethod(r) /\ ~isPagesData(r) /\ ~isRSC(r)
        THEN Reading(r, r.page, "getStored", "seedStored")
        ELSE IF /\ serveRscPrerenderVariant(r) /\ incrementalCacheShared /\ r.kind = "segment"
        THEN Reading(r, r.page, "getStored", "segmentStored")
        ELSE IF servePagesDynamicFallbackShell(r) /\ ~emulatePlatformCache
        THEN Reading(r, r.page, "getStored", "fallbackStored")
        ELSE IF servePagesDynamicFallbackShell(r) THEN FromBuild(q, "skeleton")
        ELSE IF serveStaticFile(r) THEN FromBuild(q, "file")
        ELSE IF serveRscPrerenderVariant(r) THEN FromBuild(q, "variant")
        ELSE IF serveConcretePrerenderSeed(r) THEN FromBuild(q, "seed")
        ELSE IF serveHandlerlessPrerender /\ isReadMethod(r) THEN FromBuild(q, "handlerless")
        ELSE [r EXCEPT !.at = "route"]

(* The cooldown is consulted, and so recorded, before the request is known *)
(* to be a segment prefetch.                                               *)
FillShell(r) ==
    LET asked == productionOwnsShellFill /\ ~entrypointOwnsPprShell /\ ~isRejectedWrite(r)
        allowed == asked /\ shellFillCooldownAllows(r.page)
        fills == /\ entrypointOwnsPprShell \/ allowed
                 /\ ~isRejectedWrite(r)
                 /\ serveRscPrerenderVariant(r) /\ r.kind = "segment"
    IN  /\ shellFillLastAttempt' = IF allowed THEN [shellFillLastAttempt EXCEPT ![r.page] = now]
                                              ELSE shellFillLastAttempt
        /\ shellFills' = IF fills THEN shellFills \cup {r.page} ELSE shellFills
        /\ background' = IF fills THEN background \cup {<<"fill", r.page>>} ELSE background

Static(q) ==
    LET r == req[q]
        step == StaticStep(q, r)
    IN  /\ r.at = "static"
        /\ FillShell(r)
        /\ GoTo(q, step)
        /\ servedFallbackShells' =
               IF step.at = "done" /\ step.src = "skeleton"
               THEN Insert(servedFallbackShells, r.page, ServedShellCap)
               ELSE servedFallbackShells
        /\ UNCHANGED <<scenario, shared, pendingRegens, platformSeenKeys, platformResponseStore>>

(* The reads of the static part return: the stored entry if there is one,  *)
(* stale or not, else the artifact.                                        *)
StaticStored(q) ==
    LET r == req[q]
    IN  /\ r.at \in {"seedStored", "segmentStored", "fallbackStored"}
        /\ GoTo(q, IF r.result.hit /\ (r.at = "segmentStored" => r.result.entry.segments)
                   THEN FromEntry(q, "stored", r.result.entry)
                   ELSE CASE r.at = "segmentStored" -> FromBuild(q, "variant")
                          [] r.at = "fallbackStored" -> FromBuild(q, "skeleton")
                          [] r.at = "seedStored" ->
                                 FromBuild(q, IF serveConcretePrerenderSeed(r) THEN "seed"
                                              ELSE "handlerless"))
        /\ UNCHANGED <<scenario, shared, registries, background>>

(* ---- the route -------------------------------------------------------- *)

pprInfo == route.ppr = "build-shell" /\ ~(prerender /\ route.asset # "ppr")
platformFullyKeyed == route.keyed = "full"
platformKey(r) == IF platformFullyKeyed THEN r.page ELSE Template

platformStoreEligible(r) ==
    /\ route.ppr \in {"runtime-capture", "root-params"}
    /\ emulatePlatformCache /\ isPprDocument(r)

Recorded(key) == \E i \in DOMAIN platformResponseStore : platformResponseStore[i].key = key
Replayed(key) == platformResponseStore[CHOOSE i \in DOMAIN platformResponseStore :
                                           platformResponseStore[i].key = key]

(* A Map: with the store full the oldest goes, and a key keeps its place. *)
storePlatformResponse(e) ==
    LET s == IF Len(platformResponseStore) >= PlatformStoreCap
             THEN Tail(platformResponseStore) ELSE platformResponseStore
    IN  IF \E i \in DOMAIN s : s[i].key = e.key
        THEN [i \in DOMAIN s |-> IF s[i].key = e.key THEN e ELSE s[i]]
        ELSE Append(s, e)

(* The shell decision follows, unless Next owns the shell. *)
EntersShell(r) == /\ pprInfo /\ ~entrypointOwnsPprShell /\ ~partialPrefetching

shellWithinWindow == route.window = NoWindow \/ now - BuildTime < route.window

(* A verified preview leaves the strict 404; another pool's route leaves   *)
(* this one; the seen key is recorded at first sight.                      *)
RouteStep(q, r) ==
    LET key == platformKey(r)
        seenKey == Contains(platformSeenKeys, key)
        next == [r EXCEPT !.record = platformFullyKeyed /\ ~seenKey /\ platformStoreEligible(r)]
    IN  IF seenKey /\ platformFullyKeyed /\ platformStoreEligible(r) /\ Recorded(key)
        THEN LET s == Replayed(key) IN Answer(q, "replay", s.shows, s.time, s.who)
        ELSE [next EXCEPT !.at = IF ~EntersShell(r) THEN "decide"
                                 ELSE IF checkShellStale /\ route.tags # {} THEN "shellTags"
                                 ELSE "shell"]

Route(q) ==
    LET r == req[q]
        reaches == /\ ~(route.strict /\ ~isVerifiedPreviewRequest(r))
                   /\ route.owned /\ route.handler /\ ~route.edge
    IN  /\ r.at = "route"
        /\ GoTo(q, CASE route.strict /\ ~isVerifiedPreviewRequest(r) -> Plain(q, "404")
                     [] OTHER ->
                          IF ~route.owned THEN [r EXCEPT !.at = "proxy"]
                          ELSE IF ~route.handler THEN Plain(q, "404")
                          ELSE IF route.edge THEN [r EXCEPT !.at = "edge"]
                          ELSE RouteStep(q, r))
        /\ platformSeenKeys' =
               IF reaches /\ route.keyed # "none" /\ ~Contains(platformSeenKeys, platformKey(r))
               THEN Insert(platformSeenKeys, platformKey(r), PlatformKeyCap)
               ELSE platformSeenKeys
        /\ UNCHANGED <<scenario, shared, pendingRegens, platformResponseStore,
                       servedFallbackShells, shellFillLastAttempt, shellFills, background>>

(* Another pool, or the edge sandbox, answers or fails or runs out of time. *)
Elsewhere(q) ==
    /\ req[q].at \in {"proxy", "edge"}
    /\ \E src \in {"elsewhere", "502", "504"} : GoTo(q, Plain(q, src))
    /\ UNCHANGED <<scenario, shared, registries, background>>

ShellTags(q) ==
    /\ req[q].at = "shellTags"
    /\ \E failed \in Failures :
           GoTo(q, [req[q] EXCEPT !.at = "shell", !.tagsStale = hasTagUpdates(failed)])
    /\ UNCHANGED <<scenario, shared, registries, background>>

(* Fault: the shell is used although one of its tags was revalidated. *)
shellUsable_AnyTags(r) == ~isServerAction(r) /\ shellWithinWindow

shellUsable(r) == ~isServerAction(r) /\ ~r.tagsStale /\ shellWithinWindow

readsPlatformCache(r) == platformCache /\ ~isServerAction(r) /\ isReadMethod(r)

Shell(q) ==
    LET r == [req[q] EXCEPT !.usable = shellUsable(req[q]), !.result = Miss]
    IN  /\ req[q].at = "shell"
        /\ GoTo(q, IF readsPlatformCache(r) THEN Reading(r, r.page, "getStored", "shellStored")
                   ELSE [r EXCEPT !.at = "decide"])
        /\ UNCHANGED <<scenario, shared, registries, background>>

(* The stored entry of the page itself; then the page's seed; then the     *)
(* template's seed.                                                        *)
ShellStored(q) ==
    LET r == req[q]
    IN  /\ r.at = "shellStored"
        /\ GoTo(q, IF r.result.hit \/ ~r.usable THEN [r EXCEPT !.at = "decide"]
                   ELSE Reading(r, r.page, "getPeek", "shellSeed"))
        /\ UNCHANGED <<scenario, shared, registries, background>>

(* Fault: the template's rung reads stored entries first, as a page's does. *)
ShellSeed_Stored(q) ==
    LET r == req[q]
    IN  /\ r.at = "shellSeed"
        /\ GoTo(q, IF r.result.hit THEN [r EXCEPT !.at = "decide"]
                   ELSE Reading(r, Template, "getPeek", "decide"))
        /\ UNCHANGED <<scenario, shared, registries, background>>

ShellSeed(q) ==
    LET r == req[q]
    IN  /\ r.at = "shellSeed"
        /\ GoTo(q, IF r.result.hit THEN [r EXCEPT !.at = "decide"]
                   ELSE Reading(r, Template, "getSeed", "decide"))
        /\ UNCHANGED <<scenario, shared, registries, background>>

(* ---- the invocation --------------------------------------------------- *)

forceNonMinimal(r) ==
    LET kind == classifyPprRequest(r)
        shellOwner == route.ppr \in {"build-shell", "root-params"}
    IN  \/ route.ppr = "runtime-capture" /\ kind # "capturable-document"
        \/ /\ partialPrefetching /\ incrementalCacheShared
           /\ route.ppr = "runtime-capture" /\ platformFullyKeyed
        \/ /\ shellOwner
           /\ \/ entrypointOwnsPprShell \/ partialPrefetching
              \/ /\ incrementalCacheShared /\ r.inject = "none"
                 /\ ~isPprDocument(r) \/ r.stale \/ route.ppr = "root-params"

(* Fault: a withheld shell does not opt the document into the capture. *)
capturePostponedState_NoShell(r) ==
    /\ ~forceNonMinimal(r)
    /\ classifyPprRequest(r) = "capturable-document"
    /\ route.ppr = "runtime-capture"

capturePostponedState(r) ==
    /\ ~forceNonMinimal(r)
    /\ classifyPprRequest(r) = "capturable-document"
    /\ \/ incrementalCacheShared /\ route.ppr = "build-shell" /\ r.inject = "none" /\ ~r.stale
       \/ route.ppr = "runtime-capture"

(* Next itself caches a concrete prerender, an instance of an SSG template *)
(* and a page generated at runtime.                                        *)
minimalMode(r) ==
    ~ \/ forceNonMinimal(r)
      \/ isVerifiedPreviewRequest(r)
      \/ (emulatePlatformCache \/ incrementalCacheShared) /\ prerender /\ route.asset # "ppr"
      \/ /\ emulatePlatformCache \/ incrementalCacheShared
         /\ route.ppr = "none" /\ route.router = "app" /\ route.ssgTemplate
      \/ /\ incrementalCacheShared /\ route.asset = "none" /\ route.ppr = "none"
         /\ route.router = "app" /\ route.runtimeStatic

Invoking(r) ==
    LET ready == [r EXCEPT !.minimal = minimalMode(r),
                           !.capture = capturePostponedState(r) /\ minimalMode(r)]
    IN  IF ready.minimal \/ ~incrementalCacheShared \/ isVerifiedPreviewRequest(r)
        THEN [ready EXCEPT !.at = "invoked"]
        ELSE Reading(ready, r.page, "get", "next")

mayRegenerate(r) ==
    /\ ~isServerAction(r) /\ isReadMethod(r)
    /\ r.page \notin pendingRegens
    /\ Cardinality(pendingRegens) < MaxPendingRegens

(* The entry or the shell in hand is served, injected, or withheld for a   *)
(* live render, behind which a process without a shared handler fills the  *)
(* cache by calling its own front door with the revalidation credential.   *)
Decide(q) ==
    LET r == req[q]
        hit == EntersShell(r) /\ r.result.hit
        entry == r.result.entry
        stale == hit /\ r.result.isStale
        staleDocument == stale /\ isPprDocument(r)
        dynamicRsc == classifyPprRequest(r) = "dynamic-rsc"
        injects == /\ EntersShell(r) /\ ~dynamicRsc /\ ~stale
                   /\ (hit /\ entry.postponed) \/ r.usable
        regenerates == /\ EntersShell(r) /\ ~injects
                       /\ ~incrementalCacheShared /\ ~dynamicRsc /\ ~staleDocument
                       /\ mayRegenerate(r)
        injected == IF ~injects THEN "none"
                    ELSE IF hit /\ entry.postponed /\ entry.lastModified # BuildTime THEN "entry"
                    ELSE "build"
        invoked == Invoking([r EXCEPT !.inject = injected, !.stale = stale,
                                      !.got = IF injected = "entry" THEN entry ELSE NoEntry])
        regen == <<"regen", r.page>>
        reentry == NewRequest(r.page, "document", "revalidate")
    IN  /\ r.at = "decide"
        /\ \/ /\ hit /\ r.kind = "segment" /\ entry.segments
              /\ GoTo(q, FromEntry(q, "stored", entry))
              /\ UNCHANGED pendingRegens
           \/ /\ ~(hit /\ r.kind = "segment" /\ entry.segments)
              /\ hit /\ ~staleDocument /\ ~entry.postponed /\ isPprDocument(r)
              /\ GoTo(q, FromEntry(q, IF entry.lastModified = BuildTime THEN "seed" ELSE "stored",
                                   entry))
              /\ UNCHANGED pendingRegens
           \/ /\ ~(hit /\ r.kind = "segment" /\ entry.segments)
              /\ ~(hit /\ ~staleDocument /\ ~entry.postponed /\ isPprDocument(r))
              /\ pendingRegens' = IF regenerates THEN pendingRegens \cup {r.page}
                                                 ELSE pendingRegens
              /\ req' = IF regenerates
                        THEN [req EXCEPT ![q] = invoked, ![regen] = Begin(regen, reentry)]
                        ELSE [req EXCEPT ![q] = invoked]
        /\ UNCHANGED <<scenario, shared, platformSeenKeys, platformResponseStore,
                       servedFallbackShells, shellFillLastAttempt, shellFills, background>>

(* ---- Next ------------------------------------------------------------- *)

(* An entry Next writes: a PPR page may postpone. *)
NewEntries(page) ==
    {newEntry(page, postponed, route.router = "app", now) :
        postponed \in IF route.ppr = "build-shell" THEN BOOLEAN ELSE {FALSE}}

(* The keys Next may choose: a page's own, and for a page of a fallback    *)
(* shell its template's.                                                   *)
WriteKeys(page) == {page} \cup (IF route.asset = "none" /\ route.ppr = "build-shell"
                                THEN {Template} ELSE {})

Write(page) ==
    /\ writes < MaxWrites
    /\ writes' = writes + 1
    /\ \E e \in NewEntries(page), key \in WriteKeys(page) : entries' = [entries EXCEPT ![key] = e]

(* What the document of an invocation is made of.  A minimal render of a   *)
(* PPR document that has nothing to resume ends at its shell.              *)
InvocationSource(r) ==
    IF r.inject # "none" /\ isPprDocument(r) THEN "resumed"
    ELSE IF r.capture \/ ~r.minimal \/ route.ppr = "none" \/ ~isPprDocument(r) THEN "rendered"
    ELSE "shellOnly"

Rendered(q) ==
    LET r == req[q]
        src == InvocationSource(r)
    IN  Answer(q, src,
               IF src = "resumed" /\ r.got # NoEntry THEN r.got.page ELSE r.page,
               IF src = "resumed" THEN (IF r.got # NoEntry THEN r.got.lastModified ELSE BuildTime)
               ELSE now,
               q)

(* The handler answers.  An on-demand revalidation also writes its entry   *)
(* through the registered handler.  A recorded response is kept.           *)
InvocationEnds(q) ==
    LET r == req[q]
        answer == Rendered(q)
    IN  /\ r.at = "invoked"
        /\ GoTo(q, answer)
        /\ IF r.preview = "revalidate" /\ incrementalCacheShared /\ writes < MaxWrites
           THEN Write(r.page)
           ELSE UNCHANGED <<entries, writes>>
        /\ platformResponseStore' =
               IF r.record
               THEN storePlatformResponse([key |-> platformKey(r), shows |-> answer.shows,
                                           time |-> answer.time, who |-> answer.who])
               ELSE platformResponseStore
        /\ UNCHANGED <<scenario, now, marks, updates, pendingRegens, platformSeenKeys,
                       servedFallbackShells, shellFillLastAttempt, shellFills, background>>

(* The handler throws, or the invocation runs out of time. *)
InvocationFails(q) ==
    /\ req[q].at = "invoked"
    /\ \E src \in {"500", "504"} : GoTo(q, Plain(q, src))
    /\ UNCHANGED <<scenario, shared, registries, background>>

(* Next's own read of the page: a fresh entry is the answer, a stale one   *)
(* too while a render behind it replaces it, anything else is rendered now *)
(* and written.                                                            *)
NextServes(q) ==
    LET r == req[q]
        verdict == IF r.result.hit THEN NextFreshness(r.result.lastModified, life, now)
                                   ELSE "expired"
    IN  /\ r.at = "next"
        /\ \/ /\ verdict \in {"fresh", "stale"}
              /\ GoTo(q, FromEntry(q, verdict, r.result.entry))
              /\ background' = IF verdict = "stale" THEN background \cup {<<"regenerate", r.page>>}
                                                   ELSE background
              /\ UNCHANGED <<entries, writes>>
           \/ /\ verdict = "expired"
              /\ GoTo(q, Plain(q, "rendered"))
              /\ IF writes < MaxWrites THEN Write(r.page)
                                       ELSE UNCHANGED <<entries, writes>>
              /\ UNCHANGED background
        /\ UNCHANGED <<scenario, now, marks, updates, registries>>

(* A render behind a response ends, with an entry or without. *)
BackgroundEnds ==
    /\ \E job \in background :
           /\ background' = background \ {job}
           /\ \/ incrementalCacheShared /\ Write(job[2])
              \/ UNCHANGED <<entries, writes>>
    /\ UNCHANGED <<scenario, now, marks, updates, registries, req>>

(* scheduleRegen's promise settles, whatever the re-entry was answered. *)
RegenSettles(p) ==
    LET regen == <<"regen", p>>
    IN  /\ req[regen].at = "done"
        /\ GoTo(regen, Idle)
        /\ pendingRegens' = pendingRegens \ {p}
        /\ UNCHANGED <<scenario, shared, platformSeenKeys, platformResponseStore,
                       servedFallbackShells, shellFillLastAttempt, shellFills, background>>

(* ---- the shared cache ------------------------------------------------- *)

(* Without Valkey there is no watermark to write. *)
revalidateTag ==
    /\ platformCache
    /\ updates < MaxUpdates
    /\ updates' = updates + 1
    /\ \E d \in Durations_ :
           marks' = [marks EXCEPT ![Tag] = mergeTagState(@, computeTagUpdate(now, d), now)]
    /\ UNCHANGED <<scenario, now, entries, writes, registries, background, req>>

(* The entry's key expires, or Valkey drops it. *)
Evict ==
    /\ \E k \in Keys : /\ entries[k] # NoEntry
                       /\ entries' = [entries EXCEPT ![k] = NoEntry]
    /\ UNCHANGED <<scenario, now, marks, updates, writes, registries, background, req>>

Tick ==
    /\ now < MaxTime
    /\ now' = now + 1
    /\ UNCHANGED <<scenario, marks, updates, entries, writes, registries, background, req>>

(* ---- the specification ------------------------------------------------ *)

Progress(q) ==
    \/ SeedTags(q) \/ ReadEntry(q) \/ ReadMarks(q) \/ Static(q) \/ StaticStored(q)
    \/ Route(q) \/ Elsewhere(q) \/ ShellTags(q) \/ Shell(q) \/ ShellStored(q)
    \/ ShellSeed(q) \/ Decide(q) \/ InvocationEnds(q) \/ InvocationFails(q) \/ NextServes(q)

(* The watermark in force for the route's content, and whether a read of   *)
(* the page's stored entry would find it.                                  *)
Bar == IF marks[Tag].expired # Unset /\ marks[Tag].expired <= now /\ route.tags # {}
       THEN marks[Tag].expired ELSE Unset
Live(p) == /\ entries[p] # NoEntry
           /\ ~areTagsExpired(route.tags, entries[p].lastModified, marks, now)

Lower(a, b) == IF a < b THEN a ELSE b

Done(q) == req[q].at = "done"

Observe ==
    seen' = [q \in Ids |->
                 IF req'[q] = Idle THEN [bar |-> Unset, entry |-> FALSE]
                 ELSE IF req'[q] = req[q] /\ Done(q) THEN seen[q]
                 ELSE IF req[q] = Idle \/ Done(q) THEN [bar |-> Bar, entry |-> Live(req'[q].page)]
                 ELSE [bar |-> Lower(seen[q].bar, Bar'),
                       entry |-> /\ seen[q].entry /\ Live(req[q].page)'
                                 /\ entries'[req[q].page] = entries[req[q].page]]]

Step ==
    \/ \E q \in Requests : Arrive(q)
    \/ \E q \in Ids : Progress(q)
    \/ \E p \in Pages : RegenSettles(p)
    \/ BackgroundEnds
    \/ revalidateTag \/ Evict \/ Tick

Next == Step /\ Observe

Spec == Init /\ [][Next]_vars

(* ---- properties ------------------------------------------------------- *)

isDocument(q) == req[q].kind \in {"document", "resumed"}
FromCache == {"seed", "stored", "resumed", "fresh", "stale"}

Stages == {"idle", "arrived", "seedTags", "static", "reading", "judging", "seedStored",
           "segmentStored", "fallbackStored", "route", "proxy", "edge", "shellTags", "shell",
           "shellStored", "shellSeed", "decide", "invoked", "next", "done"}

(* The state has its types, and the registries of createDispatcher stay    *)
(* within their caps with no key twice.                                    *)
TypeOK ==
    /\ scenario \in Scenarios
    /\ now \in 0..MaxTime /\ updates \in 0..MaxUpdates /\ writes \in 0..MaxWrites
    /\ marks \in [{Tag} -> TagState]
    /\ \A k \in Keys : entries[k] = NoEntry \/ entries[k] \in StoredEntry(Keys)
    /\ \A q \in Ids : req[q].at \in Stages
    /\ Len(platformSeenKeys) <= PlatformKeyCap /\ IsInjective(platformSeenKeys)
    /\ Len(platformResponseStore) <= PlatformStoreCap
    /\ Len(servedFallbackShells) <= ServedShellCap

(* A document that comes from the cache or the build was stored no earlier *)
(* than a hard revalidation of its tag that was in force from the moment   *)
(* the request began (checkShellStale and the reads of dispatch).  The     *)
(* artifacts of routes without a handler are exempt: nothing can replace   *)
(* them.                                                                   *)
DocumentsRespectInvalidation ==
    \A q \in Requests :
        (Done(q) /\ isDocument(q) /\ req[q].src \in FromCache) => req[q].time >= seen[q].bar

(* "A stored entry supersedes the build seed": while one live entry of the *)
(* page is in the shared cache from a document's arrival to its answer,    *)
(* the answer is not the build's, unless the read of the entry failed.     *)
(* (One that is replaced and then invalidated between the two reads of the *)
(* handler is a miss, although its successor is live.)                     *)
StoredSupersedesSeed ==
    \A q \in Requests :
        (Done(q) /\ isDocument(q) /\ seen[q].entry /\ ~req[q].lost /\ platformCache)
        => ~(req[q].time = BuildTime /\ req[q].src \in {"seed", "skeleton", "handlerless", "resumed"})

(* The content of a response is of the page that was asked for, or of the  *)
(* template that all pages share: the entry a sibling wrote under the      *)
(* template's key is never resumed (dispatch reads that key from the build *)
(* only).                                                                  *)
NoSiblingContent == \A q \in Requests : Done(q) => req[q].shows \in {req[q].page, Template}

(* A capturable document of a PPR route is never left at its bare shell    *)
(* when the cache is shared: the shell is injected, captured and resumed,  *)
(* or Next renders the whole page (decidePprInvocation).                   *)
PprDocumentsComplete ==
    \A q \in Requests :
        (Done(q) /\ req[q].kind = "document" /\ incrementalCacheShared)
        => req[q].src # "shellOnly"
=============================================================================
