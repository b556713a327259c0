---------------------------- MODULE DispatchProofs ----------------------------
(***************************************************************************)
(* What the dispatcher answers with, proved for any scenarios, requests,   *)
(* pages, caps, clock and number of updates and writes: no document older  *)
(* than a revalidation that was in force when its request began, no build  *)
(* artifact in place of a live entry, no page of a sibling, and no bare    *)
(* shell with a shared cache.                                              *)
(*                                                                         *)
(* And of the exchange behind an invocation (Invocation.tla): it never     *)
(* passes off part of a body as the whole, and waits for its after() work, *)
(* for bodies of any length, any number of jobs and every kind.            *)
(***************************************************************************)
EXTENDS Dispatch, Invocation, TLAPS

(* The fields of a request on the ladder. *)
RequestFields == {"at", "page", "kind", "preview", "fresh", "tagsStale", "usable", "read", "got",
                  "result", "inject", "stale", "minimal", "capture", "record", "lost"}

(* Stages at which a request rests while it is on the ladder. *)
OnLadder == Stages \ {"idle", "arrived", "done"}

(* The reads of dispatch: the key, how it is read, and where the request goes on. *)
Readings(p) == {<<p, "getStored", "seedStored">>, <<p, "getStored", "segmentStored">>,
                <<p, "getStored", "fallbackStored">>, <<p, "getStored", "shellStored">>,
                <<p, "getPeek", "shellSeed">>, <<Template, "getSeed", "decide">>,
                <<p, "get", "next">>}

(* A request that is about to read the cache for the shell's sake, or has. *)
ReadsFor(r, stages) ==
  r.at \in stages \/ (r.at \in {"reading", "judging"} /\ r.read[3] \in stages)

(* What a request holds is of its page or of the template. *)
Own(r) ==
  /\ DOMAIN r = RequestFields /\ r.at \in OnLadder /\ r.page \in Pages
  /\ r.at \in {"reading", "judging"} => r.read \in Readings(r.page)
  /\ r.got.page \in {r.page, Template} /\ r.got.lastModified \in Int
  /\ r.got # NoEntry => r.got.lastModified >= 0
  /\ r.result.hit => /\ r.result.entry.page \in {r.page, Template}
                     /\ r.result.entry.lastModified \in Nat
  /\ r.record => platformFullyKeyed

(* What it may still serve was stored after the watermark of its whole life. *)
Current(r, s) ==
  /\ s.bar \in Int
  /\ r.at # "seedTags" /\ r.fresh /\ ~r.tagsStale => s.bar <= BuildTime
  /\ r.at = "shell" /\ ~r.tagsStale => s.bar <= BuildTime
  /\ r.usable => s.bar <= BuildTime
  /\ r.result.hit => s.bar <= r.result.entry.lastModified
  /\ r.at = "invoked" /\ r.inject # "none" =>
        s.bar <= IF r.got # NoEntry THEN r.got.lastModified ELSE BuildTime

(* While a live entry stands, the reads find it. *)
Superseding(r, s) ==
  /\ r.kind = "resumed" =>
        /\ ~ReadsFor(r, {"shellStored", "shellSeed"})
        /\ ReadsFor(r, {"decide"}) /\ EntersShell(r) =>
              r.at = "decide" /\ ~r.result.hit /\ ~r.usable
  /\ platformCache /\ s.entry /\ ~r.lost =>
        /\ r.at \in {"seedStored", "fallbackStored", "shellStored"} =>
              r.result.hit /\ r.result.entry.lastModified > BuildTime
        /\ ~ReadsFor(r, {"shellSeed"}) /\ (ReadsFor(r, {"decide"}) => r.at = "decide")
        /\ r.at = "decide" /\ EntersShell(r) /\ r.kind = "document" =>
              r.result.hit /\ r.result.entry.lastModified > BuildTime
        /\ r.at = "invoked" /\ r.kind \in {"document", "resumed"} /\ r.inject # "none" =>
              r.got # NoEntry /\ r.got.lastModified > BuildTime

(* The invocation of a document completes it. *)
Completing(r) ==
  r.at = "invoked" /\ r.kind = "document" /\ incrementalCacheShared =>
      InvocationSource(r) # "shellOnly"

(* An answer, once given, satisfies the four properties. *)
Answered(r, s) ==
  /\ r.at = "done" /\ r.shows \in {r.page, Template}
  /\ r.kind \in {"document", "resumed"} /\ r.src \in FromCache => r.time >= s.bar
  /\ r.kind \in {"document", "resumed"} /\ s.entry /\ ~r.lost /\ platformCache =>
        ~(r.time = BuildTime /\ r.src \in {"seed", "skeleton", "handlerless", "resumed"})
  /\ r.kind = "document" /\ incrementalCacheShared => r.src # "shellOnly"

(* A request is idle, answered, or on the ladder. *)
Fits(r, s) ==
  \/ r = Idle
  \/ Answered(r, s)
  \/ Own(r) /\ Current(r, s) /\ Superseding(r, s) /\ Completing(r)

(* An entry that has been live is the one that is read. *)
Found(r, s) ==
  r.at \in OnLadder /\ s.entry =>
      /\ Live(r.page)
      /\ r.at = "judging" /\ r.read[2] = "getStored" => r.got = entries[r.page]

(* The shared cache holds what Next wrote since the build, under a page's  *)
(* key only that page's.                                                   *)
Cached ==
  /\ DOMAIN entries = Keys
  /\ \A k \in Keys : /\ entries[k].page \in Keys /\ entries[k].lastModified \in Int
                     /\ entries[k] # NoEntry => /\ entries[k].lastModified > BuildTime
                                                /\ k \in Pages => entries[k].page = k

(* Renders behind a response are of pages. *)
Behind == \A job \in background : job[2] \in Pages

(* A recorded response is of the page its key stands for. *)
Responses == [key: Keys, shows: Keys, time: Int, who: Ids]
Recordings ==
  /\ platformResponseStore \in Seq(Responses)
  /\ \A i \in DOMAIN platformResponseStore :
        platformResponseStore[i].shows \in {platformResponseStore[i].key, Template}

Stored == Cached /\ Behind /\ Recordings

(* The clock and the watermarks; without Valkey there are none. *)
Clocked ==
  /\ scenario \in Scenarios
  /\ now \in Nat /\ now > BuildTime
  /\ marks \in [{Tag} -> TagState] /\ marks[Tag].at <= now
  /\ ~platformCache => marks[Tag] = NoMarks

(* A regeneration in flight is pending. *)
Regenerating == \A p \in Pages : req[<<"regen", p>>] # Idle => p \in pendingRegens

(* Every request fits, and has found what stood. *)
Fitting ==
  /\ DOMAIN req = Ids /\ DOMAIN seen = Ids
  /\ \A q \in Ids : Fits(req[q], seen[q]) /\ Found(req[q], seen[q])

(* The inductive invariant. *)
DispatchInv == Clocked /\ Stored /\ Regenerating /\ Fitting

-------------------------------------------------------------------------------
(* Frames. *)

Ladder(r, s) == Own(r) /\ Current(r, s) /\ Superseding(r, s) /\ Completing(r)

(* A later watermark or a lost entry asks for less. *)
LEMMA LadderWeakens ==
  ASSUME NEW r, NEW s, NEW s2, Ladder(r, s), s2.bar \in Int, s2.bar <= s.bar, s2.entry => s.entry
  PROVE  Ladder(r, s2)
<1>1. Current(r, s2)
  <2>1. (IF r.got # NoEntry THEN r.got.lastModified ELSE BuildTime) \in Int
    BY DEF Ladder, Own, BuildTime
  <2> QED
    BY <2>1 DEF Ladder, Current, Own, BuildTime
<1>2. Superseding(r, s2)
  BY DEF Ladder, Superseding
<1> QED
  BY <1>1, <1>2 DEF Ladder

(* The watermark in force is a moment; without a platform cache or tags    *)
(* there is none.                                                          *)
LEMMA BarType ==
  ASSUME Clocked
  PROVE  Bar \in Nat /\ (~platformCache \/ route.tags = {} => Bar = BuildTime)
BY DEF Clocked, Bar, TagState, NoMarks, Unset, BuildTime

(* What Observe remembers of a request on the ladder. *)
LEMMA Observed ==
  ASSUME Observe, NEW q \in Ids, req[q].at \in OnLadder, req'[q] # Idle,
         seen[q].bar \in Int, Bar' \in Int
  PROVE  /\ seen'[q].bar \in Int /\ seen'[q].bar <= seen[q].bar /\ seen'[q].bar <= Bar'
         /\ seen'[q].entry => /\ seen[q].entry /\ Live(req[q].page)'
                              /\ entries'[req[q].page] = entries[req[q].page]
<1>1. req[q] # Idle /\ ~Done(q) /\ req'[q] # Idle
  BY DEF Idle, Done, OnLadder
<1>2. seen'[q] = [bar |-> Lower(seen[q].bar, Bar'),
                  entry |-> /\ seen[q].entry /\ Live(req[q].page)'
                            /\ entries'[req[q].page] = entries[req[q].page]]
  BY <1>1 DEF Observe
<1>3. Lower(seen[q].bar, Bar') \in Int /\ Lower(seen[q].bar, Bar') <= seen[q].bar
      /\ Lower(seen[q].bar, Bar') <= Bar'
  BY DEF Lower
<1> HIDE DEF Lower
<1> QED
  BY <1>2, <1>3

(* What Observe remembers of a request that begins: the bar and the entry  *)
(* of that moment.                                                         *)
LEMMA ObservedBegin ==
  ASSUME Observe, NEW q \in Ids, req[q] = Idle \/ Done(q), req'[q].at \in OnLadder
  PROVE  seen'[q].bar = Bar /\ (seen'[q].entry => Live(req'[q].page))
<1>1. req'[q] # Idle /\ ~(req'[q] = req[q] /\ Done(q))
  BY DEF Idle, Done, OnLadder
<1>2. seen'[q] = [bar |-> Bar, entry |-> Live(req'[q].page)]
  BY <1>1 DEF Observe
<1> QED
  BY <1>2

(* An answer that stands keeps what was seen until it was given. *)
LEMMA ObservedDone ==
  ASSUME Observe, NEW q \in Ids, Done(q), req'[q] = req[q]
  PROVE  seen'[q] = seen[q]
BY DEF Observe, Done, Idle

(* The properties of a request do not depend on anything but the scenario. *)
LEMMA LadderPrimed ==
  ASSUME UNCHANGED scenario, NEW q \in Ids, Ladder(req'[q], seen'[q])
  PROVE  Ladder(req[q], seen[q])'
<1> USE DEF Ladder
<1>1. Own(req[q])'
  BY DEF Own, platformFullyKeyed, route
<1>2. Current(req[q], seen[q])'
  BY DEF Current
<1>3. Superseding(req[q], seen[q])'
  BY DEF Superseding, platformCache, EntersShell, pprInfo, prerender, entrypointOwnsPprShell,
         partialPrefetching, route, mode, ReadsFor
<1>4. Completing(req[q])'
  BY DEF Completing, incrementalCacheShared, InvocationSource, isPprDocument, classifyPprRequest,
         route, mode
<1> QED
  BY <1>1, <1>2, <1>3, <1>4

(* An answer's properties depend on the scenario alone. *)
LEMMA AnsweredPrimed ==
  ASSUME UNCHANGED scenario, NEW q \in Ids, Answered(req'[q], seen'[q])
  PROVE  Answered(req[q], seen[q])'
BY DEF Answered, platformCache, incrementalCacheShared, mode

(* So does the invariant of a request. *)
LEMMA FitsPrimed ==
  ASSUME UNCHANGED scenario, NEW q \in Ids, Fits(req'[q], seen'[q])
  PROVE  Fits(req[q], seen[q])'
<1>1. CASE req'[q] = Idle
  BY <1>1 DEF Fits, Idle
<1>2. CASE Answered(req'[q], seen'[q])
  BY <1>2, AnsweredPrimed DEF Fits
<1>3. CASE Ladder(req'[q], seen'[q])
  BY <1>3, LadderPrimed DEF Fits, Ladder
<1> QED
  BY <1>1, <1>2, <1>3 DEF Fits, Ladder

(* A request that does not step. *)
LEMMA FitsStays ==
  ASSUME Clocked, Clocked', UNCHANGED scenario, Observe, NEW q \in Ids, req'[q] = req[q],
         Fits(req[q], seen[q])
  PROVE  Fits(req[q], seen[q])'
<1>1. CASE req[q] = Idle
  BY <1>1 DEF Fits, Idle
<1>2. CASE Answered(req[q], seen[q])
  <2>1. seen'[q] = seen[q]
    BY <1>2, ObservedDone DEF Answered, Done
  <2> QED
    BY <1>2, <2>1, FitsPrimed DEF Fits
<1>3. CASE Ladder(req[q], seen[q])
  <2>1. req[q].at \in OnLadder /\ req'[q] # Idle /\ seen[q].bar \in Int
    BY <1>3 DEF Ladder, Own, Current, OnLadder, Idle
  <2>2. Bar' \in Int
    BY BarType DEF Clocked, Bar, TagState, Unset
  <2>3. /\ seen'[q].bar \in Int /\ seen'[q].bar <= seen[q].bar
        /\ seen'[q].entry => seen[q].entry
    BY <2>1, <2>2, Observed
  <2>4. Ladder(req'[q], seen'[q])
    BY <1>3, <2>3, LadderWeakens
  <2> QED
    BY <2>4, LadderPrimed DEF Fits, Ladder
<1> QED
  BY <1>1, <1>2, <1>3 DEF Fits, Ladder

-------------------------------------------------------------------------------
(* Answers. *)

(* An answer that satisfies the four properties keeps the invariant. *)
LEMMA AnswerFits ==
  ASSUME NEW q \in Ids, NEW s, NEW src, NEW page, NEW time, NEW who,
         page \in {req[q].page, Template},
         req[q].kind \in {"document", "resumed"} /\ src \in FromCache => time >= s.bar,
         req[q].kind \in {"document", "resumed"} /\ s.entry /\ ~req[q].lost /\ platformCache =>
            ~(time = BuildTime /\ src \in {"seed", "skeleton", "handlerless", "resumed"}),
         req[q].kind = "document" /\ incrementalCacheShared => src # "shellOnly"
  PROVE  Fits(Answer(q, src, page, time, who), s)
BY DEF Fits, Answered, Answer

(* An error, an answer of another pool and a live render satisfy them. *)
LEMMA PlainFits ==
  ASSUME NEW q \in Ids, NEW s,
         NEW src \in {"404", "405", "500", "502", "504", "elsewhere", "rendered"}
  PROVE  Fits(Plain(q, src), s)
BY AnswerFits DEF Plain, FromCache

(* So does an entry that a read returned. *)
LEMMA EntryFits ==
  ASSUME NEW q \in Ids, NEW s, Ladder(req[q], s), req[q].result.hit,
         NEW src \in {"stored", "fresh", "stale"}
  PROVE  Fits(FromEntry(q, src, req[q].result.entry), s)
<1>1. /\ req[q].result.entry.page \in {req[q].page, Template}
      /\ req[q].result.entry.lastModified >= s.bar
  BY DEF Ladder, Own, Current
<1> QED
  BY <1>1, AnswerFits DEF FromEntry, FromCache

(* And an artifact of the build, where no bar stands for a seed and no     *)
(* live entry was passed over.                                             *)
LEMMA BuildFits ==
  ASSUME NEW q \in Ids, NEW s,
         NEW src \in {"file", "variant", "skeleton", "handlerless", "seed"},
         req[q].kind \in {"document", "resumed"} /\ src = "seed" => s.bar <= BuildTime,
         src \in {"skeleton", "handlerless", "seed"} => 
            ~(req[q].kind \in {"document", "resumed"} /\ s.entry /\ ~req[q].lost /\ platformCache)
  PROVE  Fits(FromBuild(q, src), s)
<1>1. req[q].kind \in {"document", "resumed"} /\ src \in FromCache => BuildTime >= s.bar
  <2> SUFFICES ASSUME req[q].kind \in {"document", "resumed"}, src \in FromCache
               PROVE  BuildTime >= s.bar
    OBVIOUS
  <2>1. src = "seed"
    BY DEF FromCache
  <2> QED
    BY <2>1
<1> QED
  BY <1>1, AnswerFits DEF FromBuild

-------------------------------------------------------------------------------
(* The steps of a request on the ladder. *)

(* What a document is to the guards of the ladder. *)
LEMMA Documents ==
  ASSUME NEW r, r.kind \in {"document", "resumed"}
  PROVE  /\ isReadMethod(r) /\ ~isPagesData(r) /\ ~isRSC(r) /\ isPprDocument(r)
         /\ r.kind = "resumed" <=> isServerAction(r)
BY DEF isReadMethod, Reads, isPagesData, isRSC, isPprDocument, classifyPprRequest, isServerAction

(* A request that begins on the ladder, or is skipped at once. *)
LEMMA BeginFits ==
  ASSUME Clocked, NEW q \in Ids, NEW p \in Pages, NEW kind, NEW preview, NEW s,
         Begin(q, NewRequest(p, kind, preview)).at # "done" => s.bar \in Int /\ s.bar <= Bar
  PROVE  /\ Fits(Begin(q, NewRequest(p, kind, preview)), s)
         /\ Begin(q, NewRequest(p, kind, preview)) # Idle
         /\ Begin(q, NewRequest(p, kind, preview)).at \in OnLadder =>
               /\ Begin(q, NewRequest(p, kind, preview)).page = p
               /\ Begin(q, NewRequest(p, kind, preview)).at # "judging"
<1> DEFINE r == NewRequest(p, kind, preview)
           fresh == seedWithinRevalidateWindow
           stage == IF fresh /\ checkShellStale /\ route.tags # {} THEN "seedTags" ELSE "static"
           b == [r EXCEPT !.fresh = fresh, !.at = stage]
<1>1. CASE r.kind = "dataPrefetch" /\ ~prerender
  BY <1>1 DEF Begin, Fits, Answered, NewRequest, FromCache, Idle, OnLadder
<1>2. CASE ~(r.kind = "dataPrefetch" /\ ~prerender)
  <2>1. Begin(q, r) = b
    BY <1>2 DEF Begin
  <2>2. stage = "static" => ~fresh \/ s.bar <= BuildTime
    <3>1. stage = "static" => b.at = "static"
      BY DEF NewRequest
    <3> HIDE DEF b
    <3> QED
      BY <2>1, <3>1, BarType DEF checkShellStale, Clocked, BuildTime
  <2>3. stage \in {"seedTags", "static"}
    OBVIOUS
  <2>4. /\ DOMAIN r = RequestFields /\ r.page = p /\ r.usable = FALSE
        /\ r.got = NoEntry /\ r.result = Miss /\ r.record = FALSE /\ r.tagsStale = FALSE
    BY DEF NewRequest, RequestFields
  <2> HIDE DEF stage, fresh, r
  <2>4a. /\ DOMAIN b = RequestFields /\ b.at = stage /\ b.fresh = fresh
         /\ b.page = p /\ b.usable = FALSE /\ b.got = NoEntry /\ b.result = Miss
         /\ b.record = FALSE /\ b.tagsStale = FALSE
    BY <2>4 DEF RequestFields
  <2> HIDE DEF b
  <2>5. Own(b)
    BY <2>3, <2>4a DEF Own, RequestFields, OnLadder, Stages, NoEntry, Miss
  <2>6. Current(b, s)
    BY <2>1, <2>2, <2>3, <2>4a DEF Current, Miss, r
  <2>7. Superseding(b, s) /\ Completing(b)
    BY <2>3, <2>4a DEF Superseding, Completing, ReadsFor
  <2>8. b # Idle
    BY <2>3, <2>4a DEF Idle
  <2> QED
    BY <2>1, <2>3, <2>4a, <2>5, <2>6, <2>7, <2>8 DEF Fits, r
<1> QED
  BY <1>1, <1>2

(* Without a watermark on its tags the route has no bar. *)
LEMMA NoUpdatesBar ==
  ASSUME Clocked, NEW failed \in BOOLEAN, ~hasTagUpdates(failed)
  PROVE  Bar = BuildTime
<1>1. scenario.route \in Routes
  BY DispatchAssumption DEF Clocked
<1>2. route.tags = {} \/ Tag \in route.tags
  BY <1>1 DEF route, Routes
<1>3. Tag \in route.tags => marks[Tag] = NoMarks
  BY DEF hasTagUpdates
<1> QED
  BY <1>2, <1>3 DEF Bar, NoMarks, Unset, BuildTime

(* A seed whose tags no watermark names may be served. *)
LEMMA SeedTagsFits ==
  ASSUME Clocked, NEW q \in Ids, NEW s, Ladder(req[q], s), req[q].at = "seedTags", s.bar <= Bar,
         NEW failed \in BOOLEAN
  PROVE  Fits([req[q] EXCEPT !.at = "static", !.tagsStale = hasTagUpdates(failed)], s)
<1> DEFINE r == req[q]
           stale == hasTagUpdates(failed)
           b == [r EXCEPT !.at = "static", !.tagsStale = stale]
<1>1. ~stale => s.bar <= BuildTime
  BY NoUpdatesBar DEF Ladder, Current, BuildTime
<1> HIDE DEF stale
<1>2. DOMAIN r = RequestFields /\ Own(r) /\ Current(r, s) /\ Superseding(r, s) /\ Completing(r)
  BY DEF Ladder, Own
<1>3. /\ DOMAIN b = RequestFields /\ b.at = "static" /\ b.tagsStale = stale
      /\ \A f \in RequestFields \ {"at", "tagsStale"} : b[f] = r[f]
  BY <1>2 DEF RequestFields
<1> HIDE DEF b, r
<1>4. Own(b)
  BY <1>2, <1>3 DEF Own, OnLadder, Stages, RequestFields
<1>5. Current(b, s)
  BY <1>1, <1>2, <1>3 DEF Current, RequestFields
<1>6. Superseding(b, s) /\ Completing(b)
  BY <1>2, <1>3 DEF Superseding, Completing, ReadsFor, RequestFields
<1> QED
  BY <1>4, <1>5, <1>6 DEF Fits, b, r, stale

-------------------------------------------------------------------------------
(* Reads of the shared cache. *)

(* What is in the cache or the build under a key that is read. *)
LEMMA EntryOf ==
  ASSUME Stored, NEW p \in Pages, NEW read \in Readings(p), NEW got,
         got = LET stored == IF read[2] = "getSeed" THEN NoEntry ELSE entries[read[1]]
               IN  IF stored = NoEntry /\ read[2] # "getStored" THEN Seed(read[1]) ELSE stored
  PROVE  /\ got.page \in {p, Template} /\ got.lastModified \in Int
         /\ got # NoEntry => got.lastModified >= 0
         /\ read[2] = "getStored" => got = entries[p]
<1>1. read[1] \in {p, Template} /\ (read[1] = Template => read[2] = "getSeed")
      /\ (read[2] = "getStored" => read[1] = p)
  BY DispatchAssumption DEF Readings
<1>2. NoEntry.page = Template /\ NoEntry.lastModified = -1
  BY DEF NoEntry
<1>3. ASSUME NEW k PROVE Seed(k) = NoEntry \/ (Seed(k).page = k /\ Seed(k).lastModified = 0)
  BY DEF Seed, BuildTime
<1>4. CASE got = Seed(read[1]) /\ read[2] # "getStored"
  BY <1>1, <1>2, <1>3, <1>4
<1>5. CASE got = NoEntry /\ read[2] # "getStored"
  BY <1>2, <1>5
<1>6. CASE got = entries[read[1]] /\ read[2] # "getSeed"
  <2>1. read[1] = p /\ p \in Keys
    BY <1>1, <1>6 DEF Keys
  <2> QED
    BY <1>2, <1>6, <2>1 DEF Stored, Cached, BuildTime
<1> QED
  BY <1>4, <1>5, <1>6

(* ReadEntry: the request holds an entry of its page or of the template;   *)
(* the entry is the one of the cache when only stored entries are read.    *)
LEMMA ReadEntryFits ==
  ASSUME Clocked, Stored, NEW q \in Ids, NEW s, Ladder(req[q], s), req[q].at = "reading", NEW got,
         got = LET stored == IF req[q].read[2] = "getSeed" THEN NoEntry ELSE entries[req[q].read[1]]
               IN  IF stored = NoEntry /\ req[q].read[2] # "getStored" THEN Seed(req[q].read[1])
                   ELSE stored
  PROVE  /\ Fits([req[q] EXCEPT !.at = "judging", !.got = got], s)
         /\ req[q].read[2] = "getStored" => got = entries[req[q].page]
<1> DEFINE r == req[q]
           b == [r EXCEPT !.at = "judging", !.got = got]
<1>1. Own(r) /\ Current(r, s) /\ Superseding(r, s) /\ Completing(r) /\ r.at = "reading"
  BY DEF Ladder
<1>2. r.page \in Pages /\ r.read \in Readings(r.page) /\ DOMAIN r = RequestFields
  BY <1>1 DEF Own
<1>3. /\ got.page \in {r.page, Template} /\ got.lastModified \in Int
      /\ got # NoEntry => got.lastModified >= 0
      /\ r.read[2] = "getStored" => got = entries[r.page]
  BY <1>2, EntryOf
<1>4. /\ DOMAIN b = RequestFields /\ b.at = "judging" /\ b.got = got
      /\ \A f \in RequestFields \ {"at", "got"} : b[f] = r[f]
  BY <1>2 DEF RequestFields
<1> HIDE DEF b, r
<1>5. Own(b)
  BY <1>1, <1>3, <1>4 DEF Own, OnLadder, Stages, RequestFields
<1>6. Current(b, s)
  BY <1>1, <1>4 DEF Current, RequestFields
<1>7. Superseding(b, s) /\ Completing(b)
  BY <1>1, <1>4 DEF Superseding, Completing, ReadsFor, RequestFields, EntersShell
<1> QED
  BY <1>3, <1>5, <1>6, <1>7 DEF Fits, b, r

(* A read that hits returns the entry, and only one the bar spares. *)
LEMMA Verdict ==
  ASSUME Clocked, NEW e, e.lastModified \in Nat, NEW peek, NEW result,
         result = readEntry(e, life, marks, now, peek)
  PROVE  /\ result.hit => result.entry = e /\ Bar <= e.lastModified
         /\ ~areTagsExpired(route.tags, e.lastModified, marks, now) => result.hit
<1> DEFINE dead == areTagsExpired(route.tags, e.lastModified, marks, now)
<1>1. life.tags = route.tags
  BY DEF life
<1>2. ~dead => Bar <= e.lastModified
  <2>1. scenario.route \in Routes
    BY DispatchAssumption DEF Clocked
  <2>2. route.tags = {} \/ Tag \in route.tags
    BY <2>1 DEF route, Routes
  <2> QED
    BY <2>2 DEF Bar, areTagsExpired, Clocked, TagState, Unset
<1> HIDE DEF dead
<1>3. CASE dead
  BY <1>1, <1>3 DEF readEntry, Miss, dead
<1>4. CASE ~dead
  <2>1. result.hit /\ result.entry = e
    BY <1>1, <1>4 DEF readEntry, Hit, dead
  <2> QED
    BY <1>2, <1>4, <2>1
<1> QED
  BY <1>3, <1>4 DEF dead

(* ReadMarks: a hit is above the bar, and a live entry is found unless the *)
(* read failed.                                                            *)
LEMMA ReadMarksFits ==
  ASSUME Clocked, Stored, NEW q \in Ids, NEW s, Ladder(req[q], s), req[q].at = "judging",
         s.bar <= Bar, NEW failed \in BOOLEAN, NEW result,
         s.entry => Live(req[q].page),
         s.entry /\ req[q].read[2] = "getStored" => req[q].got = entries[req[q].page],
         result = IF failed \/ req[q].got = NoEntry THEN Miss
                  ELSE readEntry(req[q].got, life, marks, now, req[q].read[2] # "get")
  PROVE  Fits([req[q] EXCEPT !.at = req[q].read[3], !.result = result, !.got = NoEntry,
                             !.read = <<>>, !.lost = @ \/ failed], s)
<1> DEFINE r == req[q]
           lost == r.lost \/ failed
           b == [r EXCEPT !.at = r.read[3], !.result = result, !.got = NoEntry,
                          !.read = <<>>, !.lost = lost]
<1>1. Own(r) /\ Current(r, s) /\ Superseding(r, s) /\ Completing(r) /\ r.at = "judging"
  BY DEF Ladder
<1>2. r.page \in Pages /\ r.read \in Readings(r.page) /\ DOMAIN r = RequestFields
  BY <1>1 DEF Own
<1>3. /\ r.read[3] \in {"seedStored", "segmentStored", "fallbackStored", "shellStored",
                        "shellSeed", "decide", "next"}
      /\ r.read[3] \in {"seedStored", "fallbackStored", "shellStored"} => r.read[2] = "getStored"
  BY <1>2 DEF Readings
<1>4. result.hit => /\ ~failed /\ r.got # NoEntry /\ result.entry = r.got
                    /\ r.got.lastModified \in Nat /\ Bar <= r.got.lastModified
  <2>1. CASE failed \/ r.got = NoEntry
    BY <2>1 DEF Miss
  <2>2. CASE ~(failed \/ r.got = NoEntry)
    <3>1. r.got.lastModified \in Nat
      BY <1>1, <2>2 DEF Own
    <3> QED
      BY <2>2, <3>1, Verdict
  <2> QED
    BY <2>1, <2>2
<1>5. s.entry /\ ~failed /\ r.read[2] = "getStored" =>
         result.hit /\ result.entry.lastModified > BuildTime
  <2> SUFFICES ASSUME s.entry, ~failed, r.read[2] = "getStored"
               PROVE  result.hit /\ result.entry.lastModified > BuildTime
    OBVIOUS
  <2>1. r.got = entries[r.page] /\ r.got # NoEntry
        /\ ~areTagsExpired(route.tags, r.got.lastModified, marks, now)
    BY DEF Live
  <2>2. r.got.lastModified > BuildTime /\ r.got.lastModified \in Nat
    BY <1>2, <2>1 DEF Stored, Cached, Keys, BuildTime
  <2>3. result = readEntry(r.got, life, marks, now, r.read[2] # "get")
    BY <2>1
  <2> QED
    BY <2>1, <2>2, <2>3, Verdict
<1>6. /\ DOMAIN b = RequestFields /\ b.at = r.read[3] /\ b.got = NoEntry /\ b.result = result
      /\ b.lost = lost
      /\ \A f \in RequestFields \ {"at", "got", "result", "read", "lost"} : b[f] = r[f]
  BY <1>2 DEF RequestFields
<1>6a. [req[q] EXCEPT !.at = req[q].read[3], !.result = result, !.got = NoEntry,
                      !.read = <<>>, !.lost = @ \/ failed] = b
  BY <1>2 DEF RequestFields
<1> HIDE DEF b, r
<1>7. Own(b)
  BY <1>1, <1>3, <1>4, <1>6 DEF Own, OnLadder, Stages, RequestFields, NoEntry
<1>8. Current(b, s)
  <2>1. r.got.lastModified \in Int /\ Bar \in Int
    BY <1>1, BarType DEF Own
  <2> QED
    BY <1>1, <1>3, <1>4, <1>6, <2>1 DEF Current, RequestFields
<1>9. Superseding(b, s)
  <2>1. /\ b.kind = r.kind /\ b.usable = r.usable /\ b.at = r.read[3] /\ b.inject = r.inject
        /\ (~b.lost => ~r.lost /\ ~failed)
    BY <1>6 DEF RequestFields
  <2>2. b.at \notin {"reading", "judging", "invoked"}
    BY <1>3, <1>6
  <2>3. EntersShell(b) = EntersShell(r)
    BY DEF EntersShell
  <2>4. b.kind = "resumed" =>
          /\ ~ReadsFor(b, {"shellStored", "shellSeed"})
          /\ ReadsFor(b, {"decide"}) /\ EntersShell(b) =>
                b.at = "decide" /\ ~b.result.hit /\ ~b.usable
    BY <1>1, <2>1, <2>2, <2>3 DEF Superseding, ReadsFor
  <2>5. platformCache /\ s.entry /\ ~b.lost =>
          ~ReadsFor(b, {"shellSeed"}) /\ ~ReadsFor(b, {"decide"})
    BY <1>1, <2>1, <2>2 DEF Superseding, ReadsFor
  <2>6. b.at \in {"seedStored", "fallbackStored", "shellStored"} /\ s.entry /\ ~b.lost =>
          b.result.hit /\ b.result.entry.lastModified > BuildTime
    BY <1>3, <1>5, <1>6, <2>1
  <2>7. ReadsFor(b, {"decide"}) <=> b.at = "decide"
    BY <2>2 DEF ReadsFor
  <2> QED
    BY <2>2, <2>4, <2>5, <2>6, <2>7 DEF Superseding
<1>10. Completing(b)
  BY <1>3, <1>6 DEF Completing
<1> QED
  BY <1>6a, <1>7, <1>8, <1>9, <1>10 DEF Fits, b, r

-------------------------------------------------------------------------------
(* The static part of the ladder. *)

(* A request that goes on elsewhere than to a read or the shell. *)
LEMMA MoveFits ==
  ASSUME NEW r, NEW s, Own(r), Current(r, s), r.at # "seedTags",
         NEW stage \in {"route", "proxy", "edge"}
  PROVE  /\ Ladder([r EXCEPT !.at = stage], s)
         /\ [r EXCEPT !.at = stage].page = r.page /\ [r EXCEPT !.at = stage].at = stage
<1> DEFINE b == [r EXCEPT !.at = stage]
<1>1. /\ DOMAIN b = RequestFields /\ b.at = stage
      /\ \A f \in RequestFields \ {"at"} : b[f] = r[f]
  BY DEF RequestFields, Own
<1> HIDE DEF b
<1>2. Own(b)
  BY <1>1 DEF Own, OnLadder, Stages, RequestFields
<1>3. Current(b, s)
  BY <1>1 DEF Current, RequestFields
<1>4. Superseding(b, s) /\ Completing(b)
  BY <1>1 DEF Superseding, Completing, ReadsFor
<1>5. b.page = r.page
  BY <1>1 DEF RequestFields
<1> QED
  BY <1>1, <1>2, <1>3, <1>4, <1>5 DEF Ladder, b

(* A request that begins a read. *)
LEMMA ReadingFits ==
  ASSUME NEW r, NEW s, Own(r), Current(r, s), r.at # "seedTags", NEW key, NEW via, NEW then,
         <<key, via, then>> \in Readings(r.page),
         r.kind = "resumed" => then \notin {"shellStored", "shellSeed", "decide"},
         platformCache /\ s.entry /\ ~r.lost => then \notin {"shellSeed", "decide"}
  PROVE  /\ Ladder(Reading(r, key, via, then), s)
         /\ Reading(r, key, via, then).page = r.page /\ Reading(r, key, via, then).at = "reading"
<1> DEFINE b == Reading(r, key, via, then)
<1>1. /\ DOMAIN b = RequestFields /\ b.at = "reading" /\ b.read = <<key, via, then>>
      /\ \A f \in RequestFields \ {"at", "read"} : b[f] = r[f]
  BY DEF RequestFields, Own, Reading
<1> HIDE DEF b
<1>2. Own(b)
  BY <1>1 DEF Own, OnLadder, Stages, RequestFields
<1>3. Current(b, s)
  BY <1>1 DEF Current, RequestFields
<1>4. b.kind = r.kind /\ b.lost = r.lost /\ b.page = r.page /\ b.read[3] = then
  BY <1>1 DEF RequestFields
<1>5. Superseding(b, s) /\ Completing(b)
  BY <1>1, <1>4 DEF Superseding, Completing, ReadsFor
<1> QED
  BY <1>1, <1>2, <1>3, <1>4, <1>5 DEF Ladder, b

(* A request on the ladder fits. *)
LEMMA LadderFits == ASSUME NEW r, NEW s, Ladder(r, s) PROVE Fits(r, s)
BY DEF Fits, Ladder

(* Where a step of the ladder takes a request. *)
Goes(r, b) == b # Idle /\ (b.at \in OnLadder => b.page = r.page /\ b.at # "judging")

(* An answer leaves the ladder. *)
LEMMA AnswerGoes ==
  ASSUME NEW q, NEW r, NEW src, NEW page, NEW time, NEW who
  PROVE  Goes(r, Answer(q, src, page, time, who))
BY DEF Goes, Answer, Idle, OnLadder

(* A plain answer leaves the ladder. *)
LEMMA PlainGoes == ASSUME NEW q, NEW r, NEW src PROVE Goes(r, Plain(q, src))
BY AnswerGoes DEF Plain

(* A request that stays on the ladder keeps its page. *)
LEMMA LadderGoes ==
  ASSUME NEW r, NEW b, NEW s, Ladder(b, s), b.page = r.page, b.at # "judging"
  PROVE  Goes(r, b)
BY DEF Goes, Ladder, Own, Idle, OnLadder, RequestFields

(* StaticStep: an artifact is served to a document only with no bar, and   *)
(* with the shared cache asked before it.                                  *)
LEMMA StaticFits ==
  ASSUME Clocked, NEW q \in Ids, NEW s, Ladder(req[q], s), req[q].at = "static"
  PROVE  Fits(StaticStep(q, req[q]), s) /\ Goes(req[q], StaticStep(q, req[q]))
<1> DEFINE r == req[q]
           b == StaticStep(q, r)
           servesSeed == serveConcretePrerenderSeed(r) \/ serveHandlerlessPrerender
           asks == /\ prerender /\ route.asset # "ppr" /\ servesSeed /\ platformCache
                   /\ isReadMethod(r) /\ ~isPagesData(r) /\ ~isRSC(r)
           document == r.kind \in {"document", "resumed"}
<1>1. Own(r) /\ Current(r, s) /\ r.at = "static"
  BY DEF Ladder
<1>2. ASSUME NEW then \in {"seedStored", "segmentStored", "fallbackStored"},
             b = Reading(r, r.page, "getStored", then)
      PROVE  Fits(b, s) /\ Goes(r, b)
  <2>1. <<r.page, "getStored", then>> \in Readings(r.page)
    BY DEF Readings
  <2> HIDE DEF b
  <2> QED
    BY <1>1, <1>2, <2>1, ReadingFits, LadderFits, LadderGoes
<1>3. ASSUME NEW src \in {"file", "variant", "skeleton", "handlerless", "seed"},
             document /\ src = "seed" => s.bar <= BuildTime,
             src \in {"skeleton", "handlerless", "seed"} => ~(document /\ platformCache),
             b = FromBuild(q, src)
      PROVE  Fits(b, s) /\ Goes(r, b)
  <2> HIDE DEF b
  <2>1. Fits(b, s)
    BY <1>3, BuildFits
  <2> QED
    BY <1>3, <2>1, AnswerGoes DEF FromBuild
<1>4. CASE isRejectedWrite(r)
  <2>1. b = Plain(q, "405")
    BY <1>4 DEF StaticStep
  <2> HIDE DEF b
  <2> QED
    BY <2>1, PlainFits, PlainGoes DEF b
<1>5. CASE ~isRejectedWrite(r)
  <2>1. CASE asks
    BY <1>2, <1>5, <2>1 DEF StaticStep
  <2>2. CASE ~asks /\ serveRscPrerenderVariant(r) /\ incrementalCacheShared /\ r.kind = "segment"
    BY <1>2, <1>5, <2>2 DEF StaticStep
  <2> DEFINE other == /\ ~asks
                      /\ ~(serveRscPrerenderVariant(r) /\ incrementalCacheShared
                           /\ r.kind = "segment")
  <2>3. CASE other /\ servePagesDynamicFallbackShell(r) /\ ~emulatePlatformCache
    BY <1>2, <1>5, <2>3 DEF StaticStep
  <2>4. CASE other /\ servePagesDynamicFallbackShell(r) /\ emulatePlatformCache
    <3>1. b = FromBuild(q, "skeleton")
      BY <1>5, <2>4 DEF StaticStep
    <3>2. ~platformCache
      BY <2>4 DEF emulatePlatformCache, platformCache
    <3> QED
      BY <1>3, <3>1, <3>2
  <2> DEFINE rest == other /\ ~servePagesDynamicFallbackShell(r)
  <2>5. CASE rest /\ serveStaticFile(r)
    <3>1. b = FromBuild(q, "file")
      BY <1>5, <2>5 DEF StaticStep
    <3> QED
      BY <1>3, <3>1
  <2>6. CASE rest /\ ~serveStaticFile(r) /\ serveRscPrerenderVariant(r)
    <3>1. b = FromBuild(q, "variant")
      BY <1>5, <2>6 DEF StaticStep
    <3> QED
      BY <1>3, <3>1
  <2> DEFINE last == rest /\ ~serveStaticFile(r) /\ ~serveRscPrerenderVariant(r)
  <2>7. CASE last /\ serveConcretePrerenderSeed(r)
    <3>1. b = FromBuild(q, "seed")
      BY <1>5, <2>7 DEF StaticStep
    <3>2. document => s.bar <= BuildTime
      BY <1>1, <2>7 DEF serveConcretePrerenderSeed, Current
    <3>3. ~(document /\ platformCache)
      BY <2>7, Documents DEF serveConcretePrerenderSeed
    <3> QED
      BY <1>3, <3>1, <3>2, <3>3
  <2>8. CASE last /\ ~serveConcretePrerenderSeed(r) /\ serveHandlerlessPrerender /\ isReadMethod(r)
    <3>1. b = FromBuild(q, "handlerless")
      BY <1>5, <2>8 DEF StaticStep
    <3>2. scenario \in Scenarios /\ prerender /\ ~route.handler
      BY <2>8 DEF serveHandlerlessPrerender, Clocked
    <3>3. route.asset # "ppr"
      BY <3>2, DispatchAssumption DEF route
    <3>4. ~(document /\ platformCache)
      BY <2>8, <3>2, <3>3, Documents
    <3> QED
      BY <1>3, <3>1, <3>4
  <2>9. CASE /\ last /\ ~serveConcretePrerenderSeed(r)
             /\ ~(serveHandlerlessPrerender /\ isReadMethod(r))
    <3>1. b = [r EXCEPT !.at = "route"]
      BY <1>5, <2>9 DEF StaticStep
    <3>2. "route" \in {"route", "proxy", "edge"} /\ r.at # "seedTags"
      BY <1>1
    <3> HIDE DEF b, r
    <3>3. Ladder(b, s) /\ b.page = r.page /\ b.at = "route"
      BY <1>1, <3>1, <3>2, MoveFits
    <3> QED
      BY <3>3, LadderFits, LadderGoes DEF b, r
  <2> QED
    BY <2>1, <2>2, <2>3, <2>4, <2>5, <2>6, <2>7, <2>8, <2>9
<1> QED
  BY <1>4, <1>5

(* StaticStored: the entry found, or the artifact when no live entry       *)
(* stands.                                                                 *)
LEMMA StaticStoredFits ==
  ASSUME Clocked, NEW q \in Ids, NEW s, Ladder(req[q], s),
         req[q].at \in {"seedStored", "segmentStored", "fallbackStored"}, NEW b,
         LET r == req[q]
         IN  b = IF r.result.hit /\ (r.at = "segmentStored" => r.result.entry.segments)
                 THEN FromEntry(q, "stored", r.result.entry)
                 ELSE CASE r.at = "segmentStored" -> FromBuild(q, "variant")
                        [] r.at = "fallbackStored" -> FromBuild(q, "skeleton")
                        [] r.at = "seedStored" ->
                               FromBuild(q, IF serveConcretePrerenderSeed(r) THEN "seed"
                                            ELSE "handlerless")
  PROVE  Fits(b, s) /\ Goes(req[q], b)
<1> DEFINE r == req[q]
           document == r.kind \in {"document", "resumed"}
<1>1. Current(r, s) /\ Superseding(r, s)
  BY DEF Ladder
<1>2. CASE r.result.hit /\ (r.at = "segmentStored" => r.result.entry.segments)
  <2>1. b = FromEntry(q, "stored", r.result.entry)
    BY <1>2
  <2> QED
    BY <1>2, <2>1, EntryFits, AnswerGoes DEF FromEntry
<1>3. CASE ~(r.result.hit /\ (r.at = "segmentStored" => r.result.entry.segments))
  <2>1. CASE r.at = "segmentStored"
    <3>1. b = FromBuild(q, "variant")
      BY <1>3, <2>1
    <3> QED
      BY <3>1, BuildFits, AnswerGoes DEF FromBuild
  <2>2. CASE r.at = "fallbackStored"
    <3>1. b = FromBuild(q, "skeleton")
      BY <1>3, <2>2
    <3>2. ~(platformCache /\ s.entry /\ ~r.lost)
      BY <1>1, <1>3, <2>2 DEF Superseding
    <3> QED
      BY <3>1, <3>2, BuildFits, AnswerGoes DEF FromBuild
  <2>3. CASE r.at = "seedStored"
    <3>1. b = FromBuild(q, IF serveConcretePrerenderSeed(r) THEN "seed" ELSE "handlerless")
      BY <1>3, <2>3
    <3>2. ~(platformCache /\ s.entry /\ ~r.lost)
      BY <1>1, <1>3, <2>3 DEF Superseding
    <3>3. serveConcretePrerenderSeed(r) => s.bar <= BuildTime
      BY <1>1, <2>3 DEF Current, serveConcretePrerenderSeed
    <3> DEFINE src == IF serveConcretePrerenderSeed(r) THEN "seed" ELSE "handlerless"
    <3>4. src \in {"seed", "handlerless"} /\ (src = "seed" => s.bar <= BuildTime)
      BY <3>3
    <3> HIDE DEF src
    <3>5. Fits(FromBuild(q, src), s)
      BY <3>2, <3>4, BuildFits
    <3>6. b = FromBuild(q, src)
      BY <3>1 DEF src
    <3> QED
      BY <3>5, <3>6, AnswerGoes DEF FromBuild
  <2> QED
    BY <2>1, <2>2, <2>3
<1> QED
  BY <1>2, <1>3

-------------------------------------------------------------------------------
(* The route and the shell. *)

(* A recorded response is of the page its key stands for. *)
LEMMA ReplayedShows ==
  ASSUME Stored, NEW key, Recorded(key)
  PROVE  Replayed(key).shows \in {key, Template}
<1> DEFINE i == CHOOSE j \in DOMAIN platformResponseStore : platformResponseStore[j].key = key
<1>1. i \in DOMAIN platformResponseStore /\ platformResponseStore[i].key = key
  BY DEF Recorded
<1> HIDE DEF i
<1>2. platformResponseStore[i].shows \in {key, Template}
  BY <1>1 DEF Stored, Recordings
<1> QED
  BY <1>2 DEF Replayed, i

(* RouteStep: a replay shows the page of its key; otherwise the request    *)
(* goes to the shell or the decision.                                      *)
LEMMA RouteStepFits ==
  ASSUME Clocked, Stored, NEW q \in Ids, NEW s, Ladder(req[q], s), req[q].at = "route",
         s.bar <= Bar
  PROVE  Fits(RouteStep(q, req[q]), s) /\ Goes(req[q], RouteStep(q, req[q]))
<1> DEFINE r == req[q]
           key == platformKey(r)
           seenKey == Contains(platformSeenKeys, key)
           record == platformFullyKeyed /\ ~seenKey /\ platformStoreEligible(r)
           next == [r EXCEPT !.record = record]
           stage == IF ~EntersShell(r) THEN "decide"
                    ELSE IF checkShellStale /\ route.tags # {} THEN "shellTags"
                    ELSE "shell"
           b == [next EXCEPT !.at = stage]
           replays == seenKey /\ platformFullyKeyed /\ platformStoreEligible(r) /\ Recorded(key)
<1>1. Own(r) /\ Current(r, s) /\ r.at = "route" /\ DOMAIN r = RequestFields
  BY DEF Ladder, Own
<1>2. CASE replays
  <2> DEFINE e == Replayed(key)
  <2>1. RouteStep(q, r) = Answer(q, "replay", e.shows, e.time, e.who)
    BY <1>2 DEF RouteStep
  <2>2. e.shows \in {r.page, Template}
    BY <1>2, ReplayedShows DEF platformKey
  <2> HIDE DEF e
  <2>3. Fits(Answer(q, "replay", e.shows, e.time, e.who), s)
    BY <2>2, AnswerFits DEF FromCache
  <2> QED
    BY <2>1, <2>3, AnswerGoes
<1>3. CASE ~replays
  <2>1. RouteStep(q, r) = b
    BY <1>3 DEF RouteStep
  <2>2. record => platformFullyKeyed
    OBVIOUS
  <2>3. /\ stage \in {"decide", "shellTags", "shell"} /\ (stage = "decide" => ~EntersShell(r))
        /\ stage = "shell" => s.bar <= BuildTime
    BY BarType DEF checkShellStale
  <2> HIDE DEF stage, record
  <2>4. /\ DOMAIN b = RequestFields /\ b.at = stage /\ b.record = record
        /\ \A f \in RequestFields \ {"at", "record"} : b[f] = r[f]
    BY <1>1 DEF RequestFields
  <2> HIDE DEF b, next
  <2>5. Own(b)
    BY <1>1, <2>2, <2>3, <2>4 DEF Own, OnLadder, Stages, RequestFields
  <2>6. Current(b, s)
    BY <1>1, <2>3, <2>4 DEF Current, RequestFields
  <2>7. Superseding(b, s) /\ Completing(b)
    BY <2>3, <2>4 DEF Superseding, Completing, ReadsFor, EntersShell
  <2>8. Ladder(b, s) /\ b.page = r.page /\ b.at # "judging"
    BY <2>3, <2>4, <2>5, <2>6, <2>7 DEF Ladder, RequestFields
  <2> QED
    BY <2>1, <2>8, LadderFits, LadderGoes
<1> QED
  BY <1>2, <1>3

(* Route: an error, another pool, the edge sandbox, or RouteStep. *)
LEMMA RouteFits ==
  ASSUME Clocked, Stored, NEW q \in Ids, NEW s, Ladder(req[q], s), req[q].at = "route",
         s.bar <= Bar, NEW b,
         b = CASE route.strict /\ ~isVerifiedPreviewRequest(req[q]) -> Plain(q, "404")
               [] OTHER ->
                    IF ~route.owned THEN [req[q] EXCEPT !.at = "proxy"]
                    ELSE IF ~route.handler THEN Plain(q, "404")
                    ELSE IF route.edge THEN [req[q] EXCEPT !.at = "edge"]
                    ELSE RouteStep(q, req[q])
  PROVE  Fits(b, s) /\ Goes(req[q], b)
<1>1. Own(req[q]) /\ Current(req[q], s)
  BY DEF Ladder
<1>2. CASE b = Plain(q, "404")
  BY <1>2, PlainFits, PlainGoes
<1>3. ASSUME NEW stage \in {"proxy", "edge"}, b = [req[q] EXCEPT !.at = stage]
      PROVE  Fits(b, s) /\ Goes(req[q], b)
  <2>1. stage \in {"route", "proxy", "edge"} /\ req[q].at # "seedTags" /\ stage # "judging"
    OBVIOUS
  <2>2a. /\ Ladder([req[q] EXCEPT !.at = stage], s)
         /\ [req[q] EXCEPT !.at = stage].page = req[q].page
         /\ [req[q] EXCEPT !.at = stage].at = stage
    BY <1>1, <2>1, MoveFits
  <2>2. Ladder(b, s) /\ b.page = req[q].page /\ b.at = stage
    BY <1>3, <2>2a
  <2> QED
    BY <2>1, <2>2, LadderFits, LadderGoes
<1>4. CASE b = RouteStep(q, req[q])
  BY <1>4, RouteStepFits
<1> QED
  BY <1>2, <1>3, <1>4

(* ShellTags: a shell whose tags no watermark names is below no bar. *)
LEMMA ShellTagsFits ==
  ASSUME Clocked, NEW q \in Ids, NEW s, Ladder(req[q], s), req[q].at = "shellTags", s.bar <= Bar,
         NEW failed \in BOOLEAN
  PROVE  Fits([req[q] EXCEPT !.at = "shell", !.tagsStale = hasTagUpdates(failed)], s)
<1> DEFINE r == req[q]
           stale == hasTagUpdates(failed)
           b == [r EXCEPT !.at = "shell", !.tagsStale = stale]
<1>1. ~stale => s.bar <= BuildTime
  BY NoUpdatesBar DEF Ladder, Current, BuildTime
<1> HIDE DEF stale
<1>2. DOMAIN r = RequestFields /\ Own(r) /\ Current(r, s)
  BY DEF Ladder, Own
<1>3. /\ DOMAIN b = RequestFields /\ b.at = "shell" /\ b.tagsStale = stale
      /\ \A f \in RequestFields \ {"at", "tagsStale"} : b[f] = r[f]
  BY <1>2 DEF RequestFields
<1> HIDE DEF b, r
<1>4. Own(b)
  BY <1>2, <1>3 DEF Own, OnLadder, Stages, RequestFields
<1>5. Current(b, s)
  BY <1>1, <1>2, <1>3 DEF Current, RequestFields
<1>6. Superseding(b, s) /\ Completing(b)
  BY <1>3 DEF Superseding, Completing, ReadsFor
<1> QED
  BY <1>4, <1>5, <1>6 DEF Fits, b, r, stale

(* A request that comes to the decision. *)
LEMMA DecideStage ==
  ASSUME NEW r, NEW s, Own(r), Current(r, s), r.at # "seedTags",
         r.kind = "resumed" /\ EntersShell(r) => ~r.result.hit /\ ~r.usable,
         platformCache /\ s.entry /\ ~r.lost /\ EntersShell(r) /\ r.kind = "document" =>
            r.result.hit /\ r.result.entry.lastModified > BuildTime
  PROVE  /\ Ladder([r EXCEPT !.at = "decide"], s)
         /\ [r EXCEPT !.at = "decide"].page = r.page /\ [r EXCEPT !.at = "decide"].at = "decide"
<1> DEFINE b == [r EXCEPT !.at = "decide"]
<1>1. /\ DOMAIN b = RequestFields /\ b.at = "decide"
      /\ \A f \in RequestFields \ {"at"} : b[f] = r[f]
  BY DEF RequestFields, Own
<1> HIDE DEF b
<1>2. Own(b)
  BY <1>1 DEF Own, OnLadder, Stages, RequestFields
<1>3. Current(b, s)
  BY <1>1 DEF Current, RequestFields
<1>4. b.kind = r.kind /\ b.lost = r.lost /\ b.page = r.page /\ b.usable = r.usable
      /\ b.result = r.result /\ EntersShell(b) = EntersShell(r)
  BY <1>1 DEF RequestFields, EntersShell
<1>5. Superseding(b, s) /\ Completing(b)
  BY <1>1, <1>4 DEF Superseding, Completing, ReadsFor
<1> QED
  BY <1>1, <1>2, <1>3, <1>4, <1>5 DEF Ladder, b

(* The read of the page's stored entry, for the shell's sake. *)
LEMMA ShellReads ==
  ASSUME NEW r, NEW s, Own(r), Current(r, s), r.at = "shell", readsPlatformCache(r)
  PROVE  /\ Ladder(Reading(r, r.page, "getStored", "shellStored"), s)
         /\ Reading(r, r.page, "getStored", "shellStored").page = r.page
         /\ Reading(r, r.page, "getStored", "shellStored").at = "reading"
<1>1. <<r.page, "getStored", "shellStored">> \in Readings(r.page)
  BY DEF Readings
<1>2. r.kind # "resumed"
  BY DEF readsPlatformCache, isServerAction
<1> QED
  BY <1>1, <1>2, ReadingFits

(* The request with the shell judged. *)
Judged(q) == [req[q] EXCEPT !.usable = shellUsable(req[q]), !.result = Miss]

(* Shell: a usable shell is below no bar; the stored entry is read first   *)
(* unless the request is a server action.                                  *)
LEMMA ShellFits ==
  ASSUME Clocked, NEW q \in Ids, NEW s, Ladder(req[q], s), req[q].at = "shell", NEW b,
         b = IF readsPlatformCache(Judged(q))
             THEN Reading(Judged(q), Judged(q).page, "getStored", "shellStored")
             ELSE [Judged(q) EXCEPT !.at = "decide"]
  PROVE  Fits(b, s) /\ Goes(req[q], b)
<1> DEFINE r == Judged(q)
<1> DEFINE o == req[q]
           usable == shellUsable(o)
<1>1. DOMAIN o = RequestFields /\ Own(o) /\ Current(o, s) /\ o.at = "shell"
  BY DEF Ladder, Own
<1>2. usable => s.bar <= BuildTime /\ o.kind # "resumed"
  BY <1>1 DEF shellUsable, Current, isServerAction
<1> HIDE DEF usable
<1>3. /\ DOMAIN r = RequestFields /\ r.usable = usable /\ r.result = Miss
      /\ \A f \in RequestFields \ {"usable", "result"} : r[f] = o[f]
  BY <1>1 DEF RequestFields, usable, Judged
<1> HIDE DEF o, r
<1>4. r.page = o.page /\ r.kind = o.kind /\ r.at = "shell" /\ ~r.result.hit
  BY <1>1, <1>3 DEF RequestFields, Miss
<1>5. Own(r)
  BY <1>1, <1>3, <1>4 DEF Own, RequestFields
<1>6. Current(r, s)
  BY <1>1, <1>2, <1>3, <1>4 DEF Current, RequestFields
<1>7. CASE readsPlatformCache(r)
  <2>3. b = Reading(r, r.page, "getStored", "shellStored")
    BY <1>7 DEF r
  <2>4a. /\ Ladder(Reading(r, r.page, "getStored", "shellStored"), s)
         /\ Reading(r, r.page, "getStored", "shellStored").page = r.page
         /\ Reading(r, r.page, "getStored", "shellStored").at = "reading"
    BY <1>4, <1>5, <1>6, <1>7, ShellReads
  <2>4. Ladder(b, s) /\ b.page = r.page /\ b.at = "reading"
    BY <2>3, <2>4a
  <2> QED
    BY <1>4, <2>4, LadderFits, LadderGoes DEF o
<1>8. CASE ~readsPlatformCache(r)
  <2>1. r.kind = "document" => ~platformCache
    BY <1>8 DEF readsPlatformCache, isServerAction, isReadMethod, Reads
  <2>2. r.kind = "resumed" => ~r.usable
    BY <1>2, <1>3, <1>4
  <2>3. b = [r EXCEPT !.at = "decide"]
    BY <1>8 DEF r
  <2>3a. /\ r.at # "seedTags"
         /\ r.kind = "resumed" /\ EntersShell(r) => ~r.result.hit /\ ~r.usable
         /\ platformCache /\ s.entry /\ ~r.lost /\ EntersShell(r) /\ r.kind = "document" =>
               r.result.hit /\ r.result.entry.lastModified > BuildTime
    BY <1>4, <2>1, <2>2
  <2>4a. /\ Ladder([r EXCEPT !.at = "decide"], s)
         /\ [r EXCEPT !.at = "decide"].page = r.page
         /\ [r EXCEPT !.at = "decide"].at = "decide"
    BY <1>5, <1>6, <2>3a, DecideStage
  <2>4. Ladder(b, s) /\ b.page = r.page /\ b.at = "decide"
    BY <2>3, <2>4a
  <2> QED
    BY <1>4, <2>4, LadderFits, LadderGoes DEF o
<1> QED
  BY <1>7, <1>8

(* ShellStored: a live entry was found; the seed is read only when there   *)
(* was none.                                                               *)
LEMMA ShellStoredFits ==
  ASSUME Clocked, NEW q \in Ids, NEW s, Ladder(req[q], s), req[q].at = "shellStored", NEW b,
         b = IF req[q].result.hit \/ ~req[q].usable THEN [req[q] EXCEPT !.at = "decide"]
             ELSE Reading(req[q], req[q].page, "getPeek", "shellSeed")
  PROVE  Fits(b, s) /\ Goes(req[q], b)
<1> DEFINE r == req[q]
<1>1. Own(r) /\ Current(r, s) /\ Superseding(r, s) /\ r.at = "shellStored"
  BY DEF Ladder
<1>2. r.kind # "resumed"
  BY <1>1 DEF Superseding, ReadsFor
<1>3. platformCache /\ s.entry /\ ~r.lost => r.result.hit /\ r.result.entry.lastModified > BuildTime
  BY <1>1 DEF Superseding
<1> HIDE DEF r
<1>4. CASE r.result.hit \/ ~r.usable
  <2>1. b = [r EXCEPT !.at = "decide"]
    BY <1>4 DEF r
  <2>2. Ladder(b, s) /\ b.page = r.page /\ b.at = "decide"
    BY <1>1, <1>2, <1>3, <2>1, DecideStage
  <2> QED
    BY <2>2, LadderFits, LadderGoes DEF r
<1>5. CASE ~(r.result.hit \/ ~r.usable)
  <2>1. b = Reading(r, r.page, "getPeek", "shellSeed")
    BY <1>5 DEF r
  <2>2. <<r.page, "getPeek", "shellSeed">> \in Readings(r.page)
    BY DEF Readings
  <2>2a. /\ r.at # "seedTags"
         /\ r.kind = "resumed" => "shellSeed" \notin {"shellStored", "shellSeed", "decide"}
         /\ platformCache /\ s.entry /\ ~r.lost => "shellSeed" \notin {"shellSeed", "decide"}
    BY <1>1, <1>2, <1>3, <1>5
  <2>3a. /\ Ladder(Reading(r, r.page, "getPeek", "shellSeed"), s)
         /\ Reading(r, r.page, "getPeek", "shellSeed").page = r.page
         /\ Reading(r, r.page, "getPeek", "shellSeed").at = "reading"
    BY <1>1, <2>2, <2>2a, ReadingFits
  <2>3. Ladder(b, s) /\ b.page = r.page /\ b.at = "reading"
    BY <2>1, <2>3a
  <2> QED
    BY <2>3, LadderFits, LadderGoes DEF r
<1> QED
  BY <1>4, <1>5

(* ShellSeed: the template's seed is read only when no live entry stands. *)
LEMMA ShellSeedFits ==
  ASSUME Clocked, NEW q \in Ids, NEW s, Ladder(req[q], s), req[q].at = "shellSeed", NEW b,
         b = IF req[q].result.hit THEN [req[q] EXCEPT !.at = "decide"]
             ELSE Reading(req[q], Template, "getSeed", "decide")
  PROVE  Fits(b, s) /\ Goes(req[q], b)
<1> DEFINE r == req[q]
<1>1. Own(r) /\ Current(r, s) /\ Superseding(r, s) /\ r.at = "shellSeed"
  BY DEF Ladder
<1>2. r.kind # "resumed" /\ ~(platformCache /\ s.entry /\ ~r.lost)
  BY <1>1 DEF Superseding, ReadsFor
<1> HIDE DEF r
<1>3. CASE r.result.hit
  <2>1. b = [r EXCEPT !.at = "decide"]
    BY <1>3 DEF r
  <2>2. Ladder(b, s) /\ b.page = r.page /\ b.at = "decide"
    BY <1>1, <1>2, <2>1, DecideStage
  <2> QED
    BY <2>2, LadderFits, LadderGoes DEF r
<1>4. CASE ~r.result.hit
  <2>1. b = Reading(r, Template, "getSeed", "decide")
    BY <1>4 DEF r
  <2>2. <<Template, "getSeed", "decide">> \in Readings(r.page)
    BY DEF Readings
  <2>2a. /\ r.at # "seedTags"
         /\ r.kind = "resumed" => "decide" \notin {"shellStored", "shellSeed", "decide"}
         /\ platformCache /\ s.entry /\ ~r.lost => "decide" \notin {"shellSeed", "decide"}
    BY <1>1, <1>2
  <2>3a. /\ Ladder(Reading(r, Template, "getSeed", "decide"), s)
         /\ Reading(r, Template, "getSeed", "decide").page = r.page
         /\ Reading(r, Template, "getSeed", "decide").at = "reading"
    BY <1>1, <2>2, <2>2a, ReadingFits
  <2>3. Ladder(b, s) /\ b.page = r.page /\ b.at = "reading"
    BY <2>1, <2>3a
  <2> QED
    BY <2>3, LadderFits, LadderGoes DEF r
<1> QED
  BY <1>3, <1>4

-------------------------------------------------------------------------------
(* The invocation. *)

(* A shared cache leaves no capturable document at its bare shell. *)
LEMMA InvocationCompletes ==
  ASSUME Clocked, NEW r, r.kind = "document", incrementalCacheShared, r.inject = "none",
         minimalMode(r)
  PROVE  route.ppr = "none" \/ capturePostponedState(r)
<1>1. scenario.route \in Routes
  BY DispatchAssumption DEF Clocked
<1>2. route.ppr \in {"none", "build-shell", "root-params", "runtime-capture"}
  BY <1>1 DEF route, Routes
<1>3. classifyPprRequest(r) = "capturable-document"
  BY DEF classifyPprRequest
<1>4. isPprDocument(r)
  BY <1>3 DEF isPprDocument
<1>5. ~forceNonMinimal(r)
  BY DEF minimalMode
<1>6. CASE route.ppr = "build-shell"
  <2>1. ~r.stale
    BY <1>5, <1>6 DEF forceNonMinimal
  <2> QED
    BY <1>3, <1>5, <1>6, <2>1 DEF capturePostponedState
<1>7. CASE route.ppr = "root-params"
  BY <1>5, <1>7 DEF forceNonMinimal
<1>8. CASE route.ppr = "runtime-capture"
  BY <1>3, <1>5, <1>8 DEF capturePostponedState
<1> QED
  BY <1>2, <1>6, <1>7, <1>8

(* The request as the invocation receives it. *)
LEMMA InvokingFits ==
  ASSUME Clocked, NEW r, NEW s, Own(r), Current(r, s), r.at = "decide",
         r.inject # "none" => s.bar <= IF r.got # NoEntry THEN r.got.lastModified ELSE BuildTime,
         platformCache /\ s.entry /\ ~r.lost /\ r.kind \in {"document", "resumed"}
           /\ r.inject # "none" => r.got # NoEntry /\ r.got.lastModified > BuildTime
  PROVE  /\ Ladder(Invoking(r), s)
         /\ Invoking(r).page = r.page /\ Invoking(r).at \in {"invoked", "reading"}
<1> DEFINE minimal == minimalMode(r)
           capture == capturePostponedState(r) /\ minimal
           ready == [r EXCEPT !.minimal = minimal, !.capture = capture]
<1>1. DOMAIN r = RequestFields
  BY DEF Own
<1>2. r.kind = "document" /\ incrementalCacheShared /\ r.inject = "none" /\ minimal =>
        route.ppr = "none" \/ capture
  BY InvocationCompletes
<1>3. isVerifiedPreviewRequest(r) => ~minimal
  BY DEF minimalMode
<1>4. Invoking(r) = IF minimal \/ ~incrementalCacheShared \/ isVerifiedPreviewRequest(r)
                    THEN [ready EXCEPT !.at = "invoked"]
                    ELSE Reading(ready, r.page, "get", "next")
  BY <1>1 DEF Invoking, RequestFields
<1> HIDE DEF minimal, capture
<1>5. /\ DOMAIN ready = RequestFields /\ ready.minimal = minimal /\ ready.capture = capture
      /\ \A f \in RequestFields \ {"minimal", "capture"} : ready[f] = r[f]
  BY <1>1 DEF RequestFields
<1> HIDE DEF ready
<1>6. Own(ready) /\ Current(ready, s) /\ ready.at = "decide" /\ ready.page = r.page
  BY <1>5 DEF Own, Current, RequestFields
<1>7. CASE minimal \/ ~incrementalCacheShared \/ isVerifiedPreviewRequest(r)
  <2> DEFINE b == [ready EXCEPT !.at = "invoked"]
  <2>1. /\ DOMAIN b = RequestFields /\ b.at = "invoked"
        /\ \A f \in RequestFields \ {"at"} : b[f] = ready[f]
    BY <1>5 DEF RequestFields
  <2>2. Invoking(r) = b
    BY <1>4, <1>7
  <2> HIDE DEF b
  <2>3. /\ b.page = r.page /\ b.kind = r.kind /\ b.inject = r.inject /\ b.got = r.got
        /\ b.lost = r.lost /\ b.minimal = minimal /\ b.capture = capture
    BY <1>5, <2>1 DEF RequestFields
  <2>4. Own(b)
    BY <1>6, <2>1 DEF Own, OnLadder, Stages, RequestFields
  <2>5. Current(b, s)
    <3>1. /\ b.fresh = r.fresh /\ b.tagsStale = r.tagsStale /\ b.usable = r.usable
          /\ b.result = r.result
      BY <1>5, <2>1 DEF RequestFields
    <3> QED
      BY <2>1, <2>3, <3>1 DEF Current
  <2>6. Superseding(b, s)
    BY <2>1, <2>3 DEF Superseding, ReadsFor
  <2>7. Completing(b)
    BY <1>2, <1>3, <1>7, <2>3 DEF Completing, InvocationSource, isPprDocument, classifyPprRequest
  <2> QED
    BY <2>1, <2>2, <2>3, <2>4, <2>5, <2>6, <2>7 DEF Ladder
<1>8. CASE ~(minimal \/ ~incrementalCacheShared \/ isVerifiedPreviewRequest(r))
  <2>1. Invoking(r) = Reading(ready, r.page, "get", "next")
    BY <1>4, <1>8
  <2>2. <<r.page, "get", "next">> \in Readings(ready.page)
    BY <1>6 DEF Readings
  <2>3. /\ Ladder(Reading(ready, r.page, "get", "next"), s)
        /\ Reading(ready, r.page, "get", "next").page = ready.page
        /\ Reading(ready, r.page, "get", "next").at = "reading"
    BY <1>6, <2>2, ReadingFits
  <2> QED
    BY <1>6, <2>1, <2>3
<1> QED
  BY <1>7, <1>8

(* An entry in hand that is served. *)
LEMMA DecideServes ==
  ASSUME NEW q \in Ids, NEW s, Ladder(req[q], s), req[q].at = "decide", EntersShell(req[q]),
         req[q].result.hit, isPprDocument(req[q])
  PROVE  Fits(FromEntry(q, IF req[q].result.entry.lastModified = BuildTime THEN "seed"
                           ELSE "stored", req[q].result.entry), s)
<1> DEFINE r == req[q]
           e == r.result.entry
<1>1. CASE e.lastModified # BuildTime
  BY <1>1, EntryFits
<1>2. CASE e.lastModified = BuildTime
  <2>1. e.page \in {r.page, Template} /\ s.bar \in Int /\ s.bar <= e.lastModified
    BY DEF Ladder, Own, Current
  <2>2. /\ r.kind # "resumed"
        /\ ~(r.kind = "document" /\ platformCache /\ s.entry /\ ~r.lost)
    BY <1>2 DEF Ladder, Superseding, ReadsFor, BuildTime
  <2>3. Fits(Answer(q, "seed", e.page, e.lastModified, "anyone"), s)
    BY <1>2, <2>1, <2>2, AnswerFits DEF BuildTime
  <2> QED
    BY <1>2, <2>3 DEF FromEntry
<1> QED
  BY <1>1, <1>2

(* The definitions of Decide, for a request r. *)
InHand(r) == EntersShell(r) /\ r.result.hit
StaleInHand(r) == InHand(r) /\ r.result.isStale
Injects(r) ==
  /\ EntersShell(r) /\ ~(classifyPprRequest(r) = "dynamic-rsc") /\ ~StaleInHand(r)
  /\ (InHand(r) /\ r.result.entry.postponed) \/ r.usable
Injected(r) ==
  IF ~Injects(r) THEN "none"
  ELSE IF InHand(r) /\ r.result.entry.postponed /\ r.result.entry.lastModified # BuildTime
  THEN "entry" ELSE "build"
Invoked(r) ==
  Invoking([r EXCEPT !.inject = Injected(r), !.stale = StaleInHand(r),
                     !.got = IF Injected(r) = "entry" THEN r.result.entry ELSE NoEntry])

(* What is injected is an entry above the bar, or the build's shell below  *)
(* no bar; a document for which a live entry stands takes that entry.      *)
LEMMA DecideInvokes ==
  ASSUME Clocked, NEW q \in Ids, NEW s, Ladder(req[q], s), req[q].at = "decide",
         ~(/\ InHand(req[q]) /\ ~(StaleInHand(req[q]) /\ isPprDocument(req[q]))
           /\ ~req[q].result.entry.postponed /\ isPprDocument(req[q]))
  PROVE  /\ Ladder(Invoked(req[q]), s) /\ Invoked(req[q]).page = req[q].page
         /\ Invoked(req[q]).at \in {"invoked", "reading"}
<1> DEFINE r == req[q]
           e == r.result.entry
           hit == InHand(r)
           stale == StaleInHand(r)
           injects == Injects(r)
           injected == Injected(r)
           got == IF injected = "entry" THEN e ELSE NoEntry
           c == [r EXCEPT !.inject = injected, !.stale = stale, !.got = got]
<1>0. /\ hit => r.result.hit
      /\ EntersShell(r) /\ r.result.hit => hit
      /\ injects => /\ EntersShell(r) /\ ~stale
                    /\ (hit /\ e.postponed) \/ r.usable
      /\ injected = IF ~injects THEN "none"
                    ELSE IF hit /\ e.postponed /\ e.lastModified # BuildTime
                    THEN "entry" ELSE "build"
      /\ ~(hit /\ ~(stale /\ isPprDocument(r)) /\ ~e.postponed /\ isPprDocument(r))
      /\ Invoked(r) = Invoking(c)
  BY DEF InHand, StaleInHand, Injects, Injected, Invoked
<1> HIDE DEF hit, stale, injects, injected
<1>1. Own(r) /\ Current(r, s) /\ Superseding(r, s) /\ DOMAIN r = RequestFields /\ r.at = "decide"
  BY DEF Ladder, Own
<1>2. r.result.hit => /\ e.page \in {r.page, Template} /\ e.lastModified \in Nat
                      /\ s.bar <= e.lastModified
  BY <1>1 DEF Own, Current
<1>2a. r.result.hit => e # NoEntry
  BY <1>2 DEF NoEntry
<1>3. /\ got.page \in {r.page, Template} /\ got.lastModified \in Int
      /\ got # NoEntry => got.lastModified >= 0
  BY <1>0, <1>2 DEF NoEntry
<1>4. injected # "none" => s.bar <= IF got # NoEntry THEN got.lastModified ELSE BuildTime
  <2>1. r.usable => s.bar <= BuildTime
    BY <1>1 DEF Current
  <2>2. CASE injected = "entry"
    BY <1>0, <1>2, <1>2a, <2>2
  <2>3. CASE injected = "build"
    BY <1>0, <1>2, <2>1, <2>3
  <2> QED
    BY <1>0, <2>2, <2>3
<1>5. platformCache /\ s.entry /\ ~r.lost /\ r.kind \in {"document", "resumed"}
        /\ injected # "none" => got # NoEntry /\ got.lastModified > BuildTime
  <2> SUFFICES ASSUME platformCache, s.entry, ~r.lost, r.kind \in {"document", "resumed"},
                      injects
               PROVE  got # NoEntry /\ got.lastModified > BuildTime
    BY <1>0
  <2>1. r.kind = "document" => hit /\ e.lastModified > BuildTime
    BY <1>0, <1>1 DEF Superseding
  <2>2. r.kind # "resumed"
    BY <1>0, <1>1 DEF Superseding, ReadsFor
  <2>3. isPprDocument(r)
    BY Documents
  <2>4. e.postponed
    BY <1>0, <2>1, <2>2, <2>3
  <2>5. e.lastModified # BuildTime
    BY <1>2, <2>1, <2>2 DEF BuildTime
  <2>6. got = e
    BY <1>0, <2>1, <2>2, <2>4, <2>5
  <2> QED
    BY <1>0, <1>2a, <2>1, <2>2, <2>6
<1> HIDE DEF got
<1>6. /\ DOMAIN c = RequestFields /\ c.inject = injected /\ c.got = got
      /\ \A f \in RequestFields \ {"inject", "stale", "got"} : c[f] = r[f]
  BY <1>1 DEF RequestFields
<1> HIDE DEF c, r, got
<1>7. /\ c.at = "decide" /\ c.page = r.page /\ c.lost = r.lost /\ c.kind = r.kind
  BY <1>1, <1>6 DEF RequestFields
<1>8. Own(c)
  BY <1>1, <1>3, <1>6, <1>7 DEF Own, RequestFields
<1>9. Current(c, s)
  BY <1>1, <1>6, <1>7 DEF Current, RequestFields
<1>10. /\ Ladder(Invoking(c), s) /\ Invoking(c).page = c.page
       /\ Invoking(c).at \in {"invoked", "reading"}
  <2>1. c.inject # "none" => s.bar <= IF c.got # NoEntry THEN c.got.lastModified ELSE BuildTime
    BY <1>4, <1>6
  <2>2. platformCache /\ s.entry /\ ~c.lost /\ c.kind \in {"document", "resumed"}
          /\ c.inject # "none" => c.got # NoEntry /\ c.got.lastModified > BuildTime
    BY <1>5, <1>6, <1>7
  <2> QED
    BY <1>7, <1>8, <1>9, <2>1, <2>2, InvokingFits
<1> QED
  BY <1>0, <1>7, <1>10 DEF r

(* The document of an invocation: the injected entry or shell, or a        *)
(* render.                                                                 *)
LEMMA RenderedFits ==
  ASSUME NEW q \in Ids, NEW s, Ladder(req[q], s), req[q].at = "invoked"
  PROVE  /\ Fits(Rendered(q), s) /\ Rendered(q).shows \in {req[q].page, Template}
<1> DEFINE r == req[q]
           src == InvocationSource(r)
           page == IF src = "resumed" /\ r.got # NoEntry THEN r.got.page ELSE r.page
           time == IF src = "resumed"
                   THEN (IF r.got # NoEntry THEN r.got.lastModified ELSE BuildTime) ELSE now
<1>1. Own(r) /\ Current(r, s) /\ Superseding(r, s) /\ Completing(r)
  BY DEF Ladder
<1>2. /\ src \in {"resumed", "rendered", "shellOnly"}
      /\ src = "resumed" => r.inject # "none"
  BY DEF InvocationSource
<1>3. page \in {r.page, Template}
  BY <1>1 DEF Own
<1>4. src = "resumed" => time >= s.bar
  <2>1. r.got.lastModified \in Int /\ s.bar \in Int
    BY <1>1 DEF Own, Current
  <2>2. src = "resumed" => s.bar <= IF r.got # NoEntry THEN r.got.lastModified ELSE BuildTime
    BY <1>1, <1>2 DEF Current
  <2> HIDE DEF src
  <2> QED
    BY <2>1, <2>2 DEF BuildTime
<1>5. r.kind \in {"document", "resumed"} /\ s.entry /\ ~r.lost /\ platformCache
        /\ src = "resumed" => time # BuildTime
  <2> SUFFICES ASSUME r.kind \in {"document", "resumed"}, s.entry, ~r.lost, platformCache,
                      src = "resumed"
               PROVE  time # BuildTime
    OBVIOUS
  <2>1. r.got # NoEntry /\ r.got.lastModified > BuildTime /\ r.got.lastModified \in Int
    BY <1>1, <1>2 DEF Superseding, Own
  <2> HIDE DEF src
  <2> QED
    BY <2>1 DEF BuildTime
<1>6. r.kind = "document" /\ incrementalCacheShared => src # "shellOnly"
  BY <1>1 DEF Completing
<1>7. Rendered(q) = Answer(q, src, page, time, q)
  BY DEF Rendered
<1> HIDE DEF src, page, time
<1>8. Fits(Answer(q, src, page, time, q), s)
  BY <1>2, <1>3, <1>4, <1>5, <1>6, AnswerFits DEF FromCache
<1>9. Answer(q, src, page, time, q).shows = page
  BY DEF Answer
<1> QED
  BY <1>3, <1>7, <1>8, <1>9

(* Next's own hit, fresh or stale. *)
LEMMA NextServesFits ==
  ASSUME NEW q \in Ids, NEW s, Ladder(req[q], s), req[q].at = "next", NEW verdict,
         verdict = IF req[q].result.hit THEN NextFreshness(req[q].result.lastModified, life, now)
                   ELSE "expired",
         verdict \in {"fresh", "stale"}
  PROVE  Fits(FromEntry(q, verdict, req[q].result.entry), s)
<1>1. req[q].result.hit
  OBVIOUS
<1>2. verdict \in {"stored", "fresh", "stale"}
  OBVIOUS
<1> QED
  BY <1>1, <1>2, EntryFits

-------------------------------------------------------------------------------
(* What a step leaves alone. *)

(* The clock and the watermarks as they were. *)
LEMMA ClockedStays ==
  ASSUME Clocked, UNCHANGED <<scenario, now, marks>>
  PROVE  Clocked'
BY DEF Clocked, platformCache, mode

(* A request that does not step still holds the live entry it read. *)
LEMMA FoundStays ==
  ASSUME Clocked, Clocked', Observe, NEW q \in Ids, req'[q] = req[q], Fits(req[q], seen[q]),
         Found(req[q], seen[q])
  PROVE  Found(req[q], seen[q])'
<1> SUFFICES ASSUME req[q].at \in OnLadder
             PROVE  seen'[q].entry =>
                      /\ Live(req[q].page)'
                      /\ req[q].at = "judging" /\ req[q].read[2] = "getStored" =>
                            req[q].got = entries'[req[q].page]
  BY DEF Found
<1>1. req'[q] # Idle /\ seen[q].bar \in Int
  BY DEF Fits, Answered, Current, OnLadder, Idle
<1>2. Bar' \in Int
  BY DEF Clocked, Bar, TagState, Unset
<1>3. seen'[q].entry => /\ seen[q].entry /\ Live(req[q].page)'
                        /\ entries'[req[q].page] = entries[req[q].page]
  BY <1>1, <1>2, Observed
<1> QED
  BY <1>3 DEF Found

(* The requests, when some of them step. *)
LEMMA OthersStay ==
  ASSUME Clocked, Clocked', UNCHANGED scenario, Observe, Fitting, DOMAIN req' = Ids,
         NEW Steps, \A q \in Ids \ Steps : req'[q] = req[q],
         \A q \in Ids \cap Steps : Fits(req[q], seen[q])' /\ Found(req[q], seen[q])'
  PROVE  Fitting'
<1>1. DOMAIN seen' = Ids
  BY DEF Observe
<1>2. ASSUME NEW q \in Ids
      PROVE  Fits(req[q], seen[q])' /\ Found(req[q], seen[q])'
  <2>1. CASE q \in Steps
    BY <2>1
  <2>2. CASE q \notin Steps
    <3>1. req'[q] = req[q] /\ Fits(req[q], seen[q]) /\ Found(req[q], seen[q])
      BY <2>2 DEF Fitting
    <3> QED
      BY <3>1, FitsStays, FoundStays
  <2> QED
    BY <2>1, <2>2
<1> QED
  BY <1>1, <1>2 DEF Fitting, Ids, Regens

(* No request steps. *)
LEMMA NobodySteps ==
  ASSUME DispatchInv, Clocked', UNCHANGED <<scenario, req, pendingRegens>>, Observe
  PROVE  Regenerating' /\ Fitting'
<1>1. Regenerating'
  BY DEF DispatchInv, Regenerating
<1>2. DOMAIN req' = Ids /\ \A q \in Ids \ {} : req'[q] = req[q]
  BY DEF DispatchInv, Fitting
<1>3. \A q \in Ids \cap {} : Fits(req[q], seen[q])' /\ Found(req[q], seen[q])'
  OBVIOUS
<1> QED
  BY <1>1, <1>2, <1>3, OthersStay DEF DispatchInv

(* The stage tells which disjunct a request fits. *)
LEMMA Stage ==
  ASSUME DispatchInv, NEW q \in Ids
  PROVE  /\ req[q].at \in OnLadder => Ladder(req[q], seen[q])
         /\ req[q].at = "idle" => req[q] = Idle
BY DEF DispatchInv, Fitting, Fits, Answered, Own, Ladder, OnLadder, Idle

(* What has been seen of a request on the ladder when it steps. *)
LEMMA SeenOf ==
  ASSUME DispatchInv, Clocked', Observe, NEW q \in Ids, req[q].at \in OnLadder, req'[q] # Idle
  PROVE  /\ Ladder(req[q], seen'[q]) /\ seen'[q].bar <= Bar' /\ seen'[q].bar \in Int
         /\ seen'[q].entry => /\ seen[q].entry /\ Live(req[q].page)'
                              /\ entries'[req[q].page] = entries[req[q].page]
<1>1. Ladder(req[q], seen[q])
  BY Stage
<1>2. seen[q].bar \in Int
  BY <1>1 DEF Ladder, Current
<1>3. Bar' \in Int
  BY DEF Clocked, Bar, TagState, Unset
<1>4. /\ seen'[q].bar \in Int /\ seen'[q].bar <= seen[q].bar /\ seen'[q].bar <= Bar'
      /\ seen'[q].entry => /\ seen[q].entry /\ Live(req[q].page)'
                           /\ entries'[req[q].page] = entries[req[q].page]
  BY <1>2, <1>3, Observed
<1>5. Ladder(req[q], seen'[q])
  BY <1>1, <1>4, LadderWeakens
<1> QED
  BY <1>4, <1>5

(* One request on the ladder steps. *)
LEMMA OneSteps ==
  ASSUME DispatchInv, Clocked', UNCHANGED <<scenario, pendingRegens>>, Observe,
         NEW q \in Ids, NEW b, GoTo(q, b), req[q].at \in OnLadder, b # Idle,
         Fits(b, seen'[q]),
         b.at \in OnLadder =>
           /\ b.page = req[q].page
           /\ b.at = "judging" /\ b.read[2] = "getStored" => b.got = entries'[req[q].page]
  PROVE  Regenerating' /\ Fitting'
<1>1. /\ DOMAIN req' = Ids /\ req'[q] = b
      /\ \A id \in Ids \ {q} : req'[id] = req[id]
  BY DEF DispatchInv, Fitting, GoTo
<1>2. req[q] # Idle
  BY DEF OnLadder, Idle
<1>3. Regenerating'
  <2> SUFFICES ASSUME NEW p \in Pages, req'[<<"regen", p>>] # Idle
               PROVE  p \in pendingRegens
    BY DEF Regenerating, Idle
  <2>1. <<"regen", p>> \in Ids
    BY DEF Ids, Regens
  <2>2. req[<<"regen", p>>] # Idle
    BY <1>1, <1>2, <2>1
  <2> QED
    BY <2>2 DEF DispatchInv, Regenerating
<1>4. Fits(req[q], seen[q])'
  BY <1>1, FitsPrimed
<1>5. Found(req[q], seen[q])'
  <2> SUFFICES ASSUME b.at \in OnLadder, seen'[q].entry
               PROVE  /\ Live(b.page)'
                      /\ b.at = "judging" /\ b.read[2] = "getStored" => b.got = entries'[b.page]
    BY <1>1 DEF Found
  <2>1. Live(req[q].page)'
    BY <1>1, SeenOf
  <2> QED
    BY <1>1, <2>1 DEF Live
<1>6. \A id \in Ids \cap {q} : Fits(req[id], seen[id])' /\ Found(req[id], seen[id])'
  BY <1>4, <1>5
<1> QED
  BY <1>1, <1>3, <1>6, OthersStay DEF DispatchInv

-------------------------------------------------------------------------------
(* The actions of a request. *)

(* The shared cache, the renders behind and the recorded responses as they *)
(* were.                                                                   *)
LEMMA KeepsQuiet ==
  ASSUME Stored, UNCHANGED <<entries, background, platformResponseStore>>
  PROVE  Stored'
BY DEF Stored, Cached, Behind, Recordings, Keys, Responses

(* SeedTags keeps the invariant. *)
LEMMA SeedTagsKeeps ==
  ASSUME DispatchInv, Observe, NEW q \in Ids, SeedTags(q)
  PROVE  DispatchInv'
<1>1. /\ UNCHANGED <<scenario, now, marks, entries, background, platformResponseStore,
                     pendingRegens>>
      /\ req[q].at = "seedTags" /\ req[q].at \in OnLadder
  BY DEF SeedTags, shared, registries, OnLadder, Stages
<1>2. PICK failed \in Failures :
         GoTo(q, [req[q] EXCEPT !.at = "static", !.tagsStale = hasTagUpdates(failed)])
  BY DEF SeedTags
<1>3. Clocked' /\ Stored' /\ Bar' = Bar /\ failed \in BOOLEAN
  BY <1>1, ClockedStays, KeepsQuiet DEF DispatchInv, Failures, Bar, route
<1> DEFINE b == [req[q] EXCEPT !.at = "static", !.tagsStale = hasTagUpdates(failed)]
<1>4. DOMAIN req[q] = RequestFields
  BY <1>1, Stage DEF Ladder, Own
<1>5. b.at = "static" /\ b.page = req[q].page /\ b # Idle
  BY <1>4 DEF RequestFields, Idle
<1>6. req'[q] = b
  BY <1>2 DEF GoTo, DispatchInv, Fitting
<1> HIDE DEF b
<1>7. Ladder(req[q], seen'[q]) /\ seen'[q].bar <= Bar
  BY <1>1, <1>3, <1>5, <1>6, SeenOf
<1>8. Fits(b, seen'[q])
  BY <1>1, <1>3, <1>7, SeedTagsFits DEF DispatchInv, b
<1>9. Regenerating' /\ Fitting'
  BY <1>1, <1>2, <1>3, <1>5, <1>8, OneSteps DEF b
<1> QED
  BY <1>3, <1>9 DEF DispatchInv

(* ShellTags keeps the invariant. *)
LEMMA ShellTagsKeeps ==
  ASSUME DispatchInv, Observe, NEW q \in Ids, ShellTags(q)
  PROVE  DispatchInv'
<1>1. /\ UNCHANGED <<scenario, now, marks, entries, background, platformResponseStore,
                     pendingRegens>>
      /\ req[q].at = "shellTags" /\ req[q].at \in OnLadder
  BY DEF ShellTags, shared, registries, OnLadder, Stages
<1>2. PICK failed \in Failures :
         GoTo(q, [req[q] EXCEPT !.at = "shell", !.tagsStale = hasTagUpdates(failed)])
  BY DEF ShellTags
<1>3. Clocked' /\ Stored' /\ Bar' = Bar /\ failed \in BOOLEAN
  BY <1>1, ClockedStays, KeepsQuiet DEF DispatchInv, Failures, Bar, route
<1> DEFINE b == [req[q] EXCEPT !.at = "shell", !.tagsStale = hasTagUpdates(failed)]
<1>4. DOMAIN req[q] = RequestFields
  BY <1>1, Stage DEF Ladder, Own
<1>5. b.at = "shell" /\ b.page = req[q].page /\ b # Idle
  BY <1>4 DEF RequestFields, Idle
<1>6. req'[q] = b
  BY <1>2 DEF GoTo, DispatchInv, Fitting
<1> HIDE DEF b
<1>7. Ladder(req[q], seen'[q]) /\ seen'[q].bar <= Bar
  BY <1>1, <1>3, <1>5, <1>6, SeenOf
<1>8. Fits(b, seen'[q])
  BY <1>1, <1>3, <1>7, ShellTagsFits DEF DispatchInv, b
<1>9. Regenerating' /\ Fitting'
  BY <1>1, <1>2, <1>3, <1>5, <1>8, OneSteps DEF b
<1> QED
  BY <1>3, <1>9 DEF DispatchInv

(* ReadEntry keeps the invariant. *)
LEMMA ReadEntryKeeps ==
  ASSUME DispatchInv, Observe, NEW q \in Ids, ReadEntry(q)
  PROVE  DispatchInv'
<1> DEFINE key == req[q].read[1]
           via == req[q].read[2]
           stored == IF via = "getSeed" THEN NoEntry ELSE entries[key]
           got == IF stored = NoEntry /\ via # "getStored" THEN Seed(key) ELSE stored
           b == [req[q] EXCEPT !.at = "judging", !.got = got]
<1>1. /\ UNCHANGED <<scenario, now, marks, entries, background, platformResponseStore,
                     pendingRegens>>
      /\ req[q].at = "reading" /\ req[q].at \in OnLadder /\ GoTo(q, b)
  BY DEF ReadEntry, shared, registries, OnLadder, Stages
<1>2. Clocked' /\ Stored'
  BY <1>1, ClockedStays, KeepsQuiet DEF DispatchInv
<1>3. DOMAIN req[q] = RequestFields
  BY <1>1, Stage DEF Ladder, Own
<1> HIDE DEF got
<1>4. b.at = "judging" /\ b.page = req[q].page /\ b # Idle /\ b.got = got /\ b.read = req[q].read
  BY <1>3 DEF RequestFields, Idle
<1>5. req'[q] = b
  BY <1>1 DEF GoTo, DispatchInv, Fitting
<1> HIDE DEF b
<1>6. Ladder(req[q], seen'[q])
  BY <1>1, <1>2, <1>4, <1>5, SeenOf
<1>7. Fits(b, seen'[q]) /\ (via = "getStored" => got = entries[req[q].page])
  BY <1>1, <1>6, ReadEntryFits DEF DispatchInv, b, got
<1>8. Regenerating' /\ Fitting'
  BY <1>1, <1>2, <1>4, <1>7, OneSteps
<1> QED
  BY <1>2, <1>8 DEF DispatchInv

(* ReadMarks keeps the invariant: the entry in hand is the live one, for   *)
(* one and the same entry stood since the request began.                   *)
LEMMA ReadMarksKeeps ==
  ASSUME DispatchInv, Observe, NEW q \in Ids, ReadMarks(q)
  PROVE  DispatchInv'
<1>1. /\ UNCHANGED <<scenario, now, marks, entries, background, platformResponseStore,
                     pendingRegens>>
      /\ req[q].at = "judging" /\ req[q].at \in OnLadder
  BY DEF ReadMarks, shared, registries, OnLadder, Stages
<1>2. PICK failed \in Failures :
        LET r == req[q]
            result == IF failed \/ r.got = NoEntry THEN Miss
                      ELSE readEntry(r.got, life, marks, now, r.read[2] # "get")
        IN  GoTo(q, [r EXCEPT !.at = r.read[3], !.result = result, !.got = NoEntry,
                              !.read = <<>>, !.lost = @ \/ failed])
  BY DEF ReadMarks
<1> DEFINE result == IF failed \/ req[q].got = NoEntry THEN Miss
                     ELSE readEntry(req[q].got, life, marks, now, req[q].read[2] # "get")
           b == [req[q] EXCEPT !.at = req[q].read[3], !.result = result, !.got = NoEntry,
                               !.read = <<>>, !.lost = @ \/ failed]
<1>3. Clocked' /\ Stored' /\ Bar' = Bar /\ failed \in BOOLEAN
  BY <1>1, ClockedStays, KeepsQuiet DEF DispatchInv, Failures, Bar, route
<1>4. DOMAIN req[q] = RequestFields /\ req[q].read \in Readings(req[q].page)
  BY <1>1, Stage DEF Ladder, Own
<1>5. req[q].read[3] \notin {"judging", "idle"}
  BY <1>4 DEF Readings
<1>6. GoTo(q, b)
  BY <1>2
<1> HIDE DEF result
<1>7. b.at = req[q].read[3] /\ b.page = req[q].page
  BY <1>4 DEF RequestFields
<1>8. req'[q] = b
  BY <1>6 DEF GoTo, DispatchInv, Fitting
<1> HIDE DEF b
<1>9. b # Idle
  BY <1>5, <1>7 DEF Idle
<1>10. /\ Ladder(req[q], seen'[q]) /\ seen'[q].bar <= Bar
       /\ seen'[q].entry => /\ seen[q].entry /\ Live(req[q].page)'
  BY <1>1, <1>3, <1>8, <1>9, SeenOf
<1>11. seen'[q].entry => Live(req[q].page)
  BY <1>1, <1>7, <1>8, <1>10 DEF Live, route
<1>12. seen'[q].entry /\ req[q].read[2] = "getStored" => req[q].got = entries[req[q].page]
  BY <1>1, <1>10 DEF DispatchInv, Fitting, Found
<1>13. Fits(b, seen'[q])
  BY <1>1, <1>3, <1>10, <1>11, <1>12, ReadMarksFits DEF DispatchInv, b, result
<1>14. Regenerating' /\ Fitting'
  BY <1>1, <1>3, <1>5, <1>6, <1>7, <1>9, <1>13, OneSteps
<1> QED
  BY <1>3, <1>14 DEF DispatchInv

(* A step of one request that leaves the shared cache and the clock. *)
LEMMA QuietStep ==
  ASSUME DispatchInv, Stored', Observe, NEW q \in Ids, NEW b, GoTo(q, b), req[q].at \in OnLadder,
         UNCHANGED <<scenario, now, marks, pendingRegens>>,
         \A s : Ladder(req[q], s) /\ s.bar <= Bar => Fits(b, s) /\ Goes(req[q], b)
  PROVE  DispatchInv'
<1> DEFINE low == [bar |-> Lower(seen[q].bar, Bar), entry |-> FALSE]
<1>0. Goes(req[q], b)
  <2>1. Ladder(req[q], seen[q]) /\ seen[q].bar \in Int /\ Bar \in Int
    BY Stage, BarType DEF DispatchInv, Ladder, Current
  <2>2. low.bar \in Int /\ low.bar <= seen[q].bar /\ low.bar <= Bar /\ (low.entry => seen[q].entry)
    BY <2>1 DEF Lower
  <2> HIDE DEF low
  <2> QED
    BY <2>1, <2>2, LadderWeakens
<1>1. Clocked' /\ Bar' = Bar
  BY ClockedStays DEF DispatchInv, Bar, route
<1>2. req'[q] = b
  BY DEF GoTo, DispatchInv, Fitting
<1>3. b # Idle /\ (b.at \in OnLadder => b.page = req[q].page /\ b.at # "judging")
  BY <1>0 DEF Goes
<1>4. Ladder(req[q], seen'[q]) /\ seen'[q].bar <= Bar
  BY <1>1, <1>2, <1>3, SeenOf
<1>5. Fits(b, seen'[q])
  BY <1>4
<1>6. Regenerating' /\ Fitting'
  BY <1>1, <1>3, <1>5, OneSteps
<1> QED
  BY <1>1, <1>6 DEF DispatchInv

(* Static keeps the invariant, the shell fill it may begin included. *)
LEMMA StaticKeeps ==
  ASSUME DispatchInv, Observe, NEW q \in Ids, Static(q)
  PROVE  DispatchInv'
<1> DEFINE b == StaticStep(q, req[q])
<1>1. /\ UNCHANGED <<scenario, now, marks, entries, platformResponseStore, pendingRegens>>
      /\ req[q].at = "static" /\ req[q].at \in OnLadder /\ GoTo(q, b) /\ FillShell(req[q])
  BY DEF Static, shared, OnLadder, Stages
<1>2. Ladder(req[q], seen[q]) /\ req[q].page \in Pages
  BY <1>1, Stage DEF Ladder, Own
<1>3. background' = background \/ background' = background \cup {<<"fill", req[q].page>>}
  BY <1>1 DEF FillShell
<1>4. Behind'
  BY <1>2, <1>3 DEF DispatchInv, Stored, Behind
<1>5. Stored'
  BY <1>1, <1>4 DEF DispatchInv, Stored, Cached, Recordings, Keys, Responses
<1>6. \A s : Ladder(req[q], s) => Fits(b, s) /\ Goes(req[q], b)
  BY <1>1, StaticFits DEF DispatchInv
<1> HIDE DEF b
<1> QED
  BY <1>1, <1>5, <1>6, QuietStep

(* StaticStored keeps the invariant. *)
LEMMA StaticStoredKeeps ==
  ASSUME DispatchInv, Observe, NEW q \in Ids, StaticStored(q)
  PROVE  DispatchInv'
<1> DEFINE r == req[q]
           b == IF r.result.hit /\ (r.at = "segmentStored" => r.result.entry.segments)
                THEN FromEntry(q, "stored", r.result.entry)
                ELSE CASE r.at = "segmentStored" -> FromBuild(q, "variant")
                       [] r.at = "fallbackStored" -> FromBuild(q, "skeleton")
                       [] r.at = "seedStored" ->
                              FromBuild(q, IF serveConcretePrerenderSeed(r) THEN "seed"
                                           ELSE "handlerless")
<1>1. /\ UNCHANGED <<scenario, now, marks, entries, background, platformResponseStore,
                     pendingRegens>>
      /\ req[q].at \in {"seedStored", "segmentStored", "fallbackStored"} /\ GoTo(q, b)
  BY DEF StaticStored, shared, registries
<1>2. req[q].at \in OnLadder
  BY <1>1 DEF OnLadder, Stages
<1>3. Ladder(req[q], seen[q]) /\ Stored'
  BY <1>1, <1>2, Stage, KeepsQuiet DEF DispatchInv
<1>4. \A s : Ladder(req[q], s) => Fits(b, s) /\ Goes(req[q], b)
  BY <1>1, StaticStoredFits DEF DispatchInv
<1> HIDE DEF b
<1> QED
  BY <1>1, <1>2, <1>3, <1>4, QuietStep

(* Route keeps the invariant. *)
LEMMA RouteKeeps ==
  ASSUME DispatchInv, Observe, NEW q \in Ids, Route(q)
  PROVE  DispatchInv'
<1> DEFINE r == req[q]
           b == CASE route.strict /\ ~isVerifiedPreviewRequest(r) -> Plain(q, "404")
                  [] OTHER ->
                       IF ~route.owned THEN [r EXCEPT !.at = "proxy"]
                       ELSE IF ~route.handler THEN Plain(q, "404")
                       ELSE IF route.edge THEN [r EXCEPT !.at = "edge"]
                       ELSE RouteStep(q, r)
<1>1. /\ UNCHANGED <<scenario, now, marks, entries, background, platformResponseStore,
                     pendingRegens>>
      /\ req[q].at = "route" /\ GoTo(q, b)
  BY DEF Route, shared
<1>2. req[q].at \in OnLadder
  BY <1>1 DEF OnLadder, Stages
<1>3. Ladder(req[q], seen[q]) /\ Stored'
  BY <1>1, <1>2, Stage, KeepsQuiet DEF DispatchInv
<1>4. \A s : Ladder(req[q], s) /\ s.bar <= Bar => Fits(b, s) /\ Goes(req[q], b)
  BY <1>1, RouteFits DEF DispatchInv
<1> HIDE DEF b
<1> QED
  BY <1>1, <1>2, <1>3, <1>4, QuietStep

(* ShellStored keeps the invariant. *)
LEMMA ShellStoredKeeps ==
  ASSUME DispatchInv, Observe, NEW q \in Ids, ShellStored(q)
  PROVE  DispatchInv'
<1> DEFINE b == IF req[q].result.hit \/ ~req[q].usable THEN [req[q] EXCEPT !.at = "decide"]
                ELSE Reading(req[q], req[q].page, "getPeek", "shellSeed")
<1>1. /\ UNCHANGED <<scenario, now, marks, entries, background, platformResponseStore,
                     pendingRegens>>
      /\ req[q].at = "shellStored" /\ GoTo(q, b)
  BY DEF ShellStored, shared, registries
<1>2. req[q].at \in OnLadder
  BY <1>1 DEF OnLadder, Stages
<1>3. Stored'
  BY <1>1, KeepsQuiet DEF DispatchInv
<1>4. \A s : Ladder(req[q], s) => Fits(b, s) /\ Goes(req[q], b)
  BY <1>1, ShellStoredFits DEF DispatchInv
<1> HIDE DEF b
<1> QED
  BY <1>1, <1>2, <1>3, <1>4, QuietStep

(* ShellSeed keeps the invariant. *)
LEMMA ShellSeedKeeps ==
  ASSUME DispatchInv, Observe, NEW q \in Ids, ShellSeed(q)
  PROVE  DispatchInv'
<1> DEFINE b == IF req[q].result.hit THEN [req[q] EXCEPT !.at = "decide"]
                ELSE Reading(req[q], Template, "getSeed", "decide")
<1>1. /\ UNCHANGED <<scenario, now, marks, entries, background, platformResponseStore,
                     pendingRegens>>
      /\ req[q].at = "shellSeed" /\ GoTo(q, b)
  BY DEF ShellSeed, shared, registries
<1>2. req[q].at \in OnLadder
  BY <1>1 DEF OnLadder, Stages
<1>3. Stored'
  BY <1>1, KeepsQuiet DEF DispatchInv
<1>4. \A s : Ladder(req[q], s) => Fits(b, s) /\ Goes(req[q], b)
  BY <1>1, ShellSeedFits DEF DispatchInv
<1> HIDE DEF b
<1> QED
  BY <1>1, <1>2, <1>3, <1>4, QuietStep

(* Shell keeps the invariant. *)
LEMMA ShellKeeps ==
  ASSUME DispatchInv, Observe, NEW q \in Ids, Shell(q)
  PROVE  DispatchInv'
<1> DEFINE b == IF readsPlatformCache(Judged(q))
                THEN Reading(Judged(q), Judged(q).page, "getStored", "shellStored")
                ELSE [Judged(q) EXCEPT !.at = "decide"]
<1>1. /\ UNCHANGED <<scenario, now, marks, entries, background, platformResponseStore,
                     pendingRegens>>
      /\ req[q].at = "shell" /\ GoTo(q, b)
  BY DEF Shell, Judged, shared, registries
<1>2. req[q].at \in OnLadder
  BY <1>1 DEF OnLadder, Stages
<1>3. Stored'
  BY <1>1, KeepsQuiet DEF DispatchInv
<1>4. \A s : Ladder(req[q], s) => Fits(b, s) /\ Goes(req[q], b)
  BY <1>1, ShellFits DEF DispatchInv
<1> HIDE DEF b
<1> QED
  BY <1>1, <1>2, <1>3, <1>4, QuietStep

(* Elsewhere keeps the invariant. *)
LEMMA ElsewhereKeeps ==
  ASSUME DispatchInv, Observe, NEW q \in Ids, Elsewhere(q)
  PROVE  DispatchInv'
<1>1. /\ UNCHANGED <<scenario, now, marks, entries, background, platformResponseStore,
                     pendingRegens>>
      /\ req[q].at \in OnLadder
  BY DEF Elsewhere, shared, registries, OnLadder, Stages
<1>2. PICK src \in {"elsewhere", "502", "504"} : GoTo(q, Plain(q, src))
  BY DEF Elsewhere
<1>3. Stored'
  BY <1>1, KeepsQuiet DEF DispatchInv
<1>4. \A s : Fits(Plain(q, src), s) /\ Goes(req[q], Plain(q, src))
  BY PlainFits, PlainGoes
<1> QED
  BY <1>1, <1>2, <1>3, <1>4, QuietStep

(* InvocationFails keeps the invariant. *)
LEMMA InvocationFailsKeeps ==
  ASSUME DispatchInv, Observe, NEW q \in Ids, InvocationFails(q)
  PROVE  DispatchInv'
<1>1. /\ UNCHANGED <<scenario, now, marks, entries, background, platformResponseStore,
                     pendingRegens>>
      /\ req[q].at \in OnLadder
  BY DEF InvocationFails, shared, registries, OnLadder, Stages
<1>2. PICK src \in {"500", "504"} : GoTo(q, Plain(q, src))
  BY DEF InvocationFails
<1>3. Stored'
  BY <1>1, KeepsQuiet DEF DispatchInv
<1>4. \A s : Fits(Plain(q, src), s) /\ Goes(req[q], Plain(q, src))
  BY PlainFits, PlainGoes
<1> QED
  BY <1>1, <1>2, <1>3, <1>4, QuietStep

-------------------------------------------------------------------------------
(* The invocation and the shared cache. *)

(* An entry Next writes is newer than the build and, under a page's key,   *)
(* that page's.                                                            *)
LEMMA WriteKeeps ==
  ASSUME DispatchInv, NEW p \in Pages, Write(p)
  PROVE  Cached'
<1>1. PICK e \in NewEntries(p), key \in WriteKeys(p) : entries' = [entries EXCEPT ![key] = e]
  BY DEF Write
<1>2. e.page = p /\ e.lastModified = now
  <2>1. PICK postponed : e = newEntry(p, postponed, route.router = "app", now)
    BY Zenon DEF NewEntries
  <2> QED
    BY <2>1 DEF newEntry
<1>3. key \in Keys /\ (key \in Pages => key = p)
  BY DispatchAssumption DEF WriteKeys, Keys
<1>4. now \in Nat /\ now > BuildTime /\ p \in Keys /\ Cached
  BY DEF DispatchInv, Clocked, Keys, Stored
<1>5. /\ DOMAIN entries' = Keys /\ entries'[key] = e
      /\ \A k \in Keys \ {key} : entries'[k] = entries[k]
  BY <1>1, <1>3, <1>4 DEF Cached
<1> SUFFICES ASSUME NEW k \in Keys
             PROVE  /\ entries'[k].page \in Keys /\ entries'[k].lastModified \in Int
                    /\ entries'[k] # NoEntry => /\ entries'[k].lastModified > BuildTime
                                                /\ k \in Pages => entries'[k].page = k
  BY <1>5 DEF Cached, Keys, NoEntry
<1>6. CASE k = key
  BY <1>2, <1>3, <1>4, <1>5, <1>6
<1>7. CASE k # key
  BY <1>4, <1>5, <1>7 DEF Cached
<1> QED
  BY <1>6, <1>7

(* Entries as they were. *)
LEMMA CachedStays == ASSUME Cached, UNCHANGED entries PROVE Cached'
BY DEF Cached, Keys, NoEntry

(* The Map of recorded responses keeps what its keys stand for. *)
LEMMA RecordKeeps ==
  ASSUME Recordings, NEW e \in Responses, e.shows \in {e.key, Template},
         platformResponseStore' = storePlatformResponse(e)
  PROVE  Recordings'
<1> DEFINE all == platformResponseStore
           s == IF Len(all) >= PlatformStoreCap THEN Tail(all) ELSE all
           Fine(t) == /\ t \in Seq(Responses)
                      /\ \A i \in DOMAIN t : t[i].shows \in {t[i].key, Template}
<1>1. all \in Seq(Responses) /\ \A i \in DOMAIN all : all[i].shows \in {all[i].key, Template}
  BY DEF Recordings
<1>2. PlatformStoreCap \in Nat \ {0}
  BY DispatchAssumption
<1>3. Fine(s)
  <2>1. CASE Len(all) >= PlatformStoreCap
    <3>1. Len(all) \in Nat /\ Len(all) > 0 /\ all # <<>>
      BY <1>1, <1>2, <2>1
    <3>2. /\ Tail(all) \in Seq(Responses) /\ DOMAIN Tail(all) = 1 .. (Len(all) - 1)
          /\ \A i \in 1 .. (Len(all) - 1) : Tail(all)[i] = all[i + 1]
      BY <1>1, <3>1
    <3>3. \A i \in 1 .. (Len(all) - 1) : i + 1 \in DOMAIN all
      BY <1>1, <3>1
    <3> HIDE DEF all
    <3>4. Fine(Tail(all))
      BY <1>1, <3>2, <3>3
    <3> QED
      BY <2>1, <3>4
  <2>2. CASE ~(Len(all) >= PlatformStoreCap)
    BY <1>1, <2>2
  <2> QED
    BY <2>1, <2>2
<1>4. platformResponseStore' = IF \E i \in DOMAIN s : s[i].key = e.key
                               THEN [i \in DOMAIN s |-> IF s[i].key = e.key THEN e ELSE s[i]]
                               ELSE Append(s, e)
  BY DEF storePlatformResponse
<1> HIDE DEF s, all
<1>5. CASE \E i \in DOMAIN s : s[i].key = e.key
  <2> DEFINE t == [i \in DOMAIN s |-> IF s[i].key = e.key THEN e ELSE s[i]]
  <2>1. DOMAIN s = 1 .. Len(s) /\ Len(s) \in Nat /\ \A i \in DOMAIN s : s[i] \in Responses
    BY <1>3
  <2>2. \A i \in DOMAIN s : t[i] \in Responses /\ t[i].shows \in {t[i].key, Template}
    BY <1>3, <2>1
  <2>3. DOMAIN t = 1 .. Len(s)
    BY <2>1
  <2> HIDE DEF t
  <2>4. t \in Seq(Responses)
    <3>1. t \in [1 .. Len(s) -> Responses]
      BY <2>1, <2>2, <2>3 DEF t
    <3> QED
      BY <2>1, <3>1
  <2>5. platformResponseStore' = t
    BY <1>4, <1>5 DEF t
  <2> QED
    BY <2>1, <2>2, <2>3, <2>4, <2>5 DEF Recordings, Responses, Keys
<1>6. CASE ~(\E i \in DOMAIN s : s[i].key = e.key)
  <2>1. platformResponseStore' = Append(s, e)
    BY <1>4, <1>6
  <2>2. /\ Append(s, e) \in Seq(Responses) /\ DOMAIN Append(s, e) = 1 .. (Len(s) + 1)
        /\ \A i \in 1 .. Len(s) : Append(s, e)[i] = s[i]
        /\ Append(s, e)[Len(s) + 1] = e /\ Len(s) \in Nat /\ DOMAIN s = 1 .. Len(s)
    BY <1>3
  <2>3. ASSUME NEW i \in 1 .. (Len(s) + 1)
        PROVE  Append(s, e)[i].shows \in {Append(s, e)[i].key, Template}
    <3>1. CASE i = Len(s) + 1
      BY <2>2, <3>1
    <3>2. CASE i # Len(s) + 1
      <4>1. i \in 1 .. Len(s)
        BY <2>2, <3>2
      <4> QED
        BY <1>3, <2>2, <4>1
    <3> QED
      BY <3>1, <3>2
  <2> QED
    BY <2>1, <2>2, <2>3 DEF Recordings, Responses, Keys
<1> QED
  BY <1>5, <1>6

(* InvocationEnds keeps the invariant, with the entry it may write and the *)
(* response it may record.                                                 *)
LEMMA InvocationEndsKeeps ==
  ASSUME DispatchInv, Observe, NEW q \in Ids, InvocationEnds(q)
  PROVE  DispatchInv'
<1> DEFINE r == req[q]
           b == Rendered(q)
           e == [key |-> platformKey(r), shows |-> b.shows, time |-> b.time, who |-> b.who]
<1>1. /\ UNCHANGED <<scenario, now, marks, background, pendingRegens>>
      /\ req[q].at = "invoked" /\ GoTo(q, b)
      /\ Write(r.page) \/ UNCHANGED entries
      /\ platformResponseStore' = IF r.record THEN storePlatformResponse(e)
                                  ELSE platformResponseStore
  BY DEF InvocationEnds
<1>2. req[q].at \in OnLadder
  BY <1>1 DEF OnLadder, Stages
<1>3. Ladder(r, seen[q]) /\ r.page \in Pages /\ (r.record => platformFullyKeyed)
      /\ r.got.lastModified \in Int
  BY <1>2, Stage DEF Ladder, Own
<1>4. Cached'
  BY <1>1, <1>3, WriteKeeps, CachedStays DEF DispatchInv, Stored
<1>5. Behind'
  BY <1>1 DEF DispatchInv, Stored, Behind
<1>6. Recordings'
  <2>1. CASE r.record
    <3>1. b.shows \in {r.page, Template} /\ platformKey(r) = r.page
      BY <1>1, <1>3, <2>1, RenderedFits DEF platformKey
    <3>2. b.time \in Int /\ b.who = q
      BY <1>3 DEF Rendered, Answer, DispatchInv, Clocked, BuildTime
    <3>3. e \in Responses /\ e.shows \in {e.key, Template}
      BY <1>3, <3>1, <3>2 DEF Responses, Keys
    <3>4. platformResponseStore' = storePlatformResponse(e)
      BY <1>1, <2>1
    <3> HIDE DEF e
    <3> QED
      BY <3>3, <3>4, RecordKeeps DEF DispatchInv, Stored
  <2>2. CASE ~r.record
    BY <1>1, <2>2 DEF DispatchInv, Stored, Recordings, Responses, Keys
  <2> QED
    BY <2>1, <2>2
<1>7. Stored'
  BY <1>4, <1>5, <1>6 DEF Stored
<1>8. \A s : Ladder(req[q], s) => Fits(b, s) /\ Goes(req[q], b)
  BY <1>1, RenderedFits, AnswerGoes DEF Rendered
<1> HIDE DEF b
<1> QED
  BY <1>1, <1>2, <1>7, <1>8, QuietStep

(* NextServes keeps the invariant, with the entry it may write or the      *)
(* render it leaves behind.                                                *)
LEMMA NextServesKeeps ==
  ASSUME DispatchInv, Observe, NEW q \in Ids, NextServes(q)
  PROVE  DispatchInv'
<1> DEFINE r == req[q]
           verdict == IF r.result.hit THEN NextFreshness(r.result.lastModified, life, now)
                      ELSE "expired"
<1>1. /\ UNCHANGED <<scenario, now, marks, pendingRegens, platformResponseStore>>
      /\ req[q].at = "next"
      /\ Write(r.page) \/ UNCHANGED entries
      /\ background' \in {background, background \cup {<<"regenerate", r.page>>}}
  BY DEF NextServes, registries
<1>2. req[q].at \in OnLadder
  BY <1>1 DEF OnLadder, Stages
<1>3. Ladder(r, seen[q]) /\ r.page \in Pages
  BY <1>2, Stage DEF Ladder, Own
<1>4. Cached'
  BY <1>1, <1>3, WriteKeeps, CachedStays DEF DispatchInv, Stored
<1>5. Behind'
  BY <1>1, <1>3 DEF DispatchInv, Stored, Behind
<1>6. Stored'
  BY <1>1, <1>4, <1>5 DEF DispatchInv, Stored, Recordings, Responses, Keys
<1>7. CASE verdict \in {"fresh", "stale"}
  <2>1. GoTo(q, FromEntry(q, verdict, r.result.entry))
    BY <1>7 DEF NextServes
  <2> DEFINE b == FromEntry(q, verdict, r.result.entry)
  <2>2. \A s : Ladder(req[q], s) => Fits(b, s)
    BY <1>1, <1>7, NextServesFits
  <2>3. Goes(req[q], b)
    BY AnswerGoes DEF FromEntry
  <2> HIDE DEF b, verdict
  <2>4. GoTo(q, b)
    BY <2>1 DEF b
  <2> QED
    BY <1>1, <1>2, <1>6, <2>2, <2>3, <2>4, QuietStep
<1>8. CASE verdict \notin {"fresh", "stale"}
  <2>1. GoTo(q, Plain(q, "rendered"))
    BY <1>8 DEF NextServes
  <2>2. \A s : Fits(Plain(q, "rendered"), s) /\ Goes(req[q], Plain(q, "rendered"))
    BY PlainFits, PlainGoes
  <2> QED
    BY <1>1, <1>2, <1>6, <2>1, <2>2, QuietStep
<1> QED
  BY <1>7, <1>8

(* A request that begins has seen the bar and the entry of that moment. *)
LEMMA Begins ==
  ASSUME DispatchInv, Clocked', Observe, UNCHANGED <<scenario, now, marks, entries>>,
         NEW q \in Ids, req[q] = Idle \/ Done(q), NEW p \in Pages, NEW kind, NEW preview,
         req'[q] = Begin(q, NewRequest(p, kind, preview))
  PROVE  Fits(req[q], seen[q])' /\ Found(req[q], seen[q])' /\ req'[q] # Idle
<1> DEFINE b == Begin(q, NewRequest(p, kind, preview))
<1>1. b.at = "done" \/ b.at \in OnLadder
  BY DEF Begin, NewRequest, OnLadder, Stages
<1>2. b.at \in OnLadder => seen'[q].bar = Bar /\ (seen'[q].entry => Live(req'[q].page))
  BY ObservedBegin
<1>3. b.at # "done" => seen'[q].bar \in Int /\ seen'[q].bar <= Bar
  BY <1>1, <1>2, BarType DEF DispatchInv
<1>4. /\ Fits(b, seen'[q]) /\ b # Idle
      /\ b.at \in OnLadder => b.page = p /\ b.at # "judging"
  BY <1>3, BeginFits DEF DispatchInv
<1> HIDE DEF b
<1>5. Fits(req[q], seen[q])'
  BY <1>4, FitsPrimed DEF b
<1>6. Found(req[q], seen[q])'
  <2> SUFFICES ASSUME req'[q].at \in OnLadder, seen'[q].entry
               PROVE  Live(req[q].page)' /\ req'[q].at # "judging"
    BY DEF Found
  <2>1. Live(req'[q].page) /\ req'[q].at # "judging"
    BY <1>2, <1>4 DEF b
  <2> QED
    BY <2>1 DEF Live, route
<1> QED
  BY <1>4, <1>5, <1>6 DEF b

(* Arrive keeps the invariant. *)
LEMMA ArriveKeeps ==
  ASSUME DispatchInv, Observe, NEW q \in Requests, Arrive(q)
  PROVE  DispatchInv'
<1>1. /\ UNCHANGED <<scenario, now, marks, entries, background, platformResponseStore,
                     pendingRegens>>
      /\ req[q].at \in {"idle", "done"}
  BY DEF Arrive, shared, registries
<1>2. PICK p \in scenario.pages, k \in scenario.kinds :
         GoTo(q, Begin(q, NewRequest(p, k[1], k[2])))
  BY DEF Arrive
<1>3. p \in Pages /\ q \in Ids /\ \A o \in Pages : <<"regen", o>> # q
  BY DispatchAssumption DEF DispatchInv, Clocked, Ids, Regens
<1>4. Clocked' /\ Stored'
  BY <1>1, ClockedStays, KeepsQuiet DEF DispatchInv
<1>5. req[q] = Idle \/ Done(q)
  BY <1>1, <1>3, Stage DEF Done
<1>6. /\ DOMAIN req' = Ids /\ req'[q] = Begin(q, NewRequest(p, k[1], k[2]))
      /\ \A id \in Ids \ {q} : req'[id] = req[id]
  BY <1>2, <1>3 DEF DispatchInv, Fitting, GoTo
<1>7. Fits(req[q], seen[q])' /\ Found(req[q], seen[q])'
  BY <1>1, <1>3, <1>4, <1>5, <1>6, Begins
<1>8. Fitting'
  <2>1. \A id \in Ids \cap {q} : Fits(req[id], seen[id])' /\ Found(req[id], seen[id])'
    BY <1>7
  <2> QED
    BY <1>1, <1>4, <1>6, <2>1, OthersStay DEF DispatchInv
<1>9. Regenerating'
  <2> SUFFICES ASSUME NEW o \in Pages, req'[<<"regen", o>>] # Idle
               PROVE  o \in pendingRegens
    BY <1>1 DEF Regenerating, Idle
  <2>1. <<"regen", o>> \in Ids
    BY DEF Ids, Regens
  <2>2. req'[<<"regen", o>>] = req[<<"regen", o>>]
    BY <1>3, <1>6, <2>1
  <2> QED
    BY <2>2 DEF DispatchInv, Regenerating
<1> QED
  BY <1>4, <1>8, <1>9 DEF DispatchInv

(* RegenSettles keeps the invariant. *)
LEMMA RegenSettlesKeeps ==
  ASSUME DispatchInv, Observe, NEW p \in Pages, RegenSettles(p)
  PROVE  DispatchInv'
<1> DEFINE regen == <<"regen", p>>
<1>1. /\ UNCHANGED <<scenario, now, marks, entries, background, platformResponseStore>>
      /\ GoTo(regen, Idle) /\ pendingRegens' = pendingRegens \ {p}
  BY DEF RegenSettles, shared
<1>2. regen \in Ids
  BY DEF Ids, Regens
<1>3. Clocked' /\ Stored'
  BY <1>1, ClockedStays, KeepsQuiet DEF DispatchInv
<1>4. /\ DOMAIN req' = Ids /\ req'[regen] = Idle
      /\ \A id \in Ids \ {regen} : req'[id] = req[id]
  BY <1>1, <1>2 DEF DispatchInv, Fitting, GoTo
<1> HIDE DEF regen
<1>5. Fits(req[regen], seen[regen])' /\ Found(req[regen], seen[regen])'
  BY <1>4 DEF Fits, Found, Idle, OnLadder
<1>6. Fitting'
  <2>1. \A id \in Ids \cap {regen} : Fits(req[id], seen[id])' /\ Found(req[id], seen[id])'
    BY <1>5
  <2> QED
    BY <1>1, <1>3, <1>4, <2>1, OthersStay DEF DispatchInv
<1>7. Regenerating'
  <2> SUFFICES ASSUME NEW o \in Pages, req'[<<"regen", o>>] # Idle
               PROVE  o \in pendingRegens'
    BY DEF Regenerating, Idle
  <2>1. <<"regen", o>> \in Ids
    BY DEF Ids, Regens
  <2>2. o # p /\ req'[<<"regen", o>>] = req[<<"regen", o>>]
    BY <1>4, <2>1 DEF regen
  <2> QED
    BY <1>1, <2>2 DEF DispatchInv, Regenerating
<1> QED
  BY <1>3, <1>6, <1>7 DEF DispatchInv

(* BackgroundEnds keeps the invariant. *)
LEMMA BackgroundEndsKeeps ==
  ASSUME DispatchInv, Observe, BackgroundEnds
  PROVE  DispatchInv'
<1>1. UNCHANGED <<scenario, now, marks, req, platformResponseStore, pendingRegens>>
  BY DEF BackgroundEnds, registries
<1>2. PICK job \in background : /\ background' = background \ {job}
                                /\ Write(job[2]) \/ UNCHANGED entries
  BY DEF BackgroundEnds
<1>3. job[2] \in Pages
  BY DEF DispatchInv, Stored, Behind
<1>4. Cached'
  BY <1>2, <1>3, WriteKeeps, CachedStays DEF DispatchInv, Stored
<1>5. Clocked' /\ Stored'
  BY <1>1, <1>2, <1>4, ClockedStays DEF DispatchInv, Stored, Behind, Recordings, Responses, Keys
<1> QED
  BY <1>1, <1>5, NobodySteps DEF DispatchInv

(* revalidateTag keeps the invariant: the bar of a request only falls. *)
LEMMA revalidateTagKeeps ==
  ASSUME DispatchInv, Observe, revalidateTag
  PROVE  DispatchInv'
<1>1. UNCHANGED <<scenario, now, entries, background, req, platformResponseStore, pendingRegens>>
      /\ platformCache
  BY DEF revalidateTag, registries
<1>2. PICK d \in Durations_ :
         marks' = [marks EXCEPT ![Tag] = mergeTagState(@, computeTagUpdate(now, d), now)]
  BY DEF revalidateTag
<1>3. d \in Durations /\ now \in Nat /\ marks \in [{Tag} -> TagState]
  BY DispatchAssumption DEF DispatchInv, Clocked
<1> DEFINE u == computeTagUpdate(now, d)
           m == mergeTagState(marks[Tag], u, now)
<1>4. u \in TagState /\ u.at = now
  BY <1>3 DEF computeTagUpdate, Durations, TagState, Unset
<1> HIDE DEF u
<1>5. m \in TagState /\ m.at <= now
  BY <1>3, <1>4 DEF mergeTagState, TagState, Unset, DispatchInv, Clocked
<1>6. marks' \in [{Tag} -> TagState] /\ marks'[Tag] = m
  BY <1>2, <1>3, <1>5 DEF u
<1> HIDE DEF m
<1>7. Clocked'
  BY <1>1, <1>5, <1>6 DEF DispatchInv, Clocked, platformCache, mode
<1>8. Stored'
  BY <1>1, KeepsQuiet DEF DispatchInv
<1> QED
  BY <1>1, <1>7, <1>8, NobodySteps DEF DispatchInv

(* Evict keeps the invariant. *)
LEMMA EvictKeeps ==
  ASSUME DispatchInv, Observe, Evict
  PROVE  DispatchInv'
<1>1. UNCHANGED <<scenario, now, marks, background, req, platformResponseStore, pendingRegens>>
  BY DEF Evict, registries
<1>2. PICK k \in Keys : entries' = [entries EXCEPT ![k] = NoEntry]
  BY DEF Evict
<1>3. Cached'
  <2>1. NoEntry.page \in Keys /\ NoEntry.lastModified \in Int
    BY DEF NoEntry, Keys
  <2>2. /\ DOMAIN entries' = Keys
        /\ \A o \in Keys : entries'[o] = IF o = k THEN NoEntry ELSE entries[o]
    BY <1>2 DEF DispatchInv, Stored, Cached
  <2> QED
    BY <2>1, <2>2 DEF DispatchInv, Stored, Cached, Keys, NoEntry
<1>4. Clocked' /\ Stored'
  BY <1>1, <1>3, ClockedStays DEF DispatchInv, Stored, Behind, Recordings, Responses, Keys
<1> QED
  BY <1>1, <1>4, NobodySteps DEF DispatchInv

(* Tick keeps the invariant: a watermark that comes into force asks        *)
(* nothing of requests begun before.                                       *)
LEMMA TickKeeps ==
  ASSUME DispatchInv, Observe, Tick
  PROVE  DispatchInv'
<1>1. UNCHANGED <<scenario, marks, entries, background, req, platformResponseStore, pendingRegens>>
      /\ now' = now + 1
  BY DEF Tick, registries
<1>2. Clocked'
  BY <1>1 DEF DispatchInv, Clocked, platformCache, mode, TagState, BuildTime
<1>3. Stored'
  BY <1>1, KeepsQuiet DEF DispatchInv
<1> QED
  BY <1>1, <1>2, <1>3, NobodySteps DEF DispatchInv

(* Decide keeps the invariant, for the request and for the regeneration it *)
(* may begin, which was idle.                                              *)
LEMMA DecideKeeps ==
  ASSUME DispatchInv, Observe, NEW q \in Ids, Decide(q)
  PROVE  DispatchInv'
<1> DEFINE r == req[q]
           hit == EntersShell(r) /\ r.result.hit
           entry == r.result.entry
           stale == hit /\ r.result.isStale
           staleDocument == stale /\ isPprDocument(r)
           dynamicRsc == classifyPprRequest(r) = "dynamic-rsc"
           injects == /\ EntersShell(r) /\ ~dynamicRsc /\ ~stale
                      /\ (hit /\ entry.postponed) \/ r.usable
           regenerates == /\ EntersShell(r) /\ ~injects
                          /\ ~incrementalCacheShared /\ ~dynamicRsc /\ ~staleDocument
                          /\ mayRegenerate(r)
           injected == IF ~injects THEN "none"
                       ELSE IF hit /\ entry.postponed /\ entry.lastModified # BuildTime
                       THEN "entry" ELSE "build"
           got == IF injected = "entry" THEN entry ELSE NoEntry
           b == Invoking([r EXCEPT !.inject = injected, !.stale = stale, !.got = got])
           regen == <<"regen", r.page>>
           begun == Begin(regen, NewRequest(r.page, "document", "revalidate"))
           segment == hit /\ r.kind = "segment" /\ entry.segments
           serves == hit /\ ~staleDocument /\ ~entry.postponed /\ isPprDocument(r)
<1>1. /\ UNCHANGED <<scenario, now, marks, entries, background, platformResponseStore>>
      /\ r.at = "decide"
  BY DEF Decide, shared
<1>2. r.at \in OnLadder
  BY <1>1 DEF OnLadder, Stages
<1>3. Ladder(r, seen[q]) /\ r.page \in Pages /\ r # Idle
  BY <1>2, Stage DEF Ladder, Own, OnLadder, Idle
<1>4. Clocked' /\ Stored'
  BY <1>1, ClockedStays, KeepsQuiet DEF DispatchInv
<1>5. \/ segment /\ GoTo(q, FromEntry(q, "stored", entry)) /\ UNCHANGED pendingRegens
      \/ /\ serves /\ UNCHANGED pendingRegens
         /\ GoTo(q, FromEntry(q, IF entry.lastModified = BuildTime THEN "seed" ELSE "stored",
                              entry))
      \/ /\ ~serves
         /\ pendingRegens' = IF regenerates THEN pendingRegens \cup {r.page} ELSE pendingRegens
         /\ req' = IF regenerates THEN [req EXCEPT ![q] = b, ![regen] = begun]
                   ELSE [req EXCEPT ![q] = b]
  BY DEF Decide
<1>6. CASE segment /\ GoTo(q, FromEntry(q, "stored", entry)) /\ UNCHANGED pendingRegens
  <2>1. \A s : Ladder(r, s) => Fits(FromEntry(q, "stored", entry), s)
    BY <1>6, EntryFits
  <2>2. Goes(r, FromEntry(q, "stored", entry))
    BY AnswerGoes DEF FromEntry
  <2> QED
    BY <1>1, <1>2, <1>4, <1>6, <2>1, <2>2, QuietStep
<1>7. CASE /\ serves /\ UNCHANGED pendingRegens
           /\ GoTo(q, FromEntry(q, IF entry.lastModified = BuildTime THEN "seed" ELSE "stored",
                                entry))
  <2> DEFINE c == FromEntry(q, IF entry.lastModified = BuildTime THEN "seed" ELSE "stored", entry)
  <2>1. \A s : Ladder(r, s) => Fits(c, s)
    BY <1>1, <1>7, DecideServes
  <2>2. Goes(r, c)
    BY AnswerGoes DEF FromEntry
  <2>3. GoTo(q, c)
    BY <1>7
  <2> HIDE DEF c
  <2> QED
    BY <1>1, <1>2, <1>4, <1>7, <2>1, <2>2, <2>3, QuietStep
<1>8. CASE /\ ~serves
           /\ pendingRegens' = IF regenerates THEN pendingRegens \cup {r.page} ELSE pendingRegens
           /\ req' = IF regenerates THEN [req EXCEPT ![q] = b, ![regen] = begun]
                   ELSE [req EXCEPT ![q] = b]
  <2>1. \A s : Ladder(r, s) => Ladder(b, s) /\ b.page = r.page /\ b.at \in {"invoked", "reading"}
    <3> SUFFICES ASSUME NEW s, Ladder(req[q], s)
                 PROVE  Ladder(b, s) /\ b.page = r.page /\ b.at \in {"invoked", "reading"}
      OBVIOUS
    <3>1. b = Invoked(req[q])
      BY DEF Invoked, Injected, Injects, StaleInHand, InHand
    <3>2. ~(/\ InHand(req[q]) /\ ~(StaleInHand(req[q]) /\ isPprDocument(req[q]))
            /\ ~req[q].result.entry.postponed /\ isPprDocument(req[q]))
      BY <1>8 DEF StaleInHand, InHand
    <3> HIDE DEF b
    <3> QED
      BY <1>1, <3>1, <3>2, DecideInvokes DEF DispatchInv
  <2> HIDE DEF b
  <2>2. b.page = r.page /\ b.at \in {"invoked", "reading"} /\ b # Idle
    BY <1>3, <2>1 DEF Idle
  <2>3. \A s : Ladder(r, s) => Fits(b, s) /\ Goes(r, b)
    BY <2>1, <2>2, LadderFits DEF Goes
  <2>4. CASE ~regenerates
    <3> HIDE DEF regenerates, begun, regen
    <3>1. GoTo(q, b) /\ UNCHANGED pendingRegens
      BY <1>8, <2>4 DEF GoTo
    <3> QED
      BY <1>1, <1>2, <1>4, <2>3, <3>1, QuietStep
  <2>5. CASE regenerates
    <3>0. PICK p \in Pages : p = r.page
      BY <1>3
    <3> DEFINE fresh == <<"regen", p>>
    <3>1. fresh \in Ids /\ p \notin pendingRegens
      BY <1>3, <2>5, <3>0 DEF Ids, Regens, mayRegenerate
    <3>2. req[fresh] = Idle /\ fresh # q
      BY <1>3, <3>1 DEF DispatchInv, Regenerating
    <3>3. /\ DOMAIN req' = Ids /\ req'[q] = b
          /\ req'[fresh] = Begin(fresh, NewRequest(p, "document", "revalidate"))
          /\ \A id \in Ids \ {q, fresh} : req'[id] = req[id]
          /\ pendingRegens' = pendingRegens \cup {p}
      BY <1>8, <2>5, <3>0, <3>1, <3>2 DEF DispatchInv, Fitting
    <3> HIDE DEF fresh
    <3>4. Fits(req[fresh], seen[fresh])' /\ Found(req[fresh], seen[fresh])'
      BY <1>1, <1>4, <3>1, <3>2, <3>3, Begins
    <3>5. Ladder(r, seen'[q]) /\ (seen'[q].entry => Live(r.page)')
      BY <1>2, <1>4, <2>2, <3>3, SeenOf
    <3>6. Fits(req[q], seen[q])'
      BY <1>1, <2>3, <3>3, <3>5, FitsPrimed
    <3>7. Found(req[q], seen[q])'
      BY <2>2, <3>3, <3>5 DEF Found
    <3>8. Fitting'
      <4>1. \A id \in Ids \cap {q, fresh} : Fits(req[id], seen[id])' /\ Found(req[id], seen[id])'
        BY <3>4, <3>6, <3>7
      <4> QED
        BY <1>1, <1>4, <3>3, <4>1, OthersStay DEF DispatchInv
    <3>9. Regenerating'
      <4> SUFFICES ASSUME NEW o \in Pages, req'[<<"regen", o>>] # Idle
                   PROVE  o \in pendingRegens'
        BY DEF Regenerating, Idle
      <4>1. <<"regen", o>> \in Ids
        BY DEF Ids, Regens
      <4>2. CASE <<"regen", o>> = fresh
        BY <3>3, <4>2 DEF fresh
      <4>3. CASE <<"regen", o>> # fresh
        <5>1. req[<<"regen", o>>] # Idle
          BY <1>3, <3>3, <4>1, <4>3
        <5> QED
          BY <3>3, <5>1 DEF DispatchInv, Regenerating
      <4> QED
        BY <4>2, <4>3
    <3> QED
      BY <1>4, <3>8, <3>9 DEF DispatchInv
  <2> QED
    BY <2>4, <2>5
<1> QED
  BY <1>5, <1>6, <1>7, <1>8

-------------------------------------------------------------------------------
(* The theorems. *)

(* The invariant holds initially. *)
LEMMA DispatchInit == Init => DispatchInv
<1> SUFFICES ASSUME Init PROVE DispatchInv
  OBVIOUS
<1>1. Clocked
  BY DEF Init, Clocked, BuildTime, TagState, NoMarks, Unset
<1>2. Cached
  BY DEF Init, Cached, Keys, NoEntry
<1>3. Behind /\ Recordings
  BY DEF Init, Behind, Recordings
<1>4. Regenerating
  BY DEF Init, Regenerating, Ids, Regens
<1>5. Fitting
  BY DEF Init, Fitting, Fits, Found, Idle, OnLadder
<1> QED
  BY <1>1, <1>2, <1>3, <1>4, <1>5 DEF DispatchInv, Stored

(* A stuttering step keeps it. *)
LEMMA DispatchStutter == ASSUME DispatchInv, UNCHANGED vars PROVE DispatchInv'
<1>1. /\ UNCHANGED <<scenario, now, marks, entries, background, platformResponseStore,
                     pendingRegens, req, seen>>
  BY DEF vars, shared, registries
<1>2. Clocked' /\ Stored' /\ Regenerating'
  BY <1>1, ClockedStays, KeepsQuiet DEF DispatchInv, Regenerating
<1>3. ASSUME NEW q \in Ids PROVE Fits(req[q], seen[q])' /\ Found(req[q], seen[q])'
  <2>1. Fits(req[q], seen[q]) /\ Found(req[q], seen[q])
    BY DEF DispatchInv, Fitting
  <2>2. Fits(req[q], seen[q])'
    BY <1>1, <2>1, FitsPrimed
  <2>3. Found(req[q], seen[q])'
    BY <1>1, <2>1 DEF Found, Live, route
  <2> QED
    BY <2>2, <2>3
<1>4. Fitting'
  BY <1>1, <1>3 DEF DispatchInv, Fitting, Ids, Regens
<1> QED
  BY <1>2, <1>4 DEF DispatchInv

(* Every step keeps it. *)
LEMMA DispatchStep == DispatchInv /\ [Next]_vars => DispatchInv'
<1> SUFFICES ASSUME DispatchInv, [Next]_vars PROVE DispatchInv'
  OBVIOUS
<1>1. CASE UNCHANGED vars
  BY <1>1, DispatchStutter
<1>2. CASE Next
  <2>1. Observe /\ Step
    BY <1>2 DEF Next
  <2>2. ASSUME NEW q \in Ids, Progress(q) PROVE DispatchInv'
    BY <2>1, <2>2, SeedTagsKeeps, ReadEntryKeeps, ReadMarksKeeps, StaticKeeps, StaticStoredKeeps,
       RouteKeeps, ElsewhereKeeps, ShellTagsKeeps, ShellKeeps, ShellStoredKeeps, ShellSeedKeeps,
       DecideKeeps, InvocationEndsKeeps, InvocationFailsKeeps, NextServesKeeps DEF Progress
  <2> QED
    BY <2>1, <2>2, ArriveKeeps, RegenSettlesKeeps, BackgroundEndsKeeps, revalidateTagKeeps,
       EvictKeeps, TickKeeps DEF Step
<1> QED
  BY <1>1, <1>2

(* The invariant holds in every state. *)
THEOREM DispatchInvariant == Spec => []DispatchInv
BY DispatchInit, DispatchStep, PTL DEF Spec

(* An answered request satisfies the four properties. *)
LEMMA AnsweredOf ==
  ASSUME DispatchInv, NEW q \in Requests, Done(q)
  PROVE  Answered(req[q], seen[q])
<1>1. q \in Ids /\ req[q].at = "done"
  BY DEF Ids, Done
<1> QED
  BY <1>1 DEF DispatchInv, Fitting, Fits, Own, OnLadder, Idle

(* A document that comes from the cache or the build was stored no earlier *)
(* than a hard revalidation of its tag that was in force from the moment   *)
(* the request began (checkShellStale and the reads of dispatch), for any  *)
(* routes, requests, pages, clock and number of updates.                   *)
THEOREM DocumentsRespectInvalidationTheorem == Spec => []DocumentsRespectInvalidation
<1>1. DispatchInv => DocumentsRespectInvalidation
  BY AnsweredOf DEF DocumentsRespectInvalidation, isDocument, Answered
<1> QED
  BY <1>1, DispatchInvariant, PTL

(* While one live entry of the page is in the shared cache from a          *)
(* document's arrival to its answer, the answer is not the build's, unless *)
(* the read of the entry failed (the rungs of dispatch before a seed).     *)
THEOREM StoredSupersedesSeedTheorem == Spec => []StoredSupersedesSeed
<1>1. DispatchInv => StoredSupersedesSeed
  BY AnsweredOf DEF StoredSupersedesSeed, isDocument, Answered
<1> QED
  BY <1>1, DispatchInvariant, PTL

(* A response shows the page that was asked for, or the template that all  *)
(* pages share (the keys dispatch reads under, and platformKey's replay).  *)
THEOREM NoSiblingContentTheorem == Spec => []NoSiblingContent
<1>1. DispatchInv => NoSiblingContent
  BY AnsweredOf DEF NoSiblingContent, Answered
<1> QED
  BY <1>1, DispatchInvariant, PTL

(* With a shared cache no capturable document of a PPR route ends at its   *)
(* bare shell (decidePprInvocation).                                       *)
THEOREM PprDocumentsCompleteTheorem == Spec => []PprDocumentsComplete
<1>1. DispatchInv => PprDocumentsComplete
  BY AnsweredOf DEF PprDocumentsComplete, Answered
<1> QED
  BY <1>1, DispatchInvariant, PTL

-------------------------------------------------------------------------------
(* The exchange behind an invocation.                                      *)

(* What is written came from the upstream; an upstream that ended has sent *)
(* the whole body.                                                         *)
BodyWritten ==
    /\ res.chunks <= up.sent
    /\ up.stage = "ended" => up.sent = Chunks

(* The response is begun by the head, which disarms the head's deadline,   *)
(* and not ended while the head may still come.                            *)
ResponseBegun ==
    /\ "head" \in timers => res.head # "ok" /\ writer # "peek"
    /\ settled = "no" /\ up.stage = "dialing" => res.end = "open"

(* Where the writer is tells what has ended before. *)
WriterStage ==
    /\ writer = "suffix" => up.stage = "ended" /\ res.chunks = Chunks
    /\ x.discard => tail.stage = "none"
    /\ writer = "drain" => x.discard
    /\ local /\ writer \in {"closing", "draining", "done"} =>
         /\ up.stage = "ended"
         /\ tail.stage \in {"none", "ended", "refused", "destroyed"}
    /\ local /\ writer \in {"draining", "done"} => inner = {}
    /\ local /\ writer = "done" => after = 0

InvocationInv ==
    /\ ExchangeTypeOK /\ after <= jobs
    /\ BodyWritten /\ ResponseBegun /\ WriterStage /\ CleanEndIsWhole

(* An error answers a response that has not begun; one that has begun is   *)
(* ended as its caller says.                                               *)
LEMMA ErrorEnds ==
    ASSUME ExchangeTypeOK, NEW status \in {"500", "502", "504"},
           NEW ending \in {"ended", "destroyed"},
           NEW r, r = ErrorOr(status, ending)
    PROVE  /\ r \in [head: {"none", "sent", "ok", "500", "502", "504"}, shell: BOOLEAN,
                     chunks: 0..Chunks, tail: 0..Chunks, end: {"open", "ended", "destroyed"}]
           /\ r.chunks = res.chunks
           /\ \/ r = res
              \/ r.head = status
              \/ r.head = res.head /\ res.head # "none" /\ r.end = ending
<1>1. CASE r = res
  BY <1>1 DEF ExchangeTypeOK
<1>2. CASE r = [res EXCEPT !.head = status, !.end = "ended"]
  BY <1>2 DEF ExchangeTypeOK
<1>3. CASE res.head # "none" /\ r = [res EXCEPT !.end = ending]
  BY <1>3 DEF ExchangeTypeOK
<1> QED
  BY <1>1, <1>2, <1>3 DEF ErrorOr

(* The response once its first chunk was peeked at. *)
LEMMA BegunRecord ==
    ASSUME NEW H, NEW B, NEW E,
           NEW r \in [head: H, shell: B, chunks: 0..Chunks, tail: 0..Chunks, end: E],
           NEW h \in H, NEW b \in B, NEW n \in 0 .. Chunks
    PROVE  /\ [r EXCEPT !.head = h, !.shell = b, !.chunks = n]
                \in [head: H, shell: B, chunks: 0..Chunks, tail: 0..Chunks, end: E]
           /\ [r EXCEPT !.head = h, !.shell = b, !.chunks = n].chunks = n
           /\ [r EXCEPT !.head = h, !.shell = b, !.chunks = n].end = r.end
OBVIOUS

(* The invariant holds initially. *)
LEMMA InvocationInit == ExchangeInit => InvocationInv
<1> SUFFICES ASSUME ExchangeInit PROVE InvocationInv
  OBVIOUS
<1>1. full \in BOOLEAN
  BY Zenon DEF ExchangeInit
<1> QED
  BY <1>1, InvocationAssumption
     DEF ExchangeInit, InvocationInv, ExchangeTypeOK, BodyWritten, ResponseBegun, WriterStage,
         CleanEndIsWhole, local, ExchangeType

(* Every step keeps it. *)
LEMMA InvocationStep == InvocationInv /\ [ExchangeNext]_exchangeVars => InvocationInv'
<1> SUFFICES ASSUME InvocationInv, [ExchangeNext]_exchangeVars PROVE InvocationInv'
  OBVIOUS
<1> USE InvocationAssumption
        DEF InvocationInv, ExchangeTypeOK, BodyWritten, ResponseBegun, WriterStage,
            CleanEndIsWhole, local
<1>1. CASE Peek
  <2>1. /\ writer = "peek" /\ writer' = "copy"
        /\ full' \in BOOLEAN
        /\ UNCHANGED <<x, up, tail, client, timers, inner, after, jobs, settled>>
    BY <1>1 DEF Peek
  <2>2. PICK document \in BOOLEAN :
            res' = IF Writable
                   THEN [res EXCEPT !.head = "ok", !.shell = ~document,
                                    !.chunks = IF up.sent > 0 THEN 1 ELSE 0]
                   ELSE res
    BY <1>1, Zenon DEF Peek
  <2>3. PICK b \in BOOLEAN, n \in 0 .. 1 :
            n <= up.sent /\ b = ~document /\ n = (IF up.sent > 0 THEN 1 ELSE 0)
    <3>1. (~document) \in BOOLEAN
      OBVIOUS
    <3>2. \E n \in 0 .. 1 : n <= up.sent /\ n = (IF up.sent > 0 THEN 1 ELSE 0)
      OBVIOUS
    <3> QED
      BY <3>1, <3>2, Zenon
  <2>4. CASE Writable
    <3>1. res' = [res EXCEPT !.head = "ok", !.shell = b, !.chunks = n]
      BY <2>2, <2>3, <2>4, Zenon
    <3>2. /\ res' \in [head: {"none", "sent", "ok", "500", "502", "504"}, shell: BOOLEAN,
                       chunks: 0..Chunks, tail: 0..Chunks, end: {"open", "ended", "destroyed"}]
          /\ res'.chunks = n /\ res'.end = "open"
      <4>1. /\ res \in [head: {"none", "sent", "ok", "500", "502", "504"}, shell: BOOLEAN,
                        chunks: 0..Chunks, tail: 0..Chunks, end: {"open", "ended", "destroyed"}]
            /\ "ok" \in {"none", "sent", "ok", "500", "502", "504"} /\ res.end = "open"
        BY <2>4, Zenon DEF Writable
      <4>2. n \in 0 .. Chunks
        BY <2>3
      <4> QED
        BY <2>3, <3>1, <4>1, <4>2, BegunRecord, Zenon
    <3> QED
      BY <2>1, <2>3, <3>2
  <2>5. CASE ~Writable
    BY <2>1, <2>2, <2>5
  <2> QED
    BY <2>4, <2>5
<1>2. CASE Copy
  BY <1>2 DEF Copy, Writable, Pending
<1>3. CASE CopyStops
  <2>1. full' \in BOOLEAN
    BY <1>3, Zenon DEF CopyStops
  <2>2. /\ edge /\ writer' = "closing"
        /\ UNCHANGED <<x, up, tail, res, client, timers, inner, after, jobs, settled>>
    BY <1>3 DEF CopyStops
  <2> QED
    BY <2>1, <2>2 DEF edge
<1>4. CASE CopyEnds
  BY <1>4 DEF CopyEnds, Writable, Pending, Settle, proxied
<1>5. CASE Suffix
  BY <1>5 DEF Suffix, Writable
<1>6. CASE SuffixFindsBroken
  BY <1>6, ErrorEnds DEF SuffixFindsBroken, Settle, Reject
<1>7. CASE Drain
  BY <1>7 DEF Drain
<1>8. CASE WaitForInner
  BY <1>8 DEF WaitForInner
<1>9. CASE SettleWaitUntil
  BY <1>9 DEF SettleWaitUntil, Settle
<1>10. CASE HeadArrives
  BY <1>10 DEF HeadArrives
<1>11. CASE SendChunk
  BY <1>11 DEF SendChunk
<1>12. CASE SendEnd
  BY <1>12 DEF SendEnd
<1>13. CASE UpstreamBreaks
  BY <1>13, ErrorEnds DEF UpstreamBreaks, Settle, Reject, edge, proxied
<1>14. CASE StreamBreaks
  BY <1>14 DEF StreamBreaks, edge
<1>15. CASE WriterFindsBroken
  <2>1. /\ writer \in {"peek", "copy", "drain"} /\ writer' = "aborted"
        /\ up.stage = "broken" /\ settled = "no"
        /\ UNCHANGED <<full, x, up, tail, client, inner, after, jobs>>
    BY <1>15 DEF WriterFindsBroken
  <2>2. CASE local
    <3>1. res' = ErrorOr("500", "ended") /\ settled' = "rejected" /\ timers' = timers
      BY <1>15, <2>1, <2>2 DEF WriterFindsBroken, Reject, Settle
    <3> QED
      BY <2>1, <3>1, ErrorEnds
  <2>3. CASE ~local
    <3>1. /\ res' = ErrorOr("500", "destroyed") /\ settled' = "resolved"
          /\ timers' = timers \ {"exec"}
      BY <1>15, <2>1, <2>3 DEF WriterFindsBroken, Settle
    <3> QED
      BY <2>1, <3>1, ErrorEnds
  <2> QED
    BY <2>2, <2>3
<1>16. CASE ClientReads
  <2>1. full' \in BOOLEAN
    BY <1>16, Zenon DEF ClientReads
  <2>2. UNCHANGED <<x, up, tail, res, client, timers, writer, inner, after, jobs, settled>>
    BY <1>16 DEF ClientReads
  <2> QED
    BY <2>1, <2>2
<1>17. CASE HandlerThrows
  BY <1>17, ErrorEnds DEF HandlerThrows, Settle, Reject
<1>18. CASE HandlerDefers
  BY <1>18 DEF HandlerDefers, Registers
<1>19. CASE JobSettles
  BY <1>19 DEF JobSettles
<1>20. CASE ResumeArrives
  BY <1>20 DEF ResumeArrives
<1>21. CASE ResumeAnswers
  BY <1>21 DEF ResumeAnswers
<1>22. CASE ResumeSends
  BY <1>22 DEF ResumeSends
<1>23. CASE SuffixBreaks
  BY <1>23, ErrorEnds DEF SuffixBreaks, Settle, Reject
<1>24. CASE ClientLeaves
  BY <1>24 DEF ClientLeaves, edge, Settle, Destroyed
<1>25. CASE HeadDeadline
  BY <1>25, ErrorEnds DEF HeadDeadline, Settle, Destroyed
<1>26. CASE ExecutionDeadline
  BY <1>26, ErrorEnds DEF ExecutionDeadline, WithinExecution, edge, Settle, Destroyed
<1>27. CASE AbsoluteDeadline
  BY <1>27, ErrorEnds DEF AbsoluteDeadline, Settle, Destroyed
<1>28. CASE InnerCloses
  BY <1>28 DEF InnerCloses, Registers
<1>29. CASE ResumeGivenUp
  BY <1>29 DEF ResumeGivenUp
<1>30. CASE UNCHANGED exchangeVars
  BY <1>30 DEF exchangeVars
<1> QED
  BY <1>1, <1>2, <1>3, <1>4, <1>5, <1>6, <1>7, <1>8, <1>9, <1>10, <1>11, <1>12, <1>13, <1>14,
     <1>15, <1>16, <1>17, <1>18, <1>19, <1>20, <1>21, <1>22, <1>23, <1>24, <1>25, <1>26, <1>27, <1>28, <1>29, <1>30
     DEF ExchangeNext, Continuations, Environment, Deadlines

(* The invariant holds in every state: the state has its types, what is    *)
(* written came from the upstream, and the writer's stage tells what has   *)
(* ended before.                                                           *)
THEOREM InvocationInvariant == ExchangeSpec => []InvocationInv
BY InvocationInit, InvocationStep, PTL DEF ExchangeSpec

(* A response that ends as if complete, with the upstream's status and not *)
(* by a rejected invocation, is complete.                                  *)
THEOREM CleanEndTheorem == ExchangeSpec => []CleanEndIsWhole
<1>1. InvocationInv => CleanEndIsWhole
  BY DEF InvocationInv
<1> QED
  BY <1>1, InvocationInvariant, PTL

(* An invocation that resolves in good order leaves no inner response open *)
(* and no after() job running.                                             *)
THEOREM AfterWorkTheorem == ExchangeSpec => []AfterWorkAwaited
<1>1. InvocationInv => AfterWorkAwaited
  BY DEF InvocationInv, WriterStage, AfterWorkAwaited
<1> QED
  BY <1>1, InvocationInvariant, PTL
=============================================================================
