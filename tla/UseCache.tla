------------------------------ MODULE UseCache ------------------------------
(***************************************************************************)
(* The 'use cache' handler of                                              *)
(* src/pool-server/valkey-cache/use-cache-handler.ts as pool requests use  *)
(* it: every replica keeps a local front of entries, Valkey the shared     *)
(* entries and the tag manifest.  A request reads the manifest's epoch     *)
(* before it enters Next (prepareForInvocation); inside Next, get answers  *)
(* from the front alone, and a miss warms the front in the background.     *)
(*                                                                         *)
(* Each await of the code is a step boundary, and a command and the        *)
(* handler's use of its reply are two steps, except for the TIME that ends *)
(* a warm or an admission: reading the clock late changes nothing, as a    *)
(* get looks at the clock again.  Replies may overtake each other, which   *)
(* on one connection they do not.                                          *)
(*                                                                         *)
(* now is Valkey's clock; replica r reads now + Offset[r].  A clock sample *)
(* is taken to be exact: the error of the midpoint is left out.            *)
(***************************************************************************)
EXTENDS TagManifest, Sequences, FiniteSets

CONSTANTS
    Replicas,       \* pool server processes
    Requests,       \* requests, each served by one replica
    Home,           \* the replica of each request
    Updates,        \* the tags each replica calls updateTags with
    Keys,           \* cache keys
    KeyTags,        \* the explicit tags of each key's entries
    SoftTags,       \* implicit tags a get may bring
    Kinds,          \* durations updateTags is called with
    Revalidate,     \* the lifetimes of every entry
    Expire,
    Offset,         \* each replica's clock error
    MaxWarms,       \* LOCAL_FRONT_MAX_CONCURRENT_WARMS
    StartTime,      \* Valkey's clock at the start
    MaxTime,        \* bound on it
    MaxUpdates,     \* bound on manifest updates
    MaxSets,        \* bound on the sets of each replica
    Absent          \* no entry, no task, no request

Tags == (UNION {KeyTags[k] : k \in Keys}) \cup SoftTags \cup (UNION {Updates[r] : r \in Replicas})

ASSUME UseCacheAssumption ==
    /\ Home \in [Requests -> Replicas]
    /\ Updates \in [Replicas -> SUBSET Tags]
    /\ KeyTags \in [Keys -> SUBSET Tags]
    /\ Kinds \subseteq Durations
    /\ Revalidate \in Nat /\ Expire \in Nat
    /\ StartTime \in Nat \ {0} /\ MaxTime \in Nat
    /\ MaxWarms \in Nat /\ MaxUpdates \in Nat /\ MaxSets \in Nat
    /\ Offset \in [Replicas -> Int]
    /\ \A r \in Replicas : StartTime + Offset[r] > 0

VARIABLES
    now,        \* Valkey's clock
    log,        \* the manifest updates; Valkey keeps the last one's marks,
                \* and their number as the epoch
    store,      \* Valkey's entry of each key
    local,      \* localEntries of each replica
    epoch,      \* manifestEpoch of each replica
    available,  \* backingAvailable
    writes,     \* writeGeneration
    gate,       \* pendingSets: the request whose set holds the gate of a key
    warm,       \* the background warm of each key
    update,     \* an updateTags call in progress
    req         \* each request and its set

replica == <<local, epoch, available, writes, gate>>
vars == <<now, log, store, replica, warm, update, req>>

NoEpoch == -1

Epoch == Len(log)

(* The manifest as of epoch n. *)
Marks(n) == IF n = 0 THEN [t \in Tags |-> NoMarks] ELSE log[n].marks

LocalNow(r) == now + Offset[r]
ToLocal(r, t) == t + Offset[r]

(* start: when the value's computation began, lag: how long its store      *)
(* command travelled, and blind: whether the request that brought it into  *)
(* the front had failed to read the epoch, are history; the code knows the *)
(* timestamp alone.                                                        *)
Entry == [start: Nat, lag: Nat, timestamp: Nat]
LocalEntry == [start: Nat, lag: Nat, timestamp: Nat, tagExpiresAt: Nat,
               verifiedSoftTags: SUBSET SoftTags, blind: BOOLEAN]

WarmTask == [at: {"entry", "tags", "clock"}, epoch: Nat \cup {NoEpoch}, writes: Nat,
             softTags: SUBSET SoftTags, entry: Entry \cup {Absent}, seen: Nat]

UpdateTask == [tags: SUBSET Tags, at: Nat, kind: Kinds]

SetStages == {"pending", "sent", "stored", "admitTags", "admitClock"}

(* began (history): the epoch when the request started to prepare. *)
Request == [at: {"idle", "preparing", "running", "computing"} \cup SetStages,
            epoch: Nat \cup {NoEpoch}, began: Nat, softTags: [Keys -> SUBSET SoftTags],
            key: Keys \cup {Absent}, start: Nat, sent: Nat, writes: Nat, seen: Nat]

NotRunning == [at |-> "idle", epoch |-> NoEpoch, began |-> 0,
               softTags |-> [k \in Keys |-> {}], key |-> Absent,
               start |-> 0, sent |-> 0, writes |-> 0, seen |-> 0]

Empty == [k \in Keys |-> Absent]

Init ==
    /\ now = StartTime
    /\ log = <<>>
    /\ store = Empty
    /\ local = [r \in Replicas |-> Empty]
    /\ epoch = [r \in Replicas |-> NoEpoch]
    /\ available = [r \in Replicas |-> TRUE]
    /\ writes = [r \in Replicas |-> 0]
    /\ gate = [r \in Replicas |-> Empty]
    /\ warm = [r \in Replicas |-> Empty]
    /\ update = [r \in Replicas |-> Absent]
    /\ req = [q \in Requests |-> NotRunning]

(* What the epoch guards share: a request may use the front while the      *)
(* replica still works with the epoch the request prepared.                *)
SameEpoch(q) == req[q].epoch = epoch[Home[q]]

Verdict(timestamp, tags, n, at) ==
    evaluateEntry([timestamp |-> timestamp, revalidate |-> Revalidate,
                   expire |-> Expire, tags |-> tags], Marks(n), at)

-----------------------------------------------------------------------------
(* The local front *)

Forever == MaxTime + 1000

(* The first of the tags' expiry marks after timestamp, on r's clock. *)
nextTagExpiration(r, timestamp, tags, n) ==
    LET deadlines == {Marks(n)[t].expired : t \in tags}
        later == {d \in deadlines : d # Unset /\ d > timestamp} \cup {Forever}
    IN  ToLocal(r, CHOOSE d \in later : \A e \in later : d <= e)

(* putLocalEntry: never over a newer entry.  An entry too large for the    *)
(* front is dropped, and the front makes room by dropping others.          *)
putLocalEntry(r, k, e) ==
    \/ /\ local[r][k] # Absent /\ local[r][k].timestamp > e.timestamp
       /\ UNCHANGED local
    \/ /\ local[r][k] # Absent => local[r][k].timestamp <= e.timestamp
       /\ \E dropped \in SUBSET Keys :
            local' = [local EXCEPT ![r] =
                [kk \in Keys |-> IF kk \in dropped THEN Absent
                                 ELSE IF kk = k THEN e ELSE @[kk]]]

(* Fault: a scheduled expiry is not looked at. *)
Served_PastDeadline(r, k, softTags) ==
    LET e == local[r][k] IN
    /\ e # Absent
    /\ softTags \subseteq e.verifiedSoftTags
    /\ LocalNow(r) <= e.timestamp + Expire
    /\ LocalNow(r) <= e.timestamp + Revalidate

(* Fault: the entry's own lifetime is not looked at. *)
Served_PastLifetime(r, k, softTags) ==
    LET e == local[r][k] IN
    /\ e # Absent
    /\ softTags \subseteq e.verifiedSoftTags
    /\ LocalNow(r) < e.tagExpiresAt

(* readLocalEntry: the entry of k answers a get that brings softTags. *)
Served(r, k, softTags) ==
    LET e == local[r][k] IN
    /\ e # Absent
    /\ softTags \subseteq e.verifiedSoftTags
    /\ LocalNow(r) < e.tagExpiresAt
    /\ Verdict(e.timestamp, {}, 0, LocalNow(r)) = "fresh"

(* What get removes on its way to a miss. *)
Lapsed(r, k, softTags) ==
    /\ local[r][k] # Absent
    /\ softTags \subseteq local[r][k].verifiedSoftTags
    /\ ~Served(r, k, softTags)

Remove(r, k) == local' = [local EXCEPT ![r][k] = Absent]

Clear(r) == local' = [local EXCEPT ![r] = Empty]

-----------------------------------------------------------------------------
(* prepareForInvocation *)

(* HMGET of the epoch field. *)
PrepareRead(q) ==
    /\ req[q].at = "idle"
    /\ req' = [req EXCEPT ![q].at = "preparing", ![q].epoch = Epoch, ![q].began = Epoch]
    /\ UNCHANGED <<now, log, store, replica, warm, update>>

(* Its reply: an epoch other than the replica's empties the front. *)
PrepareDone(q) ==
    LET r == Home[q] IN
    /\ req[q].at = "preparing"
    /\ \/ epoch[r] \notin {NoEpoch, req[q].epoch} /\ Clear(r)
       \/ epoch[r] \in {NoEpoch, req[q].epoch} /\ UNCHANGED local
    /\ epoch' = [epoch EXCEPT ![r] = req[q].epoch]
    /\ available' = [available EXCEPT ![r] = TRUE]
    /\ req' = [req EXCEPT ![q].at = "running"]
    /\ UNCHANGED <<now, log, store, writes, gate, warm, update>>

PrepareFails(q) ==
    LET r == Home[q] IN
    /\ req[q].at = "preparing"
    /\ Clear(r)
    /\ epoch' = [epoch EXCEPT ![r] = NoEpoch]
    /\ available' = [available EXCEPT ![r] = FALSE]
    /\ req' = [req EXCEPT ![q].at = "running", ![q].epoch = NoEpoch]
    /\ UNCHANGED <<now, log, store, writes, gate, warm, update>>

(* The response is finished, or the render breaks off. *)
Finish(q) ==
    /\ req[q].at \in {"running", "computing"}
    /\ req' = [req EXCEPT ![q] = NotRunning]
    /\ UNCHANGED <<now, log, store, replica, warm, update>>

-----------------------------------------------------------------------------
(* get, and the background warm it starts *)

Noted(q, k, softTags) == [req[q] EXCEPT !.softTags[k] = @ \cup softTags]

GetHit(q, k, softTags) ==
    /\ req[q].at = "running"
    /\ SameEpoch(q)
    /\ Served(Home[q], k, softTags)
    /\ req' = [req EXCEPT ![q] = Noted(q, k, softTags)]
    /\ UNCHANGED <<now, log, store, replica, warm, update>>

MayWarm(q, k) ==
    LET r == Home[q] IN
    /\ available[r]
    /\ gate[r][k] = Absent
    /\ warm[r][k] = Absent
    /\ Cardinality({kk \in Keys : warm[r][kk] # Absent}) < MaxWarms

StartWarm(q, k, softTags) ==
    LET r == Home[q]
        task == [at |-> "entry", epoch |-> req[q].epoch, writes |-> writes[r],
                 softTags |-> softTags, entry |-> Absent, seen |-> 0]
    IN  warm' = [warm EXCEPT ![r][k] = task]

(* A miss: Next computes the value. *)
GetMiss(q, k, softTags) ==
    LET r == Home[q] IN
    /\ req[q].at = "running"
    /\ SameEpoch(q)
    /\ ~Served(r, k, softTags)
    /\ \/ Lapsed(r, k, softTags) /\ Remove(r, k)
       \/ ~Lapsed(r, k, softTags) /\ UNCHANGED local
    /\ \/ MayWarm(q, k) /\ StartWarm(q, k, softTags)
       \/ ~MayWarm(q, k) /\ UNCHANGED warm
    /\ req' = [req EXCEPT ![q] = [Noted(q, k, softTags) EXCEPT !.at = "computing",
                                                              !.key = k, !.start = now]]
    /\ UNCHANGED <<now, log, store, epoch, available, writes, gate, update>>

(* The replica's epoch has moved since the request prepared. *)
GetOtherEpoch(q, k) ==
    /\ req[q].at = "running"
    /\ ~SameEpoch(q)
    /\ req' = [req EXCEPT ![q].at = "computing", ![q].key = k, ![q].start = now]
    /\ UNCHANGED <<now, log, store, replica, warm, update>>

EndWarm(r, k) == warm' = [warm EXCEPT ![r][k] = Absent]

(* readStored: HGETALL of the entry, HMGET of its tags, TIME. *)
WarmEntry(r, k) ==
    /\ warm[r][k] # Absent /\ warm[r][k].at = "entry"
    /\ \/ store[k] = Absent /\ EndWarm(r, k)
       \/ /\ store[k] # Absent
          /\ warm' = [warm EXCEPT ![r][k].at = "tags", ![r][k].entry = store[k]]
    /\ UNCHANGED <<now, log, store, replica, update, req>>

WarmTags(r, k) ==
    /\ warm[r][k] # Absent /\ warm[r][k].at = "tags"
    /\ warm' = [warm EXCEPT ![r][k].at = "clock", ![r][k].seen = Epoch]
    /\ UNCHANGED <<now, log, store, replica, update, req>>

(* Fault: the epoch is not compared again after the reads. *)
Warmable_AnyEpoch(r, k) ==
    LET w == warm[r][k] IN
    /\ Verdict(w.entry.timestamp, KeyTags[k] \cup w.softTags, w.seen, now) = "fresh"
    /\ writes[r] = w.writes

(* The backing entry may enter the front. *)
Warmable(r, k) ==
    LET w == warm[r][k] IN
    /\ Verdict(w.entry.timestamp, KeyTags[k] \cup w.softTags, w.seen, now) = "fresh"
    /\ epoch[r] = w.epoch
    /\ writes[r] = w.writes

WarmClock(r, k) ==
    LET w == warm[r][k]
        timestamp == w.entry.timestamp
        tags == KeyTags[k] \cup w.softTags
    IN
    /\ w # Absent /\ w.at = "clock"
    /\ \/ /\ Warmable(r, k)
          /\ putLocalEntry(r, k,
                [start |-> w.entry.start, lag |-> w.entry.lag,
                 timestamp |-> ToLocal(r, timestamp),
                 tagExpiresAt |-> nextTagExpiration(r, timestamp, tags, w.seen),
                 verifiedSoftTags |-> w.softTags, blind |-> w.epoch = NoEpoch])
       \/ ~Warmable(r, k) /\ UNCHANGED local
    /\ EndWarm(r, k)
    /\ UNCHANGED <<now, log, store, epoch, available, writes, gate, update, req>>

(* A command of the warm fails. *)
WarmFails(r, k) ==
    /\ warm[r][k] # Absent
    /\ EndWarm(r, k)
    /\ UNCHANGED <<now, log, store, replica, update, req>>

-----------------------------------------------------------------------------
(* set *)

SetCall(q) ==
    LET r == Home[q]
        k == req[q].key
    IN
    /\ req[q].at = "computing"
    /\ writes[r] < MaxSets
    /\ writes' = [writes EXCEPT ![r] = @ + 1]
    /\ Remove(r, k)
    /\ gate' = [gate EXCEPT ![r][k] = q]
    /\ req' = [req EXCEPT ![q].at = "pending", ![q].writes = writes[r] + 1]
    /\ UNCHANGED <<now, log, store, epoch, available, warm, update>>

(* A finished set opens its own gate. *)
OpenGate(q) ==
    LET r == Home[q]
        k == req[q].key
    IN  gate' = [gate EXCEPT ![r][k] = IF @ = q THEN Absent ELSE @]

EndSet(q) ==
    /\ OpenGate(q)
    /\ req' = [req EXCEPT ![q].at = "running", ![q].key = Absent, ![q].start = 0,
                          ![q].sent = 0, ![q].writes = 0, ![q].seen = 0]

(* The render is rejected or the value cannot be cached, or a command      *)
(* fails, before or after it took effect.                                  *)
SetFails(q) ==
    /\ req[q].at \in SetStages
    /\ EndSet(q)
    /\ UNCHANGED <<now, log, store, local, epoch, available, writes, warm, update>>

(* The value is complete and the store command leaves. *)
SetSend(q) ==
    /\ req[q].at = "pending"
    /\ req' = [req EXCEPT ![q].at = "sent", ![q].sent = LocalNow(Home[q])]
    /\ UNCHANGED <<now, log, store, replica, warm, update>>

(* STORE_USE_CACHE_ENTRY_SCRIPT: the start of the computation, moved to    *)
(* Valkey's clock by the difference the command finds when it arrives.     *)
StoredTimestamp(q) == now + ToLocal(Home[q], req[q].start) - req[q].sent

StoreExec(q) ==
    /\ req[q].at = "sent"
    /\ store' = [store EXCEPT ![req[q].key] =
                    [start |-> req[q].start, lag |-> LocalNow(Home[q]) - req[q].sent,
                     timestamp |-> StoredTimestamp(q)]]
    /\ req' = [req EXCEPT ![q].at = "stored"]
    /\ UNCHANGED <<now, log, replica, warm, update>>

(* The reply: is the front still of the request's epoch? *)
SetReply(q) ==
    /\ req[q].at = "stored"
    /\ \/ /\ SameEpoch(q) /\ available[Home[q]]
          /\ req' = [req EXCEPT ![q].at = "admitTags"]
          /\ UNCHANGED gate
       \/ ~(SameEpoch(q) /\ available[Home[q]]) /\ EndSet(q)
    /\ UNCHANGED <<now, log, store, local, epoch, available, writes, warm, update>>

AdmitTags(q) ==
    /\ req[q].at = "admitTags"
    /\ req' = [req EXCEPT ![q].at = "admitClock", ![q].seen = Epoch]
    /\ UNCHANGED <<now, log, store, replica, warm, update>>

(* The value the request stored may enter the front. *)
Admissible(q) ==
    LET r == Home[q]
        tags == KeyTags[req[q].key] \cup req[q].softTags[req[q].key]
    IN
    /\ Verdict(req[q].start, tags, req[q].seen, now) = "fresh"
    /\ SameEpoch(q)
    /\ available[r]
    /\ writes[r] = req[q].writes

AdmitClock(q) ==
    LET r == Home[q]
        k == req[q].key
        softTags == req[q].softTags[k]
    IN
    /\ req[q].at = "admitClock"
    /\ \/ /\ Admissible(q)
          /\ putLocalEntry(r, k,
                [start |-> req[q].start, lag |-> 0,
                 timestamp |-> ToLocal(r, req[q].start),
                 tagExpiresAt |-> nextTagExpiration(r, req[q].start,
                                                    KeyTags[k] \cup softTags, req[q].seen),
                 verifiedSoftTags |-> softTags, blind |-> req[q].epoch = NoEpoch])
       \/ ~Admissible(q) /\ UNCHANGED local
    /\ EndSet(q)
    /\ UNCHANGED <<now, log, store, epoch, available, writes, warm, update>>

-----------------------------------------------------------------------------
(* updateTags *)

UpdateStart(r, tags, kind) ==
    /\ update[r] = Absent
    /\ Epoch < MaxUpdates
    /\ Clear(r)
    /\ epoch' = [epoch EXCEPT ![r] = NoEpoch]
    /\ update' = [update EXCEPT ![r] = [tags |-> tags, at |-> LocalNow(r), kind |-> kind]]
    /\ UNCHANGED <<now, log, store, available, writes, gate, warm, req>>

(* UPDATE_TAGS_SCRIPT on the next chunk of the call's tags. *)
UpdateExec(r, chunk) ==
    LET u == update[r]
        event == computeTagUpdate(u.at, u.kind)
        merged == [t \in Tags |-> IF t \in chunk THEN mergeTagState(Marks(Epoch)[t], event, now)
                                  ELSE Marks(Epoch)[t]]
    IN
    /\ u # Absent
    /\ chunk \subseteq u.tags
    /\ Epoch < MaxUpdates
    /\ log' = Append(log, [tags |-> chunk, at |-> now, by |-> r, marks |-> merged])
    /\ update' = [update EXCEPT ![r] = IF chunk = u.tags THEN Absent
                                       ELSE [u EXCEPT !.tags = @ \ chunk]]
    /\ UNCHANGED <<now, store, replica, warm, req>>

(* The remaining chunks are lost. *)
UpdateFails(r) ==
    /\ update[r] # Absent
    /\ update' = [update EXCEPT ![r] = Absent]
    /\ UNCHANGED <<now, log, store, replica, warm, req>>

-----------------------------------------------------------------------------
(* Valkey's clock, and its eviction of an entry (TTL or memory). *)

Tick ==
    /\ now < MaxTime
    /\ now' = now + 1
    /\ UNCHANGED <<log, store, replica, warm, update, req>>

EvictEntry(k) ==
    /\ store[k] # Absent
    /\ store' = [store EXCEPT ![k] = Absent]
    /\ UNCHANGED <<now, log, replica, warm, update, req>>

RequestStep(q) ==
    \/ PrepareRead(q) \/ PrepareDone(q) \/ PrepareFails(q) \/ Finish(q)
    \/ \E k \in Keys : \/ GetOtherEpoch(q, k)
                       \/ \E s \in SUBSET SoftTags : GetHit(q, k, s) \/ GetMiss(q, k, s)
    \/ SetCall(q) \/ SetFails(q) \/ SetSend(q) \/ StoreExec(q)
    \/ SetReply(q) \/ AdmitTags(q) \/ AdmitClock(q)

WarmStep(r, k) == WarmEntry(r, k) \/ WarmTags(r, k) \/ WarmClock(r, k) \/ WarmFails(r, k)

UpdateStep(r) ==
    \/ \E tags \in (SUBSET Updates[r]) \ {{}}, kind \in Kinds : UpdateStart(r, tags, kind)
    \/ \E chunk \in (SUBSET Tags) \ {{}} : UpdateExec(r, chunk)
    \/ UpdateFails(r)

Next ==
    \/ \E q \in Requests : RequestStep(q)
    \/ \E r \in Replicas : UpdateStep(r) \/ \E k \in Keys : WarmStep(r, k)
    \/ Tick
    \/ \E k \in Keys : EvictEntry(k)

Spec == Init /\ [][Next]_vars

-----------------------------------------------------------------------------
(* Types *)
TypeOK ==
    /\ now \in StartTime .. MaxTime
    /\ Epoch \in 0 .. MaxUpdates
    /\ \A n \in 1 .. Epoch : /\ log[n].tags \subseteq Tags
                             /\ log[n].at \in Nat
                             /\ log[n].by \in Replicas
                             /\ log[n].marks \in [Tags -> TagState]
    /\ store \in [Keys -> Entry \cup {Absent}]
    /\ local \in [Replicas -> [Keys -> LocalEntry \cup {Absent}]]
    /\ epoch \in [Replicas -> 0 .. Epoch \cup {NoEpoch}]
    /\ available \in [Replicas -> BOOLEAN]
    /\ writes \in [Replicas -> 0 .. MaxSets]
    /\ gate \in [Replicas -> [Keys -> Requests \cup {Absent}]]
    /\ warm \in [Replicas -> [Keys -> WarmTask \cup {Absent}]]
    /\ update \in [Replicas -> UpdateTask \cup {Absent}]
    /\ req \in [Requests -> Request]

(* The get of request q for k with softTags would be a hit. *)
WouldHit(q, k, softTags) ==
    /\ req[q].at = "running"
    /\ SameEpoch(q)
    /\ Served(Home[q], k, softTags)

(* The timestamp a hit may claim: the start of the computation, plus the   *)
(* time its store command travelled.                                       *)
Claim(e) == e.start + e.lag

(* The front's entry of k, brought in by a request that knew its epoch,    *)
(* would answer.                                                           *)
KnowingHit(q, k, softTags) == WouldHit(q, k, softTags) /\ ~local[Home[q]][k].blind

Postdates(q, k, softTags) ==
    \A n \in 1 .. req[q].began :
        log[n].tags \cap (KeyTags[k] \cup softTags) # {} =>
            Claim(local[Home[q]][k]) >= log[n].at

(* A hit was computed after every update of its tags, explicit and         *)
(* implicit, that Valkey had applied when the request prepared, on any     *)
(* replica, however many reads of the epoch have failed on the way (the    *)
(* comment of ValkeyCacheHandler: "`updateTags` on one replica invalidates *)
(* `get` on all the others").  The exception is an entry that a           *)
(* request brought in whose own read of the epoch had failed.              *)
HitPostdatesUpdates ==
    \A q \in Requests, k \in Keys, s \in SUBSET SoftTags :
        KnowingHit(q, k, s) => Postdates(q, k, s)

(* A hit is what the shared verdict says: judged at the time of the get    *)
(* against the manifest as it was at some moment since the request         *)
(* prepared, the entry is fresh.  So a deadline a profile has scheduled,   *)
(* and the lifetimes, end a local entry although no update announces them. *)
(* The exception is the same.                                              *)
HitIsFresh ==
    \A q \in Requests, k \in Keys, s \in SUBSET SoftTags :
        KnowingHit(q, k, s) =>
            \E n \in req[q].began .. Epoch :
                Verdict(Claim(local[Home[q]][k]), KeyTags[k] \cup s, n, now) = "fresh"

(* What use-cache-handler.ts says of a failed read of the epoch (the       *)
(* comment in prepareForInvocation, "Fail stale, not fresh"): nothing is   *)
(* served on account of it, so that no hit at all predates an update.  TLC *)
(* refutes it with a blind entry.                                          *)
EveryHitPostdatesUpdates ==
    \A q \in Requests, k \in Keys, s \in SUBSET SoftTags :
        WouldHit(q, k, s) => Postdates(q, k, s)
=============================================================================
