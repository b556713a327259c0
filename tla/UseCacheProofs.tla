---------------------------- MODULE UseCacheProofs ----------------------------
(***************************************************************************)
(* What a hit of the 'use cache' handler's local front promises, proved    *)
(* for any number of replicas, requests, keys, tags and updates, on the    *)
(* replicas whose reads of the epoch do not fail.  First, what a tag       *)
(* revalidation does to the entries that carry the tag, for any clock of   *)
(* the client, any duration and any earlier watermarks; last, that the     *)
(* client that talks to Valkey gives every command its own reply.          *)
(***************************************************************************)
EXTENDS UseCache, RespClient, SequenceTheorems, WellFoundedInduction, TLAPS

-------------------------------------------------------------------------------
(* The merge of a revalidation into the watermarks of a tag.               *)

(* The watermarks of a tag whose last event reached Valkey by clock: the   *)
(* stale mark of that or of an earlier event.                              *)
MarksBy(state, clock) ==
    /\ state \in TagState
    /\ state.stale <= state.at
    /\ state.at <= clock

(* Whether the watermarks of one tag keep an entry of ts from being fresh. *)
Denies(state, ts, clock) ==
    \/ state.expired # Unset /\ state.expired <= clock /\ state.expired > ts
    \/ state.stale > ts

(* The merge of an event into such watermarks, written out: the event's    *)
(* base is at the server's now whatever the client's clock said.           *)
LEMMA MergeOnServerClock ==
    ASSUME NEW old \in TagState, NEW at \in Nat \ {0}, NEW d \in Durations,
           NEW clock \in Nat \ {0}, old.at <= clock
    PROVE  LET new == mergeTagState(old, computeTagUpdate(at, d), clock) IN
           /\ new \in TagState
           /\ new.at = clock
           /\ d.kind = "hard" => new.expired = clock /\ new.stale = old.stale
           /\ d.kind = "profile" => new.stale = clock /\ new.expired = old.expired
           /\ d.kind = "expire" => new.stale = clock /\ new.expired = clock + d.expire
<1> DEFINE event == computeTagUpdate(at, d)
           new == mergeTagState(old, event, clock)
<1>1. /\ old.stale \in Nat /\ old.expired \in Nat /\ old.at \in Nat
      /\ d.expire \in Nat
      /\ d.kind \in {"hard", "profile", "expire"}
    BY DEF TagState, Durations
<1>2. new = [stale   |-> IF event.stale = 0 THEN old.stale ELSE event.stale + (clock - event.at),
             expired |-> IF event.expired = 0 THEN old.expired
                         ELSE event.expired + (clock - event.at),
             at      |-> clock]
    BY <1>1 DEF mergeTagState, Unset
<1>3. CASE d.kind = "hard"
    <2>1. event.stale = 0 /\ event.expired = at /\ event.at = at
        BY <1>3 DEF computeTagUpdate, Unset
    <2>2. new = [stale |-> old.stale, expired |-> clock, at |-> clock]
        BY <1>1, <1>2, <2>1
    <2> QED
        BY <1>1, <1>3, <2>2 DEF TagState
<1>4. CASE d.kind = "profile"
    <2>1. event.stale = at /\ event.expired = 0 /\ event.at = at
        BY <1>4 DEF computeTagUpdate, Unset
    <2>2. new = [stale |-> clock, expired |-> old.expired, at |-> clock]
        BY <1>1, <1>2, <2>1
    <2> QED
        BY <1>1, <1>4, <2>2 DEF TagState
<1>5. CASE d.kind = "expire"
    <2>1. event.stale = at /\ event.expired = at + d.expire /\ event.at = at
        BY <1>5 DEF computeTagUpdate, Unset
    <2>2. new = [stale |-> clock, expired |-> clock + d.expire, at |-> clock]
        BY <1>1, <1>2, <2>1
    <2> QED
        BY <1>1, <1>5, <2>2 DEF TagState
<1> QED
    BY <1>1, <1>3, <1>4, <1>5

(* Watermarks stay in the past of the server's clock: what the merge       *)
(* theorems assume of the stored state they establish of the new one.      *)
THEOREM MergeKeepsMarksBy ==
    ASSUME NEW at \in Nat \ {0}, NEW d \in Durations, NEW clock \in Nat \ {0},
           NEW old, MarksBy(old, clock)
    PROVE  MarksBy(mergeTagState(old, computeTagUpdate(at, d), clock), clock)
<1>1. /\ old \in TagState /\ old.stale <= old.at /\ old.at <= clock
      /\ old.stale \in Nat /\ old.at \in Nat
    BY DEF MarksBy, TagState
<1>2. d.kind \in {"hard", "profile", "expire"}
    BY DEF Durations
<1> QED
    BY <1>1, <1>2, MergeOnServerClock DEF MarksBy

(* An entry one of whose tags is denied is not fresh. *)
LEMMA DeniedIsNotFresh ==
    ASSUME NEW entry, NEW marks, NEW clock, NEW t \in entry.tags,
           Denies(marks[t], entry.timestamp, clock)
    PROVE  evaluateEntry(entry, marks, clock) # "fresh"
<1>1. CASE marks[t].stale > entry.timestamp
    BY <1>1 DEF evaluateEntry, areTagsStale
<1>2. CASE /\ marks[t].expired # Unset
           /\ marks[t].expired <= clock
           /\ marks[t].expired > entry.timestamp
    BY <1>2 DEF evaluateEntry, areTagsExpired
<1> QED
    BY <1>1, <1>2 DEF Denies

(* A revalidation takes effect at once and for good: an entry older than   *)
(* the moment UPDATE_TAGS_SCRIPT ran is not fresh at that moment or any    *)
(* later one, whatever the client's clock said (N78), with or without a    *)
(* profile, and over any earlier watermarks (M12).                         *)
THEOREM UpdateDenies ==
    ASSUME NEW at \in Nat \ {0}, NEW d \in Durations, NEW clock \in Nat \ {0},
           NEW old, MarksBy(old, clock),
           NEW entry, NEW marks, NEW t \in entry.tags,
           marks[t] = mergeTagState(old, computeTagUpdate(at, d), clock),
           entry.timestamp \in Int, entry.timestamp < clock,
           NEW later \in Nat, later >= clock
    PROVE  evaluateEntry(entry, marks, later) # "fresh"
<1>1. old \in TagState /\ old.at <= clock
    BY DEF MarksBy
<1>2. d.kind \in {"hard", "profile", "expire"}
    BY DEF Durations
<1>3. /\ d.kind = "hard" => marks[t].expired = clock
      /\ d.kind # "hard" => marks[t].stale = clock
    BY <1>1, <1>2, MergeOnServerClock
<1>4. Denies(marks[t], entry.timestamp, later)
    BY <1>3 DEF Denies, Unset
<1> QED
    BY <1>4, DeniedIsNotFresh

(* No later revalidation makes a denied entry fresh again: a profile that  *)
(* moves the expiry to the future (or sets none) over a hard one still     *)
(* leaves the entry stale.                                                 *)
THEOREM DenialLasts ==
    ASSUME NEW at \in Nat \ {0}, NEW d \in Durations, NEW clock \in Nat \ {0},
           NEW old, MarksBy(old, clock),
           NEW ts \in Int, Denies(old, ts, clock),
           NEW later \in Nat, later >= clock
    PROVE  Denies(mergeTagState(old, computeTagUpdate(at, d), clock), ts, later)
<1> DEFINE new == mergeTagState(old, computeTagUpdate(at, d), clock)
<1>1. /\ old \in TagState /\ old.stale <= old.at /\ old.at <= clock
      /\ old.stale \in Nat /\ old.at \in Nat /\ old.expired \in Nat
    BY DEF MarksBy, TagState
<1>2. d.kind \in {"hard", "profile", "expire"}
    BY DEF Durations
<1>3. /\ d.kind = "hard" => new.expired = clock /\ new.stale = old.stale
      /\ d.kind # "hard" => new.stale = clock
    BY <1>1, <1>2, MergeOnServerClock
<1>4. ts < clock
    BY <1>1 DEF Denies
<1> QED
    BY <1>1, <1>3, <1>4 DEF Denies, Unset

-------------------------------------------------------------------------------
(* Types: the entries Valkey keeps, the front's, the tasks in progress.    *)

Stored == [start: Int, lag: Int, timestamp: Int]
Fronted == [start: Int, lag: Int, timestamp: Int, tagExpiresAt: Int,
            verifiedSoftTags: SUBSET SoftTags, blind: BOOLEAN]
Warming == [at: {"entry", "tags", "clock"}, epoch: Int, writes: Int,
            softTags: SUBSET SoftTags, entry: Stored \cup {Absent}, seen: Int]
Updating == [tags: SUBSET Tags, at: Nat \ {0}, kind: Durations]
Requesting == [at: {"idle", "preparing", "running", "computing"} \cup SetStages,
               epoch: Int, began: Int, softTags: [Keys -> SUBSET SoftTags],
               key: Keys \cup {Absent}, start: Int, sent: Int, writes: Int, seen: Int]
Update == [tags: SUBSET Tags, at: Nat, by: Replicas, marks: [Tags -> TagState]]

Typed ==
    /\ now \in Nat /\ now >= StartTime
    /\ log \in Seq(Update)
    /\ store \in [Keys -> Stored \cup {Absent}]
    /\ local \in [Replicas -> [Keys -> Fronted \cup {Absent}]]
    /\ epoch \in [Replicas -> Int]
    /\ writes \in [Replicas -> Int]
    /\ warm \in [Replicas -> [Keys -> Warming \cup {Absent}]]
    /\ update \in [Replicas -> Updating \cup {Absent}]
    /\ req \in [Requests -> Requesting]

-------------------------------------------------------------------------------
(* The inductive invariant.                                                *)

(* The manifest of every epoch: its marks were made by now, and a tag that *)
(* an update up to that epoch named denies whatever is older.              *)
ManifestInv ==
    \A n \in 0 .. Epoch : \A t \in Tags :
        /\ MarksBy(Marks(n)[t], now)
        /\ \A m \in 1 .. n : t \in log[m].tags =>
             log[m].at <= now /\ \A ts \in Int : ts < log[m].at => Denies(Marks(n)[t], ts, now)

(* A request knows an epoch that has been, the one it started with, and    *)
(* reads tags no earlier than it, or knows none; a set works on its key.   *)
RequestOK(q) ==
    /\ req[q].at # "idle" /\ req[q].epoch # NoEpoch =>
         req[q].epoch = req[q].began /\ req[q].epoch \in 0 .. Epoch
    /\ req[q].at = "admitClock" =>
         req[q].seen \in 0 .. Epoch /\ (req[q].epoch # NoEpoch => req[q].epoch <= req[q].seen)
    /\ req[q].at \in SetStages \cup {"computing"} => req[q].key \in Keys

(* The same of warms; what they carry claims its timestamp.                *)
WarmOK(r, k) ==
    warm[r][k] # Absent =>
        /\ warm[r][k].epoch # NoEpoch => warm[r][k].epoch \in 0 .. Epoch
        /\ warm[r][k].at \in {"tags", "clock"} =>
             warm[r][k].entry \in Stored /\ Claim(warm[r][k].entry) = warm[r][k].entry.timestamp
        /\ warm[r][k].at = "clock" =>
             /\ warm[r][k].seen \in 0 .. Epoch
             /\ warm[r][k].epoch # NoEpoch => warm[r][k].epoch <= warm[r][k].seen

StoreOK(k) == store[k] # Absent => Claim(store[k]) = store[k].timestamp

(* An entry of the front stands under the manifest of epoch n: no mark is  *)
(* newer than it but a deadline the front knows, and it postdates the      *)
(* updates of its tags.                                                    *)
Stands(r, k, e, n) ==
    \A t \in KeyTags[k] \cup e.verifiedSoftTags :
        /\ Marks(n)[t].stale <= Claim(e)
        /\ Marks(n)[t].expired # Unset /\ Marks(n)[t].expired > Claim(e) =>
             ToLocal(r, Marks(n)[t].expired) >= e.tagExpiresAt
        /\ \A m \in 1 .. n : t \in log[m].tags => Claim(e) >= log[m].at

(* While the replica has no epoch its front holds only what blind requests *)
(* brought in; the other entries stand under a manifest no older than the  *)
(* replica's epoch.                                                        *)
FrontOK(r, k) ==
    local[r][k] # Absent /\ ~local[r][k].blind =>
        /\ epoch[r] # NoEpoch
        /\ local[r][k].timestamp = ToLocal(r, Claim(local[r][k]))
        /\ \E n \in 0 .. Epoch : epoch[r] <= n /\ Stands(r, k, local[r][k], n)

CacheInv ==
    /\ Typed /\ ManifestInv
    /\ \A q \in Requests : RequestOK(q)
    /\ \A k \in Keys : StoreOK(k)
    /\ \A r \in Replicas, k \in Keys : WarmOK(r, k)
    /\ \A r \in Replicas, k \in Keys : FrontOK(r, k)

-------------------------------------------------------------------------------
(* About the operators.                                                    *)

(* Among numbers there is a least one.                                     *)
LEMMA LeastNat ==
    ASSUME NEW T \in SUBSET Nat, T # {}
    PROVE  \E x \in T : \A y \in T : x <= y
<1>1. PICK x \in T : \A y \in T : ~(<<y, x>> \in OpToRel(<, Nat))
  BY NatLessThanWellFounded, WFMin
<1>2. \A y \in T : ~(y < x)
  BY <1>1 DEF OpToRel
<1> QED
  BY <1>2

(* A denial holds for ever.                                                *)
LEMMA DeniesLater ==
    ASSUME NEW s \in TagState, NEW ts \in Int, NEW t1 \in Nat, NEW t2 \in Nat, t1 <= t2,
           Denies(s, ts, t1)
    PROVE  Denies(s, ts, t2)
BY DEF Denies, TagState

(* An update denies everything older than itself.                          *)
LEMMA MergeDenies ==
    ASSUME NEW at \in Nat \ {0}, NEW d \in Durations, NEW t \in Nat \ {0},
           NEW old, MarksBy(old, t), NEW ts \in Int, ts < t
    PROVE  Denies(mergeTagState(old, computeTagUpdate(at, d), t), ts, t)
<1>1. old \in TagState /\ old.at <= t
  BY DEF MarksBy
<1>2. d.kind \in {"hard", "profile", "expire"}
  BY DEF Durations
<1> QED
  BY <1>1, <1>2, MergeOnServerClock DEF Denies, Unset

(* The marks of an epoch that has been.                                    *)
LEMMA MarksTyped ==
    ASSUME Typed, NEW n \in 0 .. Epoch
    PROVE  Marks(n) \in [Tags -> TagState]
<1>1. CASE n = 0
  BY <1>1 DEF Marks, NoMarks, TagState, Unset
<1>2. CASE n # 0
  <2>1. log[n] \in Update
    BY <1>2 DEF Typed, Epoch
  <2> QED
    BY <1>2, <2>1 DEF Marks, Update
<1> QED
  BY <1>1, <1>2

(* A fresh verdict, mark by mark.                                          *)
LEMMA FreshMarks ==
    ASSUME NEW ts \in Int, NEW tags, NEW n, NEW at \in Int, Revalidate \in Nat, Expire \in Nat
    PROVE  Verdict(ts, tags, n, at) = "fresh" <=>
             /\ at <= ts + Expire /\ at <= ts + Revalidate
             /\ \A t \in tags : /\ ~(/\ Marks(n)[t].expired # Unset /\ Marks(n)[t].expired <= at
                                     /\ Marks(n)[t].expired > ts)
                                /\ ~(Marks(n)[t].stale > ts)
<1> DEFINE e == [timestamp |-> ts, revalidate |-> Revalidate, expire |-> Expire, tags |-> tags]
<1>1. e.timestamp = ts /\ e.revalidate = Revalidate /\ e.expire = Expire /\ e.tags = tags
  OBVIOUS
<1>2. Verdict(ts, tags, n, at) = evaluateEntry(e, Marks(n), at)
  BY DEF Verdict
<1> HIDE DEF e
<1>3. (at > ts + Expire <=> ~(at <= ts + Expire)) /\ (at > ts + Revalidate <=> ~(at <= ts + Revalidate))
  OBVIOUS
<1>4. evaluateEntry(e, Marks(n), at) = "fresh" <=>
        ~(\/ at > ts + Expire \/ areTagsExpired(tags, ts, Marks(n), at) \/ at > ts + Revalidate)
        /\ ~areTagsStale(tags, ts, Marks(n))
  BY <1>1 DEF evaluateEntry
<1> QED
  BY <1>2, <1>3, <1>4 DEF areTagsExpired, areTagsStale

(* What a fresh verdict on a value gives the front: the value stands under *)
(* the manifest it was judged by, with the deadline the front keeps.       *)
LEMMA FreshStands ==
    ASSUME Typed, ManifestInv, UseCacheAssumption,
           NEW r \in Replicas, NEW k \in Keys, NEW n \in 0 .. Epoch,
           NEW ts \in Int, NEW soft \in SUBSET SoftTags,
           Verdict(ts, KeyTags[k] \cup soft, n, now) = "fresh",
           NEW e, Claim(e) = ts, e.verifiedSoftTags = soft,
           e.tagExpiresAt = nextTagExpiration(r, ts, KeyTags[k] \cup soft, n)
    PROVE  /\ nextTagExpiration(r, ts, KeyTags[k] \cup soft, n) \in Int
           /\ Stands(r, k, e, n)
<1> DEFINE tags == KeyTags[k] \cup soft
           deadlines == {Marks(n)[t].expired : t \in tags}
           later == {d \in deadlines : d # Unset /\ d > ts} \cup {Forever}
           first == CHOOSE d \in later : \A x \in later : d <= x
<1> USE UseCacheAssumption
<1>1. tags \subseteq Tags
  <2>1. KeyTags[k] \subseteq Tags
    OBVIOUS
  <2>2. SoftTags \subseteq Tags
    BY DEF Tags
  <2> QED
    BY <2>1, <2>2
<1>2. \A t \in tags : Marks(n)[t] \in TagState
  BY <1>1, MarksTyped
<1>3. \A t \in tags : Marks(n)[t].expired \in Nat /\ Marks(n)[t].stale \in Nat
  BY <1>2 DEF TagState
<1>4. Forever \in Nat
  BY DEF Forever
<1>5. later \in SUBSET Nat /\ later # {}
  BY <1>3, <1>4
<1>6. first \in later /\ \A x \in later : first <= x
  <2>1. \E x \in later : \A y \in later : x <= y
    BY <1>5, LeastNat
  <2> QED
    BY <2>1
<1>7. nextTagExpiration(r, ts, tags, n) = first + Offset[r] /\ Offset[r] \in Int /\ first \in Nat
  BY <1>5, <1>6 DEF nextTagExpiration, ToLocal
<1> HIDE DEF first
<1>8. now \in Int /\ now \in Nat
  BY DEF Typed
<1>9. \A t \in tags : /\ ~(/\ Marks(n)[t].expired # Unset /\ Marks(n)[t].expired <= now
                           /\ Marks(n)[t].expired > ts)
                      /\ ~(Marks(n)[t].stale > ts)
  BY <1>8, FreshMarks
<1>10. ASSUME NEW t \in tags
       PROVE  /\ Marks(n)[t].stale <= Claim(e)
              /\ Marks(n)[t].expired # Unset /\ Marks(n)[t].expired > Claim(e) =>
                   ToLocal(r, Marks(n)[t].expired) >= e.tagExpiresAt
              /\ \A m \in 1 .. n : t \in log[m].tags => Claim(e) >= log[m].at
  <2>1. Marks(n)[t].stale <= ts
    BY <1>3, <1>9
  <2>2. ASSUME Marks(n)[t].expired # Unset, Marks(n)[t].expired > ts
        PROVE  first <= Marks(n)[t].expired
    <3>1. Marks(n)[t].expired \in later
      BY <2>2
    <3> QED
      BY <1>6, <3>1
  <2>3. ASSUME NEW m \in 1 .. n, t \in log[m].tags PROVE ts >= log[m].at
    <3>0. m \in 1 .. Len(log)
      BY DEF Typed, Epoch
    <3>1. log[m] \in Update
      BY <3>0 DEF Typed
    <3>1a. log[m].at \in Nat
      BY <3>1 DEF Update
    <3>2. ~Denies(Marks(n)[t], ts, now)
      BY <1>9 DEF Denies
    <3>3. \A x \in Int : x < log[m].at => Denies(Marks(n)[t], x, now)
      BY <1>1, <2>3 DEF ManifestInv
    <3> QED
      BY <3>1a, <3>2, <3>3
  <2> QED
    BY <1>3, <1>7, <2>1, <2>2, <2>3 DEF ToLocal
<1>11. KeyTags[k] \cup e.verifiedSoftTags = tags
  OBVIOUS
<1>12. Stands(r, k, e, n)
  BY <1>10, <1>11, Zenon DEF Stands
<1>13. nextTagExpiration(r, ts, tags, n) \in Int
  BY <1>7
<1> QED
  BY <1>12, <1>13

-------------------------------------------------------------------------------
(* The initial states, and the shape of a step.                            *)

(* Everything starts empty.                                                *)
LEMMA CacheInit == ASSUME UseCacheAssumption PROVE Init => CacheInv
<1> SUFFICES ASSUME Init PROVE CacheInv
  OBVIOUS
<1> USE UseCacheAssumption DEF Init
<1>1. Typed
  <2>1. now \in Nat /\ now >= StartTime /\ log \in Seq(Update)
    OBVIOUS
  <2>2. store \in [Keys -> Stored \cup {Absent}]
        /\ local \in [Replicas -> [Keys -> Fronted \cup {Absent}]]
        /\ warm \in [Replicas -> [Keys -> Warming \cup {Absent}]]
        /\ update \in [Replicas -> Updating \cup {Absent}]
    BY DEF Empty
  <2>3. epoch \in [Replicas -> Int] /\ writes \in [Replicas -> Int]
    BY DEF NoEpoch
  <2>4. NotRunning \in Requesting
    BY DEF NotRunning, Requesting, NoEpoch
  <2>5. req \in [Requests -> Requesting]
    BY <2>4
  <2> QED
    BY <2>1, <2>2, <2>3, <2>5 DEF Typed
<1>2. Epoch = 0
  BY DEF Epoch
<1>3. ManifestInv
  <2>1. \A t \in Tags : Marks(0)[t] = NoMarks
    BY DEF Marks
  <2>2. MarksBy(NoMarks, now)
    BY <1>1 DEF MarksBy, NoMarks, TagState, Unset, Typed
  <2> QED
    BY <1>2, <2>1, <2>2 DEF ManifestInv
<1>4. \A q \in Requests : RequestOK(q)
  BY DEF RequestOK, NotRunning, SetStages
<1>5. \A k \in Keys : StoreOK(k)
  BY DEF StoreOK, Empty
<1>6. /\ \A r \in Replicas, k \in Keys : WarmOK(r, k)
      /\ \A r \in Replicas, k \in Keys : FrontOK(r, k)
  BY DEF WarmOK, FrontOK, Empty
<1> QED
  BY <1>1, <1>3, <1>4, <1>5, <1>6 DEF CacheInv

(* A step that leaves the manifest alone is judged by what it changes.     *)
LEMMA Frame ==
    ASSUME CacheInv, Typed', log' = log, now' = now,
           \A q \in Requests : req'[q] = req[q] \/ RequestOK(q)',
           \A k \in Keys : store'[k] = store[k] \/ StoreOK(k)',
           \A r \in Replicas, k \in Keys : warm'[r][k] = warm[r][k] \/ WarmOK(r, k)',
           \A r \in Replicas, k \in Keys :
               \/ local'[r][k] = Absent
               \/ local'[r][k] = local[r][k] /\ epoch'[r] = epoch[r]
               \/ FrontOK(r, k)'
    PROVE  CacheInv'
<1>1. Epoch' = Epoch /\ \A n : Marks(n)' = Marks(n)
  BY DEF Epoch, Marks
<1>2. ManifestInv'
  BY <1>1 DEF CacheInv, ManifestInv
<1>3. \A q \in Requests : RequestOK(q)'
  BY <1>1 DEF CacheInv, RequestOK
<1>4. \A k \in Keys : StoreOK(k)'
  BY DEF CacheInv, StoreOK
<1>5. \A r \in Replicas, k \in Keys : WarmOK(r, k)'
  BY <1>1 DEF CacheInv, WarmOK
<1>6. ASSUME NEW r \in Replicas, NEW k \in Keys PROVE FrontOK(r, k)'
  <2>1. CASE local'[r][k] = local[r][k] /\ epoch'[r] = epoch[r]
    BY <1>1, <2>1 DEF CacheInv, FrontOK, Stands
  <2> QED
    BY <2>1 DEF FrontOK
<1> QED
  BY <1>2, <1>3, <1>4, <1>5, <1>6 DEF CacheInv

-------------------------------------------------------------------------------
(* The manifest moves.                                                     *)

(* Time passes: what was denied stays denied.                              *)
LEMMA TickKeeps ==
    ASSUME CacheInv, UseCacheAssumption, Tick
    PROVE  CacheInv'
<1>1. now' = now + 1 /\ UNCHANGED <<log, store, local, epoch, available, writes, gate, warm, update, req>>
  BY DEF Tick, replica
<1>2. now \in Nat /\ now' \in Nat /\ now <= now' /\ now' >= StartTime
  BY <1>1, UseCacheAssumption DEF CacheInv, Typed
<1>3. Typed'
  BY <1>1, <1>2 DEF CacheInv, Typed
<1>4. Epoch' = Epoch /\ \A n : Marks(n)' = Marks(n)
  BY <1>1 DEF Epoch, Marks
<1>5. ManifestInv'
  <2>1. SUFFICES ASSUME NEW n \in 0 .. Epoch, NEW t \in Tags
                 PROVE  /\ MarksBy(Marks(n)[t], now')
                        /\ \A m \in 1 .. n : t \in log[m].tags =>
                             log[m].at <= now'
                             /\ \A ts \in Int : ts < log[m].at => Denies(Marks(n)[t], ts, now')
    BY <1>1, <1>4 DEF ManifestInv
  <2>2. MarksBy(Marks(n)[t], now) /\ Marks(n)[t] \in TagState
    BY DEF CacheInv, ManifestInv, MarksBy
  <2>3. MarksBy(Marks(n)[t], now')
    BY <1>2, <2>2 DEF MarksBy, TagState
  <2>4. ASSUME NEW m \in 1 .. n, t \in log[m].tags
        PROVE  log[m].at <= now' /\ \A ts \in Int : ts < log[m].at => Denies(Marks(n)[t], ts, now')
    <3>1. log[m].at <= now /\ \A ts \in Int : ts < log[m].at => Denies(Marks(n)[t], ts, now)
      BY <2>4 DEF CacheInv, ManifestInv
    <3>2. log[m].at \in Nat
      <4>1. m \in 1 .. Len(log)
        BY DEF CacheInv, Typed, Epoch
      <4>2. log[m] \in Update
        BY <4>1 DEF CacheInv, Typed
      <4> QED
        BY <4>2 DEF Update
    <3>3. \A ts \in Int : ts < log[m].at => Denies(Marks(n)[t], ts, now')
      BY <1>2, <2>2, <3>1, DeniesLater
    <3> QED
      BY <1>2, <3>1, <3>2, <3>3
  <2> QED
    BY <2>3, <2>4
<1>6. \A q \in Requests : RequestOK(q)'
  BY <1>1, <1>4 DEF CacheInv, RequestOK
<1>7. \A k \in Keys : StoreOK(k)'
  BY <1>1 DEF CacheInv, StoreOK
<1>8. /\ \A r \in Replicas, k \in Keys : WarmOK(r, k)'
      /\ \A r \in Replicas, k \in Keys : FrontOK(r, k)'
  BY <1>1, <1>4 DEF CacheInv, WarmOK, FrontOK, Stands
<1> QED
  BY <1>3, <1>5, <1>6, <1>7, <1>8 DEF CacheInv

(* UPDATE_TAGS_SCRIPT: the new manifest denies what is older than the      *)
(* update, and keeps every earlier denial; the epochs before it are as     *)
(* they were.                                                              *)
LEMMA UpdateExecKeeps ==
    ASSUME CacheInv, UseCacheAssumption,
           NEW r \in Replicas, NEW chunk \in SUBSET Tags, UpdateExec(r, chunk)
    PROVE  CacheInv'
<1> USE UseCacheAssumption
<1> DEFINE u == update[r]
           event == computeTagUpdate(u.at, u.kind)
           merged == [t \in Tags |-> IF t \in chunk THEN mergeTagState(Marks(Epoch)[t], event, now)
                                     ELSE Marks(Epoch)[t]]
           new == [tags |-> chunk, at |-> now, by |-> r, marks |-> merged]
<1>1. /\ u \in Updating /\ log' = Append(log, new)
      /\ update' = [update EXCEPT ![r] = IF chunk = u.tags THEN Absent
                                         ELSE [u EXCEPT !.tags = @ \ chunk]]
      /\ UNCHANGED <<now, store, local, epoch, available, writes, gate, warm, req>>
  BY DEF UpdateExec, CacheInv, Typed, replica
<1>2. u.at \in Nat \ {0} /\ u.kind \in Durations /\ now \in Nat \ {0}
  <2>1. now \in Nat /\ now # 0
    BY DEF CacheInv, Typed
  <2> QED
    BY <1>1, <2>1 DEF Updating
<1>3. Len(log) \in Nat /\ Epoch \in 0 .. Epoch /\ log \in Seq(Update) /\ Epoch = Len(log)
  BY DEF CacheInv, Typed, Epoch
<1>4. \A t \in Tags : MarksBy(Marks(Epoch)[t], now)
  BY <1>3 DEF CacheInv, ManifestInv
<1> HIDE DEF u
<1>5. \A t \in chunk : merged[t] = mergeTagState(Marks(Epoch)[t], event, now)
  OBVIOUS
<1>6. \A t \in Tags : t \notin chunk => merged[t] = Marks(Epoch)[t]
  OBVIOUS
<1>7. \A t \in Tags : MarksBy(merged[t], now)
  BY <1>2, <1>4, <1>5, <1>6, MergeKeepsMarksBy
<1>8. merged \in [Tags -> TagState]
  BY <1>7 DEF MarksBy
<1> HIDE DEF merged
<1>9. new \in Update
  BY <1>2, <1>8 DEF Update
<1> HIDE DEF new
<1>10. /\ log' \in Seq(Update) /\ Epoch' = Epoch + 1
       /\ log'[Epoch + 1] = new /\ \A m \in 1 .. Epoch : log'[m] = log[m]
  BY <1>1, <1>3, <1>9 DEF Epoch
<1>11. \A n \in 0 .. Epoch : Marks(n)' = Marks(n)
  BY <1>3, <1>10 DEF Marks
<1>12. (\A n : n = Epoch + 1 => Marks(n)' = merged) /\ new.tags = chunk /\ new.at = now
  <2>1. Epoch + 1 # 0
    BY <1>3
  <2>2. new.marks = merged /\ new.tags = chunk /\ new.at = now
    BY DEF new
  <2>3. \A n : n # 0 => Marks(n)' = log'[n].marks
    BY DEF Marks
  <2> QED
    BY <1>10, <2>1, <2>2, <2>3
<1>13. Typed'
  <2>1. update' \in [Replicas -> Updating \cup {Absent}]
    <3>1. [u EXCEPT !.tags = @ \ chunk] \in Updating
      BY <1>1 DEF Updating
    <3> QED
      BY <1>1, <3>1 DEF CacheInv, Typed
  <2> QED
    BY <1>1, <1>10, <2>1 DEF CacheInv, Typed
<1>14. ManifestInv'
  <2>1. ASSUME NEW n \in 0 .. Epoch, NEW t \in Tags
        PROVE  /\ MarksBy(Marks(n)'[t], now)
               /\ \A m \in 1 .. n : t \in log'[m].tags =>
                    log'[m].at <= now /\ \A ts \in Int : ts < log'[m].at => Denies(Marks(n)'[t], ts, now)
    <3>1. \A m \in 1 .. n : log'[m] = log[m]
      BY <1>3, <1>10
    <3> QED
      BY <1>11, <3>1 DEF CacheInv, ManifestInv
  <2>2. ASSUME NEW t \in Tags, NEW m \in 1 .. Epoch + 1, t \in log'[m].tags
        PROVE  log'[m].at <= now /\ \A ts \in Int : ts < log'[m].at => Denies(merged[t], ts, now)
    <3>1. CASE m = Epoch + 1
      <4>1. t \in chunk /\ log'[m].at = now
        BY <1>10, <1>12, <2>2, <3>1
      <4>2. \A ts \in Int : ts < now => Denies(merged[t], ts, now)
        BY <1>2, <1>4, <1>5, <4>1, MergeDenies
      <4> QED
        BY <1>2, <4>1, <4>2
    <3>2. CASE m \in 1 .. Epoch
      <4>1. log'[m] = log[m]
        BY <1>10, <3>2
      <4>2. log[m].at <= now /\ \A ts \in Int : ts < log[m].at => Denies(Marks(Epoch)[t], ts, now)
        BY <1>3, <2>2, <3>2, <4>1 DEF CacheInv, ManifestInv
      <4>3. ASSUME NEW ts \in Int, Denies(Marks(Epoch)[t], ts, now) PROVE Denies(merged[t], ts, now)
        <5>1. CASE t \in chunk
          BY <1>2, <1>4, <1>5, <4>3, <5>1, DenialLasts
        <5>2. CASE t \notin chunk
          BY <1>6, <4>3, <5>2
        <5> QED
          BY <5>1, <5>2
      <4> QED
        BY <4>1, <4>2, <4>3
    <3>3. m = Epoch + 1 \/ m \in 1 .. Epoch
      BY <1>3
    <3> QED
      BY <3>1, <3>2, <3>3, Zenon
  <2>3. SUFFICES ASSUME NEW n \in 0 .. Epoch + 1, NEW t \in Tags
                 PROVE  /\ MarksBy(Marks(n)'[t], now)
                        /\ \A m \in 1 .. n : t \in log'[m].tags =>
                             log'[m].at <= now
                             /\ \A ts \in Int : ts < log'[m].at => Denies(Marks(n)'[t], ts, now)
    BY <1>1, <1>10 DEF ManifestInv
  <2>4. CASE n = Epoch + 1
    <3>1. Marks(n)' = merged
      BY <1>12, <2>4
    <3>2. MarksBy(merged[t], now)
      BY <1>7
    <3>3. \A m \in 1 .. n : m \in 1 .. Epoch + 1
      BY <2>4
    <3> QED
      BY <2>2, <3>1, <3>2, <3>3
  <2>5. CASE n \in 0 .. Epoch
    BY <2>1, <2>5
  <2> QED
    BY <1>3, <2>4, <2>5
<1>15. ASSUME NEW q \in Requests PROVE RequestOK(q)'
  <2>1. RequestOK(q) /\ req'[q] = req[q] /\ req[q] \in Requesting
    BY <1>1 DEF CacheInv, Typed
  <2>2. req[q].epoch \in Int
    BY <2>1 DEF Requesting
  <2> QED
    BY <1>3, <1>10, <2>1, <2>2 DEF RequestOK
<1>16. \A k \in Keys : StoreOK(k)'
  BY <1>1 DEF CacheInv, StoreOK
<1>17. ASSUME NEW p \in Replicas, NEW k \in Keys PROVE WarmOK(p, k)'
  <2>1. WarmOK(p, k) /\ warm'[p][k] = warm[p][k] /\ warm[p][k] \in Warming \cup {Absent}
    BY <1>1 DEF CacheInv, Typed
  <2> QED
    BY <1>3, <1>10, <2>1 DEF WarmOK, Warming
<1>18. ASSUME NEW p \in Replicas, NEW k \in Keys PROVE FrontOK(p, k)'
  <2>1. FrontOK(p, k) /\ local'[p][k] = local[p][k] /\ epoch'[p] = epoch[p]
    BY <1>1 DEF CacheInv
  <2>2. ASSUME NEW n \in 0 .. Epoch, NEW e, Stands(p, k, e, n)
        PROVE  Stands(p, k, e, n)'
    <3>1. \A m \in 1 .. n : log'[m] = log[m]
      BY <1>3, <1>10
    <3> QED
      BY <1>11, <2>2, <3>1 DEF Stands
  <2>3. \A n \in 0 .. Epoch : n \in 0 .. Epoch + 1
    BY <1>3
  <2> QED
    BY <1>10, <2>1, <2>2, <2>3 DEF FrontOK
<1> QED
  BY <1>13, <1>14, <1>15, <1>16, <1>17, <1>18 DEF CacheInv

-------------------------------------------------------------------------------
(* The steps of a request that leave the front, the warms and Valkey       *)
(* alone: they keep the epoch it started with.                             *)

(* Records with the fields those steps change.                            *)
LEMMA RequestRecords ==
    ASSUME NEW x \in Requesting, NEW n \in Int
    PROVE  /\ [x EXCEPT !.at = "preparing", !.epoch = n, !.began = n] \in Requesting
           /\ [x EXCEPT !.at = "admitClock", !.seen = n] \in Requesting
           /\ \A k \in Keys : [x EXCEPT !.at = "computing", !.key = k, !.start = n] \in Requesting
           /\ [x EXCEPT !.at = "running", !.key = Absent, !.start = n,
                        !.sent = n, !.writes = n, !.seen = n] \in Requesting
<1>1. [x EXCEPT !.at = "preparing", !.epoch = n, !.began = n] \in Requesting
  BY DEF Requesting
<1>2. [x EXCEPT !.at = "admitClock", !.seen = n] \in Requesting
  BY DEF Requesting, SetStages
<1>3. \A k \in Keys : [x EXCEPT !.at = "computing", !.key = k, !.start = n] \in Requesting
  BY DEF Requesting
<1>4. [x EXCEPT !.at = "running", !.key = Absent, !.start = n,
                !.sent = n, !.writes = n, !.seen = n] \in Requesting
  BY DEF Requesting
<1> QED
  BY <1>1, <1>2, <1>3, <1>4, Zenon

(* A request's record after each of those steps.                           *)
LEMMA RequestMoves ==
    ASSUME CacheInv, UseCacheAssumption, NEW q \in Requests,
           \/ PrepareRead(q) \/ Finish(q) \/ SetFails(q) \/ SetSend(q) \/ SetReply(q) \/ AdmitTags(q)
           \/ \E k \in Keys : GetOtherEpoch(q, k) \/ \E s \in SUBSET SoftTags : GetHit(q, k, s)
    PROVE  CacheInv'
<1> USE UseCacheAssumption
<1>1. UNCHANGED <<now, log, store, local, epoch, writes, warm, update>>
  BY DEF PrepareRead, Finish, SetFails, SetSend, SetReply, AdmitTags, GetOtherEpoch, GetHit, replica
<1>2. /\ req \in [Requests -> Requesting] /\ req[q] \in Requesting /\ RequestOK(q)
      /\ Epoch \in Nat /\ now \in Nat /\ Home[q] \in Replicas
      /\ Epoch \in Int /\ now \in Int /\ 0 \in Int
  BY DEF CacheInv, Typed, Epoch
<1>3. Epoch' = Epoch
  BY <1>1 DEF Epoch
<1>4. ASSUME NEW e \in Requesting, req' = [req EXCEPT ![q] = e],
             e.at # "idle" /\ e.epoch # NoEpoch => e.epoch = e.began /\ e.epoch \in 0 .. Epoch,
             e.at = "admitClock" => e.seen \in 0 .. Epoch /\ (e.epoch # NoEpoch => e.epoch <= e.seen),
             e.at \in SetStages \cup {"computing"} => e.key \in Keys
      PROVE  CacheInv'
  <2>1. req' \in [Requests -> Requesting] /\ req'[q] = e /\ \A p \in Requests \ {q} : req'[p] = req[p]
    BY <1>2, <1>4
  <2>2. Typed'
    BY <1>1, <2>1 DEF CacheInv, Typed
  <2>3. RequestOK(q)'
    BY <1>3, <1>4, <2>1 DEF RequestOK
  <2> QED
    BY <1>1, <2>1, <2>2, <2>3, Frame
<1>5. CASE PrepareRead(q)
  <2> DEFINE e == [req[q] EXCEPT !.at = "preparing", !.epoch = Epoch, !.began = Epoch]
  <2>1. req' = [req EXCEPT ![q] = e]
    BY <1>2, <1>5 DEF PrepareRead
  <2>2. e \in Requesting
    BY <1>2, RequestRecords, Zenon
  <2>3. e.at = "preparing" /\ e.epoch = Epoch /\ e.began = Epoch
    BY <1>2 DEF Requesting
  <2>4. Epoch \in 0 .. Epoch
    BY <1>2
  <2> QED
    BY <1>4, <2>1, <2>2, <2>3, <2>4 DEF SetStages
<1>6. CASE Finish(q)
  <2>1. NotRunning \in Requesting /\ NotRunning.at = "idle"
    BY DEF NotRunning, Requesting, NoEpoch
  <2> QED
    BY <1>4, <1>6, <2>1 DEF Finish, SetStages
<1>7. CASE SetSend(q)
  <2> DEFINE e == [req[q] EXCEPT !.at = "sent", !.sent = LocalNow(Home[q])]
  <2>1. req' = [req EXCEPT ![q] = e] /\ req[q].at = "pending"
    BY <1>2, <1>7 DEF SetSend
  <2>2. LocalNow(Home[q]) \in Int
    BY <1>2 DEF LocalNow
  <2>3. /\ e \in Requesting /\ e.at = "sent" /\ e.epoch = req[q].epoch
        /\ e.began = req[q].began /\ e.key = req[q].key
    BY <1>2, <2>2 DEF Requesting, SetStages
  <2> QED
    BY <1>2, <1>4, <2>1, <2>3 DEF SetStages, RequestOK
<1>8. CASE AdmitTags(q)
  <2> DEFINE e == [req[q] EXCEPT !.at = "admitClock", !.seen = Epoch]
  <2>1. req' = [req EXCEPT ![q] = e] /\ req[q].at = "admitTags"
    BY <1>2, <1>8 DEF AdmitTags
  <2>2. e \in Requesting
    BY <1>2, RequestRecords, Zenon
  <2>3. /\ e.at = "admitClock" /\ e.epoch = req[q].epoch
        /\ e.began = req[q].began /\ e.key = req[q].key /\ e.seen = Epoch
    BY <1>2 DEF Requesting
  <2>4. Epoch \in 0 .. Epoch /\ (req[q].epoch \in 0 .. Epoch => req[q].epoch <= Epoch)
    BY <1>2
  <2> QED
    BY <1>2, <1>4, <2>1, <2>2, <2>3, <2>4 DEF SetStages, RequestOK
<1>9. ASSUME EndSet(q), req[q].at \in SetStages PROVE CacheInv'
  <2> DEFINE e == [req[q] EXCEPT !.at = "running", !.key = Absent, !.start = 0,
                                 !.sent = 0, !.writes = 0, !.seen = 0]
  <2>1. req' = [req EXCEPT ![q] = e] /\ req[q].at # "idle"
    BY <1>2, <1>9 DEF EndSet, SetStages
  <2>2. e \in Requesting
    BY <1>2, RequestRecords, Zenon
  <2>3. e.at = "running" /\ e.epoch = req[q].epoch /\ e.began = req[q].began
    BY <1>2 DEF Requesting
  <2> QED
    BY <1>2, <1>4, <2>1, <2>2, <2>3 DEF SetStages, RequestOK
<1>10. CASE SetFails(q)
  BY <1>9, <1>10 DEF SetFails
<1>11. CASE SetReply(q)
  <2>1. CASE EndSet(q)
    BY <1>9, <1>11, <2>1 DEF SetReply, SetStages
  <2>2. CASE req' = [req EXCEPT ![q].at = "admitTags"]
    <3> DEFINE e == [req[q] EXCEPT !.at = "admitTags"]
    <3>1. req' = [req EXCEPT ![q] = e] /\ req[q].at = "stored"
      BY <1>2, <1>11, <2>2 DEF SetReply
    <3>3. /\ e \in Requesting /\ e.at = "admitTags" /\ e.epoch = req[q].epoch
          /\ e.began = req[q].began /\ e.key = req[q].key
      BY <1>2 DEF Requesting, SetStages
    <3> QED
      BY <1>2, <1>4, <3>1, <3>3 DEF SetStages, RequestOK
  <2> QED
    BY <1>11, <2>1, <2>2 DEF SetReply
<1>12. ASSUME NEW k \in Keys, GetOtherEpoch(q, k) PROVE CacheInv'
  <2> DEFINE e == [req[q] EXCEPT !.at = "computing", !.key = k, !.start = now]
  <2>1. req' = [req EXCEPT ![q] = e] /\ req[q].at = "running"
    BY <1>2, <1>12 DEF GetOtherEpoch
  <2>2. e \in Requesting
    BY <1>2, RequestRecords, Zenon
  <2>3. /\ e.at = "computing" /\ e.epoch = req[q].epoch
        /\ e.began = req[q].began /\ e.key = k
    BY <1>2 DEF Requesting
  <2> QED
    BY <1>2, <1>4, <2>1, <2>2, <2>3 DEF SetStages, RequestOK
<1>13. ASSUME NEW k \in Keys, NEW s \in SUBSET SoftTags, GetHit(q, k, s) PROVE CacheInv'
  <2> DEFINE e == Noted(q, k, s)
  <2>1. req' = [req EXCEPT ![q] = e] /\ req[q].at = "running"
    BY <1>13 DEF GetHit
  <2>3. e \in Requesting /\ e.at = "running" /\ e.epoch = req[q].epoch /\ e.began = req[q].began
    BY <1>2, <2>1 DEF Requesting, Noted
  <2> QED
    BY <1>2, <1>4, <2>1, <2>3 DEF SetStages, RequestOK
<1> QED
  BY <1>5, <1>6, <1>7, <1>8, <1>10, <1>11, <1>12, <1>13

-------------------------------------------------------------------------------
(* The steps that empty the front, or a key of it.                         *)

(* prepareForInvocation's answer: an epoch other than the replica's finds  *)
(* the front empty, or empties it.                                         *)
LEMMA PrepareKeeps ==
    ASSUME CacheInv, UseCacheAssumption, NEW q \in Requests,
           PrepareDone(q) \/ PrepareFails(q)
    PROVE  CacheInv'
<1> USE UseCacheAssumption
<1> DEFINE r == Home[q]
<1>1. /\ r \in Replicas /\ req[q] \in Requesting /\ RequestOK(q) /\ req[q].at = "preparing"
      /\ req[q].epoch \in Int /\ NoEpoch \in Int /\ local[r] \in [Keys -> Fronted \cup {Absent}]
  <2>1. r \in Replicas /\ req[q] \in Requesting /\ RequestOK(q) /\ local[r] \in [Keys -> Fronted \cup {Absent}]
    BY DEF CacheInv, Typed
  <2>2. req[q].at = "preparing"
    BY DEF PrepareDone, PrepareFails
  <2>3. req[q].epoch \in Int /\ NoEpoch \in Int
    BY <2>1 DEF Requesting, NoEpoch
  <2> QED
    BY <2>1, <2>2, <2>3
<1>2. /\ UNCHANGED <<now, log, store, writes, warm, update>>
      /\ local' = local \/ Clear(r)
  BY DEF PrepareDone, PrepareFails
<1>3. Empty \in [Keys -> Fronted \cup {Absent}] /\ \A k \in Keys : Empty[k] = Absent
  BY DEF Empty
<1>4. /\ local' \in [Replicas -> [Keys -> Fronted \cup {Absent}]]
      /\ \A p \in Replicas, k \in Keys : local'[p][k] = local[p][k] \/ local'[p][k] = Absent
      /\ \A p \in Replicas \ {r} : local'[p] = local[p]
  <2>1. local \in [Replicas -> [Keys -> Fronted \cup {Absent}]]
    BY DEF CacheInv, Typed
  <2>2. CASE local' = local
    BY <2>1, <2>2
  <2>3. CASE local' = [local EXCEPT ![r] = Empty]
    <3>1. local'[r] = Empty /\ \A p \in Replicas \ {r} : local'[p] = local[p]
      BY <1>1, <2>1, <2>3
    <3>2. local' \in [Replicas -> [Keys -> Fronted \cup {Absent}]]
      BY <1>3, <2>1, <2>3
    <3> QED
      BY <1>3, <3>1, <3>2
  <2> QED
    BY <1>2, <2>2, <2>3 DEF Clear
<1>5. ASSUME NEW n \in Int, NEW e \in Requesting,
             epoch' = [epoch EXCEPT ![r] = n], req' = [req EXCEPT ![q] = e], e.at = "running",
             e.epoch # NoEpoch => e.epoch = req[q].epoch /\ e.began = req[q].began,
             \A k \in Keys : local'[r][k] = Absent \/ local'[r][k].blind \/ epoch[r] = n
      PROVE  CacheInv'
  <2>1. /\ epoch' \in [Replicas -> Int] /\ req' \in [Requests -> Requesting]
        /\ epoch'[r] = n /\ \A p \in Replicas \ {r} : epoch'[p] = epoch[p]
        /\ req'[q] = e /\ \A p \in Requests \ {q} : req'[p] = req[p]
    BY <1>1, <1>5 DEF CacheInv, Typed
  <2>2. Typed'
    BY <1>2, <1>4, <2>1 DEF CacheInv, Typed
  <2>3. Epoch' = Epoch
    BY <1>2 DEF Epoch
  <2>4. RequestOK(q)'
    BY <1>1, <1>5, <2>1, <2>3 DEF RequestOK, SetStages
  <2>5. ASSUME NEW p \in Replicas, NEW k \in Keys
        PROVE  \/ local'[p][k] = Absent
               \/ local'[p][k] = local[p][k] /\ epoch'[p] = epoch[p]
               \/ FrontOK(p, k)'
    BY <1>4, <1>5, <2>1 DEF FrontOK
  <2> QED
    BY <1>2, <2>1, <2>2, <2>4, <2>5, Frame
<1>6. CASE PrepareDone(q)
  <2> DEFINE e == [req[q] EXCEPT !.at = "running"]
  <2>1. /\ epoch' = [epoch EXCEPT ![r] = req[q].epoch]
        /\ req' = [req EXCEPT ![q] = e]
    BY <1>1, <1>6 DEF PrepareDone
  <2>2. /\ e \in Requesting /\ e.at = "running"
        /\ e.epoch = req[q].epoch /\ e.began = req[q].began
    BY <1>1 DEF Requesting
  <2>3. ASSUME NEW k \in Keys
        PROVE  local'[r][k] = Absent \/ local'[r][k].blind \/ epoch[r] = req[q].epoch
    <3>1. CASE Clear(r)
      BY <1>1, <1>3, <3>1 DEF Clear, CacheInv, Typed
    <3>2. CASE epoch[r] = NoEpoch /\ local' = local
      BY <1>1, <3>2 DEF CacheInv, FrontOK
    <3> QED
      BY <1>6, <3>1, <3>2 DEF PrepareDone
  <2> HIDE DEF e
  <2> QED
    BY <1>1, <1>5, <2>1, <2>2, <2>3
<1>7. CASE PrepareFails(q)
  <2> DEFINE e == [req[q] EXCEPT !.at = "running", !.epoch = NoEpoch]
  <2>1. /\ epoch' = [epoch EXCEPT ![r] = NoEpoch]
        /\ req' = [req EXCEPT ![q] = e]
    BY <1>1, <1>7 DEF PrepareFails
  <2>2. e \in Requesting /\ e.at = "running" /\ e.epoch = NoEpoch
    BY <1>1 DEF Requesting
  <2>3. \A k \in Keys : local'[r][k] = Absent
    BY <1>1, <1>3, <1>7 DEF PrepareFails, Clear, CacheInv, Typed
  <2> HIDE DEF e
  <2> QED
    BY <1>1, <1>5, <2>1, <2>2, <2>3
<1> QED
  BY <1>6, <1>7

(* updateTags begins by emptying the front and forgetting the epoch.       *)
LEMMA UpdateStartKeeps ==
    ASSUME CacheInv, UseCacheAssumption, NEW r \in Replicas,
           NEW tags \in SUBSET Updates[r], NEW kind \in Kinds, UpdateStart(r, tags, kind)
    PROVE  CacheInv'
<1> USE UseCacheAssumption
<1> DEFINE u == [tags |-> tags, at |-> LocalNow(r), kind |-> kind]
<1>1. /\ UNCHANGED <<now, log, store, writes, warm, req>> /\ Clear(r)
      /\ epoch' = [epoch EXCEPT ![r] = NoEpoch] /\ update' = [update EXCEPT ![r] = u]
  BY DEF UpdateStart
<1>2. tags \subseteq Tags /\ kind \in Durations
  OBVIOUS
<1>3. LocalNow(r) \in Nat \ {0}
  <2>1. now \in Nat /\ now >= StartTime /\ Offset[r] \in Int /\ StartTime + Offset[r] > 0 /\ StartTime \in Nat
    BY DEF CacheInv, Typed
  <2> QED
    BY <2>1 DEF LocalNow
<1>4. u \in Updating
  BY <1>2, <1>3 DEF Updating
<1> HIDE DEF u
<1>5. Empty \in [Keys -> Fronted \cup {Absent}] /\ \A k \in Keys : Empty[k] = Absent
  BY DEF Empty
<1>6. /\ local' \in [Replicas -> [Keys -> Fronted \cup {Absent}]]
      /\ \A k \in Keys : local'[r][k] = Absent
      /\ \A p \in Replicas \ {r} : local'[p] = local[p]
  BY <1>1, <1>5 DEF CacheInv, Typed, Clear
<1>7. /\ epoch' \in [Replicas -> Int] /\ update' \in [Replicas -> Updating \cup {Absent}]
      /\ \A p \in Replicas \ {r} : epoch'[p] = epoch[p]
  BY <1>1, <1>4 DEF CacheInv, Typed, NoEpoch
<1>8. Typed'
  BY <1>1, <1>6, <1>7 DEF CacheInv, Typed
<1>9. ASSUME NEW p \in Replicas, NEW k \in Keys
      PROVE  \/ local'[p][k] = Absent
             \/ local'[p][k] = local[p][k] /\ epoch'[p] = epoch[p]
  BY <1>6, <1>7
<1> QED
  BY <1>1, <1>8, <1>9, Frame

(* set begins by removing the key's entry.                                 *)
LEMMA SetCallKeeps ==
    ASSUME CacheInv, UseCacheAssumption, NEW q \in Requests, SetCall(q)
    PROVE  CacheInv'
<1> USE UseCacheAssumption
<1> DEFINE r == Home[q]
           e == [req[q] EXCEPT !.at = "pending", !.writes = writes[r] + 1]
<1>1. /\ r \in Replicas /\ req[q] \in Requesting /\ RequestOK(q) /\ req[q].at = "computing"
      /\ req[q].key \in Keys /\ writes[r] \in Int
  BY DEF CacheInv, Typed, SetCall, RequestOK
<1>2. /\ UNCHANGED <<now, log, store, epoch, warm, update>>
      /\ writes' = [writes EXCEPT ![r] = @ + 1] /\ Remove(r, req[q].key)
      /\ req' = [req EXCEPT ![q] = e]
  BY <1>1 DEF SetCall
<1>3. /\ e \in Requesting /\ e.at = "pending" /\ e.epoch = req[q].epoch
      /\ e.began = req[q].began /\ e.key = req[q].key
  <2>1. writes[r] + 1 \in Int
    BY <1>1
  <2>2. \A n \in Int : [req[q] EXCEPT !.at = "pending", !.writes = n] \in Requesting
    BY <1>1 DEF Requesting, SetStages
  <2>3. /\ e.at = "pending" /\ e.epoch = req[q].epoch
        /\ e.began = req[q].began /\ e.key = req[q].key
    BY <1>1 DEF Requesting
  <2>4. e \in Requesting
    BY <2>1, <2>2, Zenon
  <2> QED
    BY <2>3, <2>4
<1> HIDE DEF e
<1>4. /\ local' \in [Replicas -> [Keys -> Fronted \cup {Absent}]]
      /\ \A p \in Replicas, k \in Keys : local'[p][k] = local[p][k] \/ local'[p][k] = Absent
  BY <1>1, <1>2 DEF CacheInv, Typed, Remove
<1>5. /\ req' \in [Requests -> Requesting] /\ writes' \in [Replicas -> Int]
      /\ req'[q] = e /\ \A p \in Requests \ {q} : req'[p] = req[p]
  BY <1>1, <1>2, <1>3 DEF CacheInv, Typed
<1>6. Typed'
  BY <1>2, <1>4, <1>5 DEF CacheInv, Typed
<1>7. RequestOK(q)'
  BY <1>1, <1>2, <1>3, <1>5 DEF RequestOK, SetStages, Epoch
<1>8. ASSUME NEW p \in Replicas, NEW k \in Keys
      PROVE  \/ local'[p][k] = Absent
             \/ local'[p][k] = local[p][k] /\ epoch'[p] = epoch[p]
  BY <1>2, <1>4
<1> QED
  BY <1>2, <1>5, <1>6, <1>7, <1>8, Frame

-------------------------------------------------------------------------------
(* The entries of Valkey, and the reads of a warm.                         *)

(* STORE_USE_CACHE_ENTRY_SCRIPT: the timestamp moved to Valkey's clock is  *)
(* the start of the computation and the time the command travelled.        *)
LEMMA StoreKeeps ==
    ASSUME CacheInv, UseCacheAssumption, NEW q \in Requests, StoreExec(q)
    PROVE  CacheInv'
<1> USE UseCacheAssumption
<1> DEFINE stored == [start |-> req[q].start, lag |-> LocalNow(Home[q]) - req[q].sent,
                      timestamp |-> StoredTimestamp(q)]
           e == [req[q] EXCEPT !.at = "stored"]
<1>1. /\ req[q] \in Requesting /\ RequestOK(q) /\ req[q].at = "sent" /\ Home[q] \in Replicas
      /\ now \in Int /\ Offset[Home[q]] \in Int
  BY DEF CacheInv, Typed, StoreExec
<1>2. req[q].key \in Keys /\ req[q].start \in Int /\ req[q].sent \in Int
  BY <1>1 DEF RequestOK, SetStages, Requesting
<1>3. PICK k \in Keys : k = req[q].key
  BY <1>2
<1>4. /\ UNCHANGED <<now, log, local, epoch, writes, warm, update>>
      /\ store' = [store EXCEPT ![k] = stored] /\ req' = [req EXCEPT ![q] = e]
  BY <1>1, <1>3 DEF StoreExec, replica
<1>5. stored \in Stored /\ Claim(stored) = stored.timestamp
  BY <1>1, <1>2 DEF Stored, Claim, StoredTimestamp, LocalNow, ToLocal
<1>6. /\ e \in Requesting /\ e.at = "stored" /\ e.epoch = req[q].epoch
      /\ e.began = req[q].began /\ e.key = k
  BY <1>1, <1>3 DEF Requesting, SetStages
<1> HIDE DEF e, stored
<1>7. /\ req' \in [Requests -> Requesting] /\ store' \in [Keys -> Stored \cup {Absent}]
      /\ req'[q] = e /\ \A p \in Requests \ {q} : req'[p] = req[p]
      /\ store'[k] = stored /\ \A j \in Keys \ {k} : store'[j] = store[j]
  BY <1>2, <1>4, <1>5, <1>6 DEF CacheInv, Typed
<1>8. Typed'
  BY <1>4, <1>7 DEF CacheInv, Typed
<1>9. RequestOK(q)'
  BY <1>1, <1>2, <1>4, <1>6, <1>7 DEF RequestOK, SetStages, Epoch
<1>10. StoreOK(k)'
  <2>1. \A x : Claim(x)' = Claim(x)
    BY DEF Claim
  <2> QED
    BY <1>5, <1>7, <2>1 DEF StoreOK
<1> QED
  BY <1>4, <1>7, <1>8, <1>9, <1>10, Frame

(* Valkey drops an entry; the rest of an update call is lost.              *)
LEMMA DropKeeps ==
    ASSUME CacheInv, (\E k \in Keys : EvictEntry(k)) \/ \E r \in Replicas : UpdateFails(r)
    PROVE  CacheInv'
<1>1. UNCHANGED <<now, log, local, epoch, writes, warm, req>>
  BY DEF EvictEntry, UpdateFails, replica
<1>2. /\ store' \in [Keys -> Stored \cup {Absent}]
      /\ \A k \in Keys : store'[k] = store[k] \/ store'[k] = Absent
      /\ update' \in [Replicas -> Updating \cup {Absent}]
  BY DEF EvictEntry, UpdateFails, CacheInv, Typed
<1>3. Typed'
  BY <1>1, <1>2 DEF CacheInv, Typed
<1>4. \A k \in Keys : store'[k] = store[k] \/ StoreOK(k)'
  BY <1>2 DEF StoreOK
<1> QED
  BY <1>1, <1>3, <1>4, Frame

(* A warm after each read: the tags it sees are no older than its epoch.   *)
LEMMA WarmReads ==
    ASSUME CacheInv, UseCacheAssumption, NEW r \in Replicas, NEW k \in Keys,
           WarmEntry(r, k) \/ WarmTags(r, k) \/ WarmFails(r, k)
    PROVE  CacheInv'
<1>1. UNCHANGED <<now, log, store, local, epoch, writes, update, req>>
  BY DEF WarmEntry, WarmTags, WarmFails, replica
<1>2. /\ warm \in [Replicas -> [Keys -> Warming \cup {Absent}]]
      /\ warm[r][k] # Absent /\ warm[r][k] \in Warming /\ Epoch \in Nat /\ Epoch' = Epoch
      /\ store \in [Keys -> Stored \cup {Absent}]
  <2>1. warm[r][k] # Absent
    BY DEF WarmEntry, WarmTags, WarmFails
  <2> QED
    BY <1>1, <2>1 DEF CacheInv, Typed, Epoch
<1>3. ASSUME NEW w \in Warming \cup {Absent}, warm' = [warm EXCEPT ![r][k] = w],
             w # Absent /\ w.epoch # NoEpoch => w.epoch \in 0 .. Epoch,
             w # Absent /\ w.at \in {"tags", "clock"} =>
               w.entry \in Stored /\ Claim(w.entry) = w.entry.timestamp,
             w # Absent /\ w.at = "clock" => w.seen \in 0 .. Epoch /\ (w.epoch # NoEpoch => w.epoch <= w.seen)
      PROVE  CacheInv'
  <2>1. warm' \in [Replicas -> [Keys -> Warming \cup {Absent}]]
    BY <1>2, <1>3
  <2>2. warm'[r][k] = w /\ \A p \in Replicas, j \in Keys : p # r \/ j # k => warm'[p][j] = warm[p][j]
    BY <1>2, <1>3
  <2>3. Typed'
    BY <1>1, <2>1 DEF CacheInv, Typed
  <2>4. WarmOK(r, k)'
    <3>1. \A x : Claim(x)' = Claim(x)
      BY DEF Claim
    <3> QED
      BY <1>2, <1>3, <2>2, <3>1 DEF WarmOK
  <2>5. ASSUME NEW p \in Replicas, NEW j \in Keys PROVE warm'[p][j] = warm[p][j] \/ WarmOK(p, j)'
    BY <2>2, <2>4
  <2> QED
    BY <1>1, <2>3, <2>5, Frame
<1>4. ASSUME warm' = [warm EXCEPT ![r][k] = Absent] PROVE CacheInv'
  BY <1>3, <1>4
<1>5. WarmOK(r, k)
  BY DEF CacheInv
<1>6. CASE WarmFails(r, k)
  BY <1>4, <1>6 DEF WarmFails, EndWarm
<1>7. CASE WarmEntry(r, k)
  <2>1. CASE EndWarm(r, k)
    BY <1>4, <2>1 DEF EndWarm
  <2>2. CASE store[k] # Absent /\ warm' = [warm EXCEPT ![r][k].at = "tags", ![r][k].entry = store[k]]
    <3> DEFINE w == [warm[r][k] EXCEPT !.at = "tags", !.entry = store[k]]
    <3>1. warm' = [warm EXCEPT ![r][k] = w]
      BY <1>2, <2>2
    <3>2. store[k] \in Stored /\ Claim(store[k]) = store[k].timestamp
      BY <1>2, <2>2 DEF CacheInv, StoreOK
    <3>3. w \in Warming /\ w.at = "tags" /\ w.entry = store[k] /\ w.epoch = warm[r][k].epoch
      BY <1>2, <3>2 DEF Warming
    <3>4. w.epoch # NoEpoch => w.epoch \in 0 .. Epoch
      BY <1>2, <1>5, <3>3 DEF WarmOK
    <3> HIDE DEF w
    <3> QED
      BY <1>3, <3>1, <3>2, <3>3, <3>4
  <2> QED
    BY <1>7, <2>1, <2>2 DEF WarmEntry
<1>8. CASE WarmTags(r, k)
  <2> DEFINE w == [warm[r][k] EXCEPT !.at = "clock", !.seen = Epoch]
  <2>1. warm' = [warm EXCEPT ![r][k] = w] /\ warm[r][k].at = "tags" /\ warm[r][k] # Absent
    BY <1>2, <1>8 DEF WarmTags
  <2>2. w.at = "clock" /\ w.entry = warm[r][k].entry /\ w.epoch = warm[r][k].epoch /\ w.seen = Epoch
    BY <1>2 DEF Warming
  <2>3. \A n \in Int : [warm[r][k] EXCEPT !.at = "clock", !.seen = n] \in Warming
    BY <1>2 DEF Warming
  <2>4. Epoch \in Int
    BY <1>2
  <2>5. w \in Warming
    BY <2>3, <2>4, Zenon
  <2>6. /\ w.epoch # NoEpoch => w.epoch \in 0 .. Epoch /\ w.epoch <= w.seen
        /\ w.seen \in 0 .. Epoch /\ w.entry \in Stored /\ Claim(w.entry) = w.entry.timestamp
    BY <1>2, <1>5, <2>1, <2>2 DEF WarmOK
  <2> HIDE DEF w
  <2> QED
    BY <1>3, <2>1, <2>5, <2>6
<1> QED
  BY <1>6, <1>7, <1>8

-------------------------------------------------------------------------------
(* What enters the front.                                                  *)

(* putLocalEntry puts its entry, or drops some.                            *)
LEMMA PutLocal ==
    ASSUME local \in [Replicas -> [Keys -> Fronted \cup {Absent}]],
           NEW r \in Replicas, NEW k \in Keys, NEW e \in Fronted, putLocalEntry(r, k, e)
    PROVE  /\ local' \in [Replicas -> [Keys -> Fronted \cup {Absent}]]
           /\ \A p \in Replicas, j \in Keys :
                \/ local'[p][j] = Absent \/ local'[p][j] = local[p][j]
                \/ p = r /\ j = k /\ local'[p][j] = e
<1>1. CASE local' = local
  BY <1>1
<1>2. ASSUME NEW dropped \in SUBSET Keys,
             local' = [local EXCEPT ![r] =
                [kk \in Keys |-> IF kk \in dropped THEN Absent
                                 ELSE IF kk = k THEN e ELSE @[kk]]]
      PROVE  /\ local' \in [Replicas -> [Keys -> Fronted \cup {Absent}]]
             /\ \A p \in Replicas, j \in Keys :
                  \/ local'[p][j] = Absent \/ local'[p][j] = local[p][j]
                  \/ p = r /\ j = k /\ local'[p][j] = e
  <2> DEFINE f == [kk \in Keys |-> IF kk \in dropped THEN Absent
                                   ELSE IF kk = k THEN e ELSE local[r][kk]]
  <2>1. local' = [local EXCEPT ![r] = f]
    BY <1>2
  <2>2. f \in [Keys -> Fronted \cup {Absent}]
    OBVIOUS
  <2>3. \A j \in Keys : f[j] = Absent \/ f[j] = local[r][j] \/ (j = k /\ f[j] = e)
    OBVIOUS
  <2> HIDE DEF f
  <2>4. local'[r] = f /\ \A p \in Replicas \ {r} : local'[p] = local[p]
    BY <2>1
  <2> QED
    BY <2>1, <2>2, <2>3, <2>4
<1> QED
  BY <1>1, <1>2 DEF putLocalEntry

(* The last step of readStored: what is still fresh and of the replica's   *)
(* epoch enters the front, under the manifest the warm has seen.           *)
LEMMA WarmClockKeeps ==
    ASSUME CacheInv, UseCacheAssumption, NEW r \in Replicas, NEW k \in Keys, WarmClock(r, k)
    PROVE  CacheInv'
<1> USE UseCacheAssumption
<1>0. PICK w : w = warm[r][k]
  OBVIOUS
<1>1. /\ w \in Warming /\ w # Absent /\ w.at = "clock" /\ WarmOK(r, k) /\ now \in Int
      /\ warm \in [Replicas -> [Keys -> Warming \cup {Absent}]]
      /\ local \in [Replicas -> [Keys -> Fronted \cup {Absent}]]
  BY <1>0 DEF CacheInv, Typed, WarmClock
<1>2. /\ w.entry \in Stored /\ Claim(w.entry) = w.entry.timestamp /\ w.seen \in 0 .. Epoch
      /\ w.epoch # NoEpoch => w.epoch \in 0 .. Epoch /\ w.epoch <= w.seen
  BY <1>0, <1>1 DEF WarmOK
<1>3. w.softTags \in SUBSET SoftTags /\ w.entry.timestamp \in Int /\ w.entry.start \in Int /\ w.entry.lag \in Int
  BY <1>1, <1>2 DEF Warming, Stored
<1>4. /\ UNCHANGED <<now, log, store, epoch, writes, update, req>>
      /\ warm' = [warm EXCEPT ![r][k] = Absent]
  BY DEF WarmClock, EndWarm
<1>5. /\ warm' \in [Replicas -> [Keys -> Warming \cup {Absent}]]
      /\ \A p \in Replicas, j \in Keys : warm'[p][j] = warm[p][j] \/ warm'[p][j] = Absent
  BY <1>1, <1>4
<1>6. \A p \in Replicas, j \in Keys : warm'[p][j] = warm[p][j] \/ WarmOK(p, j)'
  BY <1>5 DEF WarmOK
<1>7. CASE UNCHANGED local
  <2>1. Typed'
    BY <1>4, <1>5, <1>7 DEF CacheInv, Typed
  <2> QED
    BY <1>4, <1>6, <1>7, <2>1, Frame
<1>8. CASE Warmable(r, k)
  <2> DEFINE tags == KeyTags[k] \cup w.softTags
  <2>1. PICK e : e = [start |-> w.entry.start, lag |-> w.entry.lag,
                      timestamp |-> ToLocal(r, w.entry.timestamp),
                      tagExpiresAt |-> nextTagExpiration(r, w.entry.timestamp, tags, w.seen),
                      verifiedSoftTags |-> w.softTags, blind |-> w.epoch = NoEpoch]
    OBVIOUS
  <2>2. putLocalEntry(r, k, e)
    BY <1>0, <1>8, <2>1 DEF WarmClock
  <2>3. /\ e.start = w.entry.start /\ e.lag = w.entry.lag
        /\ e.timestamp = ToLocal(r, w.entry.timestamp)
        /\ e.tagExpiresAt = nextTagExpiration(r, w.entry.timestamp, tags, w.seen)
        /\ e.verifiedSoftTags = w.softTags /\ e.blind = (w.epoch = NoEpoch)
    BY <2>1
  <2>4. Claim(e) = w.entry.timestamp
    BY <1>2, <2>3 DEF Claim
  <2>5. Verdict(w.entry.timestamp, tags, w.seen, now) = "fresh" /\ epoch[r] = w.epoch
    BY <1>0, <1>8 DEF Warmable
  <2>6. /\ nextTagExpiration(r, w.entry.timestamp, tags, w.seen) \in Int
        /\ Stands(r, k, e, w.seen)
    BY <1>2, <1>3, <2>3, <2>4, <2>5, FreshStands DEF CacheInv
  <2>7. e \in Fronted
    <3>1. ToLocal(r, w.entry.timestamp) \in Int
      BY <1>3 DEF ToLocal
    <3> HIDE DEF tags
    <3> QED
      BY <1>3, <2>1, <2>6, <3>1 DEF Fronted
  <2>8. /\ local' \in [Replicas -> [Keys -> Fronted \cup {Absent}]]
        /\ \A p \in Replicas, j \in Keys :
             \/ local'[p][j] = Absent \/ local'[p][j] = local[p][j]
             \/ p = r /\ j = k /\ local'[p][j] = e
    BY <1>1, <2>2, <2>7, PutLocal
  <2>9. Typed'
    BY <1>4, <1>5, <2>8 DEF CacheInv, Typed
  <2>10. ASSUME local'[r][k] = e PROVE FrontOK(r, k)'
    <3>1. ~e.blind => epoch'[r] # NoEpoch /\ epoch'[r] <= w.seen /\ w.seen \in 0 .. Epoch'
      BY <1>2, <1>4, <2>3, <2>5 DEF Epoch
    <3>2. e.timestamp = ToLocal(r, Claim(e))
      BY <2>3, <2>4
    <3>3. \A x, n : Stands(r, k, x, n)' <=> Stands(r, k, x, n)
      BY <1>4 DEF Stands, Marks
    <3> QED
      BY <2>6, <2>10, <3>1, <3>2, <3>3 DEF FrontOK
  <2>11. ASSUME NEW p \in Replicas, NEW j \in Keys
         PROVE  \/ local'[p][j] = Absent
                \/ local'[p][j] = local[p][j] /\ epoch'[p] = epoch[p]
                \/ FrontOK(p, j)'
    BY <1>4, <2>8, <2>10
  <2> QED
    BY <1>4, <1>6, <2>9, <2>11, Frame
<1> QED
  BY <1>7, <1>8 DEF WarmClock

(* The last step of a set: the value the request computed enters the front *)
(* under the manifest it has seen since it stored it.                      *)
LEMMA AdmitClockKeeps ==
    ASSUME CacheInv, UseCacheAssumption, NEW q \in Requests, AdmitClock(q)
    PROVE  CacheInv'
<1> USE UseCacheAssumption
<1>0. PICK x, r, k : x = req[q] /\ r = Home[q] /\ k = x.key
  OBVIOUS
<1>1. /\ x \in Requesting /\ x.at = "admitClock" /\ RequestOK(q) /\ now \in Int /\ 0 \in Int
      /\ r \in Replicas /\ req \in [Requests -> Requesting]
      /\ local \in [Replicas -> [Keys -> Fronted \cup {Absent}]]
  BY <1>0 DEF CacheInv, Typed, AdmitClock
<1>2. /\ k \in Keys /\ x.seen \in 0 .. Epoch
      /\ x.epoch # NoEpoch => x.epoch \in 0 .. Epoch /\ x.epoch <= x.seen /\ x.epoch = x.began
  BY <1>0, <1>1 DEF RequestOK, SetStages
<1>3. x.softTags[k] \in SUBSET SoftTags /\ x.start \in Int
  BY <1>1, <1>2 DEF Requesting
<1>4. PICK done : done = [x EXCEPT !.at = "running", !.key = Absent, !.start = 0,
                                   !.sent = 0, !.writes = 0, !.seen = 0]
  OBVIOUS
<1>5. /\ UNCHANGED <<now, log, store, epoch, writes, warm, update>>
      /\ req' = [req EXCEPT ![q] = done]
  BY <1>0, <1>1, <1>4 DEF AdmitClock, EndSet
<1>6. done \in Requesting
  BY <1>1, <1>4, RequestRecords, Zenon
<1>7. done.at = "running" /\ done.epoch = x.epoch /\ done.began = x.began
  BY <1>1, <1>4 DEF Requesting
<1>8. /\ req' \in [Requests -> Requesting] /\ req'[q] = done
      /\ \A p \in Requests \ {q} : req'[p] = req[p]
  BY <1>1, <1>5, <1>6
<1>9. RequestOK(q)'
  BY <1>0, <1>2, <1>5, <1>7, <1>8 DEF RequestOK, SetStages, Epoch
<1>10. CASE UNCHANGED local
  <2>1. Typed'
    BY <1>5, <1>8, <1>10 DEF CacheInv, Typed
  <2> QED
    BY <1>5, <1>8, <1>9, <1>10, <2>1, Frame
<1>11. CASE Admissible(q)
  <2> DEFINE soft == x.softTags[k]
             tags == KeyTags[k] \cup soft
  <2>1. PICK e : e = [start |-> x.start, lag |-> 0, timestamp |-> ToLocal(r, x.start),
                      tagExpiresAt |-> nextTagExpiration(r, x.start, tags, x.seen),
                      verifiedSoftTags |-> soft, blind |-> x.epoch = NoEpoch]
    OBVIOUS
  <2>2. putLocalEntry(r, k, e)
    BY <1>0, <1>11, <2>1 DEF AdmitClock
  <2>3. /\ e.start = x.start /\ e.lag = 0
        /\ e.timestamp = ToLocal(r, x.start)
        /\ e.tagExpiresAt = nextTagExpiration(r, x.start, tags, x.seen)
        /\ e.verifiedSoftTags = soft /\ e.blind = (x.epoch = NoEpoch)
    BY <2>1
  <2>4. Claim(e) = x.start
    BY <1>3, <2>3 DEF Claim
  <2>5. Verdict(x.start, tags, x.seen, now) = "fresh" /\ epoch[r] = x.epoch
    BY <1>0, <1>11 DEF Admissible, SameEpoch
  <2>6. /\ nextTagExpiration(r, x.start, tags, x.seen) \in Int
        /\ Stands(r, k, e, x.seen)
    BY <1>1, <1>2, <1>3, <2>3, <2>4, <2>5, FreshStands DEF CacheInv
  <2>7. e \in Fronted
    <3>1. ToLocal(r, x.start) \in Int
      BY <1>1, <1>3 DEF ToLocal
    <3> HIDE DEF tags
    <3> QED
      BY <1>3, <2>1, <2>6, <3>1 DEF Fronted
  <2>8. /\ local' \in [Replicas -> [Keys -> Fronted \cup {Absent}]]
        /\ \A p \in Replicas, j \in Keys :
             \/ local'[p][j] = Absent \/ local'[p][j] = local[p][j]
             \/ p = r /\ j = k /\ local'[p][j] = e
    BY <1>1, <1>2, <2>2, <2>7, PutLocal
  <2>9. Typed'
    BY <1>5, <1>8, <2>8 DEF CacheInv, Typed
  <2>10. ASSUME local'[r][k] = e PROVE FrontOK(r, k)'
    <3>1. ~e.blind => epoch'[r] # NoEpoch /\ epoch'[r] <= x.seen /\ x.seen \in 0 .. Epoch'
      BY <1>2, <1>5, <2>3, <2>5 DEF Epoch
    <3>2. e.timestamp = ToLocal(r, Claim(e))
      BY <2>3, <2>4
    <3>3. \A y, n : Stands(r, k, y, n)' <=> Stands(r, k, y, n)
      BY <1>5 DEF Stands, Marks
    <3> QED
      BY <2>6, <2>10, <3>1, <3>2, <3>3 DEF FrontOK
  <2>11. ASSUME NEW p \in Replicas, NEW j \in Keys
         PROVE  \/ local'[p][j] = Absent
                \/ local'[p][j] = local[p][j] /\ epoch'[p] = epoch[p]
                \/ FrontOK(p, j)'
    BY <1>5, <2>8, <2>10
  <2> QED
    BY <1>5, <1>8, <1>9, <2>9, <2>11, Frame
<1> QED
  BY <1>10, <1>11 DEF AdmitClock

(* A miss removes a lapsed entry and may start a warm, with the epoch the  *)
(* request has prepared.                                                   *)
LEMMA GetMissKeeps ==
    ASSUME CacheInv, UseCacheAssumption, NEW q \in Requests, NEW k \in Keys,
           NEW s \in SUBSET SoftTags, GetMiss(q, k, s)
    PROVE  CacheInv'
<1> USE UseCacheAssumption
<1>0. PICK x, r : x = req[q] /\ r = Home[q]
  OBVIOUS
<1>1. /\ x \in Requesting /\ x.at = "running" /\ RequestOK(q) /\ now \in Int /\ Epoch \in Nat
      /\ r \in Replicas /\ req \in [Requests -> Requesting] /\ writes[r] \in Int
      /\ warm \in [Replicas -> [Keys -> Warming \cup {Absent}]]
      /\ local \in [Replicas -> [Keys -> Fronted \cup {Absent}]]
  BY <1>0 DEF CacheInv, Typed, GetMiss, Epoch
<1>2. PICK n \in Requesting : n = Noted(q, k, s) /\ n.epoch = x.epoch /\ n.began = x.began
  <2>1. Noted(q, k, s) \in Requesting
    BY <1>0, <1>1 DEF Requesting, Noted
  <2>2. Noted(q, k, s).epoch = x.epoch /\ Noted(q, k, s).began = x.began
    BY <1>0, <1>1 DEF Requesting, Noted
  <2> QED
    BY <2>1, <2>2
<1>3. PICK y : y = [n EXCEPT !.at = "computing", !.key = k, !.start = now]
  OBVIOUS
<1>4. y \in Requesting
  BY <1>1, <1>3, RequestRecords, Zenon
<1>5. y.at = "computing" /\ y.key = k /\ y.epoch = x.epoch /\ y.began = x.began
  BY <1>2, <1>3 DEF Requesting
<1>6. /\ UNCHANGED <<now, log, store, epoch, writes, update>>
      /\ req' = [req EXCEPT ![q] = y]
      /\ local' = local \/ Remove(r, k)
      /\ warm' = warm \/ StartWarm(q, k, s)
  BY <1>0, <1>2, <1>3 DEF GetMiss
<1>7. /\ req' \in [Requests -> Requesting] /\ req'[q] = y
      /\ \A p \in Requests \ {q} : req'[p] = req[p]
  BY <1>1, <1>4, <1>6
<1>8. /\ local' \in [Replicas -> [Keys -> Fronted \cup {Absent}]]
      /\ \A p \in Replicas, j \in Keys : local'[p][j] = Absent \/ local'[p][j] = local[p][j]
  <2>1. CASE local' = local
    BY <1>1, <2>1
  <2>2. CASE Remove(r, k)
    BY <1>1, <2>2 DEF Remove
  <2> QED
    BY <1>6, <2>1, <2>2
<1>9. PICK task : task = [at |-> "entry", epoch |-> x.epoch, writes |-> writes[r],
                          softTags |-> s, entry |-> Absent, seen |-> 0]
  OBVIOUS
<1>10. task \in Warming /\ task.at = "entry" /\ task.epoch = x.epoch
  BY <1>1, <1>9 DEF Warming, Requesting
<1>11. /\ warm' \in [Replicas -> [Keys -> Warming \cup {Absent}]]
       /\ \A p \in Replicas, j \in Keys :
            warm'[p][j] = warm[p][j] \/ (p = r /\ j = k /\ warm'[p][j] = task)
  <2>1. CASE warm' = warm
    BY <1>1, <2>1, Zenon
  <2>2. CASE warm' = [warm EXCEPT ![r][k] = task]
    <3>1. warm' \in [Replicas -> [Keys -> Warming \cup {Absent}]]
      BY <1>1, <1>10, <2>2
    <3>2. /\ warm'[r][k] = task
          /\ \A p \in Replicas, j \in Keys : p # r \/ j # k => warm'[p][j] = warm[p][j]
      BY <1>1, <2>2
    <3> QED
      BY <3>1, <3>2, Zenon
  <2> QED
    BY <1>0, <1>6, <1>9, <2>1, <2>2 DEF StartWarm
<1>12. Typed'
  BY <1>6, <1>7, <1>8, <1>11 DEF CacheInv, Typed
<1>13. x.epoch # NoEpoch => x.epoch = x.began /\ x.epoch \in 0 .. Epoch
  BY <1>0, <1>1 DEF RequestOK
<1>14. RequestOK(q)'
  BY <1>0, <1>5, <1>6, <1>7, <1>13 DEF RequestOK, SetStages, Epoch
<1>15. ASSUME NEW p \in Replicas, NEW j \in Keys PROVE warm'[p][j] = warm[p][j] \/ WarmOK(p, j)'
  BY <1>6, <1>10, <1>11, <1>13 DEF WarmOK, Epoch
<1>16. ASSUME NEW p \in Replicas, NEW j \in Keys
       PROVE  \/ local'[p][j] = Absent
              \/ local'[p][j] = local[p][j] /\ epoch'[p] = epoch[p]
  BY <1>6, <1>8
<1> QED
  BY <1>6, <1>7, <1>12, <1>14, <1>15, <1>16, Frame

-------------------------------------------------------------------------------
(* The theorems.                                                           *)

(* A step keeps the invariant.                                             *)
LEMMA CacheStep == ASSUME CacheInv, UseCacheAssumption, [Next]_vars PROVE CacheInv'
<1>1. CASE UNCHANGED vars
  <2>1. UNCHANGED <<now, log, store, local, epoch, writes, warm, update, req>>
    BY <1>1 DEF vars, replica
  <2>2. Typed'
    BY <2>1 DEF CacheInv, Typed
  <2> QED
    BY <2>1, <2>2, Frame
<1>2. ASSUME NEW q \in Requests, RequestStep(q) PROVE CacheInv'
  BY <1>2, RequestMoves, PrepareKeeps, GetMissKeeps, SetCallKeeps, StoreKeeps, AdmitClockKeeps
  DEF RequestStep
<1>3. ASSUME NEW r \in Replicas, UpdateStep(r) PROVE CacheInv'
  <2>1. ASSUME NEW tags \in (SUBSET Updates[r]) \ {{}}, NEW kind \in Kinds, UpdateStart(r, tags, kind)
        PROVE  CacheInv'
    BY <2>1, UpdateStartKeeps
  <2>2. ASSUME NEW chunk \in (SUBSET Tags) \ {{}}, UpdateExec(r, chunk) PROVE CacheInv'
    BY <2>2, UpdateExecKeeps
  <2> QED
    BY <1>3, <2>1, <2>2, DropKeeps DEF UpdateStep
<1>4. ASSUME NEW r \in Replicas, NEW k \in Keys, WarmStep(r, k) PROVE CacheInv'
  BY <1>4, WarmReads, WarmClockKeeps DEF WarmStep
<1> QED
  BY <1>1, <1>2, <1>3, <1>4, TickKeeps, DropKeeps DEF Next

(* CacheInv holds in every state.                                          *)
THEOREM CacheInvariant == Spec => []CacheInv
<1>1. Init => CacheInv
  BY CacheInit, UseCacheAssumption
<1>2. CacheInv /\ [Next]_vars => CacheInv'
  BY CacheStep, UseCacheAssumption
<1> QED
  BY <1>1, <1>2, PTL DEF Spec

(* What a hit finds that no blind request brought in: an                   *)
(* entry that stands under the manifest of some moment since the request   *)
(* prepared.                                                               *)
LEMMA HitStands ==
    ASSUME CacheInv, UseCacheAssumption, NEW q \in Requests, NEW k \in Keys,
           NEW s \in SUBSET SoftTags, KnowingHit(q, k, s),
           NEW e, e = local[Home[q]][k]
    PROVE  /\ e \in Fronted /\ s \subseteq e.verifiedSoftTags
           /\ e.timestamp = ToLocal(Home[q], Claim(e))
           /\ req[q].began \in 0 .. Epoch
           /\ \E n \in req[q].began .. Epoch : Stands(Home[q], k, e, n)
<1>1. req[q].at = "running" /\ req[q].epoch = epoch[Home[q]] /\ e # Absent /\ s \subseteq e.verifiedSoftTags
      /\ ~e.blind /\ Home[q] \in Replicas
  BY DEF KnowingHit, WouldHit, SameEpoch, Served
<1>3. /\ e.timestamp = ToLocal(Home[q], Claim(e)) /\ epoch[Home[q]] # NoEpoch
      /\ \E n \in 0 .. Epoch : epoch[Home[q]] <= n /\ Stands(Home[q], k, e, n)
  BY <1>1 DEF CacheInv, FrontOK
<1>2. req[q].epoch = req[q].began /\ req[q].epoch \in 0 .. Epoch
  BY <1>1, <1>3 DEF CacheInv, RequestOK
<1>4. e \in Fronted
  BY <1>1 DEF CacheInv, Typed
<1>5. PICK n \in 0 .. Epoch : epoch[Home[q]] <= n /\ Stands(Home[q], k, e, n)
  BY <1>3
<1>6. n \in req[q].began .. Epoch
  BY <1>1, <1>2, <1>5
<1> QED
  BY <1>1, <1>2, <1>3, <1>4, <1>5, <1>6

(* A hit postdates every update of its tags that Valkey had applied, for   *)
(* any replica, when the request prepared, with reads of the epoch that    *)
(* fail at any time: only what a blind request itself brought into the     *)
(* front is excepted (use-cache-handler.ts, prepareForInvocation).         *)
THEOREM HitPostdatesTheorem == Spec => []HitPostdatesUpdates
<1>1. ASSUME CacheInv PROVE HitPostdatesUpdates
  <2>1. SUFFICES ASSUME NEW q \in Requests, NEW k \in Keys, NEW s \in SUBSET SoftTags,
                        KnowingHit(q, k, s), NEW m \in 1 .. req[q].began,
                        NEW t \in log[m].tags \cap (KeyTags[k] \cup s)
                 PROVE  Claim(local[Home[q]][k]) >= log[m].at
    BY DEF HitPostdatesUpdates, Postdates
  <2>2. PICK e : e = local[Home[q]][k]
    OBVIOUS
  <2>3. PICK n \in req[q].began .. Epoch : Stands(Home[q], k, e, n)
    BY <1>1, <2>1, <2>2, HitStands, UseCacheAssumption
  <2>4. s \subseteq e.verifiedSoftTags /\ req[q].began \in 0 .. Epoch
    BY <1>1, <2>1, <2>2, HitStands, UseCacheAssumption
  <2>5. m \in 1 .. n /\ t \in KeyTags[k] \cup e.verifiedSoftTags
    BY <2>3, <2>4
  <2> QED
    BY <2>2, <2>3, <2>5 DEF Stands
<1> QED
  BY <1>1, CacheInvariant, PTL

(* A hit is fresh by the shared verdict, judged at the time of the get     *)
(* against the manifest of some moment since the request prepared: the     *)
(* deadline the front keeps is never later than a tag's scheduled expiry.  *)
THEOREM HitFreshTheorem == Spec => []HitIsFresh
<1>1. ASSUME CacheInv PROVE HitIsFresh
  <2>1. SUFFICES ASSUME NEW q \in Requests, NEW k \in Keys, NEW s \in SUBSET SoftTags,
                        KnowingHit(q, k, s)
                 PROVE  \E n \in req[q].began .. Epoch :
                          Verdict(Claim(local[Home[q]][k]), KeyTags[k] \cup s, n, now) = "fresh"
    BY DEF HitIsFresh
  <2>2. PICK e, r : e = local[Home[q]][k] /\ r = Home[q]
    OBVIOUS
  <2>3. PICK n \in req[q].began .. Epoch : Stands(r, k, e, n)
    BY <1>1, <2>1, <2>2, HitStands, UseCacheAssumption
  <2>4. /\ e \in Fronted /\ s \subseteq e.verifiedSoftTags
        /\ e.timestamp = ToLocal(r, Claim(e)) /\ req[q].began \in 0 .. Epoch
    BY <1>1, <2>1, <2>2, HitStands, UseCacheAssumption
  <2>5. /\ Claim(e) \in Int /\ e.timestamp \in Int /\ e.tagExpiresAt \in Int
        /\ now \in Int /\ Offset[r] \in Int /\ n \in 0 .. Epoch
        /\ Revalidate \in Nat /\ Expire \in Nat /\ LocalNow(r) \in Int
    BY <1>1, <2>2, <2>3, <2>4, UseCacheAssumption DEF CacheInv, Typed, Fronted, Claim, LocalNow
  <2>6. LocalNow(r) < e.tagExpiresAt /\ Verdict(e.timestamp, {}, 0, LocalNow(r)) = "fresh"
    BY <2>1, <2>2 DEF KnowingHit, WouldHit, Served
  <2>7. LocalNow(r) <= e.timestamp + Expire /\ LocalNow(r) <= e.timestamp + Revalidate
    BY <2>5, <2>6, FreshMarks
  <2>8. now <= Claim(e) + Expire /\ now <= Claim(e) + Revalidate
    BY <2>4, <2>5, <2>7 DEF LocalNow, ToLocal
  <2>9. ASSUME NEW t \in KeyTags[k] \cup s
        PROVE  /\ ~(/\ Marks(n)[t].expired # Unset /\ Marks(n)[t].expired <= now
                    /\ Marks(n)[t].expired > Claim(e))
               /\ ~(Marks(n)[t].stale > Claim(e))
    <3>1. t \in KeyTags[k] \cup e.verifiedSoftTags
      BY <2>4
    <3>2. t \in Tags
      BY <2>4, UseCacheAssumption DEF Fronted, Tags
    <3>3. Marks(n)[t] \in TagState
      BY <1>1, <2>5, <3>2, MarksTyped DEF CacheInv
    <3>4. Marks(n)[t].expired \in Nat /\ Marks(n)[t].stale \in Nat
      BY <3>3 DEF TagState
    <3>5. /\ Marks(n)[t].stale <= Claim(e)
          /\ Marks(n)[t].expired # Unset /\ Marks(n)[t].expired > Claim(e) =>
               ToLocal(r, Marks(n)[t].expired) >= e.tagExpiresAt
      BY <2>3, <3>1 DEF Stands
    <3> QED
      BY <2>5, <2>6, <3>4, <3>5 DEF ToLocal, LocalNow
  <2>10. Verdict(Claim(e), KeyTags[k] \cup s, n, now) = "fresh"
    BY <2>5, <2>8, <2>9, FreshMarks
  <2> QED
    BY <2>2, <2>3, <2>10
<1> QED
  BY <1>1, CacheInvariant, PTL

-------------------------------------------------------------------------------
(* The RESP client: positions match, for any number of commands, connections and unasked frames. *)

-------------------------------------------------------------------------------
(* The inductive invariant, of a client that has not crossed connections.  *)

Ent == [cmd: Commands \cup {"AUTH", "QUIT"}, part: 1 .. 3, on: Gens, gen: Nat]
Answers == {"none"} \cup (Commands \X (1 .. 3))
Cmd == [st: {"idle", "waiting", "go", "sent", "ok", "failed"}, on: Nat, reply: Answers]
Stages == {"none", "dialing", "up", "closing", "destroyed"}

ClientTyped ==
    /\ opt \in Configs
    /\ generation \in Nat /\ socket \in 0 .. MaxGen /\ connecting \in Nat
    /\ conn \in [Gens -> [stage: Stages, owes: Seq(Ent), authed: BOOLEAN]]
    /\ queue \in Seq(Ent)
    /\ cmds \in [Commands -> Cmd]
    /\ due \in SUBSET [gen: Gens, ok: BOOLEAN]
    /\ ended \in BOOLEAN

Up(g) == conn[g].stage = "up"
Dialing(g) == conn[g].stage = "dialing"
Resolved(g) == [gen |-> g, ok |-> TRUE] \in due

(* One connection at a time: the one that is up is this.socket, and while  *)
(* one is dialled nothing is up and nothing is queued.                     *)
OneConnection ==
    /\ \A g \in Gens : Up(g) => socket = g
    /\ \A g \in Gens : Dialing(g) => /\ queue = <<>>
                                     /\ \A h \in Gens : ~Up(h) /\ (Dialing(h) => h = g)
    /\ \A g \in Gens : generation < g => conn[g].stage = "none"
    /\ \A g \in Gens : conn[g].stage \in {"none", "dialing"} =>
         conn[g].owes = <<>> /\ socket # g /\ \A d \in due : d.gen # g

(* The queue belongs to this.socket; a socket that has gone has no command *)
(* about to be written to it.                                              *)
QueueOwned ==
    /\ \A i \in 1 .. Len(queue) : /\ queue[i].on = socket
                                  /\ queue[i].cmd = "AUTH" => i = 1 /\ opt.password
                                  /\ queue[i].cmd = "QUIT" => ended
    /\ socket # 0 /\ ~Up(socket) =>
         /\ \A c \in Commands : cmds[c].st # "go"
         /\ \A g \in Gens : ~Resolved(g)

(* Until quit() is called the live connection is the current generation,   *)
(* and at most one promise has settled without its handler having run.     *)
BeforeQuit ==
    /\ quitting # "no" => ended
    /\ ~ended =>
         /\ \A g \in Gens : Up(g) \/ Dialing(g) => generation = g
         /\ \A g \in Gens : Dialing(g) => connecting = g
         /\ \A d, e \in due : d = e

(* The heart: on the current connection the replies the server owes are    *)
(* the entries of the queue, in their order.                               *)
Aligned == socket # 0 /\ Up(socket) /\ socket = generation => conn[socket].owes = queue

(* Every command that has resolved has its own reply.                      *)
Owned == \A c \in Commands : cmds[c].st = "ok" => cmds[c].reply = <<c, Len(Parts(c))>>

RespInv == ClientTyped /\ OneConnection /\ QueueOwned /\ BeforeQuit /\ Aligned /\ Owned

-------------------------------------------------------------------------------
(* The steps of failAll and quit() that start from a clean slate.          *)

CmdsTyped(cs) ==
    /\ cs \in [Commands -> Cmd]
    /\ \A c \in Commands : cs[c].st = "ok" => cs[c].reply = <<c, Len(Parts(c))>>

(* A rejection keeps the commands' type and resolves none of them.         *)
LEMMA RejectedTyped ==
    ASSUME NEW q, NEW cs, CmdsTyped(cs)
    PROVE  CmdsTyped(Rejected(q, cs))
BY DEF CmdsTyped, Rejected, Cmd

(* The promises a caller of failAll may leave settled: those that were, or *)
(* the one of the connection it gives up.                                  *)
Settled(d) ==
    \A x \in d : x \in due \/ (socket # 0 /\ x \in [gen: {socket}, ok: BOOLEAN])

(* failAll's clean slate: the socket is destroyed, the queue is empty, and *)
(* whatever the caller has done to the commands and promises before, the   *)
(* invariant holds again.  Before quit() it happens with no dial going on, *)
(* and at most one promise has settled when it is done.                    *)
LEMMA CleanSlate ==
    ASSUME RespInv, RespClientAssumption,
           NEW q \in Seq(Ent), NEW cs, NEW d,
           CmdsTyped(cs), Settled(d),
           \A i \in 1 .. Len(q) : q[i].on = socket,
           ~ended => /\ \A g \in Gens : ~Dialing(g)
                     /\ \A x, y \in due' : x = y,
           generation' = generation + 1,
           conn' = IF socket = 0 THEN conn ELSE [conn EXCEPT ![socket].stage = "destroyed"],
           socket' = 0, connecting' = 0, queue' = <<>>,
           cmds' = Rejected(q, cs),
           due' = d \cup {[gen |-> e.on, ok |-> FALSE] :
                              e \in {x \in Entries(q) : x.cmd = "AUTH"}},
           quitting' # "no" => ended,
           ended' = ended, opt' = opt
    PROVE  RespInv'
<1> USE RespClientAssumption DEF Gens
<1>1. CmdsTyped(cmds')
  BY RejectedTyped
<1>2. \A e \in Entries(q) : e \in Ent /\ e.on = socket
  BY DEF Entries
<1>3. socket # 0 => socket \in Gens
  BY DEF RespInv, ClientTyped
<1>4. \A x \in due' : x \in due \/ (socket # 0 /\ x \in [gen: {socket}, ok: BOOLEAN])
  <2>1. ASSUME NEW x \in due' PROVE x \in due \/ (socket # 0 /\ x \in [gen: {socket}, ok: BOOLEAN])
    <3>1. CASE x \in d
      BY <3>1 DEF Settled
    <3>2. CASE x \notin d
      <4>1. PICK e \in Entries(q) : x = [gen |-> e.on, ok |-> FALSE]
        BY <3>2
      <4>2. e.on = socket /\ e.on \in Gens
        BY <1>2, <4>1 DEF Ent
      <4>3. socket # 0
        BY <4>2
      <4>4. x = [gen |-> socket, ok |-> FALSE]
        BY <4>1, <4>2
      <4> QED
        BY <4>3, <4>4
    <3> QED
      BY <3>1, <3>2
  <2> QED
    BY <2>1
<1>5. due' \in SUBSET [gen: Gens, ok: BOOLEAN]
  <2>1. SUFFICES ASSUME NEW x \in due' PROVE x \in [gen: Gens, ok: BOOLEAN]
    OBVIOUS
  <2>2. CASE x \in due
    BY <2>2 DEF RespInv, ClientTyped
  <2>3. CASE socket # 0 /\ x \in [gen: {socket}, ok: BOOLEAN]
    BY <1>3, <2>3
  <2> QED
    BY <1>4, <2>2, <2>3
<1>6. conn' \in [Gens -> [stage: Stages, owes: Seq(Ent), authed: BOOLEAN]]
  BY <1>3 DEF RespInv, ClientTyped, Stages
<1>7. \A g \in Gens : /\ conn'[g].owes = conn[g].owes
                      /\ conn'[g].stage = IF g = socket THEN "destroyed" ELSE conn[g].stage
  BY <1>3 DEF RespInv, ClientTyped
<1>8. ClientTyped'
  BY <1>1, <1>5, <1>6 DEF RespInv, ClientTyped, CmdsTyped
<1>9. OneConnection'
  <2>1. \A g \in Gens : conn'[g].stage \in {"none", "dialing"} => \A x \in due' : x.gen # g
    BY <1>4, <1>7 DEF RespInv, OneConnection
  <2> QED
    BY <1>7, <2>1 DEF RespInv, OneConnection, Up, Dialing, ClientTyped
<1>10. QueueOwned'
  BY DEF QueueOwned
<1>11. BeforeQuit'
  <2>1. \A g \in Gens : ~Up(g)'
    BY <1>7 DEF RespInv, OneConnection, Up
  <2>2. ~ended => \A g \in Gens : ~Dialing(g)'
    BY <1>7 DEF Dialing
  <2> QED
    BY <2>1, <2>2 DEF BeforeQuit
<1>12. Aligned' /\ Owned'
  BY <1>1 DEF Aligned, Owned, CmdsTyped
<1> QED
  BY <1>8, <1>9, <1>10, <1>11, <1>12 DEF RespInv

-------------------------------------------------------------------------------
(* A chunk, for a connection that owes what is queued.                     *)

Arrived(owes, k, extra) == SubSeq(owes, 1, k) \o extra

BadAt(arrived) == {i \in DOMAIN arrived : arrived[i].cmd = "bad"}

UsableOf(arrived) ==
    IF BadAt(arrived) = {} THEN Len(arrived)
    ELSE (CHOOSE i \in BadAt(arrived) : \A j \in BadAt(arrived) : i <= j) - 1

TakenOf(arrived, q) == IF UsableOf(arrived) < Len(q) THEN UsableOf(arrived) ELSE Len(q)

(* The first k frames are the first k entries of the queue.                *)
LEMMA ArrivedAlone ==
    ASSUME NEW q \in Seq(Ent), NEW k \in 0 .. Len(q)
    PROVE  /\ Arrived(q, k, <<>>) = SubSeq(q, 1, k)
           /\ SubSeq(q, 1, k) \in Seq(Ent)
           /\ Len(SubSeq(q, 1, k)) = k
           /\ DOMAIN SubSeq(q, 1, k) = 1 .. k
           /\ \A i \in 1 .. k : SubSeq(q, 1, k)[i] = q[i]
<1> DEFINE s == SubSeq(q, 1, k)
<1>1. s \in Seq(Ent) /\ Len(s) = k /\ \A i \in 1 .. k : s[i] = q[i]
  BY SubSeqProperties
<1>2. s \o <<>> = s
  BY <1>1, ConcatEmptySeq
<1> QED
  BY <1>1, <1>2 DEF Arrived

(* What came unasked stands behind them.                                   *)
LEMMA ArrivedUnasked ==
    ASSUME NEW q \in Seq(Ent), NEW k \in 0 .. Len(q), NEW x
    PROVE  /\ Len(Arrived(q, k, <<x>>)) = k + 1
           /\ DOMAIN Arrived(q, k, <<x>>) = 1 .. k + 1
           /\ Arrived(q, k, <<x>>)[k + 1] = x
           /\ \A i \in 1 .. k : Arrived(q, k, <<x>>)[i] = q[i]
<1> DEFINE s == SubSeq(q, 1, k)
<1>1. s \in Seq(Ent) /\ Len(s) = k /\ \A i \in 1 .. k : s[i] = q[i]
  BY ArrivedAlone
<1>2. Len(s \o <<x>>) = k + 1 /\ s \o <<x>> \in Seq(Ent \cup {x})
  BY <1>1
<1>3. (s \o <<x>>)[k + 1] = x /\ \A i \in 1 .. k : (s \o <<x>>)[i] = q[i]
  BY <1>1
<1> QED
  BY <1>2, <1>3 DEF Arrived

(* No reply taken from a chunk is the reply to another entry.  Without     *)
(* unasked bytes the chunk is exactly its k replies; with them the client  *)
(* is left with bytes that no entry owns.                                  *)
LEMMA TakenFrames ==
    ASSUME RespClientAssumption,
           NEW q \in Seq(Ent), NEW k \in 0 .. Len(q), NEW extra, NEW g,
           extra \in {<<>>, <<QueueEntry("bad", 1, g)>>}
             \/ (k = Len(q) /\ extra = <<QueueEntry("extra", 1, g)>>)
    PROVE  LET arrived == Arrived(q, k, extra)
               usable == UsableOf(arrived)
               n == TakenOf(arrived, q)
           IN  /\ n \in 0 .. k
               /\ \A i \in 1 .. n : arrived[i] = q[i]
               /\ extra = <<>> => n = k /\ usable = k /\ Len(arrived) = k /\ arrived = SubSeq(q, 1, k)
               /\ extra # <<>> => \/ n < Len(q) /\ usable < Len(arrived)
                                  \/ n = Len(q) /\ Len(arrived) > n
<1> DEFINE arrived == Arrived(q, k, extra)
<1>0. \A i \in 1 .. Len(q) : q[i].cmd # "bad"
  <2>1. \A e \in Ent : e.cmd # "bad"
    BY RespClientAssumption DEF Ent
  <2> QED
    BY <2>1
<1>1. CASE extra = <<>>
  <2>1. arrived = SubSeq(q, 1, k) /\ Len(arrived) = k /\ DOMAIN arrived = 1 .. k
        /\ \A i \in 1 .. k : arrived[i] = q[i]
    BY <1>1, ArrivedAlone
  <2>2. BadAt(arrived) = {}
    BY <1>0, <2>1 DEF BadAt
  <2> QED
    BY <1>1, <2>1, <2>2 DEF UsableOf, TakenOf
<1>2. CASE extra = <<QueueEntry("bad", 1, g)>>
  <2>1. Len(arrived) = k + 1 /\ DOMAIN arrived = 1 .. k + 1 /\ arrived[k + 1].cmd = "bad"
        /\ \A i \in 1 .. k : arrived[i] = q[i]
    <3> DEFINE x == QueueEntry("bad", 1, g)
    <3>1. x.cmd = "bad"
      BY DEF QueueEntry
    <3>2. arrived = Arrived(q, k, <<x>>)
      BY <1>2
    <3> HIDE DEF x, arrived
    <3>3. /\ Len(Arrived(q, k, <<x>>)) = k + 1
          /\ DOMAIN Arrived(q, k, <<x>>) = 1 .. k + 1
          /\ Arrived(q, k, <<x>>)[k + 1] = x
          /\ \A i \in 1 .. k : Arrived(q, k, <<x>>)[i] = q[i]
      BY ArrivedUnasked
    <3> QED
      BY <3>1, <3>2, <3>3
  <2>2. BadAt(arrived) = {k + 1}
    BY <1>0, <2>1 DEF BadAt
  <2>3. UsableOf(arrived) = k
    BY <2>2 DEF UsableOf
  <2>4. extra # <<>>
    BY <1>2
  <2> QED
    BY <2>1, <2>3, <2>4 DEF TakenOf
<1>3. CASE k = Len(q) /\ extra = <<QueueEntry("extra", 1, g)>>
  <2>1. Len(arrived) = k + 1 /\ DOMAIN arrived = 1 .. k + 1 /\ arrived[k + 1].cmd = "extra"
        /\ \A i \in 1 .. k : arrived[i] = q[i]
    <3> DEFINE x == QueueEntry("extra", 1, g)
    <3>1. x.cmd = "extra"
      BY DEF QueueEntry
    <3>2. arrived = Arrived(q, k, <<x>>)
      BY <1>3
    <3> HIDE DEF x, arrived
    <3>3. /\ Len(Arrived(q, k, <<x>>)) = k + 1
          /\ DOMAIN Arrived(q, k, <<x>>) = 1 .. k + 1
          /\ Arrived(q, k, <<x>>)[k + 1] = x
          /\ \A i \in 1 .. k : Arrived(q, k, <<x>>)[i] = q[i]
      BY ArrivedUnasked
    <3> QED
      BY <3>1, <3>2, <3>3
  <2>2. BadAt(arrived) = {}
    BY <1>0, <1>3, <2>1 DEF BadAt
  <2>3. UsableOf(arrived) = k + 1
    BY <2>1, <2>2 DEF UsableOf
  <2>4. extra # <<>>
    BY <1>3
  <2> QED
    BY <1>3, <2>1, <2>3, <2>4 DEF TakenOf
<1> QED
  BY <1>1, <1>2, <1>3

(* Frames that are the entries' own resolve commands with their own        *)
(* replies.                                                                *)
LEMMA RepliesTyped ==
    ASSUME ClientTyped, Owned, NEW n \in 0 .. Len(queue), NEW frames, NEW errAt,
           \A i \in 1 .. n : frames[i] = queue[i]
    PROVE  /\ CmdsTyped(Replies(n, frames, errAt))
           /\ \A c \in Commands : Replies(n, frames, errAt)[c].st = "go" => cmds[c].st = "go"
<1> DEFINE last(c) == {i \in 1 .. n : queue[i].cmd = c /\ queue[i].part = Len(Parts(c))}
           r == Replies(n, frames, errAt)
<1>1. \A c \in Commands : cmds[c] \in Cmd
  BY DEF ClientTyped
<1>2. SUFFICES ASSUME NEW c \in Commands
               PROVE  /\ r[c] \in Cmd
                      /\ r[c].st = "ok" => r[c].reply = <<c, Len(Parts(c))>>
                      /\ r[c].st = "go" => cmds[c].st = "go"
  <2>1. r = [c \in Commands |-> r[c]]
    BY DEF Replies
  <2> QED
    BY <1>2, <2>1 DEF CmdsTyped
<1>3. CASE cmds[c].st # "sent" \/ (~(errAt \in 1 .. n /\ queue[errAt].cmd = c) /\ last(c) = {})
  <2>1. r[c] = cmds[c]
    BY <1>3 DEF Replies
  <2> QED
    BY <1>1, <2>1 DEF Owned
<1>4. CASE cmds[c].st = "sent" /\ errAt \in 1 .. n /\ queue[errAt].cmd = c
  <2>1. r[c] = [cmds[c] EXCEPT !.st = "failed"]
    BY <1>4 DEF Replies
  <2> QED
    BY <1>1, <2>1 DEF Cmd
<1>5. CASE cmds[c].st = "sent" /\ ~(errAt \in 1 .. n /\ queue[errAt].cmd = c) /\ last(c) # {}
  <2> DEFINE i == CHOOSE i \in last(c) : TRUE
  <2>1. i \in last(c)
    BY <1>5
  <2>2. r[c] = [cmds[c] EXCEPT !.st = "ok", !.reply = <<frames[i].cmd, frames[i].part>>]
    BY <1>5 DEF Replies
  <2>3. frames[i].cmd = c /\ frames[i].part = Len(Parts(c))
    BY <2>1
  <2>4. Len(Parts(c)) \in 1 .. 3
    BY DEF Parts
  <2> HIDE DEF i
  <2> QED
    <3>1. <<c, Len(Parts(c))>> \in Commands \X (1 .. 3)
      BY <2>4
    <3>2. r[c] = [cmds[c] EXCEPT !.st = "ok", !.reply = <<c, Len(Parts(c))>>]
      BY <2>2, <2>3
    <3> QED
      BY <1>1, <3>1, <3>2 DEF Cmd, Answers
<1> QED
  BY <1>3, <1>4, <1>5

-------------------------------------------------------------------------------
(* The initial states.                                                     *)

(* The client starts with no connection, an empty queue and idle commands. *)
LEMMA RespInit == ASSUME RespClientAssumption PROVE ClientInit => RespInv
<1> SUFFICES ASSUME ClientInit PROVE RespInv
  OBVIOUS
<1> USE RespClientAssumption DEF ClientInit, Gens
<1>0. opt \in Configs /\ (~opt.password) \in BOOLEAN
  OBVIOUS
<1>1. \A g \in Gens : conn[g] = [stage |-> "none", owes |-> <<>>, authed |-> ~opt.password]
  OBVIOUS
<1>2. \A c \in Commands : cmds[c] = [st |-> "idle", on |-> 0, reply |-> "none"]
  OBVIOUS
<1>3. <<>> \in Seq(Ent)
  OBVIOUS
<1>4. ClientTyped
  <2>1. [stage |-> "none", owes |-> <<>>, authed |-> ~opt.password]
           \in [stage: Stages, owes: Seq(Ent), authed: BOOLEAN]
    BY <1>0, <1>3 DEF Stages
  <2>2. conn \in [Gens -> [stage: Stages, owes: Seq(Ent), authed: BOOLEAN]]
    BY <2>1
  <2>3. cmds \in [Commands -> Cmd]
    BY DEF Cmd, Answers
  <2>4. generation \in Nat /\ socket \in 0 .. MaxGen /\ connecting \in Nat
    OBVIOUS
  <2>5. due \in SUBSET [gen: Gens, ok: BOOLEAN] /\ ended \in BOOLEAN
    OBVIOUS
  <2>6. queue \in Seq(Ent)
    BY <1>3
  <2> HIDE DEF ClientInit
  <2> QED
    BY <1>0, <2>2, <2>3, <2>4, <2>5, <2>6 DEF ClientTyped
<1>5. OneConnection
  BY <1>1 DEF OneConnection, Up, Dialing
<1>6. QueueOwned /\ BeforeQuit /\ Aligned
  BY <1>1 DEF QueueOwned, BeforeQuit, Aligned, Up, Dialing, Resolved
<1>7. Owned
  BY <1>2 DEF Owned
<1> QED
  BY <1>4, <1>5, <1>6, <1>7 DEF RespInv

-------------------------------------------------------------------------------
(* Commands.                                                               *)

(* A command that joins, goes on, fails or starts a dial: the dial starts  *)
(* with nothing up and, if it crosses no connection, nothing queued.       *)
LEMMA SendKeeps ==
    ASSUME RespInv, RespClientAssumption, NEW c \in Commands, Send(c), ~crossed'
    PROVE  RespInv'
<1> USE RespClientAssumption DEF Gens
<1> DEFINE becomes(s, on) == cmds' = [cmds EXCEPT ![c] = [@ EXCEPT !.st = s, !.on = on]]
           keep == UNCHANGED <<generation, connecting, conn>>
           joins == keep /\ (becomes("failed", 0) \/ becomes("waiting", connecting))
           goes == keep /\ socket # 0 /\ Up(socket) /\ becomes("go", 0)
           dials == /\ ~ended /\ connecting = 0 /\ ~(socket # 0 /\ Up(socket))
                    /\ generation < MaxGen /\ generation' = generation + 1 /\ queue = <<>>
                    /\ connecting' = generation'
                    /\ conn' = [conn EXCEPT ![generation'].stage = "dialing"]
                    /\ becomes("waiting", generation')
<1>1. joins \/ goes \/ dials
  BY DEF Send, ensureConnected, Up
<1>2. UNCHANGED <<opt, socket, queue, half, due, open, ended, quitting, noise>>
  BY DEF Send
<1>3. /\ cmds' \in [Commands -> Cmd]
      /\ \A d \in Commands : cmds'[d].st = "ok" => cmds[d].st = "ok" /\ cmds'[d].reply = cmds[d].reply
      /\ \A d \in Commands : cmds'[d].st = "go" => cmds[d].st = "go" \/ goes
  <2>1. PICK s \in {"failed", "waiting", "go"}, on \in Nat : becomes(s, on) /\ (s = "go" => goes)
    <3>1. generation + 1 \in Nat /\ connecting \in Nat /\ 0 \in Nat
      BY DEF RespInv, ClientTyped
    <3>2. CASE joins
      BY <3>1, <3>2
    <3>3. CASE goes
      BY <3>1, <3>3
    <3>4. CASE dials
      BY <3>1, <3>4
    <3> QED
      BY <1>1, <3>2, <3>3, <3>4
  <2> HIDE DEF goes
  <2>2. cmds \in [Commands -> Cmd] /\ cmds[c] \in Cmd
    BY DEF RespInv, ClientTyped
  <2>3. cmds'[c] = [cmds[c] EXCEPT !.st = s, !.on = on] /\ \A d \in Commands \ {c} : cmds'[d] = cmds[d]
    BY <2>1, <2>2
  <2>4. [cmds[c] EXCEPT !.st = s, !.on = on] \in Cmd
        /\ [cmds[c] EXCEPT !.st = s, !.on = on].st = s
    BY <2>2 DEF Cmd
  <2>5. cmds' \in [Commands -> Cmd]
    BY <2>1, <2>2, <2>4
  <2> QED
    BY <2>1, <2>3, <2>4, <2>5
<1>4. Owned'
  BY <1>3 DEF RespInv, Owned
<1>5. CASE joins \/ goes
  <2>1. ClientTyped' /\ OneConnection' /\ BeforeQuit' /\ Aligned'
    BY <1>2, <1>3, <1>5 DEF RespInv, ClientTyped, OneConnection, BeforeQuit, Aligned, Up, Dialing,
       Resolved
  <2>2. QueueOwned'
    BY <1>2, <1>3, <1>5 DEF RespInv, QueueOwned, Up, Resolved
  <2> QED
    BY <1>4, <2>1, <2>2 DEF RespInv
<1>6. CASE dials
  <2>0. generation + 1 \in Gens
    BY <1>6 DEF RespInv, ClientTyped
  <2>1. conn[generation + 1].stage = "none" /\ conn[generation + 1].owes = <<>>
        /\ socket # generation + 1 /\ \A d \in due : d.gen # generation + 1
    BY <2>0 DEF RespInv, OneConnection, ClientTyped
  <2>2. conn' \in [Gens -> [stage: Stages, owes: Seq(Ent), authed: BOOLEAN]]
    BY <1>6, <2>0 DEF RespInv, ClientTyped, Stages
  <2>3. \A g \in Gens : /\ conn'[g].owes = conn[g].owes
                        /\ conn'[g].stage = IF g = generation + 1 THEN "dialing" ELSE conn[g].stage
    BY <1>6, <2>0 DEF RespInv, ClientTyped
  <2>4. ClientTyped'
    BY <1>2, <1>3, <1>6, <2>2 DEF RespInv, ClientTyped
  <2>5. \A g \in Gens : ~Up(g) /\ ~Dialing(g)
    BY <1>6 DEF RespInv, OneConnection, BeforeQuit, ClientTyped
  <2>6. queue = <<>>
    BY <1>6
  <2>7. OneConnection'
    BY <1>2, <1>6, <2>1, <2>3, <2>5, <2>6 DEF RespInv, OneConnection, Up, Dialing, ClientTyped
  <2>8. QueueOwned'
    BY <1>2, <1>3, <1>6, <2>1, <2>3, <2>6 DEF RespInv, QueueOwned, Up, Resolved, ClientTyped
  <2>9. BeforeQuit' /\ Aligned'
    BY <1>2, <1>6, <2>1, <2>3, <2>5, <2>6 DEF RespInv, BeforeQuit, Aligned, Up, Dialing,
       Resolved, ClientTyped
  <2> QED
    BY <1>4, <2>4, <2>7, <2>8, <2>9 DEF RespInv
<1> QED
  BY <1>1, <1>5, <1>6

(* What is written on an open socket is queued and owed alike.             *)
LEMMA WrittenKeeps ==
    ASSUME RespInv, RespClientAssumption,
           socket # 0, Up(socket),
           NEW es \in Seq(Ent),
           \A i \in 1 .. Len(es) : es[i].on = socket /\ es[i].cmd # "AUTH"
                                   /\ (es[i].cmd = "QUIT" => ended'),
           Written(es), ended \in BOOLEAN, ended => ended'
    PROVE  /\ queue' \in Seq(Ent)
           /\ conn' \in [Gens -> [stage: Stages, owes: Seq(Ent), authed: BOOLEAN]]
           /\ \A g \in Gens : conn'[g].stage = conn[g].stage /\ (g # socket => conn'[g].owes = conn[g].owes)
           /\ conn[socket].owes = queue => conn'[socket].owes = queue'
           /\ \A i \in 1 .. Len(queue') : /\ queue'[i].on = socket
                                          /\ queue'[i].cmd = "AUTH" => i = 1 /\ opt.password
                                          /\ queue'[i].cmd = "QUIT" => ended'
<1>0. socket \in Gens
  BY DEF RespInv, ClientTyped, Gens
<1> DEFINE n == Len(es)
<1>1. n \in Nat
  OBVIOUS
<1>2. queue \in Seq(Ent) /\ conn[socket].owes \in Seq(Ent)
  BY <1>0 DEF RespInv, ClientTyped
<1>3. queue \o es \in Seq(Ent) /\ conn[socket].owes \o es \in Seq(Ent)
  BY <1>1, <1>2
<1>4. queue' = queue \o es /\ conn' = [conn EXCEPT ![socket].owes = @ \o es]
  BY DEF Written, Up
<1>5. conn' \in [Gens -> [stage: Stages, owes: Seq(Ent), authed: BOOLEAN]]
  BY <1>0, <1>3, <1>4 DEF RespInv, ClientTyped
<1>6. /\ \A g \in Gens : conn'[g].stage = conn[g].stage /\ (g # socket => conn'[g].owes = conn[g].owes)
      /\ conn'[socket].owes = conn[socket].owes \o es
  BY <1>0, <1>3, <1>4 DEF RespInv, ClientTyped
<1>7. ASSUME NEW i \in 1 .. Len(queue')
      PROVE  /\ queue'[i].on = socket
             /\ queue'[i].cmd = "AUTH" => i = 1 /\ opt.password
             /\ queue'[i].cmd = "QUIT" => ended'
  <2>1. Len(queue') = Len(queue) + n /\ Len(queue) \in Nat
    BY <1>1, <1>2, <1>4
  <2>2. CASE i \in 1 .. Len(queue)
    <3>1. queue'[i] = queue[i]
      BY <1>1, <1>2, <1>4, <2>2
    <3> QED
      BY <2>2, <3>1 DEF RespInv, QueueOwned
  <2>3. CASE i \in Len(queue) + 1 .. Len(queue) + n
    <3>1. queue'[i] = es[i - Len(queue)] /\ i - Len(queue) \in 1 .. n
      BY <1>1, <1>2, <1>4, <2>1, <2>3
    <3> QED
      BY <3>1
  <2> QED
    BY <2>1, <2>2, <2>3
<1> QED
  BY <1>3, <1>4, <1>5, <1>6, <1>7

(* A command is written on the socket that is there: it is open, because   *)
(* no event came between the promise that resolved and the write.          *)
LEMMA writeKeeps ==
    ASSUME RespInv, RespClientAssumption, NEW c \in Commands, write(c)
    PROVE  RespInv'
<1> USE RespClientAssumption
<1>0. /\ cmds \in [Commands -> Cmd] /\ cmds[c] \in Cmd /\ cmds[c].st = "go"
      /\ UNCHANGED <<opt, generation, socket, connecting, half, due, open, ended, quitting, noise>>
  BY DEF RespInv, ClientTyped, write
<1>1. CASE socket = 0
  <2>1. cmds' = [cmds EXCEPT ![c].st = "failed"] /\ UNCHANGED <<queue, conn>>
    BY <1>1 DEF write
  <2>2. cmds' \in [Commands -> Cmd]
        /\ \A d \in Commands : cmds'[d].st \in {"failed", cmds[d].st} /\ cmds'[d].reply = cmds[d].reply
    BY <1>0, <2>1 DEF Cmd
  <2>3. ClientTyped' /\ OneConnection' /\ QueueOwned' /\ BeforeQuit' /\ Aligned'
    BY <1>0, <2>1, <2>2 DEF RespInv, ClientTyped, OneConnection, QueueOwned, BeforeQuit, Aligned, Up,
       Dialing, Resolved
  <2>4. Owned'
    <3>1. \A d \in Commands : cmds'[d].st = "ok" => cmds[d].st = "ok" /\ cmds'[d].reply = cmds[d].reply
      BY <2>2
    <3> QED
      BY <3>1 DEF RespInv, Owned
  <2> QED
    BY <2>3, <2>4 DEF RespInv
<1>2. CASE socket # 0
  <2> DEFINE n == Len(Parts(c))
             es == [i \in 1 .. n |-> QueueEntry(c, i, socket)]
  <2>1. Up(socket) /\ socket \in Gens
    BY <1>0, <1>2 DEF RespInv, QueueOwned, ClientTyped, Gens
  <2>2. n \in 1 .. 3
    BY DEF Parts
  <2> HIDE DEF n
  <2>3. \A i \in 1 .. n : es[i] \in Ent /\ es[i].on = socket /\ es[i].cmd = c
    <3>1. SUFFICES ASSUME NEW i \in 1 .. n
                   PROVE  es[i] \in Ent /\ es[i].on = socket /\ es[i].cmd = c
      OBVIOUS
    <3>2. es[i] = QueueEntry(c, i, socket)
      OBVIOUS
    <3>3. i \in 1 .. 3
      BY <2>2
    <3>4. QueueEntry(c, i, socket) \in Ent /\ QueueEntry(c, i, socket).on = socket /\ QueueEntry(c, i, socket).cmd = c
      BY <2>1, <3>3 DEF QueueEntry, Ent, RespInv, ClientTyped
    <3> QED
      BY <3>2, <3>4
  <2>4. cmds' = [cmds EXCEPT ![c] = [@ EXCEPT !.st = "sent", !.on = socket]] /\ Written(es)
    BY <1>2 DEF write, n
  <2>5. cmds' \in [Commands -> Cmd]
        /\ \A d \in Commands : cmds'[d].st \in {"sent", cmds[d].st} /\ cmds'[d].reply = cmds[d].reply
    <3>1. [cmds[c] EXCEPT !.st = "sent", !.on = socket] \in Cmd
          /\ [cmds[c] EXCEPT !.st = "sent", !.on = socket].st = "sent"
          /\ [cmds[c] EXCEPT !.st = "sent", !.on = socket].reply = cmds[c].reply
      <4>1. socket \in Nat
        BY <2>1 DEF Gens
      <4> QED
        BY <1>0, <4>1 DEF Cmd
    <3> QED
      BY <1>0, <2>4, <3>1
  <2>6. es \in Seq(Ent) /\ Len(es) = n
    <3>1. es \in [1 .. n -> Ent]
      BY <2>3
    <3> QED
      BY <2>2, <3>1, SeqDef, LenProperties
  <2> HIDE DEF es
  <2>7. c # "AUTH" /\ c # "QUIT"
    OBVIOUS
  <2>8. /\ queue' \in Seq(Ent)
        /\ conn' \in [Gens -> [stage: Stages, owes: Seq(Ent), authed: BOOLEAN]]
        /\ \A g \in Gens : conn'[g].stage = conn[g].stage /\ (g # socket => conn'[g].owes = conn[g].owes)
        /\ conn[socket].owes = queue => conn'[socket].owes = queue'
        /\ \A i \in 1 .. Len(queue') : /\ queue'[i].on = socket
                                       /\ queue'[i].cmd = "AUTH" => i = 1 /\ opt.password
                                       /\ queue'[i].cmd = "QUIT" => ended'
    BY <1>0, <1>2, <2>1, <2>2, <2>3, <2>4, <2>6, <2>7, WrittenKeeps DEF RespInv, ClientTyped
  <2>9. ClientTyped'
    BY <1>0, <2>5, <2>8 DEF RespInv, ClientTyped
  <2>10. OneConnection'
    <3>1. \A g \in Gens : ~Dialing(g)
      BY <1>2, <2>1 DEF RespInv, OneConnection
    <3> QED
      <4>1. \A g \in Gens : conn'[g].stage = conn[g].stage
        BY <2>8
      <4>2. \A g \in Gens : conn'[g].stage \in {"none", "dialing"} =>
              conn'[g].owes = <<>> /\ socket # g /\ \A d \in due : d.gen # g
        <5>1. SUFFICES ASSUME NEW g \in Gens, conn[g].stage \in {"none", "dialing"}
                       PROVE  conn'[g].owes = <<>> /\ socket # g /\ \A d \in due : d.gen # g
          BY <4>1
        <5>2. conn[g].owes = <<>> /\ socket # g /\ \A d \in due : d.gen # g
          BY <5>1 DEF RespInv, OneConnection
        <5> QED
          BY <2>8, <5>2
      <4>3. \A g \in Gens : ~Dialing(g)'
        BY <3>1, <4>1 DEF Dialing
      <4>4. \A g \in Gens : (Up(g)' => socket = g) /\ (generation < g => conn'[g].stage = "none")
        BY <4>1 DEF RespInv, OneConnection, Up
      <4> QED
        BY <1>0, <4>2, <4>3, <4>4 DEF OneConnection
  <2>11. QueueOwned' /\ BeforeQuit' /\ Aligned'
    BY <1>0, <2>1, <2>5, <2>8 DEF RespInv, QueueOwned, BeforeQuit, Aligned, Up, Dialing, Resolved
  <2>12. Owned'
    <3>1. \A d \in Commands : cmds'[d].st = "ok" => cmds[d].st = "ok" /\ cmds'[d].reply = cmds[d].reply
      BY <2>5
    <3> QED
      BY <3>1 DEF RespInv, Owned
  <2> QED
    BY <2>9, <2>10, <2>11, <2>12 DEF RespInv
<1> QED
  BY <1>1, <1>2

(* quit() marks the client ended and, on an open socket, asks for the end. *)
LEMMA QuitKeeps ==
    ASSUME RespInv, RespClientAssumption, Quit
    PROVE  RespInv'
<1> USE RespClientAssumption
<1>0. /\ ended' = TRUE /\ ended \in BOOLEAN
      /\ UNCHANGED <<opt, generation, socket, connecting, half, cmds, due, open, noise>>
  BY DEF RespInv, ClientTyped, Quit
<1>1. CASE ~(socket # 0 /\ Up(socket))
  <2>1. UNCHANGED <<queue, conn>>
    BY <1>1 DEF Quit, Up
  <2> QED
    BY <1>0, <1>1, <2>1 DEF RespInv, ClientTyped, OneConnection, QueueOwned, BeforeQuit, Aligned, Up,
       Dialing,
                            Resolved, Owned
<1>2. CASE socket # 0 /\ Up(socket)
  <2> DEFINE e == QueueEntry("QUIT", 1, socket)
             es == <<e>>
  <2>1. socket \in Gens
    BY <1>2 DEF RespInv, ClientTyped, Gens
  <2>2. e \in Ent /\ e.on = socket /\ e.cmd = "QUIT"
    BY <2>1 DEF QueueEntry, Ent, RespInv, ClientTyped
  <2>3. Written(es)
    BY <1>2 DEF Quit, Up
  <2> HIDE DEF e
  <2>4. es \in Seq(Ent) /\ Len(es) = 1 /\ \A i \in 1 .. Len(es) : es[i] = e
    BY <2>2
  <2> HIDE DEF es
  <2>8. /\ queue' \in Seq(Ent)
        /\ conn' \in [Gens -> [stage: Stages, owes: Seq(Ent), authed: BOOLEAN]]
        /\ \A g \in Gens : conn'[g].stage = conn[g].stage /\ (g # socket => conn'[g].owes = conn[g].owes)
        /\ conn[socket].owes = queue => conn'[socket].owes = queue'
        /\ \A i \in 1 .. Len(queue') : /\ queue'[i].on = socket
                                       /\ queue'[i].cmd = "AUTH" => i = 1 /\ opt.password
                                       /\ queue'[i].cmd = "QUIT" => ended'
    BY <1>0, <1>2, <2>1, <2>2, <2>3, <2>4, WrittenKeeps
  <2>9. ClientTyped'
    BY <1>0, <2>8 DEF RespInv, ClientTyped
  <2>10. OneConnection'
    <3>1. \A g \in Gens : ~Dialing(g)
      BY <1>2, <2>1 DEF RespInv, OneConnection
    <3> QED
      BY <3>1, <1>0, <1>2, <2>1, <2>8 DEF RespInv, OneConnection, Up, Dialing
  <2>11. QueueOwned' /\ BeforeQuit' /\ Aligned'
    BY <1>0, <1>2, <2>1, <2>8 DEF RespInv, QueueOwned, BeforeQuit, Aligned, Up, Dialing, Resolved
  <2>12. Owned'
    BY <1>0 DEF RespInv, Owned
  <2> QED
    BY <2>9, <2>10, <2>11, <2>12 DEF RespInv
<1> QED
  BY <1>1, <1>2

-------------------------------------------------------------------------------
(* failAll and its callers.                                                *)

(* failAll for the current generation is the clean slate.                  *)
LEMMA FailAllKeeps ==
    ASSUME RespInv, RespClientAssumption,
           NEW fromConnect, NEW q \in Seq(Ent), NEW cs, NEW d,
           CmdsTyped(cs), Settled(d),
           \A i \in 1 .. Len(q) : q[i].on = socket /\ (q[i].cmd = "QUIT" => ended),
           ~ended => /\ \A g \in Gens : ~Dialing(g)
                     /\ d = {} \/ \A i \in 1 .. Len(q) : q[i].cmd # "AUTH"
                     /\ \A x, y \in d : x = y,
           FailAll(generation, fromConnect, q, cs, d),
           opt' = opt, ended' = ended
    PROVE  RespInv'
<1>1. quitting' # "no" => ended
  <2>1. \A e \in Entries(q) : e.cmd = "QUIT" => ended
    BY DEF Entries
  <2>2. quitting # "no" => ended
    BY DEF RespInv, BeforeQuit
  <2> QED
    BY <2>1, <2>2 DEF FailAll
<1>2. /\ generation' = generation + 1
      /\ conn' = IF socket = 0 THEN conn ELSE [conn EXCEPT ![socket].stage = "destroyed"]
      /\ socket' = 0 /\ connecting' = 0 /\ queue' = <<>>
      /\ cmds' = Rejected(q, cs)
      /\ due' = d \cup {[gen |-> e.on, ok |-> FALSE] :
                              e \in {x \in Entries(q) : x.cmd = "AUTH"}}
  BY DEF FailAll
<1>3. \A i \in 1 .. Len(q) : q[i].on = socket
  OBVIOUS
<1>4. ~ended => \A x, y \in due' : x = y
  <2>1. \A e \in Entries(q) : e.on = socket
    BY <1>3 DEF Entries
  <2>2. CASE d = {}
    BY <1>2, <2>1, <2>2
  <2>3. CASE \A i \in 1 .. Len(q) : q[i].cmd # "AUTH"
    <3>1. \A e \in Entries(q) : e.cmd # "AUTH"
      BY <2>3 DEF Entries
    <3>2. due' = d
      BY <1>2, <3>1
    <3> QED
      BY <3>2
  <2> QED
    BY <2>2, <2>3
<1> QED
  BY <1>1, <1>2, <1>3, <1>4, CleanSlate

(* The queue as it stands, for the callers that hand it to failAll.        *)
LEMMA QueueAsIs ==
    ASSUME RespInv
    PROVE  /\ queue \in Seq(Ent) /\ Settled(due)
           /\ \A i \in 1 .. Len(queue) : queue[i].on = socket /\ (queue[i].cmd = "QUIT" => ended)
           /\ CmdsTyped(cmds)
           /\ queue # <<>> => \A g \in Gens : ~Dialing(g)
BY DEF RespInv, ClientTyped, QueueOwned, CmdsTyped, Owned, OneConnection, Settled

(* Whatever leaves the state alone keeps the invariant.                    *)
LEMMA RespStutter ==
    ASSUME RespInv,
           UNCHANGED <<opt, generation, socket, connecting, conn, queue, cmds, due, ended, quitting>>
    PROVE  RespInv'
BY DEF RespInv, ClientTyped, OneConnection, QueueOwned, BeforeQuit, Aligned, Owned, Up, Dialing,
   Resolved

(* A command's timeout tears down its own generation only.                 *)
LEMMA CommandTimeoutKeeps ==
    ASSUME RespInv, RespClientAssumption, NEW e, CommandTimeout(e)
    PROVE  RespInv'
<1>1. CASE e.gen # generation
  <2>1. UNCHANGED <<opt, generation, socket, connecting, conn, queue, cmds, due, ended, quitting>>
    BY <1>1 DEF CommandTimeout, FailAll
  <2> QED
    BY <2>1, RespStutter
<1>2. CASE e.gen = generation
  <2>1. due = {} /\ queue # <<>>
    BY DEF CommandTimeout, Idle, Entries, RespInv, ClientTyped
  <2>2. FailAll(generation, FALSE, queue, cmds, due) /\ opt' = opt /\ ended' = ended
    BY <1>2 DEF CommandTimeout
  <2> QED
    BY <2>1, <2>2, QueueAsIs, FailAllKeeps
<1> QED
  BY <1>1, <1>2

(* A connection that goes away without failAll: its stage is all that      *)
(* changes, and nothing was about to be written.                           *)
LEMMA SocketGone ==
    ASSUME RespInv, RespClientAssumption, NEW g \in Gens, NEW s \in {"closing", "destroyed"},
           conn[g].stage \in {"up", "closing"},
           Idle, conn' = [conn EXCEPT ![g].stage = s],
           UNCHANGED <<opt, generation, socket, connecting, queue, cmds, due, ended, quitting>>
    PROVE  RespInv'
<1>1. \A h \in Gens : /\ conn'[h].owes = conn[h].owes
                      /\ conn'[h].stage = IF h = g THEN s ELSE conn[h].stage
  BY DEF RespInv, ClientTyped
<1>2. conn' \in [Gens -> [stage: Stages, owes: Seq(Ent), authed: BOOLEAN]]
  BY DEF RespInv, ClientTyped, Stages
<1>3. due = {} /\ \A c \in Commands : cmds[c].st # "go"
  BY DEF Idle
<1>4. \A h \in Gens : (Up(h)' => Up(h)) /\ (Dialing(h)' => Dialing(h)) /\ (Up(h) /\ h # g => Up(h)')
  BY <1>1 DEF Up, Dialing
<1>5. ClientTyped' /\ Owned'
  BY <1>2 DEF RespInv, ClientTyped, Owned
<1>6. OneConnection'
  BY <1>1, <1>4 DEF RespInv, OneConnection
<1>7. QueueOwned'
  BY <1>3 DEF RespInv, QueueOwned, Resolved
<1>8. BeforeQuit'
  BY <1>3, <1>4 DEF RespInv, BeforeQuit
<1>9. Aligned'
  <2>1. socket # 0 => socket \in Gens
    BY DEF RespInv, ClientTyped, Gens
  <2> QED
    BY <1>1, <1>4, <2>1 DEF RespInv, Aligned
<1> QED
  BY <1>5, <1>6, <1>7, <1>8, <1>9 DEF RespInv

(* An error or an immediate close of a socket.                             *)
LEMMA SocketFailsKeeps ==
    ASSUME RespInv, RespClientAssumption, NEW g \in Gens, SocketFails(g)
    PROVE  RespInv'
<1>1. Idle /\ due = {} /\ Up(g) /\ opt' = opt /\ ended' = ended
  BY DEF SocketFails, Idle, Up
<1>2. CASE g = generation
  <2>1. \A h \in Gens : ~Dialing(h)
    BY <1>1 DEF RespInv, OneConnection
  <2>2. FailAll(generation, FALSE, queue, cmds, due)
    BY <1>2 DEF SocketFails
  <2> QED
    BY <1>1, <2>1, <2>2, QueueAsIs, FailAllKeeps
<1>3. CASE g # generation
  <2>1. /\ conn' = [conn EXCEPT ![g].stage = "destroyed"]
        /\ UNCHANGED <<generation, socket, connecting, queue, cmds, due, quitting>>
    BY <1>3 DEF SocketFails
  <2> QED
    BY <1>1, <2>1, SocketGone DEF Up
<1> QED
  BY <1>2, <1>3

(* The server ends a connection, with or without commands in flight.       *)
LEMMA SocketEndsKeeps ==
    ASSUME RespInv, RespClientAssumption, NEW g \in Gens, SocketEnds(g)
    PROVE  RespInv'
BY SocketGone DEF SocketEnds

(* The close event of a socket the server ended.                           *)
LEMMA SocketClosesKeeps ==
    ASSUME RespInv, RespClientAssumption, NEW g \in Gens, SocketCloses(g)
    PROVE  RespInv'
<1>1. Idle /\ due = {} /\ conn[g].stage = "closing" /\ opt' = opt /\ ended' = ended
  BY DEF SocketCloses, Idle
<1>2. CASE g = generation
  <2>1. ~ended => \A h \in Gens : ~Dialing(h)
    BY <1>1, <1>2 DEF RespInv, BeforeQuit, Dialing
  <2>2. FailAll(generation, FALSE, queue, cmds, due)
    BY <1>2 DEF SocketCloses
  <2> QED
    BY <1>1, <2>1, <2>2, QueueAsIs, FailAllKeeps
<1>3. CASE g # generation
  <2>1. /\ conn' = [conn EXCEPT ![g].stage = "destroyed"]
        /\ UNCHANGED <<generation, socket, connecting, queue, cmds, due, quitting>>
    BY <1>3 DEF SocketCloses
  <2> QED
    BY <1>1, <2>1, SocketGone
<1> QED
  BY <1>2, <1>3

(* The end of quit().                                                      *)
LEMMA QuitFinishesKeeps ==
    ASSUME RespInv, RespClientAssumption, QuitFinishes
    PROVE  RespInv'
<1>1. ended
  BY DEF QuitFinishes, RespInv, BeforeQuit
<1>2. /\ generation' = generation + 1
      /\ conn' = IF socket = 0 THEN conn ELSE [conn EXCEPT ![socket].stage = "destroyed"]
      /\ socket' = 0 /\ connecting' = 0 /\ queue' = <<>>
      /\ cmds' = Rejected(queue, cmds)
      /\ due' = due \cup {[gen |-> e.on, ok |-> FALSE] :
                              e \in {x \in Entries(queue) : x.cmd = "AUTH"}}
      /\ opt' = opt /\ ended' = ended
  BY DEF QuitFinishes
<1>3. \A i \in 1 .. Len(queue) : queue[i].on = socket
  BY QueueAsIs
<1> QED
  BY <1>1, <1>2, <1>3, QueueAsIs, CleanSlate

-------------------------------------------------------------------------------
(* Connecting.                                                             *)

(* The attempt succeeds: nothing else is up and nothing is queued, so the  *)
(* new connection owes what is queued, AUTH or nothing.                    *)
LEMMA DialSucceedsKeeps ==
    ASSUME RespInv, RespClientAssumption, NEW g \in Gens, DialSucceeds(g)
    PROVE  RespInv'
<1> USE RespClientAssumption
<1> DEFINE e == QueueEntry("AUTH", 1, g)
<1>1. /\ due = {} /\ \A c \in Commands : cmds[c].st # "go"
      /\ Dialing(g) /\ socket' = g
      /\ UNCHANGED <<opt, generation, connecting, cmds, ended, quitting>>
  BY DEF DialSucceeds, Idle, Dialing
<1>2. /\ queue = <<>> /\ conn[g].owes = <<>>
      /\ \A h \in Gens : ~Up(h) /\ (Dialing(h) => h = g)
  BY <1>1 DEF RespInv, OneConnection, Dialing
<1>3. e \in Ent /\ e.on = g /\ e.cmd = "AUTH"
  BY DEF QueueEntry, Ent, RespInv, ClientTyped
<1>4. CASE opt.password
  <2>1. /\ queue' = Append(queue, e) /\ due' = due
        /\ conn' = [conn EXCEPT ![g] = [@ EXCEPT !.stage = "up", !.owes = <<e>>]]
    BY <1>4 DEF DialSucceeds
  <2> HIDE DEF e
  <2>2. queue' = <<e>> /\ queue' \in Seq(Ent) /\ Len(queue') = 1 /\ queue'[1] = e
    BY <1>2, <1>3, <2>1
  <2>3. [conn[g] EXCEPT !.stage = "up", !.owes = <<e>>]
           \in [stage: Stages, owes: Seq(Ent), authed: BOOLEAN]
    BY <2>2 DEF RespInv, ClientTyped, Stages
  <2>4. /\ conn' \in [Gens -> [stage: Stages, owes: Seq(Ent), authed: BOOLEAN]]
        /\ conn'[g].owes = queue' /\ conn'[g].stage = "up"
        /\ \A h \in Gens : h # g => conn'[h] = conn[h]
    BY <2>1, <2>2, <2>3 DEF RespInv, ClientTyped
  <2>5. ClientTyped'
    BY <1>1, <2>1, <2>2, <2>4 DEF RespInv, ClientTyped, Gens
  <2>6. \A h \in Gens : (Up(h)' <=> h = g) /\ ~Dialing(h)'
    BY <1>2, <2>4 DEF Up, Dialing
  <2>7. OneConnection'
    <3>1. generation >= g
      BY <1>1 DEF RespInv, OneConnection, Dialing, ClientTyped, Gens
    <3> QED
      BY <1>1, <2>1, <2>4, <2>6, <3>1 DEF RespInv, OneConnection, ClientTyped, Gens
  <2>8. QueueOwned'
    BY <1>1, <1>3, <1>4, <2>2, <2>6 DEF QueueOwned
  <2>9. BeforeQuit' /\ Aligned'
    BY <1>1, <2>1, <2>4, <2>6 DEF RespInv, BeforeQuit, Aligned, Resolved
  <2>10. Owned'
    BY <1>1 DEF RespInv, Owned
  <2> QED
    BY <2>5, <2>7, <2>8, <2>9, <2>10 DEF RespInv
<1>5. CASE ~opt.password
  <2>1. /\ queue' = queue /\ due' = {[gen |-> g, ok |-> TRUE]}
        /\ conn' = [conn EXCEPT ![g].stage = "up"]
    BY <1>1, <1>5 DEF DialSucceeds
  <2>2. [conn[g] EXCEPT !.stage = "up"] \in [stage: Stages, owes: Seq(Ent), authed: BOOLEAN]
    BY DEF RespInv, ClientTyped, Stages
  <2>3. /\ conn' \in [Gens -> [stage: Stages, owes: Seq(Ent), authed: BOOLEAN]]
        /\ conn'[g].owes = conn[g].owes /\ conn'[g].stage = "up"
        /\ \A h \in Gens : h # g => conn'[h] = conn[h]
    BY <2>1, <2>2 DEF RespInv, ClientTyped
  <2>4. ClientTyped'
    BY <1>1, <2>1, <2>3 DEF RespInv, ClientTyped, Gens
  <2>5. \A h \in Gens : (Up(h)' <=> h = g) /\ ~Dialing(h)'
    BY <1>2, <2>3 DEF Up, Dialing
  <2>6. OneConnection'
    <3>1. generation >= g
      BY <1>1 DEF RespInv, OneConnection, Dialing, ClientTyped, Gens
    <3> QED
      BY <1>1, <2>1, <2>3, <2>5, <3>1 DEF RespInv, OneConnection, ClientTyped, Gens
  <2>7. QueueOwned'
    BY <1>1, <1>2, <2>1, <2>5 DEF QueueOwned
  <2>8. BeforeQuit' /\ Aligned'
    <3>1. g # 0
      BY DEF Gens
    <3> QED
      BY <1>1, <1>2, <2>1, <2>3, <2>5, <3>1 DEF RespInv, BeforeQuit, Aligned, Resolved
  <2>9. Owned'
    BY <1>1 DEF RespInv, Owned
  <2> QED
    BY <2>4, <2>6, <2>7, <2>8, <2>9 DEF RespInv
<1> QED
  BY <1>4, <1>5

(* The attempt fails: its promise is the one that settles.                 *)
LEMMA DialFailsKeeps ==
    ASSUME RespInv, RespClientAssumption, NEW g \in Gens, DialFails(g)
    PROVE  RespInv'
<1>1. /\ due = {} /\ \A c \in Commands : cmds[c].st # "go"
      /\ Dialing(g) /\ socket # g
      /\ conn' = [conn EXCEPT ![g].stage = "destroyed"]
      /\ due' = {[gen |-> g, ok |-> FALSE]}
      /\ UNCHANGED <<opt, generation, socket, connecting, queue, cmds, ended, quitting>>
  BY DEF DialFails, Idle, Dialing, RespInv, OneConnection
<1>2. /\ conn' \in [Gens -> [stage: Stages, owes: Seq(Ent), authed: BOOLEAN]]
      /\ conn'[g].owes = conn[g].owes /\ conn'[g].stage = "destroyed"
      /\ \A h \in Gens : h # g => conn'[h] = conn[h]
  BY <1>1 DEF RespInv, ClientTyped, Stages
<1>3. \A h \in Gens : (Up(h)' <=> Up(h)) /\ ~Dialing(h)'
  BY <1>1, <1>2 DEF RespInv, OneConnection, Up, Dialing
<1>4. ClientTyped' /\ Owned'
  BY <1>1, <1>2 DEF RespInv, ClientTyped, Owned
<1>5. OneConnection'
  <2>1. generation >= g
    BY <1>1 DEF RespInv, OneConnection, Dialing, ClientTyped, Gens
  <2> QED
    BY <1>1, <1>2, <1>3, <2>1 DEF RespInv, OneConnection, ClientTyped, Gens
<1>6. QueueOwned'
  BY <1>1 DEF RespInv, QueueOwned, Resolved
<1>7. BeforeQuit' /\ Aligned'
  <2>1. queue = <<>> /\ \A h \in Gens : ~Up(h)
    BY <1>1 DEF RespInv, OneConnection
  <2>2. socket # 0 => socket \in Gens
    BY DEF RespInv, ClientTyped, Gens
  <2> QED
    BY <1>1, <1>3, <2>1, <2>2 DEF RespInv, BeforeQuit, Aligned, Resolved
<1> QED
  BY <1>4, <1>5, <1>6, <1>7 DEF RespInv

(* connect() resolved: with no other dial forgotten, none is under way.    *)
LEMMA ConnectResolvedKeeps ==
    ASSUME RespInv, RespClientAssumption, NEW g \in Gens, ConnectResolved(g), ~crossed'
    PROVE  RespInv'
<1>1. /\ Resolved(g) /\ due' \subseteq due /\ connecting' = 0
      /\ UNCHANGED <<opt, generation, socket, conn, queue, ended, quitting>>
  BY DEF ConnectResolved, Resolved
<1>2. /\ cmds' \in [Commands -> Cmd]
      /\ \A c \in Commands : cmds'[c].st = "ok" => cmds[c].st = "ok" /\ cmds'[c].reply = cmds[c].reply
  BY DEF ConnectResolved, RespInv, ClientTyped, Cmd
<1>3. ~ended => \A h \in Gens : ~Dialing(h)
  <2>1. connecting \in {0, g}
    BY DEF ConnectResolved
  <2>2. ~Dialing(g)
    BY <1>1 DEF RespInv, OneConnection, Dialing, Resolved
  <2> QED
    BY <2>1, <2>2 DEF RespInv, BeforeQuit, Gens
<1>4. ClientTyped' /\ Owned'
  BY <1>1, <1>2 DEF RespInv, ClientTyped, Owned
<1>5. OneConnection' /\ Aligned'
  BY <1>1 DEF RespInv, OneConnection, Aligned, Up, Dialing
<1>6. QueueOwned'
  <2>1. ~(socket # 0 /\ ~Up(socket))
    BY <1>1 DEF RespInv, QueueOwned
  <2> QED
    BY <1>1, <2>1 DEF RespInv, QueueOwned, Up
<1>7. BeforeQuit'
  BY <1>1, <1>3 DEF RespInv, BeforeQuit, Resolved, Up, Dialing
<1> QED
  BY <1>4, <1>5, <1>6, <1>7 DEF RespInv

(* connect() rejected: a clean slate if its attempt is current, and the    *)
(* commands that waited for it fail.                                       *)
LEMMA ConnectRejectedKeeps ==
    ASSUME RespInv, RespClientAssumption, NEW g \in Gens, ConnectRejected(g)
    PROVE  RespInv'
<1> DEFINE cs == [c \in Commands |->
                     IF cmds[c].st = "waiting" /\ cmds[c].on = g
                     THEN [cmds[c] EXCEPT !.st = "failed"] ELSE cmds[c]]
           d == due \ {[gen |-> g, ok |-> FALSE]}
<1>1. /\ [gen |-> g, ok |-> FALSE] \in due /\ opt' = opt /\ ended' = ended
      /\ FailAll(g, TRUE, queue, cs, d)
  BY DEF ConnectRejected
<1>2. CmdsTyped(cs) /\ \A c \in Commands : cs[c].st = "go" => cmds[c].st = "go"
  BY DEF CmdsTyped, RespInv, ClientTyped, Owned, Cmd
<1>3. d \in SUBSET due /\ Settled(d) /\ (~ended => d = {})
  BY <1>1 DEF RespInv, BeforeQuit, Settled
<1> HIDE DEF cs, d
<1>4. CASE g = generation
  <2>1. ~ended => \A h \in Gens : ~Dialing(h)
    <3>1. ~Dialing(g)
      BY <1>1 DEF RespInv, OneConnection, Dialing
    <3> QED
      BY <1>4, <3>1 DEF RespInv, BeforeQuit
  <2> QED
    BY <1>1, <1>2, <1>3, <1>4, <2>1, QueueAsIs, FailAllKeeps
<1>5. CASE g # generation
  <2>1. /\ queue' = queue /\ cmds' = cs /\ due' = d
        /\ UNCHANGED <<opt, ended, generation, socket, connecting, conn, quitting>>
    BY <1>1, <1>5 DEF FailAll
  <2>2. ClientTyped' /\ Owned'
    BY <1>2, <1>3, <2>1 DEF RespInv, ClientTyped, Owned, CmdsTyped
  <2>3. OneConnection' /\ Aligned'
    BY <1>3, <2>1 DEF RespInv, OneConnection, Aligned, Up, Dialing
  <2>4. QueueOwned'
    BY <1>2, <1>3, <2>1 DEF RespInv, QueueOwned, Up, Resolved
  <2>5. BeforeQuit'
    BY <1>3, <2>1 DEF RespInv, BeforeQuit, Resolved, Up, Dialing
  <2> QED
    BY <2>2, <2>3, <2>4, <2>5 DEF RespInv
<1> QED
  BY <1>4, <1>5

-------------------------------------------------------------------------------
(* Replies.                                                                *)

(* The rest of a queue, entry by entry.                                    *)
LEMMA RestOf ==
    ASSUME NEW q \in Seq(Ent), NEW n \in 0 .. Len(q)
    PROVE  /\ SubSeq(q, n + 1, Len(q)) \in Seq(Ent)
           /\ Len(SubSeq(q, n + 1, Len(q))) = Len(q) - n
           /\ \A i \in 1 .. Len(q) - n : /\ SubSeq(q, n + 1, Len(q))[i] = q[n + i]
                                         /\ n + i \in 1 .. Len(q)
BY SubSeqProperties

(* What is left of a chunk's k replies once all are taken, and of the      *)
(* replies owed behind them.                                               *)
LEMMA LeftOver ==
    ASSUME NEW owes \in Seq(Ent), NEW k \in 0 .. Len(owes), NEW S, NEW a \in Seq(S)
    PROVE  /\ SubSeq(a, Len(a) + 1, Len(a)) \o SubSeq(owes, k + 1, Len(owes))
                = SubSeq(owes, k + 1, Len(owes))
           /\ SubSeq(owes, k + 1, Len(owes)) \in Seq(Ent)
<1>1. SubSeq(a, Len(a) + 1, Len(a)) = <<>>
  BY SubSeqEmpty
<1>2. SubSeq(owes, k + 1, Len(owes)) \in Seq(Ent)
  BY RestOf
<1>3. <<>> \o SubSeq(owes, k + 1, Len(owes)) = SubSeq(owes, k + 1, Len(owes))
  BY <1>2, ConcatEmptySeq
<1> QED
  BY <1>1, <1>2, <1>3

(* What may stand behind the replies of a chunk.                           *)
LEMMA UnaskedFrames ==
    ASSUME NEW g, NEW k, NEW extra \in Unasked(g, k)
    PROVE  /\ \/ extra \in {<<>>, <<QueueEntry("bad", 1, g)>>}
              \/ k = Len(conn[g].owes) /\ extra = <<QueueEntry("extra", 1, g)>>
           /\ extra # <<>> => opt.noise
BY DEF Unasked

(* A chunk on a superseded connection is dropped.                          *)
LEMMA onDataSuperseded ==
    ASSUME RespInv, RespClientAssumption, NEW g \in Gens, g # generation,
           NEW k \in 0 .. Len(conn[g].owes), NEW extra \in Unasked(g, k),
           NEW more \in BOOLEAN, NEW errAt \in 0 .. Len(queue),
           onData(g, k, extra, more, errAt)
    PROVE  RespInv'
<1> DEFINE owes == conn[g].owes
           a == Arrived(owes, k, extra)
           left == SubSeq(a, Len(a) + 1, Len(a)) \o SubSeq(owes, k + 1, Len(owes))
<1>1. /\ conn' = [conn EXCEPT ![g].owes = left]
      /\ UNCHANGED <<opt, generation, socket, connecting, queue, cmds, due, ended, quitting>>
      /\ Up(g)
  BY DEF onData, Superseded, Arrived, Up
<1>2. owes \in Seq(Ent)
  BY DEF RespInv, ClientTyped
<1>3. left \in Seq(Ent)
  <2>1. PICK S : extra \in Seq(S)
    <3>1. CASE extra = <<>>
      BY <3>1
    <3>2. ASSUME NEW x, extra = <<x>> PROVE \E S : extra \in Seq(S)
      <4>1. <<x>> \in Seq({x})
        OBVIOUS
      <4> QED
        BY <3>2, <4>1
    <3> QED
      BY <3>1, <3>2, UnaskedFrames
  <2>2. SubSeq(owes, 1, k) \in Seq(Ent \cup S) /\ extra \in Seq(Ent \cup S)
    <3>1. SubSeq(owes, 1, k) \in Seq(Ent)
      BY <1>2, ArrivedAlone
    <3> QED
      BY <2>1, <3>1, SeqMonotonic
  <2>3. a \in Seq(Ent \cup S)
    BY <2>2, ConcatProperties DEF Arrived
  <2> QED
    BY <1>2, <2>3, LeftOver
<1> HIDE DEF left
<1>4. conn' \in [Gens -> [stage: Stages, owes: Seq(Ent), authed: BOOLEAN]]
  BY <1>1, <1>3 DEF RespInv, ClientTyped
<1>5. \A h \in Gens : conn'[h].stage = conn[h].stage /\ (h # g => conn'[h].owes = conn[h].owes)
  BY <1>1, <1>3 DEF RespInv, ClientTyped
<1>6. ClientTyped' /\ Owned'
  BY <1>1, <1>4 DEF RespInv, ClientTyped, Owned
<1>7. OneConnection'
  BY <1>1, <1>5 DEF RespInv, OneConnection, Up, Dialing
<1>8. QueueOwned' /\ BeforeQuit'
  <2>1. socket # 0 => socket \in Gens
    BY DEF RespInv, ClientTyped, Gens
  <2> QED
    BY <1>1, <1>5, <2>1 DEF RespInv, QueueOwned, BeforeQuit, Up, Dialing, Resolved
<1>9. Aligned'
  BY <1>1 DEF RespInv, OneConnection, Aligned
<1> QED
  BY <1>6, <1>7, <1>8, <1>9 DEF RespInv

(* A chunk on the current connection: each reply meets its own entry; with *)
(* bytes nobody asked for the client starts over.                          *)
LEMMA onDataCurrent ==
    ASSUME RespInv, RespClientAssumption, NEW g \in Gens, g = generation,
           NEW k \in 0 .. Len(conn[g].owes), NEW extra \in Unasked(g, k),
           NEW more \in BOOLEAN, NEW errAt \in 0 .. Len(queue),
           onData(g, k, extra, more, errAt)
    PROVE  RespInv'
<1> USE RespClientAssumption
<1> DEFINE a == Arrived(queue, k, extra)
           usable == UsableOf(a)
           n == TakenOf(a, queue)
           rest == SubSeq(queue, n + 1, Len(queue))
           cs == Replies(n, a, errAt)
           d == Continued(n, errAt)
           failed == (n < Len(queue) /\ usable < Len(a)) \/ Unsolicited(a, more, n)
<1>1. /\ Up(g) /\ socket = g /\ conn[g].owes = queue /\ socket # 0
      /\ due = {} /\ \A c \in Commands : cmds[c].st # "go"
      /\ \A h \in Gens : ~Dialing(h)
  <2>1. Up(g) /\ due = {} /\ \A c \in Commands : cmds[c].st # "go"
    BY DEF onData, Idle, Up
  <2>2. socket = g /\ \A h \in Gens : ~Dialing(h)
    BY <2>1 DEF RespInv, OneConnection
  <2>3. g # 0
    BY DEF Gens
  <2> QED
    BY <2>1, <2>2, <2>3 DEF RespInv, Aligned
<1>2. queue \in Seq(Ent) /\ k \in 0 .. Len(queue)
  BY <1>1 DEF RespInv, ClientTyped
<1>3. /\ n \in 0 .. k
      /\ \A i \in 1 .. n : a[i] = queue[i]
      /\ extra = <<>> => n = k /\ usable = k /\ Len(a) = k /\ a = SubSeq(queue, 1, k)
      /\ extra # <<>> => \/ n < Len(queue) /\ usable < Len(a)
                         \/ n = Len(queue) /\ Len(a) > n
  BY <1>1, <1>2, UnaskedFrames, TakenFrames
<1>4. CmdsTyped(cs) /\ \A c \in Commands : cs[c].st # "go"
  <2>1. n \in 0 .. Len(queue)
    BY <1>2, <1>3
  <2> QED
    BY <1>1, <1>3, <2>1, RepliesTyped DEF RespInv
<1>5. /\ rest \in Seq(Ent) /\ Len(rest) = Len(queue) - n
      /\ \A i \in 1 .. Len(rest) : rest[i] = queue[n + i] /\ n + i \in 1 .. Len(queue)
  BY <1>2, <1>3, RestOf
<1>6. /\ more => k < Len(queue) /\ extra = <<>>
      /\ opt' = opt /\ ended' = ended
      /\ failed => FailAll(generation, FALSE, rest, cs, d)
      /\ ~failed =>
           /\ queue' = rest /\ cmds' = cs /\ due' = d
           /\ conn' = [[conn EXCEPT ![g].owes = SubSeq(a, n + 1, Len(a)) \o SubSeq(@, k + 1, Len(@))]
                        EXCEPT ![g].authed =
                              @ \/ \E i \in 1 .. n : queue[i].cmd = "AUTH" /\ errAt # i]
           /\ quitting' = IF \E i \in 1 .. n : queue[i].cmd = "QUIT" THEN "answered" ELSE quitting
           /\ UNCHANGED <<generation, socket, connecting>>
  <2>1. conn[g].owes = queue /\ ~Superseded(g)
    BY <1>1 DEF Superseded
  <2>2. /\ more => k < Len(conn[g].owes) /\ extra = <<>>
        /\ UNCHANGED <<opt, ended>>
    BY DEF onData
  <2>3. LET b == Arrived(conn[g].owes, k, extra)
            m == TakenOf(b, queue)
            r == SubSeq(queue, m + 1, Len(queue))
        IN  IF (m < Len(queue) /\ UsableOf(b) < Len(b)) \/ Unsolicited(b, more, m)
            THEN FailAll(g, FALSE, r, Replies(m, b, errAt), Continued(m, errAt))
            ELSE /\ queue' = r /\ cmds' = Replies(m, b, errAt) /\ due' = Continued(m, errAt)
                 /\ conn' = [[conn EXCEPT ![g].owes = SubSeq(b, m + 1, Len(b)) \o SubSeq(@, k + 1, Len(@))]
                              EXCEPT ![g].authed =
                                @ \/ \E i \in 1 .. m : queue[i].cmd = "AUTH" /\ errAt # i]
                 /\ quitting' = IF \E i \in 1 .. m : queue[i].cmd = "QUIT" THEN "answered" ELSE quitting
                 /\ UNCHANGED <<generation, socket, connecting>>
    BY <2>1, Zenon DEF onData, Arrived, UsableOf, TakenOf, BadAt
  <2> QED
    BY <2>1, <2>2, <2>3, Zenon
<1>7. \A i \in 1 .. n : i \in 1 .. Len(queue)
  BY <1>2, <1>3
<1>8. /\ d \in SUBSET {[gen |-> g, ok |-> errAt # 1]}
      /\ d # {} => opt.password
  <2>1. \A i \in 1 .. n : queue[i].cmd = "AUTH" => queue[i].on = g /\ i = 1 /\ opt.password
    BY <1>1, <1>7 DEF RespInv, QueueOwned
  <2> QED
    BY <1>1, <2>1 DEF Continued
<1>9. CASE extra # <<>>
  <2>1. failed
    BY <1>3, <1>9 DEF Unsolicited
  <2>2. /\ Settled(d) /\ \A x, y \in d : x = y
        /\ d = {} \/ \A i \in 1 .. Len(rest) : rest[i].cmd # "AUTH"
    <3>1. Settled(d)
      <4>1. (errAt # 1) \in BOOLEAN
        OBVIOUS
      <4>2. [gen |-> g, ok |-> errAt # 1] \in [gen: {socket}, ok: BOOLEAN]
        BY <1>1, <4>1
      <4> HIDE DEF d
      <4> QED
        BY <1>1, <1>8, <4>2 DEF Settled
    <3>2. ASSUME d # {}, NEW i \in 1 .. Len(rest) PROVE rest[i].cmd # "AUTH"
      <4>1. n >= 1
        BY <1>1, <1>2, <1>3, <3>2 DEF Continued
      <4>2. n + i # 1 /\ rest[i] = queue[n + i] /\ n + i \in 1 .. Len(queue)
        BY <1>2, <1>3, <1>5, <4>1
      <4> QED
        BY <4>2 DEF RespInv, QueueOwned
    <3> QED
      BY <1>8, <3>1, <3>2
  <2>3. \A i \in 1 .. Len(rest) : rest[i].on = socket /\ (rest[i].cmd = "QUIT" => ended)
    <3>1. \A j \in 1 .. Len(queue) : queue[j].on = socket /\ (queue[j].cmd = "QUIT" => ended)
      BY DEF RespInv, QueueOwned
    <3> HIDE DEF rest, n
    <3> QED
      BY <1>5, <3>1
  <2>4. FailAll(generation, FALSE, rest, cs, d)
    BY <1>6, <2>1
  <2> HIDE DEF rest, cs, d
  <2> QED
    BY <1>1, <1>4, <1>5, <1>6, <2>2, <2>3, <2>4, FailAllKeeps
<1>10. CASE extra = <<>>
  <2>1. n = k /\ Len(a) = k /\ a \in Seq(Ent)
    BY <1>2, <1>3, <1>10, ArrivedAlone
  <2>2. ~failed
    BY <1>2, <1>3, <1>6, <1>10 DEF Unsolicited
  <2>3. SubSeq(a, n + 1, Len(a)) \o SubSeq(conn[g].owes, k + 1, Len(conn[g].owes)) = rest
    BY <1>1, <1>2, <2>1, LeftOver
  <2>4. PICK au \in BOOLEAN :
          conn' = [conn EXCEPT ![g] = [@ EXCEPT !.owes = rest, !.authed = au]]
    <3>1. conn' = [[conn EXCEPT ![g].owes = rest]
                        EXCEPT ![g].authed =
                              @ \/ \E i \in 1 .. n : queue[i].cmd = "AUTH" /\ errAt # i]
      BY <1>6, <2>2, <2>3
    <3> DEFINE au == conn[g].authed \/ \E i \in 1 .. n : queue[i].cmd = "AUTH" /\ errAt # i
    <3>2. au \in BOOLEAN
      OBVIOUS
    <3> HIDE DEF rest, n
    <3>3. conn' = [[conn EXCEPT ![g].owes = rest] EXCEPT ![g].authed = au]
      BY <3>1 DEF RespInv, ClientTyped
    <3> HIDE DEF au
    <3>4. conn' = [conn EXCEPT ![g] = [@ EXCEPT !.owes = rest, !.authed = au]]
      BY <3>3 DEF RespInv, ClientTyped
    <3> QED
      BY <3>2, <3>4
  <2> HIDE DEF rest, cs, d, failed, a, usable, n
  <2>5. /\ conn' \in [Gens -> [stage: Stages, owes: Seq(Ent), authed: BOOLEAN]]
        /\ conn'[g].owes = rest
        /\ \A h \in Gens : conn'[h].stage = conn[h].stage /\ (h # g => conn'[h] = conn[h])
    <3>1. [conn[g] EXCEPT !.owes = rest, !.authed = au]
             \in [stage: Stages, owes: Seq(Ent), authed: BOOLEAN]
          /\ [conn[g] EXCEPT !.owes = rest, !.authed = au].stage = conn[g].stage
          /\ [conn[g] EXCEPT !.owes = rest, !.authed = au].owes = rest
      BY <1>5 DEF RespInv, ClientTyped
    <3> QED
      BY <2>4, <3>1 DEF RespInv, ClientTyped
  <2>6. \A h \in Gens : (Up(h)' <=> Up(h)) /\ ~Dialing(h)'
    BY <1>1, <2>5 DEF Up, Dialing
  <2>7. /\ queue' = rest /\ cmds' = cs /\ due' = d
        /\ quitting' = IF \E i \in 1 .. n : queue[i].cmd = "QUIT" THEN "answered" ELSE quitting
        /\ UNCHANGED <<opt, ended, generation, socket, connecting>>
    BY <1>6, <2>2
  <2>8. ClientTyped' /\ Owned'
    <3>1. (errAt # 1) \in BOOLEAN
      OBVIOUS
    <3>2. d \in SUBSET [gen: Gens, ok: BOOLEAN]
      <4>1. [gen |-> g, ok |-> errAt # 1] \in [gen: Gens, ok: BOOLEAN]
        BY <3>1
      <4> QED
        BY <1>8, <4>1
    <3> QED
      BY <1>4, <1>5, <2>5, <2>7, <3>2 DEF RespInv, ClientTyped, Owned, CmdsTyped
  <2>9. OneConnection'
    <3>1. \A x \in d : x.gen = g
      BY <1>8
    <3>2. conn[g].stage = "up"
      BY <1>1 DEF Up
    <3> QED
      BY <1>1, <2>5, <2>6, <2>7, <3>1, <3>2 DEF RespInv, OneConnection
  <2>10. QueueOwned'
    <3>1. n \in Nat
      BY <1>2, <2>1
    <3>2. \A i \in 1 .. Len(rest) : /\ rest[i].on = socket
                                    /\ rest[i].cmd = "AUTH" => i = 1 /\ opt.password
                                    /\ rest[i].cmd = "QUIT" => ended
      <4>1. SUFFICES ASSUME NEW i \in 1 .. Len(rest)
                     PROVE  /\ rest[i].on = socket
                            /\ rest[i].cmd = "AUTH" => i = 1 /\ opt.password
                            /\ rest[i].cmd = "QUIT" => ended
        OBVIOUS
      <4>2. rest[i] = queue[n + i] /\ n + i \in 1 .. Len(queue)
        BY <1>5
      <4>3. /\ queue[n + i].on = socket
            /\ queue[n + i].cmd = "AUTH" => n + i = 1 /\ opt.password
            /\ queue[n + i].cmd = "QUIT" => ended
        BY <4>2 DEF RespInv, QueueOwned
      <4>4. Len(rest) \in Nat /\ i \in Nat /\ i >= 1
        BY <1>5
      <4>5. n + i = 1 => i = 1
        BY <3>1, <4>4
      <4> QED
        BY <4>2, <4>3, <4>5
    <3>3. Up(socket)'
      BY <1>1, <2>6, <2>7
    <3> QED
      BY <2>7, <3>2, <3>3 DEF QueueOwned
  <2>11. BeforeQuit'
    <3>1. \A i \in 1 .. n : queue[i].cmd = "QUIT" => ended
      BY <1>7 DEF RespInv, QueueOwned
    <3>2. \A x, y \in d : x = y
      BY <1>8
    <3> QED
      BY <1>1, <2>6, <2>7, <3>1, <3>2 DEF RespInv, BeforeQuit
  <2>12. Aligned'
    BY <1>1, <2>5, <2>7 DEF Aligned
  <2> QED
    BY <2>8, <2>9, <2>10, <2>11, <2>12 DEF RespInv
<1> QED
  BY <1>9, <1>10

-------------------------------------------------------------------------------
(* Every step keeps the invariant.                                         *)
LEMMA RespStep ==
    ASSUME RespInv, RespClientAssumption, [ClientNext]_clientVars, ~crossed'
    PROVE  RespInv'
<1>1. ASSUME NEW c \in Commands, Send(c) \/ write(c) PROVE RespInv'
  BY <1>1, SendKeeps, writeKeeps
<1>2. ASSUME NEW e \in Entries(queue), CommandTimeout(e) PROVE RespInv'
  BY <1>2, CommandTimeoutKeeps
<1>3. ASSUME NEW g \in Gens, DialSucceeds(g) \/ DialFails(g) PROVE RespInv'
  BY <1>3, DialSucceedsKeeps, DialFailsKeeps
<1>4. ASSUME NEW g \in Gens, ConnectResolved(g) \/ ConnectRejected(g) PROVE RespInv'
  BY <1>4, ConnectResolvedKeeps, ConnectRejectedKeeps
<1>5. ASSUME NEW g \in Gens, SocketFails(g) \/ SocketEnds(g) \/ SocketCloses(g) PROVE RespInv'
  BY <1>5, SocketFailsKeeps, SocketEndsKeeps, SocketClosesKeeps
<1>6. ASSUME NEW g \in Gens, NEW k \in 0 .. Len(conn[g].owes), NEW more \in BOOLEAN,
             NEW errAt \in 0 .. Len(queue), NEW extra \in Unasked(g, k),
             onData(g, k, extra, more, errAt)
      PROVE  RespInv'
  BY <1>6, onDataSuperseded, onDataCurrent
<1>7. CASE WindowPasses
  BY <1>7, RespStutter DEF WindowPasses
<1>8. CASE Quit \/ QuitFinishes
  BY <1>8, QuitKeeps, QuitFinishesKeeps
<1>9. CASE UNCHANGED clientVars
  BY <1>9, RespStutter DEF clientVars
<1> QED
  BY <1>1, <1>2, <1>3, <1>4, <1>5, <1>6, <1>7, <1>8, <1>9 DEF ClientNext

(* A client that has crossed connections stays one that has.               *)
LEMMA CrossedStays ==
    ASSUME [ClientNext]_clientVars, ~crossed' PROVE ~crossed
<1>1. ASSUME NEW c \in Commands, Send(c) \/ write(c) PROVE ~crossed
  BY <1>1 DEF Send, ensureConnected, write
<1>2. ASSUME NEW e \in Entries(queue), CommandTimeout(e) PROVE ~crossed
  BY <1>2 DEF CommandTimeout
<1>3. ASSUME NEW g \in Gens, DialSucceeds(g) \/ DialFails(g) \/ ConnectResolved(g) \/ ConnectRejected(g)
      PROVE  ~crossed
  BY <1>3 DEF DialSucceeds, DialFails, ConnectResolved, ConnectRejected
<1>4. ASSUME NEW g \in Gens, SocketFails(g) \/ SocketEnds(g) \/ SocketCloses(g) PROVE ~crossed
  BY <1>4 DEF SocketFails, SocketEnds, SocketCloses
<1>5. ASSUME NEW g, NEW k, NEW extra, NEW more, NEW errAt, onData(g, k, extra, more, errAt)
      PROVE  ~crossed
  BY <1>5 DEF onData
<1>6. CASE WindowPasses \/ Quit \/ QuitFinishes \/ UNCHANGED clientVars
  BY <1>6 DEF WindowPasses, Quit, QuitFinishes, clientVars
<1> QED
  BY <1>1, <1>2, <1>3, <1>4, <1>5, <1>6 DEF ClientNext

(* The bookkeeping of the client, until it crosses two connections: one    *)
(* connection at a time, whose owed replies are the queue, in order.       *)
THEOREM RespInvariant ==
    ClientSpec => [](~crossed => RespInv)
<1>1. ClientInit => (~crossed => RespInv)
  BY RespInit, RespClientAssumption
<1>2. (~crossed => RespInv) /\ [ClientNext]_clientVars => (~crossed' => RespInv')
  BY CrossedStays, RespStep, RespClientAssumption
<1> QED
  BY <1>1, <1>2, PTL DEF ClientSpec

(* A command resolves with its own reply and no other (drainInbound shifts *)
(* the queue by position), for any number of commands, connections and     *)
(* unasked frames, through timeouts, connections the server ends with      *)
(* commands in flight, failed dials, AUTH and quit(), until the client     *)
(* dials with commands queued or forgets a dial that is under way.         *)
THEOREM OwnReplyTheorem == ClientSpec => []OwnReply
<1>1. (~crossed => RespInv) => OwnReply
  BY DEF RespInv, Owned, OwnReply, Own
<1> QED
  BY <1>1, RespInvariant, PTL
===============================================================================
