--------------------------- MODULE IncrementalCache ---------------------------
(***************************************************************************)
(* The classic incremental cache of                                        *)
(* src/pool-server/valkey-cache/incremental-cache-handler.ts: what a read  *)
(* says of an entry of Valkey or of a build seed, given the tag watermarks *)
(* and the clock it reads after the entry.  FETCH entries, which take      *)
(* their tags from the request, are left out, and so is the skew of the    *)
(* replica's clock.                                                        *)
(*                                                                         *)
(* A tick stands for the second in which the lifetimes are given.          *)
(***************************************************************************)
EXTENDS TagManifest

NoWindow == 0       \* revalidate: false, and no expire
BuildTime == 0      \* a seed predates every event of its build's manifest

(* A StoredEntry: the page it was rendered for, the clock of Valkey at its *)
(* write, and what it holds.  A seed is an entry written at BuildTime.     *)
StoredEntry(Pages) == [page: Pages, lastModified: Nat, postponed: BOOLEAN, segments: BOOLEAN]

(* The lifetimes and tags of a route's entries. *)
Lifetime(Tags) == [revalidate: Nat, expire: Nat, tags: SUBSET Tags]

Miss == [hit |-> FALSE]
Hit(entry, stale, lastModified) ==
    [hit |-> TRUE, entry |-> entry, isStale |-> stale, lastModified |-> lastModified]

(* The moment a soft revalidation reports for an entry: just past the      *)
(* revalidate window, or -1 when that cannot be said.                      *)
staleByTagLastModified(life, now) ==
    LET shifted == now - life.revalidate - 1
    IN  IF \/ life.revalidate = NoWindow
           \/ shifted <= 0
           \/ life.expire # NoWindow /\ life.expire + shifted < now
        THEN -1
        ELSE shifted

(* getImpl and seedFallback once they have an entry.  peek is dispatch's   *)
(* reading, which is told of staleness apart from the time.                *)
readEntry(entry, life, marks, now, peek) ==
    LET staleByTag == areTagsStale(life.tags, entry.lastModified, marks)
        staleByAge == /\ entry.lastModified # BuildTime
                      /\ life.revalidate # NoWindow
                      /\ now >= entry.lastModified + life.revalidate
    IN  IF areTagsExpired(life.tags, entry.lastModified, marks, now)
        THEN Miss
        ELSE IF peek
        THEN Hit(entry, staleByTag \/ staleByAge, entry.lastModified)
        ELSE Hit(entry, FALSE, IF staleByTag THEN staleByTagLastModified(life, now)
                                             ELSE entry.lastModified)

(* How Next's own incremental cache, above get, takes the reported time.   *)
NextFreshness(lastModified, life, now) ==
    IF lastModified = -1 THEN "expired"
    ELSE IF life.revalidate = NoWindow \/ lastModified + life.revalidate >= now THEN "fresh"
    ELSE IF life.expire # NoWindow /\ lastModified + life.expire < now THEN "expired"
    ELSE "stale"

(* set: the script stamps the entry with Valkey's clock as it writes it.   *)
newEntry(page, postponed, segments, now) ==
    [page |-> page, lastModified |-> now, postponed |-> postponed, segments |-> segments]
=============================================================================
