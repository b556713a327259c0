---------------------------- MODULE TagManifest ----------------------------
(***************************************************************************)
(* The tag watermarks of src/pool-server/valkey-cache/tag-manifest.ts: the *)
(* event a revalidation sends, the merge Valkey applies to it atomically,  *)
(* and the verdict on a stored entry.  Times are whole ticks of a clock;   *)
(* real ones are positive, so that 0 stands for an absent watermark.       *)
(***************************************************************************)
EXTENDS Integers

Unset == 0

(* Watermarks of one tag: TagState. *)
TagState == [stale: Nat, expired: Nat, at: Nat]
NoMarks == [stale |-> Unset, expired |-> Unset, at |-> Unset]

(* The durations argument of updateTags: absent, a profile that sets no    *)
(* expire, a profile with one.                                             *)
Hard == [kind |-> "hard", expire |-> 0]
Profile == [kind |-> "profile", expire |-> 0]
ProfileWithExpire(d) == [kind |-> "expire", expire |-> d]
Durations == [kind: {"hard", "profile", "expire"}, expire: Nat]

(* The event an updateTags call at client time at carries. *)
computeTagUpdate(at, d) ==
    [stale   |-> IF d.kind = "hard" THEN Unset ELSE at,
     expired |-> CASE d.kind = "hard" -> at
                   [] d.kind = "profile" -> Unset
                   [] d.kind = "expire" -> at + d.expire,
     at      |-> at]

(* One field of UPDATE_TAGS_SCRIPT at server time now.  The watermarks the *)
(* event sets move by the client's distance from the server's clock; the   *)
(* ones it leaves out are kept; an event older than the stored one is      *)
(* dropped.                                                                *)
mergeTagState(old, event, now) ==
    LET shift == now - event.at
        rebased(w, kept) == IF w = Unset THEN kept ELSE w + shift
    IN  IF now < old.at
        THEN old
        ELSE [stale   |-> rebased(event.stale, old.stale),
              expired |-> rebased(event.expired, old.expired),
              at      |-> now]

(* tags: the states of the tags of an entry made at ts. *)
areTagsExpired(tags, ts, marks, now) ==
    \E t \in tags : /\ marks[t].expired # Unset
                    /\ marks[t].expired <= now
                    /\ marks[t].expired > ts

areTagsStale(tags, ts, marks) == \E t \in tags : marks[t].stale > ts

(* entry: timestamp, revalidate, expire and tags. *)
evaluateEntry(entry, marks, now) ==
    IF \/ now > entry.timestamp + entry.expire
       \/ areTagsExpired(entry.tags, entry.timestamp, marks, now)
       \/ now > entry.timestamp + entry.revalidate
    THEN "expired"
    ELSE IF areTagsStale(entry.tags, entry.timestamp, marks) THEN "stale" ELSE "fresh"
=============================================================================
