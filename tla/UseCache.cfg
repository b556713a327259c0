\* Requests on one replica whose reads of the epoch may fail.  Two at once, while
\* the replica or its peer revalidates their tag; or one at a time, while lifetimes
\* lapse, values are stored again and the peer revalidates twice.
SPECIFICATION MCSpec
CONSTANTS
    r1 = r1  r2 = r2  q1 = q1  q2 = q2  k1 = k1  tag = tag
    Replicas = {r1, r2}
    Requests = {q1, q2}
    Home <- SameReplica
    Updates <- EitherUpdates
    Keys = {k1}
    KeyTags <- OneKey
    SoftTags = {}
    Kinds <- Deadlines
    Revalidate = 1
    Expire = 2
    Offset <- Skewed
    MaxWarms = 1
    StartTime = 3
    MaxTime = 5
    MaxUpdates = 2
    MaxSets = 2
    Absent = Absent
INVARIANTS HitPostdatesUpdates HitIsFresh
CONSTRAINT InScope
SYMMETRY Symmetry
