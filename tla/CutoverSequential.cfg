\* One command or Job at a time, each of them crashing, failing or losing an
\* answer anywhere, and run again: a CLI deploy, a Job and a rollback.
SPECIFICATION Spec
CONSTANTS
    CliBuilds = {cli}
    JobBuilds = {job}
    Rollbacks = {back}
    Current = cur
    Previous = old
    NoBuild = NoBuild
    NoState = NoState
    NumServices = 2
    MaxRuns = 2
    Exclusive = TRUE
    Lossy = TRUE
CHECK_DEADLOCK FALSE
INVARIANTS ServingBuildUp RollbackTargetKept CleanAborts
PROPERTIES CommitFollowsTraffic ProvenTraffic
