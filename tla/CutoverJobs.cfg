\* The cutover Jobs of three bundles at once, or of two and a second pod of one
\* (a retry, a re-run by hand or a forced promotion), each pod killed or losing
\* an answer anywhere.
SPECIFICATION Spec
CONSTANTS
    CliBuilds = {}
    JobBuilds = {j1, j2, j3}
    Rollbacks = {}
    Current = cur
    Previous = old
    NoBuild = NoBuild
    NoState = NoState
    NumServices = 2
    MaxRuns = 2
    Exclusive = FALSE
    Lossy = TRUE
CONSTRAINT PodsBounded
SYMMETRY Symmetry
CHECK_DEADLOCK FALSE
INVARIANTS AtMostOneWinner SelectorsConverge
