\* Three commands from two checkouts, one call failing.
SPECIFICATION Spec
CONSTANTS
    Machines = {laptop, ci}
    Builds = {0, 1, 2, 3}
    Serving = 1
    Parked = 0
    NoBuild = NoBuild
    NoState = NoState
    Legacy = {0, 1}
    Wide = {0, 2}
    Locations = {"east", "west"}
    NoLoc = NoLoc
    LocationOf <- MCLocationOf
    Default = "east"
    MaxRuns = 3
    MaxFaults = 1
CHECK_DEADLOCK FALSE
INVARIANTS BuildsWhole DestroyHonest
PROPERTIES PaidCacheNamed
SYMMETRY Symmetry
