CONSTANTS
    dirA = dirA
    Operators = {alice}
    Jobs = {job}
    Checkouts = {dirA}
    CheckoutOf <- OneCheckout
    Builds = {b1, b2, b3}
    NoBuild = NoBuild
    NoState = NoState
    Corrupt = Corrupt
    Seeded = TRUE
    MaxWrites = 3
SPECIFICATION Spec
INVARIANTS Fenced LoserNeverWins
PROPERTIES NoLostUpdate ReadReturnsNewest ImplementsLedger
CHECK_DEADLOCK FALSE
SYMMETRY Symmetry
