CONSTANTS
  r1 = r1
  r2 = r2
  old = old
  new = new
  Outgoing = old
  NoBuild = NoBuild
  Builds <- MCBuilds
  Apps <- MCApps
  Facts <- MCFacts
  MaxForwards = 2
SPECIFICATION Spec
INVARIANTS NoUnscreenedContent HeaderSetTravels SinglePass
CHECK_DEADLOCK FALSE
