SPECIFICATION ShutdownSpec
CONSTANTS
  Responses = {r1}
  Sockets = {s1}
  MaxSafeInteger = 9000
  Streams <- MCStreams
  c1 = c1
  c2 = c2
  c3 = c3
  k1 = k1
  k2 = k2
  Callouts = {c1, c2, c3}
  Connections = {k1, k2}
  On <- MCOn
  DrainDelay = 2
INVARIANTS DrainAccounting HonestStops
PROPERTY StopsTerminate
