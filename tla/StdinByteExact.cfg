SPECIFICATION Spec
CONSTANTS
  MaxConns = 2
  QuicConns = {}
  MaxStdin = 2
  MaxOut = 0
  MaxRestarts = 0
  Codes = {0}
  CommandEnds = FALSE
  SlowHandover = FALSE
  Crashes = FALSE
  LocalErrors = FALSE
INVARIANTS StdinByteExact
CHECK_DEADLOCK FALSE
