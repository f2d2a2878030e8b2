SPECIFICATION Spec
CONSTANTS
  MaxConns = 3
  QuicConns = {}
  MaxStdin = 0
  MaxOut = 1
  MaxRestarts = 1
  Codes = {255}
  CommandEnds = FALSE
  SlowHandover = FALSE
  Crashes = FALSE
  LocalErrors = FALSE
INVARIANTS DeniedOnlyWhenGone
CHECK_DEADLOCK FALSE
