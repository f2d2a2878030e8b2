SPECIFICATION Spec
CONSTANTS
  MaxConns = 2
  QuicConns = {}
  MaxStdin = 0
  MaxOut = 1
  MaxRestarts = 1
  Codes = {255}
  CommandEnds = TRUE
  SlowHandover = FALSE
  Crashes = FALSE
  LocalErrors = FALSE
INVARIANTS ExitSurvivesRestart
CHECK_DEADLOCK FALSE
