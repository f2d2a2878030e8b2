SPECIFICATION FairSpec
CONSTANTS
  MaxConns = 3
  QuicConns = {1}
  MaxStdin = 0
  MaxOut = 1
  MaxRestarts = 1
  Codes = {255}
  CommandEnds = TRUE
  SlowHandover = TRUE
  Crashes = TRUE
  LocalErrors = FALSE
INVARIANTS LogFaithful OutputExact ExitComplete ReplayPossible
PROPERTIES EventuallyAnswered
CHECK_DEADLOCK FALSE
