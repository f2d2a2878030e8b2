SPECIFICATION FairSpec
CONSTANTS
  MaxConns = 2
  QuicConns = {1}
  MaxStdin = 0
  MaxOut = 2
  MaxRestarts = 0
  Codes = {0}
  CommandEnds = TRUE
  SlowHandover = FALSE
  Crashes = FALSE
  LocalErrors = FALSE
INVARIANTS TypeOK LogFaithful OutputExact ExitComplete ReplayPossible
PROPERTIES RemovedOnlyWhenDelivered ImplementsReliableExec EventuallyReturns
CHECK_DEADLOCK FALSE
