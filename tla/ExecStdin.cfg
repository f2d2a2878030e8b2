SPECIFICATION FairSpec
CONSTANTS
  MaxConns = 2
  QuicConns = {1}
  MaxStdin = 2
  MaxOut = 0
  MaxRestarts = 1
  Codes = {0}
  CommandEnds = FALSE
  SlowHandover = TRUE
  Crashes = TRUE
  LocalErrors = TRUE
INVARIANTS StdinRetained StdinInOrder
PROPERTIES StdinProgress StdinAcked
CHECK_DEADLOCK FALSE
