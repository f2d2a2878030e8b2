SPECIFICATION FairSpec
CONSTANTS
  Conns = {1, 2}
  MaxKey = 2
  COMPRESS_MIN = 3
  MAX_FRAME = 5
  Setups <- MCSetups
INVARIANTS TypeOK FramesExact TokensJudged ClosedForCause
PROPERTIES Settles
CHECK_DEADLOCK FALSE
