SPECIFICATION FairSpec
CONSTANTS
  c1 = c1
  c2 = c2
  Clients = {c1, c2}
  Ttys = {c2}
  EXPIRY_MARGIN = 1
  ExpiresIn = 2
  MaxLatency = 1
  DeviceExpiresIn = 2
  Interval = 1
  SlowDown = 1
  RetryAfters = {2}
  MaxFaults = 1
  Grants = {1, 2, 3, 4, 5, 6, 7}
INVARIANTS TypeOK CacheUsable TornOnlyByLogin  TokenValid
PROPERTIES CallsEnd
CHECK_DEADLOCK FALSE
