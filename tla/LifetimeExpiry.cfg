SPECIFICATION Spec
CONSTANTS
  c1 = c1
  c2 = c2
  c3 = c3
  Conns = {c1, c2, c3}
  First = c1
PROPERTIES OnlyGoneClientsExpire
CHECK_DEADLOCK FALSE
