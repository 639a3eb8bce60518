SPECIFICATION Spec
CONSTANTS
  second = second  day = day  p1 = p1  p2 = p2
  Senders = {p1, p2}
  Ahead <- MCAhead
  Buckets = {second, day}
  Unit = 2
  Rate <- MCRate
  Limits = {2}
  NoLimit = NoLimit
  Token <- MCToken
  MaxTime = 2
  MaxDebt = 0
INVARIANTS WithinRate
CHECK_DEADLOCK FALSE
