SPECIFICATION MCSpec
CONSTANTS
  A = A
  B = B
  Ports = {A, B}
  Guests = {g}
  Ringers = {r}
  RingAt <- MCRingAt
  S0 <- MCS0
  Members = {m1, m2}
  PoolCallers = {x1, x2}
  ChanCap = 2
  MaxCalls = 1
  NoCall = NoCall
  Menu = Menu
  Outgoing = Outgoing
INVARIANT CallsSound
PROPERTY ParkedKept
PROPERTY CallKept
PROPERTY WaitsEnd
INVARIANT PoolCallsSound
PROPERTY CallNotReplaced
PROPERTY PoolCallKept
