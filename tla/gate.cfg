SPECIFICATION MCSpec
CONSTANTS
  a1 = a1
  d1 = d1
  d2 = d2
  s1 = s1
  s2 = s2
  t1 = t1
  h1 = h1
  h2 = h2
  w1 = w1
  Addrs = {a1}
  KeyOf <- MCKeyOf
  Barred = {a1}
  TConns = {d1, d2}
  SConns = {s1, s2}
  RateMaxes = {0, 1}
  RateWindows = {1, 2}
  AgeCap = 2
  MaxSessions = 1
  MaxPreLogin = 2
  MaxPerAddr = 1
  Conns = {t1, h1, h2, w1}
  Locks = {l1, l2}
  AddrOf <- MCAddrOf
  KindOf <- MCKindOf
  MaxAttempts = 2
  LockoutWindow = 2
  NoLock = NoLock
  NoConn = NoConn
INVARIANT PlacesSound
INVARIANT OnlyLetInCounts
PROPERTY RateKept
PROPERTY DoorEnds
PROPERTY PlaceReturns
INVARIANT TurnExclusive
INVARIANT GuessesBounded
INVARIANT NoCheckWhileLockedOut
PROPERTY TurnComes
PROPERTY LockoutEnds
