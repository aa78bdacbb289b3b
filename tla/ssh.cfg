SPECIFICATION Spec
CONSTANTS
  c1 = c1
  c2 = c2
  ch1 = ch1
  ch2 = ch2
  a1 = a1
  Conns = {c1, c2}
  Chans = {ch1, ch2}
  ConnOf <- MCConnOf
  Addrs = {a1}
  AddrOf <- MCAddrOf
  Labels = {"A", "CPM"}
  MaxSessions = 4
  MaxGen = 2
  None = None
INVARIANT CountExact
INVARIANT CapKept
INVARIANT RegistryLive
PROPERTY NewestKept
