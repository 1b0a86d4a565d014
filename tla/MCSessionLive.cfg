SPECIFICATION FairSpec

CONSTANTS
  Callers = {c1, c2}
  Streams = {s1, s2}
  Tokens = {k1}
  c1 = c1
  c2 = c2
  s1 = s1
  s2 = s2
  k1 = k1
  Prober = prober
  None = None
  MaxCalls = 2
  MaxCancels = 1

PROPERTIES
  CallsReturn
  RevokedIsDropped

CHECK_DEADLOCK FALSE
