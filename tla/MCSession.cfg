SPECIFICATION SideSpec

CONSTANTS
  Callers = {c1, c2}
  Streams = {s1, s2}
  Tokens = {k1, k2}
  c1 = c1
  c2 = c2
  s1 = s1
  s2 = s2
  k1 = k1
  k2 = k2
  Prober = prober
  None = None
  MaxCalls = 2
  MaxCancels = 1
  maxAttempts = 2
  Clients = {g1}
  MaxUpdates = 1
  MaxSyncs = 2
  Radios = {1, 2}
  Hotkeys = {hook, joy}
  profile = profile
  MaxSelects = 2
  MaxLogins = 2
  MaxChoices = 3
  MaxFails = 1
  Writers = {w1, w2}
  user = user
  Cap = 2
  MaxRows = 4
  MaxClears = 1

SYMMETRY Symmetry

INVARIANTS
  EndedOnce
  CancelReachesAttempt
  ConnHasToken
  ConnWatched
  LostOnce
  WindowsMirrorGo
PROPERTIES
  PingEndsOnlyRevoked
  KeepsContract

CHECK_DEADLOCK FALSE
