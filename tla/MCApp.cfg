SPECIFICATION AppSpec

CONSTANTS
  Clients = {k1, k2}
  k1 = k1
  k2 = k2
  MaxVersion = 2
  BufMax = 2
  WireMax = 2
  HeldFails = 1
  Keys = {"audio.input", "hotkeys"}
  Windowed = {"audio.input"}
  Contents = {a, b}
  a = a
  b = b
  NoItem = None
  NotifyCap = 3
  MaxCalls = 3
  MaxUser = 2
  Keyed = {"radio3"}
  Stick = {"radio3"}
  Transient = {"radio3"}
  MaxPresses = 2
  MaxGen = 2
  MaxOps = 2
  MaxFaults = 1

INVARIANTS
  ShownIsTrue
  EdgesBalance
  MicFollowsHolds
PROPERTIES
  HeldKeyIsNotCut
  LostKeyUpIsReleased
  Converges
  EveryChangeIsApplied

CHECK_DEADLOCK FALSE
