SPECIFICATION Spec

CONSTANTS
  Keyed = {"global"}
  Stick = {"global", "radio3"}
  Transient = {"radio3"}
  MaxPresses = 2
  MaxGen = 2
  MaxOps = 2
  MaxFaults = 1

INVARIANTS
  MicShutWhenNothingHeld

CHECK_DEADLOCK FALSE
