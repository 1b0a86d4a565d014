SPECIFICATION Spec

CONSTANTS
  Keys = {"audio.input", "hotkeys"}
  Windowed = {"audio.input"}
  Contents = {a, b}
  a = a
  b = b
  None = None
  Cap = 9
  MaxCalls = 4
  MaxUser = 2

INVARIANTS
  DismissalSilencesNoRelapse

CHECK_DEADLOCK FALSE
