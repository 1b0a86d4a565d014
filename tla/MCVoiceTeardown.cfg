SPECIFICATION Spec

CONSTANTS
  Bindings = {b1, b2}
  Dialers = {d1, d2}
  Actions = {a1, a2}
  MaxOps = 3
  MaxSessions = 3

INVARIANTS
  NoSessionBehindTeardown

CHECK_DEADLOCK FALSE
