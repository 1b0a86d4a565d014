SPECIFICATION FairSpec

CONSTANTS
  Bindings = {b1, b2}
  Dialers = {d1, d2}
  Actions = {a1, a2}
  MaxOps = 3
  MaxSessions = 2

INVARIANTS
  OneSessionOpen
  TransmissionsFollowSession
PROPERTIES
  NeverBackToOlderAddress
  IdleTargetsAreCleared

CHECK_DEADLOCK FALSE
