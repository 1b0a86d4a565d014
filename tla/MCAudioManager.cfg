SPECIFICATION FairSpec
CONSTANTS
  Devices = {1, 2}
  Streams = {s1, s2, s3}
  None = None
  MaxStarts = 2
  MaxPlugs = 1
  MaxPicks = 1
  MaxBackoff = 1
INVARIANTS
  MicrophoneIsOwned
PROPERTIES
  FlappingKeepsDecaying
  FollowsSelection

CHECK_DEADLOCK FALSE
