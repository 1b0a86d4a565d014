SPECIFICATION SideSpec

CONSTANTS
  Attempts = 1
  LossThreshold = 1
  EventMax = 1
  MaxGen = 2
  MaxPending = 1
  MaxFaults = 0
  Patient = FALSE
  KeepaliveLossThreshold = 3
  MaxPendingKA = 4
  MaxKA = 9
  SeqMod = 16
  FirstSeq = 14
  FrameDur = 2
  Target = 3
  MaxFrames = 2
  AheadFactor = 1
  IdleTimeout = 6
  MaxDelay = 5
  MaxTime = 12
  Loops = {l1, l2}
  l1 = l1
  l2 = l2
  Freqs = {f1, f2}
  f1 = f1
  f2 = f2
  QueueDepth = 2
  TransmitSeqMod = 2
  MaxPresses = 2
  FrameSamples = 3
  CapacityFrames = 3
  Capacity = 16
  MaxCatchUpFrames = 1
  MaxChunk = 4
  MaxSamples = 30
  FrameMS = 10
  GateFrames = 5
  MaxConfigs = 2

INVARIANTS
  ReportedStateIsTrue
  RoundTripIsTrue
  StreamFollowsTalker
  TransmitIsFaithful
PROPERTIES
  NothingAfterBye
  PlayoutIsFaithful

CHECK_DEADLOCK FALSE
