SPECIFICATION PartsSpec

CONSTANTS
  Talkers = {t1, t2}
  t1 = t1
  t2 = t2
  QueueMax = 2
  MaxRows = 2
  LogCap = 2
  LogRows = 4
  MaxClears = 2
  LogFails = 2
  Actions = {a1, a2}
  a1 = a1
  a2 = a2
  MaxStreams = 3
  MaxCycles = 3
  Wedges = TRUE
  CaptureRows = {r1, r2}
  r1 = r1
  r2 = r2
  NoRow = NoRow
  MaxTokens = 2
  Radios = {r0, r3, r4}
  r0 = r0
  r3 = r3
  r4 = r4
  NoRadios = r0
  Updaters = {u1, u2}
  u1 = u1
  u2 = u2
  Hooks = {h1}
  h1 = h1
  h2 = h2
  MaxChanges = 2
  MaxAsks = 2
  MaxEvents = 3
  NIds = 3
  Known = {1, 3}
  Keys = {"k1", "k2"}
  Joys = {"j1"}
  Texts <- KeyTexts
  Parse <- KeyParse
  String <- KeyString
  Bad = "bad"
  Defaults <- KeyDefaults
  Edits <- KeyEdits
  MaxKeys = 2
  MaxSelects = 2
  MaxEdits = 2
  MaxOthers = 2
  SettingsFails = 2
  WindowIds = {w1, w2}
  w1 = w1
  w2 = w2
  MaxHandles = 2
  MaxMoves = 2
  WindowFails = 1
  MaxProfile = 2
  LastVersion = 2
  MaxFaults = 1
  Stems = {s1}
  s1 = s1
  Widths = {14}
  DefaultW = 10
  windowEchoTolerancePx = 2
  MaxBots = 2
  MaxInFlight = 2
  MaxHolds = 2
  MaxDeaths = 2


INVARIANTS
  HistoryIsKept
  HotkeysRecover
  FilesAreKept
  KeysAreKept
  LoadIsAccounted

CHECK_DEADLOCK FALSE
