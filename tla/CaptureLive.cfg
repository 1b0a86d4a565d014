SPECIFICATION Spec
CONSTANTS
  Rows = {r1, r2}
  r1 = r1
  r2 = r2
  NoRow = NoRow
  MaxTokens = 2
INVARIANT LiveCaptureStaysSuspended
CHECK_DEADLOCK FALSE
