\* A marked row stays on the screen after the last hit.
SPECIFICATION Spec
CONSTANTS
  Limit = 2
  c1 = c1
  c2 = c2
  None = None
  Junk = Junk
  Cmd <- MCCmd
  Modes = {"explore", "prune"}
  Typed = {"blank", "quote", "word"}
  SelBound = 3
INVARIANTS RowsAreHits
CHECK_DEADLOCK FALSE
