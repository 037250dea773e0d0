\* Down on a line without hits until the selection is beyond the arrays, then Enter.
SPECIFICATION Spec
CONSTANTS
  Limit = 2
  c1 = c1
  c2 = c2
  None = None
  Junk = Junk
  Cmd <- MCCmd
  Modes = {"explore", "prune"}
  Typed = {"blank", "quote", "word"}
  SelBound = 3
PROPERTIES SelectionIfAny
CHECK_DEADLOCK FALSE
