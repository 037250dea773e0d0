\* Two rows, both subcommands, any typing.
SPECIFICATION FairSpec
CONSTANTS
  Limit = 2
  c1 = c1
  c2 = c2
  None = None
  Junk = Junk
  Cmd <- MCCmd
  Modes = {"explore", "prune"}
  Typed = {"blank", "quote", "word"}
  SelBound = 3
INVARIANTS TypeOK PointersOK HighlightOK
PROPERTIES EnterTakesShown MarksHighlighted DoneLeaves
CHECK_DEADLOCK FALSE
