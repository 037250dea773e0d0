\* Three terminals, prune in one of them.
SPECIFICATION Spec
CONSTANTS
  Proc = {"a", "b", "c"}
  Pruners = {"a"}
  c1 = c1
  c2 = c2
  g1 = g1
  g2 = g2
  None = None
  Cmd <- TwoCmds
  Gram <- TwoGrams
  Grams <- ShortGrams
PROPERTIES PurgeIsConfirmed FreshUnmarked
