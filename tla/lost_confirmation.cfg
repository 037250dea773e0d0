\* Two pruners; one deletes what the other has just marked.
SPECIFICATION Spec
CONSTANTS
  Proc = {"a", "b"}
  Pruners = {"a", "b"}
  c1 = c1
  c2 = c2
  g1 = g1
  g2 = g2
  None = None
  Cmd <- TwoCmds
  Gram <- TwoGrams
  Grams <- ShortGrams
PROPERTIES OnlyListedPruned
