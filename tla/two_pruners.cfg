\* Two terminals that both index, read and prune.
SPECIFICATION Spec
CONSTANTS
  Proc = {"a", "b"}
  Pruners = {"a", "b"}
  c1 = c1
  c2 = c2
  g1 = g1
  g2 = g2
  None = None
  Cmd <- TwoCmds
  Gram <- TwoGrams
  Grams <- LongGrams
INVARIANTS TypeOK Isolation LutComplete
PROPERTIES PurgeIsExact KeepsPromise
