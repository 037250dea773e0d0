\* An index and a reader; index_cmd returns true on a partial index.
SPECIFICATION Spec
CONSTANTS
  Proc = {"a", "b"}
  Pruners = {}
  c1 = c1
  c2 = c2
  g1 = g1
  g2 = g2
  None = None
  Cmd <- TwoCmds
  Gram <- TwoGrams
  Grams <- LongGrams
PROPERTIES TrueMeansComplete
