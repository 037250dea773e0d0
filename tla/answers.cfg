\* Three terminals under fairness.
SPECIFICATION FairSpec
CONSTANTS
  Proc = {"a", "b", "c"}
  Pruners = {"a"}
  c1 = c1
  c2 = c2
  g1 = g1
  g2 = g2
  None = None
  Cmd <- OneCmd
  Gram <- TwoGrams
  Grams <- OneLong
PROPERTIES AlwaysAnswers
