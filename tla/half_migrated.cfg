\* init returns true without the column that index needs.
SPECIFICATION Spec
CONSTANTS
  Proc = {"a", "b"}
  Legacy <- MCLegacy
INVARIANTS ReadyCanIndex
