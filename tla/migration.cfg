\* Starting processes, over files of three ages.
SPECIFICATION FairSpec
CONSTANTS
  Proc = {"a", "b", "c"}
  Legacy <- MCLegacy
INVARIANTS TypeOK VersionIsTrue ReadyHasTables OneMigrator
PROPERTIES InitEnds
