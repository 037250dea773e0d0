\* Two processes of any kind, one after the other, over small databases.
SPECIFICATION MCSpec
CONSTANTS
  Byte <- MCByte
  Word <- MCWord
  Null = Null
  Equals <- Sign
  Spellings <- MCSpellings
  NoFile = NoFile
  Column = {10, 32, 97, 98, 99}
  MaxStates = 26
  MaxWords = 14
  OutBits = 2
  IntBits = 8
  MaxFail = 5
  Lists <- MCLists
  Texts <- MCTexts
  Invalid = Invalid
  Unbalanced = Unbalanced
  Jobs <- MCJobs
  Databases <- MCDatabases
  MaxRuns = 2
  SearchKey <- SL
  Number <- MCNumber
  Lowest = 2
  Highest = 3
  Default = 2
  Dash <- MCDash
  None = None
INVARIANTS
  TypeOK StaysInside LinksAreLongest MatcherExact HitsSound UniverseExact FewAreExact
  NothingLeftOut OnlyEmptyCrashes LimitConfigured LineIsWords
PROPERTIES TrieIsDictionary ProcessEnds
