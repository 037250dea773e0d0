\* A command that is searched for by its own text, with and without UTF-8.
SPECIFICATION Spec
CONSTANTS
  Byte <- MCByte
  Word <- MCWord
  Null = Null
  Equals <- Sign
  Spellings <- MCSpellings
  NoFile = NoFile
  Column = {10, 32, 97, 98, 99}
  MaxStates = 26
  MaxWords = 14
  OutBits = 2
  IntBits = 8
  MaxFail = 5
  Lists <- MCLists
  Texts <- MCTexts
  Invalid = Invalid
  Unbalanced = Unbalanced
  Jobs <- ForeignJobs
  Databases <- EmptyDatabase
  MaxRuns = 2
  SearchKey <- SL
  Number <- MCNumber
  Lowest = 2
  Highest = 3
  Default = 2
  Dash <- MCDash
  None = None
INVARIANTS FindsItself
