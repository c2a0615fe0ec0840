\* Every text of a few characters, read token by token.
SPECIFICATION Spec
CONSTANTS
  Chars <- SomeChars
  Keywords <- SomeKeywords
  WORD_SIZE = 4
  INPUT_BUF_SZ = 2
  INT_MAX = 15
  MAX_CHARS = 5
INVARIANTS
  TokensAreTheText
  PutBackFits
  LinesAreCounted
  DataFollowsSpelling
PROPERTIES
  HangsOnlyInBlockComment
