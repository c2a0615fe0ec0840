SPECIFICATION Spec
CONSTANTS
  x = x
  y = y
  Ids <- MCIds
  LOCALS_COUNT = 4
  ARGUMENTS_COUNT = 2
  MAX_DEPTH = 3
INVARIANTS
  TypeOK
  DepthsFollowMarks
  GlobalScopeIsEmpty
  NamesUniquePerScope
  WithinLimits
PROPERTIES
  ClosingRestoresLocals
  ImplementsLexicalScope
CHECK_DEADLOCK FALSE
