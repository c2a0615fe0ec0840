\* Nested blocks and branches with two names, so that names are shadowed.
SPECIFICATION Spec
CONSTANTS
  VarIds = {"x", "y"}
  FuncIds = {"main"}
  ParamIds <- NoParams
  Forms = {"block", "if", "assign", "incr"}
  MAX_STMTS = 5
  MAX_NESTING = 3
  LOCALS_COUNT = 8
  ARGUMENTS_COUNT = 8
  STACK_SIZE = 8
INVARIANTS
  TypeOK
  HeightsAgree
  ReadsSeeTheirVariable
