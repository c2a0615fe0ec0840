SPECIFICATION Spec
CONSTANTS
  VarIds = {"x"}
  FuncIds = {"main"}
  ParamIds <- NoParams
  Forms = {"while", "var_in_loop"}
  MAX_STMTS = 4
  MAX_NESTING = 2
  LOCALS_COUNT = 8
  ARGUMENTS_COUNT = 8
  STACK_SIZE = 4
PROPERTIES
  PopsFindAValue
