\* Loops and the ways out of them.  Five statements are enough for a loop in
\* a function with a block, a variable and a jump in its body.
SPECIFICATION Spec
CONSTANTS
  VarIds = {"x"}
  FuncIds = {"main"}
  ParamIds <- NoParams
  Forms = {"block", "while", "for", "for_var", "post", "break", "continue"}
  MAX_STMTS = 5
  MAX_NESTING = 3
  LOCALS_COUNT = 2
  ARGUMENTS_COUNT = 8
  STACK_SIZE = 6
INVARIANTS
  FetchesInstructions
  HeightsAgree
  JumpsStayInFunction
