\* Functions, arguments, forward declarations and recursion.
SPECIFICATION Spec
CONSTANTS
  VarIds = {"p"}
  FuncIds = {"main", "f"}
  ParamIds <- ParamNames
  Forms = {"declare", "global", "call", "assign", "incr", "return", "copy", "assign_call"}
  MAX_STMTS = 5
  MAX_NESTING = 2
  LOCALS_COUNT = 8
  ARGUMENTS_COUNT = 8
  STACK_SIZE = 10
INVARIANTS
  HeightsAgree
  ReadsSeeTheirVariable
  FrameChainIntact
  GlobalsStayGlobal
  CallsReachTheirFunction
PROPERTIES
  CallersFramesUntouched
  ProgramsHalt
