\* Classes with fields, constructors and methods, and objects of them in main.
SPECIFICATION MembersSpec
CONSTANTS
  VarIds = {"x", "p"}
  FieldIds = {"x", "p"}
  FuncIds <- Names
  ClassIds = {A, B}
  A = A
  B = B
  get = get
  put = put
  MethodIds = {get, put}
  ParamIds <- OneParam
  Forms = {"local", "return", "override"}
  MAX_STMTS = 8
  CLASS_STMTS = 5
  MAX_NESTING = 2
  LOCALS_COUNT = 8
  ARGUMENTS_COUNT = 8
  STACK_SIZE = 14
SYMMETRY NameSymmetry
INVARIANTS
  HeightsAgree
  ReadsSeeTheirMember
  FieldsBelongToThis
