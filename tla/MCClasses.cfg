\* The program ends in an error or when no more instances are made.
SPECIFICATION Spec
CONSTANTS
  ClassIds = {A, B, C}
  FieldIds = {x, y}
  MethodIds = {"m"}
  Argcs = {0, 1}
  Values = {1, 2}
  UNINIT = UNINIT
  CONSTRUCTORS_LIMIT = 1
  MAX_MEMBERS = 5
  MAX_INSTANCES = 1
SYMMETRY Symmetry
INVARIANTS
  SlotsNumberTheFields
  MethodsFindTheirFields
PROPERTIES
  ImplementsObjects
CHECK_DEADLOCK FALSE
