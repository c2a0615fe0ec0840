\* A program ends: a behaviour stops when nothing more is written.
SPECIFICATION Spec
CONSTANTS
  CHUNK_BASE_CAPACITY = 8
  INT_BYTES = 2
  VALUE_BYTES = 4
  Items = {1, 2}
  MAX_WRITES = 5
INVARIANTS
  FirstBlocksReadBack
CHECK_DEADLOCK FALSE
