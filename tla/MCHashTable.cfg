SPECIFICATION Spec
CONSTANTS
  Keys = {"a", "b", "c"}
  Values = {"none", "true"}
  NULL = NULL
  HashOf <- Hashes
  TABLE_BASE_CAPACITY = 2
  MAX_CAPACITY = 8
INVARIANTS
  EveryProbeMeetsAnEmptyEntry
  KeysReachableAndUnique
  GrowingNeverNests
PROPERTIES
  ImplementsDictionary
  CallsReturn
