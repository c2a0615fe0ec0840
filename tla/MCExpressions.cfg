\* Every expression of a few tokens, from the scanner to its value.
SPECIFICATION Spec
CONSTANTS
  TokenSet <- SomeTokens
  MAX_TOKENS = 6
INVARIANTS
  ParsedAsTheTableSays
  CodeLeavesOneValue
  EvaluatorsAgree
