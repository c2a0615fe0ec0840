--------------------------- MODULE MCExpressions ---------------------------
(* The tokens for the run of Expressions: one or two of every kind the     *)
(* parser, the code generation and the machine tell apart.                 *)
EXTENDS Expressions

SomeTokens == {"0", "true", "x", "o", "isnum", "(", ")", ";",
               ",", "+", "-", "/", "<=", "not", "and", "xor", "or", "=", ".", "++"}
=============================================================================
