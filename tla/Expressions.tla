---------------------------- MODULE Expressions ----------------------------
(***************************************************************************)
(* An expression from its tokens to its value: the precedence climbing of  *)
(* parser.c (ast_bin_expr, ast_primary, ast_call), the code generation of  *)
(* bytecode.c (parse_ast_bin_expr), the opcodes of vm.c that compute, and  *)
(* ast_eval, which computes the initialiser of a global from the tree.     *)
(*                                                                         *)
(* A token is its spelling.  The scanner delivers any sequence of them, up *)
(* to MAX_TOKENS; calls is the C call stack of the parser.  The expression *)
(* stands where only globals are in scope, outside of classes.             *)
(*                                                                         *)
(* A number is a fraction in a tuple <<n, d>>, exact for the few tokens an *)
(* expression has; strings are over one letter, so that their length tells *)
(* them apart and orders them as strcmp does.                              *)
(***************************************************************************)
EXTENDS Integers, Sequences, SequencesExt

CONSTANTS TokenSet,    \* the tokens expressions are made of
          MAX_TOKENS   \* bound on the tokens before the end of the file

ASSUME TokensAssumption == MAX_TOKENS \in Nat

-----------------------------------------------------------------------------
(* Values *)

Value(t, n, d) == [t |-> t, v |-> <<n, d>>]
Number(n)      == Value("number", n, 1)
Boolean(b)     == Value("boolean", IF b THEN 1 ELSE 0, 1)
String(len)    == Value("string", len, 1)
None           == Value("none", 0, 1)
Native         == Value("native", 0, 1)
Instance       == Value("instance", 0, 1)

Are(t, a, b) == a.t = t /\ b.t = t

Fraction(n, d) == IF d < 0 THEN Value("number", -n, -d) ELSE Value("number", n, d)

Plus(a, b)  == Fraction(a.v[1] * b.v[2] + b.v[1] * a.v[2], a.v[2] * b.v[2])
Minus(a, b) == Fraction(a.v[1] * b.v[2] - b.v[1] * a.v[2], a.v[2] * b.v[2])
Times(a, b) == Fraction(a.v[1] * b.v[1], a.v[2] * b.v[2])
Over(a, b)  == Fraction(a.v[1] * b.v[2], a.v[2] * b.v[1])
Same(a, b)  == a.v[1] * b.v[2] = b.v[1] * a.v[2]
Below(a, b) == a.v[1] * b.v[2] < b.v[1] * a.v[2]

IsTrue(a) == a.v[1] = 1
IsZero(a) == a.v[1] = 0

-----------------------------------------------------------------------------
(* Tokens *)

EOF == "end of file"

Numerals == {"0", "1", "2"}
NumberOf(t) == CASE t = "0" -> Number(0) [] t = "1" -> Number(1) [] t = "2" -> Number(2)

Literals == Numerals \union {"true", "false", "'a'"}
LiteralOf(t) == CASE t \in Numerals -> NumberOf(t)
                  [] t = "'a'"      -> String(1)
                  [] OTHER          -> Boolean(t = "true")

Identifiers == {"x", "o", "isnum"}

(* The globals in force: a number, an instance of a class whose one field  *)
(* is called x, and a native function.                                     *)
Globals == [x |-> Number(2), o |-> Instance, isnum |-> Native]

(* precedence[]; what the table does not name is 0. *)
Precedence(t) ==
  CASE t = "("                                     -> 11
    [] t = "."                                     -> 10
    [] t \in {"*", "/"}                            -> 9
    [] t \in {"+", "-"}                            -> 8
    [] t \in {"==", "!=", ">", ">=", "<", "<="}    -> 7
    [] t = "not"                                   -> 6
    [] t = "and"                                   -> 5
    [] t = "xor"                                   -> 4
    [] t = "or"                                    -> 3
    [] t = "="                                     -> 1
    [] t \in {")", ";", ","}                       -> -1
    [] OTHER                                       -> 0

Arithmetic == {"+", "-", "*", "/"}
Logical    == {"and", "or", "xor"}
Comparison == {"==", "!=", ">", ">=", "<", "<="}

(* TOKEN_IS_BIN_OP: an opening parenthesis is none. *)
BinaryOperators == Arithmetic \union Logical \union Comparison \union {"not", "=", "."}

-----------------------------------------------------------------------------

(* The tree.  A node has what it is made from and, as history, the first   *)
(* and the last token it was read from; it is closed if ast_primary read   *)
(* it, so that no operator beside it can take a part of it.                *)

Node(type, tok, first, last) ==
  [type |-> type, tok |-> tok, first |-> first, last |-> last, closed |-> TRUE]

(* A unary minus is a multiplication by -1 in the tree of the code.        *)
Unary(tok, operand, first) ==
  [operand |-> operand] @@ Node("unary", tok, first, operand.last)

(* ++id, --id, id++, id-- *)
Step(tok, id, isPrefix, first) ==
  [id |-> id, prefix |-> isPrefix] @@ Node("step", tok, first, first + 1)

CallNode(id, args, first, last) == [args |-> args] @@ Node("call", id, first, last)

Binary(op, left, right) ==
  [left |-> left, right |-> right, closed |-> FALSE]
    @@ Node("binary", op, left.first, right.last)

(* Parentheses and a unary plus leave no node behind. *)
Enclosed(n, first, last) == [n EXCEPT !.first = first, !.last = last, !.closed = TRUE]

-----------------------------------------------------------------------------
VARIABLES toks,     \* history: the tokens the scanner has read
          cur,      \* cur_token
          putback,  \* is_putback
          calls,    \* activation records of the parser, innermost first
          at,       \* what the innermost function does next, or the outcome
          node,     \* the node being returned
          code,     \* the instructions written for it
          ip,       \* the next of them
          stack,    \* the values pushed, the last is the top
          symtable, \* identifier -> value
          field     \* the field of the instance

scannerVars == <<toks, cur, putback>>
parserVars  == <<calls, node>>
globalVars  == <<symtable, field>>
machineVars == <<code, ip, stack, globalVars>>
exprVars    == <<scannerVars, parserVars, at, machineVars>>

NoNode == Node("none", EOF, 0, 0)

(* ast_bin_expr(prev): left is what it has read, op the operator behind it. *)
BinExpr(prev) == [fn |-> "bin_expr", prev |-> prev, left |-> NoNode, op |-> EOF]

Init == /\ toks = <<>>
        /\ cur = EOF
        /\ putback = FALSE
        /\ calls = <<BinExpr(0)>>
        /\ node = NoNode
        /\ at = "primary"
        /\ code = <<>>
        /\ ip = 1
        /\ stack = <<>>
        /\ symtable = Globals
        /\ field = Number(1)

-----------------------------------------------------------------------------
(* The parser *)

AtEnd == toks # <<>> /\ Last(toks) = EOF

Delivered == IF AtEnd \/ Len(toks) >= MAX_TOKENS THEN {EOF} ELSE TokenSet \union {EOF}

Tokens == TokenSet \union {EOF}

(* scanner_next_token delivers t: the token put back, or a new one. *)
Delivers(t) == /\ cur' = t
               /\ IF putback THEN t = cur /\ UNCHANGED toks
                  ELSE t \in Delivered /\ toks' = Append(toks, t)

Takes(t) == Delivers(t) /\ putback' = FALSE

(* It is put back by scanner_putback_token. *)
LooksAt(t) == Delivers(t) /\ putback' = TRUE

(* The position of the token delivered. *)
Here == Len(toks')

SyntaxError == at' = "compile_error" /\ UNCHANGED <<parserVars, machineVars>>

Enter(frames, where) == /\ calls' = frames \o calls
                        /\ at' = where
                        /\ UNCHANGED <<node, machineVars>>

(* What ast_primary keeps while it waits for the rest of an operand. *)
Pending(fn, t) == [fn |-> fn, tok |-> t, first |-> Here]

ReturnPast(callers, n) == /\ node' = n
                          /\ calls' = callers
                          /\ at' = "return"
                          /\ UNCHANGED machineVars

Return(n) == ReturnPast(Tail(calls), n)

(* ast_primary, by the token it finds *)
AstPrimary ==
  /\ at = "primary"
  /\ \E t \in Tokens :
       /\ Takes(t)
       /\ \/ /\ t \in Literals
             /\ ReturnPast(calls, Node("literal", t, Here, Here))
          \/ /\ t = "("
             /\ Enter(<<BinExpr(0), Pending("paren", t)>>, "primary")
          \/ /\ t \in {"not", "+", "-"}
             /\ Enter(<<Pending("unary", t)>>, "primary")
          \/ /\ t \in {"++", "--"}
             /\ Enter(<<Pending("step", t)>>, "step")
          \/ /\ t \in Identifiers
             /\ Enter(<<Pending("identifier", t)>>, "identifier")
          \/ /\ t \notin Literals \union Identifiers
                          \union {"(", "not", "+", "-", "++", "--"}
             /\ SyntaxError

(* next_expect(T_IDENT) behind ++ and -- *)
StepOperand ==
  /\ at = "step"
  /\ \E t \in Tokens :
       /\ Takes(t)
       /\ \/ /\ t \in Identifiers
             /\ Return(Step(Head(calls).tok, t, TRUE, Head(calls).first))
          \/ /\ t \notin Identifiers
             /\ SyntaxError

(* The token behind an identifier decides what it is. *)
BehindIdentifier ==
  /\ at = "identifier"
  /\ \E t \in Tokens :
       LET id == Head(calls)
       IN  \/ /\ t \in {"++", "--"}
              /\ Takes(t)
              /\ Return(Step(t, id.tok, FALSE, id.first))
           \/ /\ t = "("
              /\ Takes(t)
              /\ calls' = <<[args |-> <<>>] @@ [id EXCEPT !.fn = "call"]>> \o Tail(calls)
              /\ at' = "argument"
              /\ UNCHANGED <<node, machineVars>>
           \/ /\ t \notin {"++", "--", "("}
              /\ LooksAt(t)
              /\ Return(Node("identifier", id.tok, id.first, id.first))

(* ast_call, parse_func_args: the first token of an argument is looked at, *)
(* and ends the list if there is none yet.                                 *)
Argument ==
  /\ at = "argument"
  /\ \E t \in Tokens :
       LET call == Head(calls)
       IN  \/ /\ t = ")" /\ call.args = <<>>
              /\ Takes(t)
              /\ Return(CallNode(call.tok, <<>>, call.first, Here))
           \/ /\ t # ")" \/ call.args # <<>>
              /\ LooksAt(t)
              /\ Enter(<<BinExpr(0)>>, "primary")

ReturnsTo(fn) == at = "return" /\ calls # <<>> /\ Head(calls).fn = fn

(* The list of arguments has the last one first. *)
ReturnToCall ==
  /\ ReturnsTo("call")
  /\ LET args == <<node>> \o Head(calls).args
     IN  \/ /\ cur = ","
            /\ calls' = <<[Head(calls) EXCEPT !.args = args]>> \o Tail(calls)
            /\ at' = "argument"
            /\ UNCHANGED <<node, machineVars>>
         \/ /\ cur = ")"
            /\ Return(CallNode(Head(calls).tok, args, Head(calls).first, Len(toks)))
         \/ /\ cur \notin {",", ")"}
            /\ SyntaxError
  /\ UNCHANGED scannerVars

ReturnToParen ==
  /\ ReturnsTo("paren")
  /\ \/ /\ cur = ")"
        /\ Return(Enclosed(node, Head(calls).first, Len(toks)))
     \/ /\ cur # ")"
        /\ SyntaxError
  /\ UNCHANGED scannerVars

ReturnToUnary ==
  /\ ReturnsTo("unary")
  /\ LET sign == Head(calls)
     IN  Return(IF sign.tok = "+" THEN Enclosed(node, sign.first, node.last)
                ELSE Unary(sign.tok, node, sign.first))
  /\ UNCHANGED scannerVars

(* Seeded bug: an operator of equal precedence goes to the right operand. *)
ClimbRight(left, t) ==
  \/ /\ Precedence(t) = 0
     /\ SyntaxError
  \/ /\ Precedence(t) # 0
     /\ Precedence(t) >= Head(calls).prev
     /\ calls' = <<BinExpr(Precedence(t)),
                   [Head(calls) EXCEPT !.left = left, !.op = t]>> \o Tail(calls)
     /\ at' = "primary"
     /\ UNCHANGED <<node, machineVars>>
  \/ /\ Precedence(t) # 0
     /\ Precedence(t) < Head(calls).prev
     /\ Return(left)

(* The loop of ast_bin_expr: t is the token behind left. *)
Climb(left, t) ==
  \/ /\ Precedence(t) = 0
     /\ SyntaxError
  \/ /\ Precedence(t) # 0
     /\ Precedence(t) > Head(calls).prev
     /\ calls' = <<BinExpr(Precedence(t)),
                   [Head(calls) EXCEPT !.left = left, !.op = t]>> \o Tail(calls)
     /\ at' = "primary"
     /\ UNCHANGED <<node, machineVars>>
  \/ /\ Precedence(t) # 0
     /\ Precedence(t) <= Head(calls).prev
     /\ Return(left)

(* The first operand has been read.  scanner_next_token answers 0 at the   *)
(* end of the file, but not for an end that was put back.                  *)
ReturnToFirst ==
  /\ ReturnsTo("bin_expr")
  /\ Head(calls).left = NoNode
  /\ \E t \in Tokens :
       /\ Takes(t)
       /\ \/ t = EOF /\ ~putback /\ Return(node)
          \/ ~(t = EOF /\ ~putback) /\ Climb(node, t)

(* The operand behind op has been read, and the token behind it. *)
ReturnToNext ==
  /\ ReturnsTo("bin_expr")
  /\ Head(calls).left # NoNode
  /\ LET left == Binary(Head(calls).op, Head(calls).left, node)
     IN  \/ cur \in BinaryOperators /\ Climb(left, cur)
         \/ cur \notin BinaryOperators /\ Return(left)
  /\ UNCHANGED scannerVars

-----------------------------------------------------------------------------
(* Code generation.  ERROR stands for a message that ends the compilation, *)
(* UNDEFINED for a node taken for one of another type.                     *)

Ins(op, arg) == <<[op |-> op, arg |-> arg]>>

ERROR     == Ins("compile_error", 0)
UNDEFINED == Ins("undefined", 0)

(* Seeded bug: <= is compiled like >=. *)
OperatorTwisted(op) ==
  CASE op = "!="          -> Ins("==", 0) \o Ins("not", 0)
    [] op \in {">=", "<="} -> Ins("<", 0) \o Ins("not", 0)
    [] OTHER              -> Ins(op, 0)

Operator(op) ==
  CASE op = "!=" -> Ins("==", 0) \o Ins("not", 0)
    [] op = ">=" -> Ins("<", 0) \o Ins("not", 0)
    [] op = "<=" -> Ins(">", 0) \o Ins("not", 0)
    [] OTHER     -> Ins(op, 0)

(* Seeded bug: the arguments stay on the stack. *)
ClearNoArgs(argc) == <<>>

ClearArgs(argc) == IF argc > 0 THEN Ins("CLARGS", argc) ELSE <<>>

RECURSIVE Code(_), Property(_, _)

WriteArgs(args) == FlattenSeq([i \in DOMAIN args |-> Code(args[i])])

(* AST_CALL outside of a class: what is no object is not callable, and of  *)
(* the objects here only the native function is.                           *)
CallCode(n) ==
  CASE Globals[n.tok].t = "number"   -> ERROR
    [] Globals[n.tok].t = "instance" -> WriteArgs(n.args) \o ERROR
    [] Globals[n.tok].t = "native"   ->
         WriteArgs(n.args) \o Ins("PUSH", Number(Len(n.args)))
           \o Ins("NATIVE_CALL", n.tok) \o ClearArgs(Len(n.args))

(* AST_ASSIGN: the value first.  The name behind the last dot is the field, *)
(* whether or not an increment is written at it.                            *)
AssignCode(n) ==
  Code(n.right) \o
  CASE n.left.type = "identifier" -> Ins("SET_GLOBAL", n.left.tok)
    [] n.left.type = "binary" /\ n.left.tok = "." ->
         (CASE n.left.right.type = "identifier" ->
                 Property(n.left.left, TRUE) \o Ins("SET_FIELD", n.left.right.tok)
            [] n.left.right.type = "step" ->
                 Property(n.left.left, TRUE) \o Ins("SET_FIELD", n.left.right.id)
            [] OTHER -> ERROR)
    [] OTHER -> ERROR

(* bcchunk_parse_property: a method call takes the value left of the dot   *)
(* as its receiver, wherever the call stands.                              *)
Property(n, isFinal) ==
  CASE n.type = "identifier" -> Ins(IF isFinal THEN "GET_GLOBAL" ELSE "GET_FIELD", n.tok)
    [] n.type = "binary" /\ n.tok = "." ->
         Property(n.left, TRUE) \o Property(n.right, FALSE)
    [] n.type = "binary" /\ n.tok = "(" -> UNDEFINED
    [] n.type = "call" ->
         WriteArgs(n.args) \o Ins("PUSH", Number(Len(n.args)))
           \o Ins("METHOD", n.tok) \o ClearArgs(Len(n.args) + 1)
    [] OTHER -> ERROR

(* parse_ast_bin_expr.  `(` and `not` between operands make a binary node  *)
(* of a type that is not binary.                                           *)
Code(n) ==
  CASE n.type = "literal"    -> Ins("PUSH", LiteralOf(n.tok))
    [] n.type = "identifier" -> Ins("GET_GLOBAL", n.tok)
    [] n.type = "step"       -> Ins("STEP", n)
    [] n.type = "call"       -> CallCode(n)
    [] n.type = "unary" /\ n.tok = "-" ->
         Ins("PUSH", Number(-1)) \o Code(n.operand) \o Ins("*", 0)
    [] n.type = "unary" /\ n.tok = "not" -> Code(n.operand) \o Ins("not", 0)
    [] n.type = "binary" ->
         CASE n.tok \in {"(", "not"} -> UNDEFINED
           [] n.tok = "."            -> Property(n, TRUE)
           [] n.tok = "="            -> AssignCode(n)
           [] OTHER -> Code(n.left) \o Code(n.right) \o Operator(n.tok)

Ends == {"compile_error", "undefined"}

(* bcchunk_write_expression, then cur_expect(T_SEMI) *)
WriteExpression ==
  /\ at = "return"
  /\ calls = <<>>
  /\ code' = Code(node)
  /\ LET ends == SelectSeq(code', LAMBDA i : i.op \in Ends)
     IN  at' = CASE ends # <<>> -> ends[1].op
                 [] ends = <<>> /\ cur # ";" -> "compile_error"
                 [] OTHER -> "running"
  /\ UNCHANGED <<scannerVars, parserVars, ip, stack, globalVars>>

-----------------------------------------------------------------------------
(* The machine.  Values of the caller lie below the stack of the           *)
(* expression; an instruction that would reach them is an underflow.       *)

At(op) == at = "running" /\ ip <= Len(code) /\ code[ip].op = op

Arg == code[ip].arg

Has(k) == Len(stack) >= k

Operand(k) == stack[Len(stack) - k]

Fails == Value("error", 0, 1)

(* Takes k values off and puts val on. *)
Yields(k, val) ==
  /\ CASE ~Has(k)                   -> at' = "underflow" /\ UNCHANGED stack
       [] Has(k) /\ val = Fails     -> at' = "runtime_error" /\ UNCHANGED stack
       [] OTHER -> stack' = Append(SubSeq(stack, 1, Len(stack) - k), val) /\ UNCHANGED at
  /\ ip' = ip + 1
  /\ UNCHANGED <<scannerVars, parserVars, code>>

(* OP_NUMBER, OP_BOOLEAN, OP_STRING *)
OP_PUSH == At("PUSH") /\ Yields(0, Arg) /\ UNCHANGED globalVars

OP_GET_GLOBAL == At("GET_GLOBAL") /\ Yields(0, symtable[Arg]) /\ UNCHANGED globalVars

OP_SET_GLOBAL ==
  /\ At("SET_GLOBAL")
  /\ Yields(1, Operand(0))
  /\ symtable' = IF Has(1) THEN [symtable EXCEPT ![Arg] = Operand(0)] ELSE symtable
  /\ UNCHANGED field

(* ++ and --, the value before or behind the change *)
Changed(val, tok) == Plus(val, Number(IF tok = "++" THEN 1 ELSE -1))

OP_STEP_GLOBAL ==
  /\ At("STEP")
  /\ LET old == symtable[Arg.id]
         new == Changed(old, Arg.tok)
     IN  IF old.t # "number" THEN Yields(0, Fails) /\ UNCHANGED symtable
         ELSE /\ Yields(0, IF Arg.prefix THEN new ELSE old)
              /\ symtable' = [symtable EXCEPT ![Arg.id] = new]
  /\ UNCHANGED field

(* The binary opcodes.  Both operands have been computed, those of the     *)
(* logical operators too.                                                  *)
Compute(op, a, b) ==
  CASE op = "+" /\ Are("number", a, b)               -> Plus(a, b)
    [] op = "+" /\ Are("string", a, b)               -> String(a.v[1] + b.v[1])
    [] op = "-" /\ Are("number", a, b)               -> Minus(a, b)
    [] op = "*" /\ Are("number", a, b)               -> Times(a, b)
    [] op = "/" /\ Are("number", a, b) /\ ~IsZero(b) -> Over(a, b)
    [] op = "and" /\ Are("boolean", a, b)            -> Boolean(IsTrue(a) /\ IsTrue(b))
    [] op = "or" /\ Are("boolean", a, b)             -> Boolean(IsTrue(a) \/ IsTrue(b))
    [] op = "xor" /\ Are("boolean", a, b)            -> Boolean(IsTrue(a) # IsTrue(b))
    [] op \in {"==", "<", ">"} /\ \E t \in {"number", "boolean", "string"} : Are(t, a, b) ->
         Boolean(CASE op = "==" -> Same(a, b)
                   [] op = "<"  -> Below(a, b)
                   [] op = ">"  -> Below(b, a))
    [] OTHER -> Fails

OP_BINARY ==
  /\ at = "running" /\ ip <= Len(code)
  /\ code[ip].op \in Arithmetic \union Logical \union {"==", "<", ">"}
  /\ Yields(2, IF Has(2) THEN Compute(code[ip].op, Operand(1), Operand(0)) ELSE None)
  /\ UNCHANGED globalVars

(* The value is not tested: of one that is no boolean, the byte is read    *)
(* where a boolean would be.                                               *)
OP_NOT ==
  /\ At("not")
  /\ \E b \in IF Has(1) /\ Operand(0).t = "boolean" THEN {IsTrue(Operand(0))} ELSE BOOLEAN :
       Yields(1, Boolean(~b))
  /\ UNCHANGED globalVars

IsField(id) == id = "x"

OP_GET_FIELD ==
  /\ At("GET_FIELD")
  /\ Yields(1, IF Has(1) /\ Operand(0) = Instance /\ IsField(Arg) THEN field ELSE Fails)
  /\ UNCHANGED globalVars

(* The instance is above the value. *)
OP_SET_FIELD ==
  /\ At("SET_FIELD")
  /\ LET found == Has(2) /\ Operand(0) = Instance /\ IsField(Arg)
     IN  /\ Yields(2, IF found THEN Operand(1) ELSE Fails)
         /\ field' = IF found THEN Operand(1) ELSE field
  /\ UNCHANGED symtable

(* native_isnum; it leaves its arguments to OP_CLARGS. *)
OP_NATIVE_CALL ==
  /\ At("NATIVE_CALL")
  /\ Yields(1, IF Operand(0) = Number(1) THEN Boolean(Operand(1).t = "number") ELSE Fails)
  /\ UNCHANGED globalVars

OP_CLARGS ==
  /\ At("CLARGS")
  /\ Yields(Arg + 1, Operand(0))
  /\ UNCHANGED globalVars

(* The receiver is below the arguments and argc; the class has no method.  *)
OP_METHOD ==
  /\ At("METHOD")
  /\ Yields(Operand(0).v[1] + 2, Fails)
  /\ UNCHANGED globalVars

(* The value of the expression is for the statement behind it. *)
Finish ==
  /\ at = "running"
  /\ ip > Len(code)
  /\ at' = "ended"
  /\ UNCHANGED <<scannerVars, parserVars, machineVars>>

-----------------------------------------------------------------------------
(* ast_eval, used for the initialiser of a global: how it ends, the value, *)
(* and the symbol table behind it.  It does not test for a zero divisor;   *)
(* what it computes from there on is not modelled.                         *)

Outcome(out, val, syms) == [out |-> out, val |-> val, syms |-> syms]
Gives(val, syms)        == Outcome(IF val = Fails THEN "error" ELSE "value", val, syms)
Without(out, syms)      == Outcome(out, None, syms)

(* NUMERICAL_OP, BOOLEAN_OP, and the sum of AST_ADD *)
Combine(op, a, b) ==
  CASE op \in Arithmetic \union Logical -> Compute(op, a, b)
    [] op \in Comparison /\ ~Are("number", a, b) -> Fails
    [] op \in Comparison /\ Are("number", a, b) ->
         Boolean(CASE op = "==" -> Same(a, b)
                   [] op = "!=" -> ~Same(a, b)
                   [] op = "<"  -> Below(a, b)
                   [] op = ">=" -> ~Below(a, b)
                   [] op = ">"  -> Below(b, a)
                   [] op = "<=" -> ~Below(b, a))

(* a and b are what the operands gave, one after the other. *)
Combined(op, a, b) ==
  CASE a.out # "value"                       -> a
    [] a.out = "value" /\ b.out # "value"    -> b
    [] op = "=" /\ b.out = "value"           -> Without("error", b.syms)
    [] op = "/" /\ Are("number", a.val, b.val) /\ IsZero(b.val) -> Without("infinite", b.syms)
    [] OTHER                                 -> Gives(Combine(op, a.val, b.val), b.syms)

RECURSIVE Eval(_, _)

Eval(n, syms) ==
  CASE n.type = "literal"    -> Gives(LiteralOf(n.tok), syms)
    [] n.type = "identifier" -> Gives(syms[n.tok], syms)
    [] n.type = "step" ->
         LET old == syms[n.id]
             new == Changed(old, n.tok)
         IN  IF old.t # "number" THEN Without("error", syms)
             ELSE Gives(IF n.prefix THEN new ELSE old, [syms EXCEPT ![n.id] = new])
    [] n.type = "unary" /\ n.tok = "-" ->
         Combined("*", Gives(Number(-1), syms), Eval(n.operand, syms))
    [] n.type = "unary" /\ n.tok = "not" ->
         LET a == Eval(n.operand, syms)
         IN  CASE a.out # "value" -> a
               [] a.out = "value" /\ a.val.t # "boolean" -> Without("error", a.syms)
               [] OTHER -> Gives(Boolean(~IsTrue(a.val)), a.syms)
    [] n.type = "call" \/ (n.type = "binary" /\ n.tok \in {"(", "."}) -> Without("error", syms)
    [] n.type = "binary" /\ n.tok = "not" -> Without("undefined", syms)
    [] OTHER -> LET a == Eval(n.left, syms)
                IN  Combined(n.tok, a, IF a.out = "value" THEN Eval(n.right, a.syms) ELSE a)

-----------------------------------------------------------------------------

Parse == \/ AstPrimary \/ StepOperand \/ BehindIdentifier \/ Argument
         \/ ReturnToCall \/ ReturnToParen \/ ReturnToUnary
         \/ ReturnToFirst \/ ReturnToNext

Run == \/ OP_PUSH \/ OP_GET_GLOBAL \/ OP_SET_GLOBAL \/ OP_STEP_GLOBAL
       \/ OP_BINARY \/ OP_NOT \/ OP_GET_FIELD \/ OP_SET_FIELD
       \/ OP_NATIVE_CALL \/ OP_CLARGS \/ OP_METHOD \/ Finish

Next == Parse \/ WriteExpression \/ Run

Outcomes == {"ended", "compile_error", "undefined", "underflow", "runtime_error"}

(* The process ends, or the statement around the expression goes on. *)
Stopped == at \in Outcomes /\ UNCHANGED exprVars

Spec == Init /\ [][Next \/ Stopped]_exprVars

-----------------------------------------------------------------------------
(* Properties *)

(* The nodes of a tree. *)
RECURSIVE Nodes(_)
Nodes(n) ==
  {n} \union
  CASE n.type = "binary" -> Nodes(n.left) \union Nodes(n.right)
    [] n.type = "unary"  -> Nodes(n.operand)
    [] n.type = "call"   -> UNION {Nodes(n.args[i]) : i \in DOMAIN n.args}
    [] OTHER             -> {}

(* An operand that a parenthesis or a prefix operator does not close goes  *)
(* to the operator beside it that binds tighter, and among equal ones to   *)
(* the left one; the operator of a node stands between its operands.       *)
OperandsInOrder(n) ==
  LET prec(m) == Precedence(m.tok)
  IN  /\ toks[n.left.last + 1] = n.tok
      /\ n.left.last + 1 < n.right.first
      /\ \A i \in (n.left.last + 2)..(n.right.first - 1) : toks[i] \in {"(", "+"}
      /\ n.left.closed \/ prec(n.left) >= prec(n)
      /\ n.right.closed \/ prec(n.right) > prec(n)

(* Every tree ast_bin_expr builds has the shape the table of precedences   *)
(* gives its tokens, and the whole expression is all that was read before  *)
(* the token it ended at.                                                  *)
ParsedAsTheTableSays ==
  at = "return" =>
    /\ \A n \in Nodes(node) : n.type = "binary" => OperandsInOrder(n)
    /\ calls = <<>> => node.first = 1 /\ node.last = Len(toks) - 1

(* Left of a dot no function is called, and right of it no path begins. *)
PathsAreNames ==
  \A n \in Nodes(node) :
    n.type = "binary" /\ n.tok = "." => n.left.type # "call" /\ n.right.tok # "."

(* The code of an expression takes nothing from the stack of its statement *)
(* and leaves one value on it, whatever opcodes are in it.                 *)
CodeLeavesOneValue ==
  PathsAreNames => /\ at # "underflow"
                   /\ at = "ended" => Len(stack) = 1

(* ast_eval and the machine compute the same: an initialiser that is       *)
(* accepted has the value, and the side effects, that the same expression  *)
(* has in a function; where it divides by zero the function stops.         *)
EvaluatorsAgree ==
  at \in {"ended", "runtime_error", "underflow", "undefined"} =>
    LET e == Eval(node, Globals)
    IN  /\ e.out = "value" => at = "ended" /\ stack = <<e.val>> /\ symtable = e.syms
        /\ e.out = "infinite" => at = "runtime_error"
=============================================================================
