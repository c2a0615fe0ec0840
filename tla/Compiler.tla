------------------------------ MODULE Compiler ------------------------------
(***************************************************************************)
(* The single-pass compiler: the statements of parser.c, the loop          *)
(* bookkeeping of cycler.c and the code generation of bytecode.c, emitting *)
(* into the chunk while it reads.                                          *)
(*                                                                         *)
(* The parser is recursive descent; ctl is its C call stack, one record    *)
(* for each function, block, branch or loop whose body is being read, with *)
(* the offsets the C function keeps in its locals.  An action is what the  *)
(* parser does for one piece of source: the opening of a construct, a      *)
(* whole simple statement, or the closing brace.  The source program is    *)
(* the sequence of actions taken, so the behaviours range over every       *)
(* program of at most MAX_STMTS statements made of the given Forms.        *)
(*                                                                         *)
(* Expressions are reduced to the shapes that touch scope, stack or jumps: *)
(* a literal, a variable, an assignment, an increment, a call.             *)
(***************************************************************************)
EXTENDS Bytecode, Scope, SequencesExt

CONSTANTS VarIds,      \* names of variables
          FuncIds,     \* names of functions, "main" among them
          ParamIds,    \* a sequence: the parameter names of every function
          Forms,       \* the statement forms programs are made of
          MAX_STMTS,   \* bound on the number of statements
          MAX_NESTING  \* bound on the nesting of bodies

ASSUME ProgramAssumption == /\ "main" \in FuncIds
                            /\ ParamIds \in Seq(Range(ParamIds))
                            /\ MAX_STMTS \in Nat
                            /\ MAX_NESTING \in Nat

VARIABLES cycles,  \* cycler.root, innermost loop first
          ctl,     \* activation records of the parser, innermost first
          phase,   \* "parsing", then "parsed" or "compile_error"
          stmts,   \* number of statements read
          lex,     \* history: the variables lexically visible, see below
          expect   \* history: what the compiled code must meet, see below

compilerVars == <<code, fns, symtable, scope, cycles, ctl, phase, stmts, lex,
                  expect>>

-----------------------------------------------------------------------------
(* The meaning of the source, kept apart from scope.c: the declarations in *)
(* force as a block-structured language has them.  Every declaration has a *)
(* tag, a number no other declaration has; literals assigned to a variable *)
(* are its tag, so a value tells which variable it was stored for.         *)

Declaration(id, tag, may) == [id |-> id, tag |-> tag, may |-> may]

NoLex == [globals |-> <<>>, params |-> <<>>, blocks |-> <<>>]

LexEntries == lex.globals \o lex.params \o FlattenSeq(lex.blocks)

(* The declarations id may mean, the one in force last. *)
Meanings(id) == SelectSeq(LexEntries, LAMBDA e : e.id = id)

HasMeaning(id) == Meanings(id) # <<>>

(* Number of variables of the function alive here: the stack height the    *)
(* code compiled from this point must find between bp and sp.              *)
Height == Len(FlattenSeq(lex.blocks))

OpenLexBlock == [lex EXCEPT !.blocks = Append(@, <<>>)]

CloseLexBlock == [lex EXCEPT !.blocks = Front(@)]

AddLexVariable(e) == [lex EXCEPT !.blocks[Len(lex.blocks)] = Append(@, e)]

VariableTag    == 1000 + stmts
ParamTag(i, k) == 2000 + 10 * i + k
ReturnTag(i)   == 3000 + i
GlobalTag(id)  == 4000 + (CHOOSE k \in DOMAIN SetToSeq(VarIds) : SetToSeq(VarIds)[k] = id)

(* The values, and what increments and decrements may make of them. *)
WithSteps(vals) == vals \union {Stepped(val) : val \in {u \in vals : IsNumber(u)}}

(* What f() yields, for the i-th function. *)
Results(i) == {None, Number(ReturnTag(i))}

(* What `id = f();` may store in a variable, in programs that have it. *)
AssignedResults ==
  IF "assign_call" \in Forms THEN UNION {Results(i) : i \in 1..MAX_STMTS} ELSE {}

(* What a variable may hold that was given the literal tag. *)
MayHold(tag) == WithSteps({Number(tag)} \union AssignedResults)

(* What an access to id assigns when the program gives it a literal.  A    *)
(* name without a meaning can only become a global that is declared later. *)
TagOf(id) == IF HasMeaning(id) THEN Last(Meanings(id)).tag ELSE GlobalTag(id)

MaySee(id) == IF HasMeaning(id) THEN Last(Meanings(id)).may ELSE MayHold(GlobalTag(id))

NoExpectations == [heights |-> [o \in {} |-> 0], reads |-> [o \in {} |-> {}]]

Noted(f, o, x) == [p \in DOMAIN f \union {o} |-> IF p = o THEN x ELSE f[p]]

ExpectHeight(e, o, h) == [e EXCEPT !.heights = Noted(@, o, h)]

ExpectRead(e, o, id) ==
  IF HasMeaning(id) THEN [e EXCEPT !.reads = Noted(@, o, MaySee(id))] ELSE e

-----------------------------------------------------------------------------
(* Expressions *)

WriteNumber(c, n) == WriteConstant(c, "NUMBER", n)

(* perform_local_global_op *)
WriteAccess(c, s, id, localOp, globalOp) ==
  IF IsLocalAccess(s, id)
  THEN WriteConstant(c, localOp, ResolveLocal(s, id))
  ELSE WriteConstant(c, globalOp, id)

WriteGetVar(c, s, id) == WriteAccess(c, s, id, "GET_LOCAL", "GET_GLOBAL")
WriteSetVar(c, s, id) == WriteAccess(c, s, id, "SET_LOCAL", "SET_GLOBAL")

(* The four increments and decrements are one instruction: they differ in  *)
(* arithmetic, which tags do not tell apart, and in which of the numbers   *)
(* they push, which the machine leaves open.                               *)
WriteIncrVar(c, s, id) == WriteAccess(c, s, id, "INCR_LOCAL", "INCR_GLOBAL")

WriteAssignment(c, s, id) == WriteSetVar(WriteNumber(c, TagOf(id)), s, id)

(* Seeded bug: one argument counts as none. *)
ClearArgsOfSeveral(c, argc) == IF argc > 1 THEN WriteConstant(c, "CLARGS", argc) ELSE c

ClearArgs(c, argc) == IF argc > 0 THEN WriteConstant(c, "CLARGS", argc) ELSE c

(* Arguments are listed last first (parser.c:510-512), so the code pushes  *)
(* them from the last to the first.                                        *)
WriteArguments(c, values) ==
  LET written[k \in 0..Len(values)] ==
        IF k = 0 THEN c
        ELSE WriteNumber(written[k - 1], values[Len(values) - k + 1])
  IN  written[Len(values)]

WriteNativeCall(c, name, argc) ==
  ClearArgs(WriteConstant(WriteNumber(c, argc), "NATIVE_CALL", name), argc)

(* A logical expression over the input: a native predicate, whose answer   *)
(* the program cannot foresee.                                             *)
WriteCondition(c) == WriteNativeCall(c, "predicate", 0)

(* extract_callable and the argument check: the calls that compile. *)
Callable(f, argc) == /\ IsFunction(symtable[f])
                     /\ fns[symtable[f].v].argc = argc

WriteCall(c, f, argc) ==
  LET i == symtable[f].v
  IN  ClearArgs(WriteConstant(
                  WriteArguments(c, [k \in 1..argc |-> ParamTag(i, k)]),
                  "CALL", i), argc)

(* Seeded bug: the case of a single local is left out. *)
PopLocalsOfSeveral(c, n) == IF n <= 1 THEN c ELSE WriteConstant(c, "POPN", n)

(* pop_locals *)
PopLocals(c, n) == CASE n = 0 -> c
                     [] n = 1 -> WriteOp(c, "POP")
                     [] OTHER -> WriteConstant(c, "POPN", n)

-----------------------------------------------------------------------------
(* Loop bookkeeping: cycler.c *)

StartCycle(c) == <<[start |-> c.size, infos |-> {}]>> \o cycles

(* parse_break, parse_continue: the jump is recorded and patched later. *)
AddInfo(kind) ==
  [cycles EXCEPT ![1].infos = @ \union {[type |-> kind, off |-> OperandOffset(code)]}]

(* change_start_offset: where continue goes. *)
ContinueAt(head, off) == [head EXCEPT !.start = off]

(* Seeded bug: the jumps of continue are forgotten. *)
PatchBreaks(c, head) ==
  [c EXCEPT !.ins =
     [o \in DOMAIN c.ins |->
        IF [type |-> "break", off |-> o + 1] \in head.infos
        THEN [c.ins[o] EXCEPT !.arg = c.size - (o + 1) - INT_SIZE]
        ELSE c.ins[o]]]

(* free_cycle_head: breaks go to the end of the code, continues to start. *)
PatchCycle(c, head) ==
  [c EXCEPT !.ins =
     [o \in DOMAIN c.ins |->
        IF \E info \in head.infos : info.off = o + 1
        THEN LET info == CHOOSE i \in head.infos : i.off = o + 1
             IN  [c.ins[o] EXCEPT !.arg =
                    IF info.type = "break" THEN c.size - info.off - INT_SIZE
                    ELSE head.start - (info.off + INT_SIZE)]
        ELSE c.ins[o]]]

(* Seeded bug: the locals are popped first, so break jumps past the pop. *)
EndCyclePopFirst(c, head, s) == PatchCycle(PopLocals(c, PoppedBy(s)), head)

(* end_cycle: the jumps are patched before the locals are popped. *)
EndCycle(c, head, s) == PopLocals(PatchCycle(c, head), PoppedBy(s))

-----------------------------------------------------------------------------
(* Parser steps *)

Init == /\ code = EmptyCode
        /\ fns = <<>>
        /\ symtable = [id \in VarIds \union FuncIds |-> None]
        /\ scope = GlobalScope
        /\ cycles = <<>>
        /\ ctl = <<>>
        /\ phase = "parsing"
        /\ stmts = 0
        /\ lex = NoLex
        /\ expect = NoExpectations

(* An activation record: the body's kind, the offset the C function calls  *)
(* start or loop_start, the operand of the jump still to be patched, and   *)
(* the expression a for loop evaluates after its body.                     *)
Activation(kind, start, off, post) ==
  [kind |-> kind, start |-> start, off |-> off, post |-> post]

NoPost == "none"

In(form) == form \in Forms

ReadStatement == /\ phase = "parsing"
                 /\ stmts < MAX_STMTS
                 /\ stmts' = stmts + 1

InBody == ctl # <<>>

Enter(activation) == /\ Len(ctl) < MAX_NESTING
                     /\ ctl' = <<activation>> \o ctl

Leave(kind) == /\ phase = "parsing"
               /\ ctl # <<>>
               /\ Head(ctl).kind = kind
               /\ UNCHANGED stmts

CompileError ==
  /\ phase' = "compile_error"
  /\ UNCHANGED <<code, fns, symtable, scope, cycles, ctl, lex, expect>>

(* The statement's code starts here, with only the locals on the stack. *)
Starting(e) == ExpectHeight(e, code.size, Height)

(* var id = literal; at global scope: define_variable, ast_eval *)
GlobalVar(id) ==
  /\ In("global")
  /\ ctl = <<>>
  /\ ReadStatement
  /\ \/ /\ IsNone(symtable[id])
        /\ symtable' = [symtable EXCEPT ![id] = Number(GlobalTag(id))]
        /\ lex' = [lex EXCEPT !.globals =
             Append(@, Declaration(id, GlobalTag(id), MayHold(GlobalTag(id))))]
        /\ UNCHANGED <<code, fns, scope, cycles, ctl, phase, expect>>
     \/ /\ ~IsNone(symtable[id])
        /\ CompileError

Params(argc) == SubSeq(ParamIds, 1, argc)

(* declare_argument takes every one of them, behind those before it. *)
ParamsDeclarable(argc) ==
  \A k \in 1..argc :
    MayDeclareArgument([scope EXCEPT !.args = Params(k - 1)], ParamIds[k])

(* begin_scope and count_func_args, which declares one argument after the  *)
(* other.                                                                  *)
FunctionScope(argc) == [BeginScope(scope) EXCEPT !.args = @ \o Params(argc)]

NewFunction(f, argc, entry) == [name |-> f, argc |-> argc, entry |-> entry]

(* func f(...);  The scope is opened for the arguments and closed again. *)
DeclareFunction(f, argc) ==
  /\ In("declare")
  /\ ctl = <<>>
  /\ ReadStatement
  /\ \/ /\ IsNone(symtable[f])
        /\ ParamsDeclarable(argc)
        /\ fns' = Append(fns, NewFunction(f, argc, NoEntry))
        /\ symtable' = [symtable EXCEPT ![f] = Function(Len(fns) + 1)]
        /\ scope' = EndScope(FunctionScope(argc))
        /\ UNCHANGED <<code, cycles, ctl, phase, lex, expect>>
     \/ /\ ~IsNone(symtable[f]) \/ ~ParamsDeclarable(argc)
        /\ CompileError

(* A definition fits an earlier declaration of the same name. *)
Definable(f, argc) ==
  \/ IsNone(symtable[f])
  \/ /\ IsFunction(symtable[f])
     /\ fns[symtable[f].v].entry = NoEntry
     /\ fns[symtable[f].v].argc = argc

(* Seeded bug: the definition makes a new object even if there is one. *)
FreshObject(f) == Len(fns) + 1

(* The object a definition fills in: the declared one, which calls already *)
(* compiled point to, or the new one mk_objfunc has made.                  *)
DefinedObject(f) ==
  IF IsFunction(symtable[f]) THEN symtable[f].v ELSE Len(fns) + 1

(* func f(...) {  The symbol is set before the body is read. *)
OpenFunction(f, argc) ==
  /\ ctl = <<>>
  /\ ReadStatement
  /\ \/ /\ Definable(f, argc)
        /\ ParamsDeclarable(argc)
        /\ LET i == DefinedObject(f)
           IN  /\ fns' = [Append(fns, NewFunction(f, argc, NoEntry))
                            EXCEPT ![i].entry = code.size]
               /\ symtable' = [symtable EXCEPT ![f] = Function(i)]
               /\ lex' = [lex EXCEPT
                    !.params = [k \in 1..argc |->
                       Declaration(ParamIds[k], ParamTag(i, k),
                                   MayHold(ParamTag(i, k)))],
                    !.blocks = <<<<>>>>]
               /\ Enter(Activation("function", i, 0, NoPost))
        /\ scope' = FunctionScope(argc)
        /\ UNCHANGED <<code, cycles, phase, expect>>
     \/ /\ ~Definable(f, argc) \/ ~ParamsDeclarable(argc)
        /\ CompileError

(* The end of a body: function_return_stub, end_scope *)
CloseBody(kind) ==
  /\ Leave(kind)
  /\ code' = PopLocals(WriteOp(WriteOp(code, "NONE"), "RETURN"), PoppedBy(scope))
  /\ scope' = EndScope(scope)
  /\ ctl' = Tail(ctl)
  /\ lex' = [lex EXCEPT !.params = <<>>, !.blocks = <<>>]
  /\ expect' = Starting(expect)
  /\ UNCHANGED <<fns, symtable, cycles, phase>>

CloseFunction == CloseBody("function")

OpenBlock ==
  /\ In("block")
  /\ InBody
  /\ ReadStatement
  /\ Enter(Activation("block", 0, 0, NoPost))
  /\ scope' = BeginScope(scope)
  /\ lex' = OpenLexBlock
  /\ UNCHANGED <<code, fns, symtable, cycles, phase, expect>>

CloseBlock ==
  /\ Leave("block")
  /\ code' = PopLocals(code, PoppedBy(scope))
  /\ scope' = EndScope(scope)
  /\ ctl' = Tail(ctl)
  /\ lex' = CloseLexBlock
  /\ expect' = Starting(expect)
  /\ UNCHANGED <<fns, symtable, cycles, phase>>

(* parse_if up to the opening brace *)
OpenIf ==
  /\ In("if")
  /\ InBody
  /\ ReadStatement
  /\ LET c == WriteCondition(code)
     IN  /\ code' = WriteConstant(c, "FJUMP", PLACEHOLDER)
         /\ Enter(Activation("if", 0, OperandOffset(c), NoPost))
         /\ expect' = ExpectHeight(Starting(expect), c.size, Height + 1)
  /\ scope' = BeginScope(scope)
  /\ lex' = OpenLexBlock
  /\ UNCHANGED <<fns, symtable, cycles, phase>>

(* } that no else follows: the false branch lands behind the block. *)
CloseIf ==
  /\ Leave("if")
  /\ code' = PatchToHere(PopLocals(code, PoppedBy(scope)), Head(ctl).off)
  /\ scope' = EndScope(scope)
  /\ ctl' = Tail(ctl)
  /\ lex' = CloseLexBlock
  /\ expect' = Starting(expect)
  /\ UNCHANGED <<fns, symtable, cycles, phase>>

(* } else {  The true branch jumps over the false one. *)
CloseIfOpenElse ==
  /\ Leave("if")
  /\ LET c1 == PopLocals(code, PoppedBy(scope))
         c2 == WriteConstant(c1, "JUMP", PLACEHOLDER)
     IN  /\ code' = PatchToHere(c2, Head(ctl).off)
         /\ ctl' = <<Activation("else", 0, c2.size - INT_SIZE, NoPost)>> \o Tail(ctl)
  /\ scope' = BeginScope(EndScope(scope))
  /\ lex' = [lex EXCEPT !.blocks = Append(Front(@), <<>>)]
  /\ expect' = Starting(expect)
  /\ UNCHANGED <<fns, symtable, cycles, phase>>

CloseElse ==
  /\ Leave("else")
  /\ code' = PatchToHere(PopLocals(code, PoppedBy(scope)), Head(ctl).off)
  /\ scope' = EndScope(scope)
  /\ ctl' = Tail(ctl)
  /\ lex' = CloseLexBlock
  /\ expect' = Starting(expect)
  /\ UNCHANGED <<fns, symtable, cycles, phase>>

(* parse_while up to the opening brace.  The body shares the loop's scope. *)
OpenWhile ==
  /\ In("while")
  /\ InBody
  /\ ReadStatement
  /\ LET c == WriteCondition(code)
     IN  /\ code' = WriteConstant(c, "FJUMP", PLACEHOLDER)
         /\ Enter(Activation("while", code.size, OperandOffset(c), NoPost))
         /\ expect' = ExpectHeight(Starting(expect), c.size, Height + 1)
  /\ cycles' = StartCycle(code)
  /\ scope' = BeginScope(scope)
  /\ lex' = OpenLexBlock
  /\ UNCHANGED <<fns, symtable, phase>>

CloseWhile ==
  /\ Leave("while")
  /\ LET c == PatchToHere(WriteJumpBack(code, Head(ctl).start), Head(ctl).off)
     IN  code' = EndCycle(c, Head(cycles), scope)
  /\ cycles' = Tail(cycles)
  /\ scope' = EndScope(scope)
  /\ ctl' = Tail(ctl)
  /\ lex' = CloseLexBlock
  /\ expect' = Starting(expect)
  /\ UNCHANGED <<fns, symtable, phase>>

(* The three clauses of a for loop.  init is no clause, `var id = literal` *)
(* or the expression `id = literal`; the condition may be left out; post   *)
(* is no clause or an increment.                                           *)
ForInits == {[kind |-> "none", id |-> NoPost]}
            \union [kind : {"for_var", "for_expr"} \intersect Forms, id : VarIds]

OpenFor(init, endless, post) ==
  /\ In("for")
  /\ InBody
  /\ ReadStatement
  /\ LET isVar == init.kind = "for_var"
         s  == IF isVar THEN DefineLocal(DeclareLocal(BeginScope(scope), init.id))
               ELSE BeginScope(scope)
         c1 == CASE init.kind = "none" -> code
                 [] init.kind = "for_var"  -> WriteNumber(code, VariableTag)
                 [] init.kind = "for_expr" -> WriteAssignment(code, s, init.id)
         c2 == IF endless THEN WriteConstant(c1, "BOOLEAN", 1)
               ELSE WriteCondition(c1)
         h  == IF isVar THEN Height + 1 ELSE Height
         ok == ~isVar \/ ~LocalsFull(scope)
     IN  /\ In("var_over_param") \/ ~isVar \/ \A k \in DOMAIN lex.params : lex.params[k].id # init.id
         /\ \/ /\ ok
               /\ code' = WriteConstant(c2, "FJUMP", PLACEHOLDER)
               /\ scope' = s
               /\ Enter(Activation("for", c1.size, OperandOffset(c2), post))
               /\ lex' = [lex EXCEPT !.blocks = Append(@,
                    IF isVar
                    THEN <<Declaration(init.id, VariableTag, MayHold(VariableTag))>>
                    ELSE <<>>)]
               /\ expect' = ExpectHeight(
                    ExpectHeight(Starting(expect), c1.size, h), c2.size, h + 1)
               /\ cycles' = StartCycle(code)
               /\ UNCHANGED <<fns, symtable, phase>>
            \/ /\ ~ok
               /\ CompileError

(* change_start_offset, the post expression, the jump back, end_cycle *)
CloseFor ==
  /\ Leave("for")
  /\ LET act  == Head(ctl)
         head == ContinueAt(Head(cycles), code.size)
         c1   == IF act.post = NoPost THEN code
                 ELSE WriteOp(WriteIncrVar(code, scope, act.post), "POP")
         c2   == PatchToHere(WriteJumpBack(c1, act.start), act.off)
     IN  /\ code' = EndCycle(c2, head, scope)
         /\ expect' = IF act.post = NoPost THEN Starting(expect)
                      ELSE ExpectRead(Starting(expect), code.size, act.post)
  /\ cycles' = Tail(cycles)
  /\ scope' = EndScope(scope)
  /\ ctl' = Tail(ctl)
  /\ lex' = CloseLexBlock
  /\ UNCHANGED <<fns, symtable, phase>>

(* Locals declared in the blocks between here and the innermost loop. *)
LocalsInsideLoop ==
  LET depth == CHOOSE d \in 1..Len(ctl) :
                 /\ ctl[d].kind \in {"while", "for"}
                 /\ \A e \in 1..(d - 1) : ctl[e].kind \notin {"while", "for"}
  IN  Len(FlattenSeq(SubSeq(lex.blocks, Len(lex.blocks) - depth + 2,
                            Len(lex.blocks))))

Jump(kind) ==
  /\ In(kind)
  /\ InBody
  /\ ReadStatement
  /\ \/ /\ cycles # <<>>
        /\ In("jump_over_locals") \/ LocalsInsideLoop = 0
        /\ code' = WriteConstant(code, "JUMP", PLACEHOLDER)
        /\ cycles' = AddInfo(kind)
        /\ expect' = Starting(expect)
        /\ UNCHANGED <<fns, symtable, scope, ctl, phase, lex>>
     \/ /\ cycles = <<>>
        /\ CompileError

Break    == Jump("break")
Continue == Jump("continue")

-----------------------------------------------------------------------------
(* Simple statements *)

(* var id = init; in a body.  init is a literal, another variable or a     *)
(* call; it is compiled while id is declared and not yet defined.          *)
VarInits == {[kind |-> "literal", id |-> NoPost]}
            \union [kind : {"copy"} \intersect Forms, id : VarIds]
            \union [kind : {"call"} \intersect Forms, id : FuncIds]

InitCompiles(s, init) ==
  CASE init.kind = "literal" -> TRUE
    [] init.kind = "copy"    -> ~IsBeingDefined(s, init.id)
    [] init.kind = "call"    -> IsFunction(symtable[init.id])

InitCode(c, s, init) ==
  CASE init.kind = "literal" -> WriteNumber(c, VariableTag)
    [] init.kind = "copy"    -> WriteGetVar(c, s, init.id)
    [] init.kind = "call"    -> WriteCall(c, init.id, fns[symtable[init.id].v].argc)

(* What the variable may hold: its own literals and what init yields. *)
InitYields(init) ==
  CASE init.kind = "literal" -> {}
    [] init.kind = "copy"    -> MaySee(init.id)
    [] init.kind = "call"    -> WithSteps(Results(symtable[init.id].v))

LocalVar(id, init) ==
  /\ InBody
  /\ In("var_in_loop") \/ Head(ctl).kind \notin {"while", "for"}
  /\ In("var_over_param") \/ \A k \in DOMAIN lex.params : lex.params[k].id # id
  /\ ReadStatement
  /\ LET s  == DeclareVariable(scope, id)
         ok == /\ ~DeclaredHere(scope, id)
               /\ ~LocalsFull(scope)
               /\ InitCompiles(s, init)
     IN  \/ /\ ok
            /\ code' = InitCode(code, s, init)
            /\ scope' = DefineLocal(s)
            /\ lex' = AddLexVariable(
                 Declaration(id, VariableTag,
                             MayHold(VariableTag) \union InitYields(init)))
            /\ expect' = IF init.kind = "copy"
                         THEN ExpectRead(Starting(expect), code.size, init.id)
                         ELSE Starting(expect)
            /\ UNCHANGED <<fns, symtable, cycles, ctl, phase>>
         \/ /\ ~ok
            /\ CompileError

(* parse_simple_expression: the value is popped. *)
ExpressionStatement(c, e) ==
  /\ InBody
  /\ ReadStatement
  /\ code' = WriteOp(c, "POP")
  /\ expect' = ExpectHeight(e, c.size, Height + 1)
  /\ UNCHANGED <<fns, symtable, scope, cycles, ctl, phase, lex>>

(* print(id); *)
Output(id) ==
  ExpressionStatement(
    WriteNativeCall(WriteGetVar(code, scope, id), "print", 1),
    ExpectRead(Starting(expect), code.size, id))

(* id = literal; *)
Assign(id) == /\ In("assign")
              /\ ExpressionStatement(WriteAssignment(code, scope, id),
                                     Starting(expect))

(* id++; *)
Increment(id) == /\ In("incr")
                 /\ ExpressionStatement(WriteIncrVar(code, scope, id),
                                        ExpectRead(Starting(expect), code.size, id))

(* f(...); *)
Call(f, argc) ==
  /\ In("call")
  /\ \/ /\ Callable(f, argc)
        /\ ExpressionStatement(WriteCall(code, f, argc), Starting(expect))
     \/ /\ ~Callable(f, argc)
        /\ InBody
        /\ ReadStatement
        /\ CompileError

(* id = f(); *)
AssignCall(id, f) ==
  /\ In("assign_call")
  /\ Callable(f, 0)
  /\ ExpressionStatement(WriteSetVar(WriteCall(code, f, 0), scope, id),
                         Starting(expect))

CurrentFunction == ctl[Len(ctl)].start

(* return; and return literal; *)
Return(withValue) ==
  /\ In("return")
  /\ InBody
  /\ ReadStatement
  /\ LET c == IF withValue THEN WriteNumber(code, ReturnTag(CurrentFunction))
              ELSE WriteOp(code, "NONE")
     IN  /\ code' = WriteOp(c, "RETURN")
         /\ expect' = ExpectHeight(Starting(expect), c.size, Height + 1)
  /\ UNCHANGED <<fns, symtable, scope, cycles, ctl, phase, lex>>

(* The end of the file: fine between declarations, an error in a body. *)
EndOfInput ==
  /\ phase = "parsing"
  /\ \/ /\ ctl = <<>>
        /\ phase' = "parsed"
        /\ UNCHANGED <<code, fns, symtable, scope, cycles, ctl, lex, expect>>
     \/ /\ ctl # <<>>
        /\ CompileError
  /\ UNCHANGED stmts

Argcs == 0..Len(ParamIds)

Posts == {NoPost} \union (IF In("post") THEN VarIds ELSE {})

Parse ==
  \/ \E id \in VarIds : GlobalVar(id)
  \/ \E f \in FuncIds, n \in Argcs : DeclareFunction(f, n)
  \/ \E f \in FuncIds, n \in Argcs : OpenFunction(f, n)
  \/ CloseFunction
  \/ OpenBlock
  \/ CloseBlock
  \/ OpenIf
  \/ CloseIf
  \/ CloseIfOpenElse
  \/ CloseElse
  \/ OpenWhile
  \/ CloseWhile
  \/ \E init \in ForInits, endless \in BOOLEAN, post \in Posts :
       OpenFor(init, endless, post)
  \/ CloseFor
  \/ Break
  \/ Continue
  \/ \E id \in VarIds, init \in VarInits : LocalVar(id, init)
  \/ \E id \in VarIds : Output(id)
  \/ \E id \in VarIds : Assign(id)
  \/ \E id \in VarIds : Increment(id)
  \/ \E f \in FuncIds, n \in Argcs : Call(f, n)
  \/ \E id \in VarIds, f \in FuncIds : AssignCall(id, f)
  \/ \E withValue \in BOOLEAN : Return(withValue)
  \/ EndOfInput
=============================================================================
