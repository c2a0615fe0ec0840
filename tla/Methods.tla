------------------------------ MODULE Methods ------------------------------
(***************************************************************************)
(* Classes compiled and executed: the bodies of methods and constructors   *)
(* given to the compiler and the machine of Enma.                          *)
(*                                                                         *)
(* A name in a class body means a local, an argument, a field of `this` or *)
(* a global, decided by resolve_field and resolve_local while the body is  *)
(* read; which instance `this` is gets decided by the stack at run time.   *)
(* The frame of a method is: the receiver, the arguments (the first        *)
(* nearest), return ip, old bp, and from bp on what the method pushes      *)
(* first, twice the receiver; a constructor's starts with a new instance.  *)
(*                                                                         *)
(* Programs declare their classes before main.  Inheritance, the limit of  *)
(* the constructor table and the slots of inherited fields are the subject *)
(* of module Classes; here a class has only its own fields and methods.    *)
(***************************************************************************)
EXTENDS Enma

CONSTANTS ClassIds,  \* names of classes
          FieldIds,  \* names of fields, which variables may have too
          MethodIds, \* names of methods
          CLASS_STMTS  \* number of pieces of source the classes take; main follows

(* All identifiers share one symbol table. *)
ASSUME ClassBoundAssumption == CLASS_STMTS \in Nat

ASSUME MemberNamesAssumption == ClassIds \union MethodIds \subseteq FuncIds

VARIABLES classes,  \* name -> fields in the order of their slots, methods by
                    \* name and constructors by argument count, as functions
          current,  \* _scope.current_class, NoClass for NULL
          heap      \* instances: class and data[]

memberVars == <<classes, current, heap>>

allVars == <<vars, memberVars>>

NoClass == "no_class"

This == "this"

(* mk_objclass *)
NewClass == [fields       |-> <<>>,
             methods      |-> [m \in {} |-> NoOperand],
             constructors |-> [n \in {} |-> NoOperand]]

Fields(c) == Range(classes[c].fields)

Methods(c) == Range(classes[c].methods)

Constructors(c) == Range(classes[c].constructors)

(* table_check(current_class->fields, id) *)
IsField(id) == current # NoClass /\ id \in Fields(current)

IsClass(id) == symtable[id].t = "class"

(* VALUE_UNINIT, what mk_objinstance fills data[] with. *)
Uninit == Value("null", 0)

Instance(i) == Value("instance", i)

IsInstance(val) == val.t = "instance"

-----------------------------------------------------------------------------
(* The meaning of members, on the lexical side of Compiler: a local or an  *)
(* argument hides a field, a field hides a global.  Literals given to a    *)
(* field are its tag, whatever instance they end up in; arguments of       *)
(* members are tagged by their position.                                   *)

FieldTag(id) == 5000 + (CHOOSE k \in DOMAIN SetToSeq(VarIds) : SetToSeq(VarIds)[k] = id)

FieldMayHold(id) == {Uninit, Number(FieldTag(id))}

MemberTag(id) == IF IsField(id) /\ ~HasMeaning(id) THEN FieldTag(id) ELSE TagOf(id)

ArgumentTag(k) == ParamTag(0, k)

MemberParams(argc) ==
  [k \in 1..argc |-> Declaration(ParamIds[k], ArgumentTag(k), MayHold(ArgumentTag(k)))]

(* A value below the locals of a body, which no name of the source means. *)
Hidden == Declaration(This, 0, {})

LiteralArguments(c, argc) == WriteArguments(c, [k \in 1..argc |-> ArgumentTag(k)])

-----------------------------------------------------------------------------
(* Code *)

(* Seeded bug: the return address is not counted among the words between.  *)
PushReceiverPastOneWord(c, argc) == WriteConstant(c, "GET_LOCAL", -2 - argc)

(* What parse_class_meth and scope_add_instance_data emit, each of them. *)
PushReceiver(c, argc) == WriteConstant(c, "GET_LOCAL", -3 - argc)

(* write_get_var of `this`, which is never a field. *)
PushThis(c) == WriteGetVar(c, scope, This)

(* write_get_var, write_set_var with resolve_field *)
WriteGetMember(c, id) ==
  IF IsField(id) THEN WriteConstant(PushThis(c), "GET_FIELD", id)
  ELSE WriteGetVar(c, scope, id)

WriteSetMember(c, id) ==
  IF IsField(id) THEN WriteConstant(PushThis(c), "SET_FIELD", id)
  ELSE WriteSetVar(c, scope, id)

(* Seeded bug: the receiver is not counted with the arguments. *)
WriteMethodKeepingReceiver(c, m, argc) ==
  ClearArgs(WriteConstant(WriteNumber(c, argc), "METHOD", m), argc)

(* bcchunk_write_method *)
WriteMethod(c, m, argc) ==
  ClearArgs(WriteConstant(WriteNumber(c, argc), "METHOD", m), argc + 1)

(* bcchunk_write_constructor *)
WriteConstructor(c, cl, argc) ==
  ClearArgs(WriteConstant(c, "CALL", classes[cl].constructors[argc]), argc)

(* What an access to id reads: the field at the last instruction it emits. *)
ExpectMember(e, id) ==
  IF IsField(id) /\ ~HasMeaning(id)
  THEN [e EXCEPT !.reads = Noted(@, PushThis(code).size, FieldMayHold(id))]
  ELSE ExpectRead(e, code.size, id)

-----------------------------------------------------------------------------
(* Class declarations *)

(* What no class declaration changes, and the rest. *)
UnchangedWith(rest) == UNCHANGED <<cycles, phase, heap, vm, rest>>

Refuse == CompileError /\ UNCHANGED <<memberVars, vm>>

(* The bound on the input: classes take CLASS_STMTS pieces, and no name is *)
(* used that means nothing, which is an error left to Enma.                *)
ReadInClass == stmts < CLASS_STMTS /\ ReadStatement

InClass == ctl # <<>> /\ Head(ctl).kind = "class"

InMember == ctl # <<>> /\ Head(ctl).kind \in {"method", "constructor"}

InMain == ctl # <<>> /\ Head(ctl).kind = "function"

OpenClass(c) ==
  /\ ctl = <<>>
  /\ ReadInClass
  /\ \/ /\ IsNone(symtable[c])
        /\ symtable' = [symtable EXCEPT ![c] = Value("class", c)]
        /\ classes' = [d \in DOMAIN classes \union {c} |->
                         IF d = c THEN NewClass ELSE classes[d]]
        /\ current' = c
        /\ Enter(Activation("class", 0, 0, NoPost))
        /\ UnchangedWith(<<code, fns, scope, lex, expect>>)
     \/ /\ ~IsNone(symtable[c])
        /\ Refuse

(* parse_class_field: the slot is the number of fields so far. *)
Field(id) ==
  /\ InClass
  /\ ReadInClass
  /\ \/ /\ ~IsField(id)
        /\ classes' = [classes EXCEPT ![current].fields = Append(@, id)]
        /\ UnchangedWith(<<code, fns, symtable, scope, ctl, lex, expect, current>>)
     \/ /\ IsField(id)
        /\ Refuse

(* Seeded bug: an argument may have the name of a field. *)
FieldsAreParams(argc) == ParamsDeclarable(argc) /\ ~LocalsFull(scope)

(* declare_argument refuses the name of a field, too, and declare_local    *)
(* counts `this`.                                                          *)
MemberDeclarable(argc) == /\ ParamsDeclarable(argc)
                          /\ \A k \in 1..argc : ~IsField(ParamIds[k])
                          /\ ~LocalsFull(scope)

DeclareThis(s) == DefineLocal(DeclareLocal(s, This))

(* begin_scope, scope_constructor_start, scope_add_constructor_data and    *)
(* count_func_args                                                         *)
ConstructorScope(argc) ==
  FoldLeft(DeclareArgument, DeclareThis(BeginScope(BeginScope(scope))), Params(argc))

OpenConstructor(argc) ==
  /\ InClass
  /\ ReadInClass
  /\ \/ /\ MemberDeclarable(argc)
        /\ fns' = Append(fns, NewFunction(current, argc, code.size))
        /\ scope' = ConstructorScope(argc)
        /\ code' = WriteConstant(code, "INSTANCE", current)
        /\ lex' = [lex EXCEPT !.params = MemberParams(argc), !.blocks = <<<<Hidden>>>>]
        /\ Enter(Activation("constructor", Len(fns) + 1, 0, NoPost))
        /\ UnchangedWith(<<symtable, expect, classes, current>>)
     \/ /\ ~MemberDeclarable(argc)
        /\ Refuse

(* The instance is returned; scope_constructor_end, end_scope and          *)
(* set_constructor                                                         *)
CloseConstructor ==
  LET argc   == fns[Head(ctl).start].argc
      inner  == EndScope(scope)
      return == WriteOp(PushThis(code), "RETURN")
  IN  /\ Leave("constructor")
      /\ \/ /\ argc \notin DOMAIN classes[current].constructors
            /\ classes' = [classes EXCEPT
                 ![current].constructors = Noted(@, argc, Head(ctl).start)]
            /\ code' = PopLocals(PopLocals(return, PoppedBy(scope)), PoppedBy(inner))
            /\ scope' = EndScope(inner)
            /\ ctl' = Tail(ctl)
            /\ lex' = [lex EXCEPT !.params = <<>>, !.blocks = <<>>]
            /\ expect' = Starting(expect)
            /\ UnchangedWith(<<fns, symtable, current>>)
         \/ /\ argc \in DOMAIN classes[current].constructors
            /\ Refuse

(* A method of a name the class has already must be marked override, and   *)
(* then replaces it; for a new name the mark makes no difference.          *)
OpenMethod(m, argc) ==
  /\ InClass
  /\ ReadInClass
  /\ \/ /\ MemberDeclarable(argc)
        /\ m \in DOMAIN classes[current].methods => In("override")
        /\ fns' = Append(fns, NewFunction(m, argc, code.size))
        /\ scope' = DeclareThis(FunctionScope(argc))
        /\ code' = PushReceiver(PushReceiver(code, argc), argc)
        /\ classes' = [classes EXCEPT ![current].methods = Noted(@, m, Len(fns) + 1)]
        /\ lex' = [lex EXCEPT !.params = MemberParams(argc),
                              !.blocks = <<<<Hidden, Hidden>>>>]
        /\ Enter(Activation("method", Len(fns) + 1, 0, NoPost))
        /\ UnchangedWith(<<symtable, expect, current>>)
     \/ /\ ~MemberDeclarable(argc) \/ m \in DOMAIN classes[current].methods
        /\ Refuse

CloseMethod == CloseBody("method") /\ UNCHANGED <<memberVars, vm>>

(* } of the class, and add_def_constructor *)
CloseClass ==
  /\ Leave("class")
  /\ \/ /\ 0 \notin DOMAIN classes[current].constructors
        /\ fns' = Append(fns, NewFunction(current, 0, code.size))
        /\ classes' = [classes EXCEPT
             ![current].constructors = Noted(@, 0, Len(fns) + 1)]
        /\ code' = WriteOp(WriteConstant(code, "INSTANCE", current), "RETURN")
     \/ /\ 0 \in DOMAIN classes[current].constructors
        /\ UNCHANGED <<fns, classes, code>>
  /\ current' = NoClass
  /\ ctl' = Tail(ctl)
  /\ UnchangedWith(<<symtable, scope, lex, expect>>)

-----------------------------------------------------------------------------
(* Statements in members and in main *)

Statement(a) == a /\ UNCHANGED <<memberVars, vm>>

Known(id) == HasMeaning(id) \/ IsField(id)

Literal == [kind |-> "literal", id |-> NoPost]

(* var id = literal;  Nothing asks here whether id is a field. *)
MemberLocal(id) ==
  /\ InMember
  /\ stmts < CLASS_STMTS
  /\ In("local")
  /\ In("local_in_method") \/ Head(ctl).kind # "method"
  /\ In("local_over_field") \/ ~IsField(id)
  /\ Statement(LocalVar(id, Literal))

(* print(id); *)
MemberOutput(id) ==
  /\ InMember
  /\ Known(id)
  /\ stmts < CLASS_STMTS
  /\ Statement(ExpressionStatement(
       WriteNativeCall(WriteGetMember(code, id), "print", 1),
       ExpectMember(Starting(expect), id)))

(* id = literal; *)
MemberAssign(id) ==
  /\ InMember
  /\ Known(id)
  /\ stmts < CLASS_STMTS
  /\ Statement(ExpressionStatement(
       WriteSetMember(WriteNumber(code, MemberTag(id)), id), Starting(expect)))

(* m(...); in a class body is a call on `this`, local 0: extract_callable  *)
(* finds nothing under a method's name.                                    *)
ThisCall(m, argc) ==
  /\ InMember
  /\ stmts < CLASS_STMTS
  /\ Statement(ExpressionStatement(
       WriteMethod(LiteralArguments(WriteConstant(code, "GET_LOCAL", 0), argc), m, argc),
       Starting(expect)))

(* return;  scope_is_constructor forbids it in constructors. *)
MemberReturn ==
  /\ InMember
  /\ stmts < CLASS_STMTS
  /\ In("return")
  /\ \/ /\ Head(ctl).kind = "method"
        /\ Statement(Return(FALSE))
     \/ /\ Head(ctl).kind = "constructor"
        /\ ReadStatement
        /\ Refuse

(* var id = A(...); *)
NewObject(id, c, argc) ==
  LET s  == DeclareVariable(scope, id)
      ok == /\ ~DeclaredHere(scope, id)
            /\ ~LocalsFull(scope)
            /\ argc \in DOMAIN classes[c].constructors
      may == {None} \union {Instance(i) : i \in 1..MAX_STMTS}
  IN  /\ InMain
      /\ IsClass(c)
      /\ ReadStatement
      /\ \/ /\ ok
            /\ code' = WriteConstructor(LiteralArguments(code, argc), c, argc)
            /\ scope' = DefineLocal(s)
            /\ lex' = AddLexVariable(Declaration(id, VariableTag, may))
            /\ expect' = Starting(expect)
            /\ UnchangedWith(<<fns, symtable, ctl, classes, current>>)
         \/ /\ ~ok
            /\ Refuse

(* id.m(...); *)
ObjectCall(id, m, argc) ==
  /\ InMain
  /\ Known(id)
  /\ Statement(ExpressionStatement(
       WriteMethod(LiteralArguments(WriteGetMember(code, id), argc), m, argc),
       ExpectMember(Starting(expect), id)))

(* print(id.f); *)
PropertyOutput(id, f) ==
  /\ InMain
  /\ Known(id)
  /\ LET c == WriteGetMember(code, id)
     IN  Statement(ExpressionStatement(
           WriteNativeCall(WriteConstant(c, "GET_FIELD", f), "print", 1),
           ExpectMember([Starting(expect) EXCEPT
                           !.reads = Noted(@, c.size, FieldMayHold(f))], id)))

(* id.f = literal; *)
PropertyAssign(id, f) ==
  /\ InMain
  /\ Known(id)
  /\ Statement(ExpressionStatement(
       WriteConstant(WriteGetMember(WriteNumber(code, FieldTag(f)), id), "SET_FIELD", f),
       Starting(expect)))

OpenMain == stmts = CLASS_STMTS /\ Statement(OpenFunction("main", 0))

CloseMain == Statement(CloseFunction)

EndOfProgram == ctl = <<>> /\ Statement(EndOfInput)

Objects == VarIds \ Range(ParamIds)

ParseMembers ==
  \/ \E c \in ClassIds : OpenClass(c)
  \/ \E id \in FieldIds : Field(id)
  \/ \E n \in Argcs : OpenConstructor(n)
  \/ CloseConstructor
  \/ \E m \in MethodIds, n \in Argcs : OpenMethod(m, n)
  \/ CloseMethod
  \/ CloseClass
  \/ \E id \in Objects : MemberLocal(id)
  \/ \E id \in VarIds : MemberOutput(id)
  \/ \E id \in VarIds : MemberAssign(id)
  \/ \E m \in MethodIds, n \in Argcs : ThisCall(m, n)
  \/ MemberReturn
  \/ \E id \in Objects, c \in ClassIds, n \in Argcs : NewObject(id, c, n)
  \/ \E id \in Objects, m \in MethodIds, n \in Argcs : ObjectCall(id, m, n)
  \/ \E id \in Objects, f \in FieldIds : PropertyOutput(id, f)
  \/ \E id \in Objects, f \in FieldIds : PropertyAssign(id, f)
  \/ OpenMain
  \/ CloseMain
  \/ EndOfProgram

-----------------------------------------------------------------------------
(* Opcodes *)

(* extract_instance looks below argc values. *)
Extracted(m, argc) ==
  IF m.sp - argc - 1 \in Slots THEN m.stack[m.sp - argc - 1] ELSE Value("outside", 0)

ClassOf(val) == classes[heap[val.v].class]

HasField(val, f) == f \in Range(ClassOf(val).fields)

Slot(val, f) == CHOOSE k \in DOMAIN ClassOf(val).fields : ClassOf(val).fields[k] = f

OP_INSTANCE ==
  /\ AtOpcode("INSTANCE")
  /\ heap' = Append(heap, [class |-> Operand,
                           data  |-> [k \in DOMAIN classes[Operand].fields |-> Uninit]])
  /\ vm' = Push(Constant, Instance(Len(heap) + 1))
  /\ Unchanged

OP_SET_FIELD ==
  /\ AtOpcode("SET_FIELD")
  /\ LET inst == Extracted(vm, 0)
         m1   == [Constant EXCEPT !.sp = @ - 1]
         val  == Top(m1)
         m2   == Drop(m1)
         ok   == IsInstance(inst) /\ HasField(inst, Operand)
     IN  /\ vm' = CASE ~IsInstance(inst) -> Stop(Constant, "runtime_error")
                    [] IsInstance(inst) /\ ~Running(m2) -> m2
                    [] OTHER -> IF ok THEN Push(m2, val) ELSE Stop(m2, "runtime_error")
         /\ heap' = IF ok /\ Running(m2)
                    THEN [heap EXCEPT ![inst.v].data[Slot(inst, Operand)] = val]
                    ELSE heap
  /\ Unchanged

FieldValue(inst, f) == heap[inst.v].data[Slot(inst, f)]

OP_GET_FIELD ==
  /\ AtOpcode("GET_FIELD")
  /\ LET inst == Extracted(vm, 0)
     IN  vm' = IF IsInstance(inst) /\ HasField(inst, Operand)
               THEN Push([Constant EXCEPT !.sp = @ - 1], FieldValue(inst, Operand))
               ELSE Stop(Constant, "runtime_error")
  /\ Unchanged
  /\ UNCHANGED heap

(* The method is looked up in the class of the instance, and its argument  *)
(* count compared, when the call is executed.                              *)
OP_METHOD ==
  /\ AtOpcode("METHOD")
  /\ LET argc == Top(vm).v
         m    == Drop(Constant)
         inst == Extracted(m, argc)
         fits == /\ IsInstance(inst)
                 /\ Operand \in DOMAIN ClassOf(inst).methods
                 /\ fns[ClassOf(inst).methods[Operand]].argc = argc
     IN  vm' = CASE ~Running(m) -> m
                 [] OTHER -> IF fits THEN PerformCall(m, ClassOf(inst).methods[Operand])
                             ELSE Stop(m, "runtime_error")
  /\ Unchanged
  /\ UNCHANGED heap

ExecuteMembers ==
  \/ Execute /\ UNCHANGED heap
  \/ OP_INSTANCE
  \/ OP_SET_FIELD
  \/ OP_GET_FIELD
  \/ OP_METHOD

MembersInit == /\ EnmaInit
               /\ classes = [c \in {} |-> NewClass]
               /\ current = NoClass
               /\ heap = <<>>

MembersNext ==
  \/ ParseMembers
  \/ Start /\ UNCHANGED memberVars
  \/ ExecuteMembers /\ UNCHANGED <<parserVars, classes, current>>
  \/ Exited /\ UNCHANGED memberVars

MembersSpec == MembersInit /\ [][MembersNext]_allVars

-----------------------------------------------------------------------------
(* Properties *)

ReadsField == Running(vm) /\ Instruction.op = "GET_FIELD"

(* A name yields a value stored for what it lexically means in the class   *)
(* body: a field's own values and no other's, an argument of this call, a  *)
(* local of this activation - the slots counted by scope.c, the words of   *)
(* the method's frame and the table of fields agree.                       *)
ReadsSeeTheirMember ==
  Running(vm) /\ vm.ip \in DOMAIN expect.reads =>
    LET inst == Extracted(vm, 0)
    IN  IF Instruction.op = "GET_FIELD"
        THEN IsInstance(inst) /\ HasField(inst, Operand)
               => FieldValue(inst, Operand) \in expect.reads[vm.ip]
        ELSE ReadValue \in expect.reads[vm.ip]

(* The function whose code offset o belongs to. *)
BodyAt(o) ==
  CHOOSE i \in DOMAIN fns : /\ fns[i].entry <= o
                            /\ \A j \in DOMAIN fns : fns[j].entry <= o =>
                                 fns[j].entry <= fns[i].entry

(* Where a class body names a field, the instance it is taken from is      *)
(* `this` of the activation: in a method the receiver the call was made    *)
(* on, below the arguments, and an instance of the class the body belongs  *)
(* to; in a constructor a new instance that no caller holds yet.  So the   *)
(* errors of OP_GET_FIELD and OP_SET_FIELD are never met there.            *)
FieldsBelongToThis ==
  Running(vm) /\ Instruction.op \in {"GET_FIELD", "SET_FIELD"} =>
    LET i == BodyAt(vm.ip)
    IN  \A c \in DOMAIN classes : i \in Methods(c) \union Constructors(c) =>
          /\ IsInstance(Top(vm))
          /\ heap[Top(vm).v].class = c
          /\ i \in Methods(c) => Top(vm) = vm.stack[vm.bp - 3 - fns[i].argc]
          /\ i \in Constructors(c) => \A k \in 0..(vm.bp - 1) : vm.stack[k] # Top(vm)
=============================================================================
