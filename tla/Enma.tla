-------------------------------- MODULE Enma --------------------------------
(***************************************************************************)
(* The interpreter from end to end (main.c, vm_interpret): the program is  *)
(* compiled, then executed.  The properties relate what the machine does   *)
(* at run time to what the source means.                                   *)
(***************************************************************************)
EXTENDS Compiler, VM

parserVars == <<cycles, ctl, phase, stmts, lex, expect>>

vars == <<code, fns, symtable, scope, cycles, ctl, phase, stmts, lex, expect, vm>>

EnmaInit == Init /\ vm = Machine

Compile == Parse /\ UNCHANGED vm

Start == /\ phase = "parsed"
         /\ ExecuteMain("main")
         /\ UNCHANGED parserVars

Run == Execute /\ UNCHANGED parserVars

(* The process has exited. *)
Halted == \/ phase = "compile_error"
          \/ vm.status \notin {"idle", "running"}

Exited == Halted /\ UNCHANGED vars

Next == Compile \/ Start \/ Run \/ Exited

(* The machine is a loop in one process: it executes as long as it can.    *)
(* Nothing is assumed of the input, which may stop arriving.               *)
Spec == EnmaInit /\ [][Next]_vars /\ WF_vars(Start) /\ WF_vars(Run)

-----------------------------------------------------------------------------
(* Properties *)

TypeOK ==
  /\ DOMAIN code.ins \subseteq 0..code.size
  /\ \A i \in DOMAIN fns : fns[i].entry \in {NoEntry} \union (0..code.size)
  /\ phase \in {"parsing", "parsed", "compile_error"}
  /\ vm.ip \in 0..code.size
  /\ vm.sp <= STACK_SIZE
  /\ vm.bp \in 0..STACK_SIZE
  /\ DOMAIN vm.stack = Slots

(* Control never leaves the instructions the compiler wrote: no jump, call *)
(* or return lands inside an operand or behind the code.                   *)
FetchesInstructions == Running(vm) => vm.ip \in DOMAIN code.ins

(* Wherever control arrives, by falling through, jumping or returning, the *)
(* stack holds exactly the variables alive there and the temporaries of    *)
(* the expression under way: scope.c's count of locals, which decides both *)
(* their slots and the operands of OP_POP and OP_POPN, is the height of    *)
(* the run-time stack.                                                     *)
HeightsAgree ==
  Running(vm) /\ vm.ip \in DOMAIN expect.heights =>
    vm.sp - vm.bp = expect.heights[vm.ip]

(* The value an instruction is about to read. *)
ReadValue ==
  IF Instruction.op \in {"GET_GLOBAL", "INCR_GLOBAL"} THEN symtable[Operand]
  ELSE IF Local(vm, Operand) \in Slots THEN vm.stack[Local(vm, Operand)]
  ELSE Value("outside", 0)

(* A name yields a value stored for the variable it lexically means: the   *)
(* slot or the global chosen at compile time is that variable's at run     *)
(* time, in every iteration of a loop, in every activation of a function.  *)
ReadsSeeTheirVariable ==
  Running(vm) /\ vm.ip \in DOMAIN expect.reads =>
    ReadValue \in expect.reads[vm.ip]

ReturnsBehindCall(val) ==
  /\ IsIndex(val, code.size)
  /\ val.v - 1 - INT_SIZE \in DOMAIN code.ins
  /\ code.ins[val.v - 1 - INT_SIZE].op = "CALL"

(* From bp down to the frame of main, every frame holds the address behind *)
(* the call that made it and the bp of the frame below, and lies above it. *)
FrameChainIntact ==
  LET intact[b \in 0..STACK_SIZE] ==
        \/ b = 0
        \/ /\ b >= 2
           /\ IsIndex(vm.stack[b - 1], b - 2)
           /\ ReturnsBehindCall(vm.stack[b - 2])
           /\ intact[vm.stack[b - 1].v]
  IN  Running(vm) => vm.bp <= vm.sp /\ intact[vm.bp]

(* The call that made the running frame. *)
CallOf(b) == code.ins[vm.stack[b - 2].v - 1 - INT_SIZE].arg

(* No instruction of a function writes into the frames below its own: the  *)
(* caller's locals and temporaries stay as they were until it resumes.     *)
CallersFramesUntouched ==
  [][Running(vm) /\ Running(vm') /\ vm.bp > 0 /\ vm'.bp >= vm.bp =>
       \A i \in 0..(vm.bp - 3 - fns[CallOf(vm.bp)].argc) :
         vm'.stack[i] = vm.stack[i]]_vars

(* The compiler leaves no scope open, so the name resolution of            *)
(* OP_GET_GLOBAL and OP_SET_GLOBAL finds no local (vm.c:494, 504).         *)
GlobalsStayGlobal ==
  phase = "parsed" =>
    \A id \in VarIds \union Range(ParamIds) : ResolveLocal(scope, id) = -1

JumpTarget(o) == o + 1 + INT_SIZE + code.ins[o].arg

(* Once a body is closed, each of its jumps has been patched and leads to  *)
(* an instruction of the same function.  The machine changes no code, so   *)
(* it is enough to look until it starts.                                   *)
JumpsStayInFunction ==
  ctl = <<>> /\ vm.status = "idle" =>
    \A o \in DOMAIN code.ins : code.ins[o].op \in {"JUMP", "FJUMP"} =>
      /\ JumpTarget(o) \in DOMAIN code.ins
      /\ \A i \in DOMAIN fns : fns[i].entry # NoEntry =>
           (fns[i].entry <= o <=> fns[i].entry <= JumpTarget(o))

(* A call goes to the function object its name stands for in the end, also *)
(* when it was compiled between the declaration and the definition.        *)
CallsReachTheirFunction ==
  phase = "parsed" =>
    \A o \in DOMAIN code.ins : code.ins[o].op = "CALL" =>
      symtable[fns[code.ins[o].arg].name] = Function(code.ins[o].arg)

(* The assertion of a debug build behind OP_POP (vm.c:139-140): popping    *)
(* takes away a value that is there, and sp stays in the array.            *)
PopsFindAValue == [][OP_POP => vm'.sp >= 0]_vars

(* A program without loops comes to an end; unbounded recursion ends in    *)
(* the stack overflow error.                                               *)
ProgramsHalt == phase = "parsed" ~> Halted
=============================================================================
