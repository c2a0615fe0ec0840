--------------------------------- MODULE VM ---------------------------------
(***************************************************************************)
(* The virtual machine of vm.c: vm_execute and one action per opcode of    *)
(* interpret().  The stack is an array that is never cleared, so a slot    *)
(* above sp keeps what was last stored there; pops through OP_POP, OP_POPN *)
(* and OP_CLARGS are not checked in a release build and may take sp below  *)
(* the array.                                                              *)
(*                                                                         *)
(* A frame is: arguments (the first nearest), return ip, old bp, and from  *)
(* bp on the locals and temporaries.  ip, sp and bp are offsets into the   *)
(* code and the stack.                                                     *)
(***************************************************************************)
EXTENDS Bytecode, Scope

CONSTANT STACK_SIZE

ASSUME StackAssumption == STACK_SIZE \in Nat \ {0}

VARIABLE vm   \* ip, sp, bp, stack, and how the execution stands

Slots == 0..(STACK_SIZE - 1)

Machine == [ip |-> 0, sp |-> 0, bp |-> 0,
            stack |-> [i \in Slots |-> None], status |-> "idle"]

(* Every way an execution ends: normally, by a message to the user, by the *)
(* fatal errors of stack_push and stack_pop, or in behaviour C leaves      *)
(* undefined, an access outside the stack or a non-number used as one.     *)
Stop(m, status) == [m EXCEPT !.status = status]

Running(m) == m.status = "running"

(* Seeded bug: a value that does not fit is dropped without an error. *)
PushIfItFits(m, val) ==
  IF Running(m) /\ m.sp < STACK_SIZE
  THEN [m EXCEPT !.stack[m.sp] = val, !.sp = @ + 1]
  ELSE m

(* stack_push *)
Push(m, val) ==
  CASE ~Running(m) -> m
    [] Running(m) /\ m.sp >= STACK_SIZE -> Stop(m, "stack_overflow")
    [] Running(m) /\ m.sp < 0           -> Stop(m, "undefined")
    [] OTHER -> [m EXCEPT !.stack[m.sp] = val, !.sp = @ + 1]

(* stack_pop: the machine without its top, and the top. *)
Drop(m) ==
  CASE ~Running(m)              -> m
    [] Running(m) /\ m.sp <= 0   -> Stop(m, "stack_smashed")
    [] OTHER                    -> [m EXCEPT !.sp = @ - 1]

Top(m) == IF m.sp - 1 \in Slots THEN m.stack[m.sp - 1] ELSE None

Local(m, idx) == m.bp + idx

(* vm.bp[idx] read and written *)
PushLocal(m, idx) ==
  IF Local(m, idx) \in Slots THEN Push(m, m.stack[Local(m, idx)])
  ELSE Stop(m, "undefined")

StoreLocal(m, idx, val) ==
  IF Local(m, idx) \in Slots THEN [m EXCEPT !.stack[Local(m, idx)] = val]
  ELSE Stop(m, "undefined")

(* A stack index or a code offset read back from the stack. *)
IsIndex(val, limit) == IsNumber(val) /\ val.v \in 0..limit

-----------------------------------------------------------------------------
(* Instructions *)

Instruction == code.ins[vm.ip]
Operand     == Instruction.arg

AtOpcode(op) == /\ Running(vm)
                /\ vm.ip \in DOMAIN code.ins
                /\ Instruction.op = op

(* The machine after read_byte, and after read_constant too. *)
Simple == [vm EXCEPT !.ip = @ + 1]
Constant == [vm EXCEPT !.ip = @ + 1 + INT_SIZE]

Unchanged == UNCHANGED programVars

(* epilogue and the rest of OP_RETURN; the entry function's frame starts   *)
(* at the bottom of the stack.                                             *)
OP_RETURN ==
  /\ AtOpcode("RETURN")
  /\ LET result == Top(vm)
         m1     == [Drop(Simple) EXCEPT !.sp = vm.bp]
         oldBp  == Top(m1)
         m2     == Drop(m1)
         retIp  == Top(m2)
     IN  vm' = CASE vm.bp = 0 -> Stop(Simple, "done")
                 [] vm.bp # 0 /\ ~Running(Drop(Simple)) -> Drop(Simple)
                 [] vm.bp = 1 /\ Running(Drop(Simple)) -> Drop(m2)
                 [] OTHER ->
                      IF IsIndex(oldBp, STACK_SIZE) /\ IsIndex(retIp, code.size)
                      THEN Push([Drop(m2) EXCEPT !.bp = oldBp.v, !.ip = retIp.v], result)
                      ELSE Stop(m1, "undefined")
  /\ Unchanged

OP_POP ==
  /\ AtOpcode("POP")
  /\ vm' = [Simple EXCEPT !.sp = @ - 1]
  /\ Unchanged

OP_POPN ==
  /\ AtOpcode("POPN")
  /\ vm' = [Constant EXCEPT !.sp = @ - Operand]
  /\ Unchanged

(* The arguments go, the result stays. *)
OP_CLARGS ==
  /\ AtOpcode("CLARGS")
  /\ LET m == Drop(Constant)
     IN  vm' = Push([m EXCEPT !.sp = @ - Operand], Top(vm))
  /\ Unchanged

OP_NUMBER ==
  /\ AtOpcode("NUMBER")
  /\ vm' = Push(Constant, Number(Operand))
  /\ Unchanged

OP_BOOLEAN ==
  /\ AtOpcode("BOOLEAN")
  /\ vm' = Push(Constant, Boolean(Operand))
  /\ Unchanged

OP_NONE ==
  /\ AtOpcode("NONE")
  /\ vm' = Push(Simple, None)
  /\ Unchanged

(* get_variable_value: the name is resolved in the scope the parser left   *)
(* behind before the symbol table is asked.                                *)
OP_GET_GLOBAL ==
  /\ AtOpcode("GET_GLOBAL")
  /\ LET idx == ResolveLocal(scope, Operand)
         val == symtable[Operand]
     IN  vm' = CASE idx # -1    -> PushLocal(Constant, idx)
                 [] idx = -1 /\ IsNone(val) -> Stop(Constant, "runtime_error")
                 [] OTHER       -> Push(Constant, val)
  /\ Unchanged

(* set_variable_value *)
OP_SET_GLOBAL ==
  /\ AtOpcode("SET_GLOBAL")
  /\ LET idx   == ResolveLocal(scope, Operand)
         val   == Top(vm)
         m     == Drop(Constant)
         known == ~IsNone(symtable[Operand])
     IN  /\ vm' = CASE ~Running(m)           -> m
                    [] Running(m) /\ idx # -1 -> Push(StoreLocal(m, idx, val), val)
                    [] OTHER -> IF known THEN Push(m, val)
                                ELSE Stop(m, "runtime_error")
         /\ symtable' = IF Running(m) /\ idx = -1 /\ known
                        THEN [symtable EXCEPT ![Operand] = val]
                        ELSE symtable
  /\ UNCHANGED <<code, fns, scope>>

OP_GET_LOCAL ==
  /\ AtOpcode("GET_LOCAL")
  /\ vm' = PushLocal(Constant, Operand)
  /\ Unchanged

OP_SET_LOCAL ==
  /\ AtOpcode("SET_LOCAL")
  /\ LET m == Drop(Constant)
     IN  vm' = IF Running(m) THEN Push(StoreLocal(m, Operand, Top(vm)), Top(vm)) ELSE m
  /\ Unchanged

(* What the prefix opcodes push of a number, or the postfix ones.  The     *)
(* instruction stands for all four of them.                                *)
SteppedResults(old) == {old, Stepped(old)}

(* OP_{PREF,POST}{INCR,DECR}_LOCAL: the changed number goes back to where  *)
(* it was read.                                                            *)
OP_INCR_LOCAL ==
  /\ AtOpcode("INCR_LOCAL")
  /\ LET old == IF Local(vm, Operand) \in Slots THEN vm.stack[Local(vm, Operand)] ELSE None
         m   == StoreLocal(Constant, Operand, Stepped(old))
     IN  \E result \in SteppedResults(old) :
           vm' = IF Local(vm, Operand) \in Slots /\ ~IsNumber(old)
                 THEN Stop(Constant, "runtime_error")
                 ELSE Push(m, result)
  /\ Unchanged

(* OP_{PREF,POST}{INCR,DECR}_GLOBAL *)
OP_INCR_GLOBAL ==
  /\ AtOpcode("INCR_GLOBAL")
  /\ LET old == symtable[Operand]
     IN  \/ /\ IsNumber(old)
            /\ symtable' = [symtable EXCEPT ![Operand] = Stepped(old)]
            /\ \E result \in SteppedResults(old) : vm' = Push(Constant, result)
         \/ /\ ~IsNumber(old)
            /\ vm' = Stop(Constant, "runtime_error")
            /\ UNCHANGED symtable
  /\ UNCHANGED <<code, fns, scope>>

OP_JUMP ==
  /\ AtOpcode("JUMP")
  /\ vm' = [Constant EXCEPT !.ip = @ + Operand]
  /\ Unchanged

OP_FJUMP ==
  /\ AtOpcode("FJUMP")
  /\ LET m == Drop(Constant)
     IN  vm' = CASE ~Running(m) -> m
                 [] Running(m) /\ ~IsBoolean(Top(vm)) -> Stop(m, "runtime_error")
                 [] OTHER -> IF Top(vm) = Boolean(0)
                             THEN [m EXCEPT !.ip = @ + Operand] ELSE m
  /\ Unchanged

(* perform_call and preamble *)
PerformCall(m, i) ==
  LET m1 == [Push(m, Number(m.ip)) EXCEPT !.ip = fns[i].entry]
      m2 == Push(m1, Number(m.bp))
  IN  IF fns[i].entry = NoEntry THEN Stop(m, "runtime_error")
      ELSE IF Running(m2) THEN [m2 EXCEPT !.bp = m2.sp] ELSE m2

OP_CALL ==
  /\ AtOpcode("CALL")
  /\ vm' = PerformCall(Constant, Operand)
  /\ Unchanged

(* A native takes its argc from the top and answers in place of it; the    *)
(* arguments stay below for OP_CLARGS.                                     *)
OP_NATIVE_CALL ==
  /\ AtOpcode("NATIVE_CALL")
  /\ \E answer \in IF Operand = "predicate" THEN {Boolean(0), Boolean(1)} ELSE {None} :
       vm' = Push(Drop(Constant), answer)
  /\ Unchanged

Execute ==
  \/ OP_RETURN \/ OP_POP \/ OP_POPN \/ OP_CLARGS
  \/ OP_NUMBER \/ OP_BOOLEAN \/ OP_NONE
  \/ OP_GET_GLOBAL \/ OP_SET_GLOBAL \/ OP_GET_LOCAL \/ OP_SET_LOCAL
  \/ OP_INCR_LOCAL \/ OP_INCR_GLOBAL
  \/ OP_JUMP \/ OP_FJUMP
  \/ OP_CALL \/ OP_NATIVE_CALL

(* vm_execute: the entry function is looked up and its body entered without *)
(* a frame, bp and sp at the bottom of the stack.                           *)
ExecuteMain(entryFunction) ==
  /\ vm.status = "idle"
  /\ LET val == symtable[entryFunction]
         f   == fns[val.v]
     IN  vm' = IF IsFunction(val) /\ f.entry # NoEntry /\ f.argc = 0
               THEN [vm EXCEPT !.ip = f.entry, !.status = "running"]
               ELSE Stop(vm, "user_error")
  /\ Unchanged
=============================================================================
