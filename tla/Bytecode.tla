------------------------------ MODULE Bytecode ------------------------------
(***************************************************************************)
(* What the compiler hands to the virtual machine: the code buffer of      *)
(* bytecode.c, the values of lang_types.h, the function objects and the    *)
(* symbol table.  Compiler and VM both extend this module.                 *)
(*                                                                         *)
(* Code is a function from the byte offset of each instruction to the      *)
(* instruction, together with the size of the buffer.  An opcode is one    *)
(* byte and an operand sizeof(int) bytes, so the jump arithmetic of the    *)
(* parser is kept byte for byte; an ip that is not the offset of an        *)
(* instruction would decode the middle of an operand.  The _data section   *)
(* is folded into the operand: what an operand designates is written in    *)
(* the instruction itself.                                                 *)
(***************************************************************************)
EXTENDS Integers, Sequences

INT_SIZE == 4

(* The placeholder -(int)sizeof(int) a jump carries until it is patched:   *)
(* such a jump would land on its own operand.                              *)
PLACEHOLDER == -INT_SIZE

NoOperand == 0

EmptyCode == [ins |-> [o \in {} |-> NoOperand], size |-> 0]

AddInstruction(c, op, arg, bytes) ==
  [ins  |-> [o \in DOMAIN c.ins \union {c.size} |->
               IF o = c.size THEN [op |-> op, arg |-> arg] ELSE c.ins[o]],
   size |-> c.size + bytes]

(* bcchunk_write_simple_op alone. *)
WriteOp(c, op) == AddInstruction(c, op, NoOperand, 1)

(* bcchunk_write_simple_op followed by bcchunk_write_constant or           *)
(* bcchunk_write_value.                                                    *)
WriteConstant(c, op, arg) == AddInstruction(c, op, arg, 1 + INT_SIZE)

(* Offset of the operand of an instruction about to be written: what       *)
(* bcchunk_get_codesize returns between the opcode and the operand.        *)
OperandOffset(c) == c.size + 1

(* bcchunk_rewrite_constant *)
RewriteConstant(c, off, num) == [c EXCEPT !.ins[off - 1].arg = num]

(* Seeded bug: the distance is not counted from behind the operand. *)
PatchFromOperand(c, off) == RewriteConstant(c, off, c.size - off)

(* UPDATE_JUMP_LENGTH, UPDATE_ENDJUMP_LENGTH: jump to the end of the code. *)
PatchToHere(c, off) == RewriteConstant(c, off, c.size - off - INT_SIZE)

(* Seeded bug: the distance is not counted from behind the operand. *)
WriteJumpBackFromOperand(c, target) ==
  WriteConstant(c, "JUMP", target - OperandOffset(c))

(* An OP_JUMP back to an offset already written. *)
WriteJumpBack(c, target) ==
  WriteConstant(c, "JUMP", target - (OperandOffset(c) + INT_SIZE))

-----------------------------------------------------------------------------
(* Values.  A boolean is 0 or 1, a function value is an index into fns.    *)

Value(t, v)  == [t |-> t, v |-> v]
None         == Value("none", 0)
Number(n)    == Value("number", n)
Boolean(b)   == Value("boolean", b)
Function(i)  == Value("function", i)
Native(name) == Value("native", name)

IsNone(val)     == val.t = "none"
IsNumber(val)   == val.t = "number"
IsBoolean(val)  == val.t = "boolean"
IsFunction(val) == val.t = "function"

(* A number after an increment or a decrement: numbers are the tags of the *)
(* variables they were stored for, and -tag stands for any number a        *)
(* variable came to from there.                                            *)
Stepped(val) == [val EXCEPT !.v = IF @ > 0 THEN -@ ELSE @]

(* Entry offset of a function that is declared but not defined. *)
NoEntry == -1

VARIABLES code,       \* the _code chunk
          fns,        \* function objects, in the order of mk_objfunc
          symtable,   \* identifier -> value
          scope       \* _scope of scope.c, which the machine reads too

programVars == <<code, fns, symtable, scope>>
=============================================================================
