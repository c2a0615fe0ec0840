------------------------------ MODULE EnmaProofs ------------------------------
(***************************************************************************)
(* Proofs about the interpreter from end to end, for every program the     *)
(* actions of module Compiler can read: any number of statements, any      *)
(* nesting, any names and any mix of forms.                                *)
(***************************************************************************)
EXTENDS Enma, SequenceTheorems, WellFoundedInduction, TLAPS

-----------------------------------------------------------------------------
(* Code: instructions lie one behind the other *)

OneByte == {"POP", "NONE", "RETURN"}

Bytes(op) == IF op \in OneByte THEN 1 ELSE 1 + INT_SIZE

(* Where an instruction begins, or the next one will. *)
Ends(c) == DOMAIN c.ins \union {c.size}

Jumps == {"JUMP", "FJUMP"}

Landing(c, o) == o + 1 + INT_SIZE + c.ins[o].arg

(* Operands the machine counts with, and functions that exist. *)
Checked(x) ==
  /\ x = [op |-> x.op, arg |-> x.arg]
  /\ x.op \in Jumps => x.arg \in Int
  /\ x.op \in {"POPN", "CLARGS"} => x.arg \in Nat
  /\ x.op = "CALL" => x.arg \in DOMAIN fns
  /\ x.op \in {"SET_GLOBAL", "INCR_GLOBAL"} => x.arg \in VarIds

SoundCode(c) ==
  /\ c = [ins |-> c.ins, size |-> c.size]
  /\ c.size \in Nat
  /\ DOMAIN c.ins \subseteq 0..(c.size - 1)
  /\ \A o \in DOMAIN c.ins : Checked(c.ins[o]) /\ o + Bytes(c.ins[o].op) \in Ends(c)

(* Of two offsets, the function each is in is the same. *)
SameSide(o, p) == \A i \in DOMAIN fns : fns[i].entry <= o <=> fns[i].entry <= p

(* The code up to the entry of the function being read is finished; behind *)
(* it a jump is one of the pending ones or lands within this function.     *)
JumpsLand(c, base, pending) ==
  \A o \in DOMAIN c.ins : c.ins[o].op \in Jumps =>
    \/ o < base /\ Landing(c, o) \in DOMAIN c.ins /\ SameSide(o, Landing(c, o))
    \/ o >= base /\ (o + 1 \in pending \/ (Landing(c, o) \in Ends(c) /\ Landing(c, o) >= base))

PendingAreJumps(c, base, pending) ==
  \A p \in pending : /\ p \in Nat /\ p - 1 >= base
                     /\ p - 1 \in DOMAIN c.ins /\ c.ins[p - 1].op \in Jumps

CodeOk(c, base, pending) ==
  /\ SoundCode(c)
  /\ base \in Nat /\ base <= c.size /\ base \in Ends(c)
  /\ JumpsLand(c, base, pending)
  /\ PendingAreJumps(c, base, pending)

-----------------------------------------------------------------------------
(* The parser: its C stack, its loops and the jumps still to be patched *)

Branching == {"if", "else", "while", "for"}
Looping   == {"while", "for"}

Record == [kind : {"function", "block"} \union Branching, start : Nat, off : Nat,
           post : {NoPost} \union VarIds]

CycleHead == [start : Nat, infos : SUBSET [type : {"break", "continue"}, off : Nat]]

Pending(ct, cy) ==
  {p \in Nat : \/ \E d \in DOMAIN ct : ct[d].kind \in Branching /\ ct[d].off = p
               \/ \E k \in DOMAIN cy : \E info \in cy[k].infos : info.off = p}

(* The C stack holds as many loops as there are cycles: n[d] of them among *)
(* the d outermost constructs.                                             *)
LoopsMatch(ct, cy) ==
  \E n \in [0..Len(ct) -> Nat] :
    /\ n[0] = 0 /\ n[Len(ct)] = Len(cy)
    /\ \A d \in 1..Len(ct) :
         n[d] = n[d - 1] + (IF ct[Len(ct) + 1 - d].kind \in Looping THEN 1 ELSE 0)

(* Where the code of the function being read begins. *)
Base == IF ctl = <<>> THEN code.size ELSE fns[CurrentFunction].entry

ParserOk(ct, cy, c, base) ==
  /\ ct \in Seq(Record) /\ cy \in Seq(CycleHead)
  /\ \A d \in DOMAIN ct : ct[d].kind = "function" <=> d = Len(ct)
  /\ LoopsMatch(ct, cy)
  /\ \A d \in DOMAIN ct : ct[d].kind \in Looping => ct[d].start \in Ends(c) /\ ct[d].start >= base
  /\ \A k \in DOMAIN cy : cy[k].start \in Ends(c) /\ cy[k].start >= base

FunctionObject == [name : FuncIds, argc : Nat, entry : {NoEntry} \union Nat]

FunctionsOk ==
  /\ fns \in Seq(FunctionObject)
  /\ \A i \in DOMAIN fns : fns[i].entry <= Base
  /\ ctl # <<>> => CurrentFunction \in DOMAIN fns /\ fns[CurrentFunction].entry # NoEntry

CompilerInv == /\ FunctionsOk
               /\ ParserOk(ctl, cycles, code, Base)
               /\ CodeOk(code, Base, Pending(ctl, cycles))

-----------------------------------------------------------------------------
(* Names *)

Reaches(i) == symtable[fns[i].name] = Function(i)

CallsReach(c) == \A o \in DOMAIN c.ins : c.ins[o].op = "CALL" => Reaches(c.ins[o].arg)

(* Until the machine starts, a function's name stands for an object that   *)
(* bears it.                                                               *)
Symbols == /\ DOMAIN symtable = VarIds \union FuncIds
           /\ \A f \in FuncIds : IsFunction(symtable[f]) =>
                \E i \in DOMAIN fns : symtable[f] = Function(i) /\ fns[i].name = f

NamesInv == /\ DOMAIN symtable = VarIds \union FuncIds
            /\ vm.status = "idle" => Symbols /\ CallsReach(code)

-----------------------------------------------------------------------------
(* Scope and machine *)

Locals == [id : VarIds, depth : Nat \ {0}]

ScopeInv ==
  /\ scope = [locals |-> scope.locals, args |-> scope.args, depth |-> scope.depth]
  /\ scope.depth = Len(ctl)
  /\ scope.locals \in Seq(Locals)
  /\ ctl = <<>> => scope.locals = <<>> /\ scope.args = <<>>

PhaseInv == /\ phase \in {"parsing", "parsed", "compile_error"}
            /\ phase = "parsed" => ctl = <<>>
            /\ vm.status # "idle" => phase = "parsed"

Frame(m) == /\ m = [ip |-> m.ip, sp |-> m.sp, bp |-> m.bp, stack |-> m.stack,
                    status |-> m.status]
            /\ m.ip \in 0..code.size
            /\ m.sp \in Int /\ m.sp <= STACK_SIZE
            /\ m.bp \in 0..STACK_SIZE
            /\ DOMAIN m.stack = Slots

MachineInv == Frame(vm) /\ (vm.status = "idle" => vm.ip = 0)

-----------------------------------------------------------------------------
(* Writing code *)

(* d is c with instructions behind it. *)
Grows(c, d) ==
  /\ SoundCode(d)
  /\ c.size <= d.size /\ c.size \in Ends(d)
  /\ \A o \in DOMAIN c.ins : o \in DOMAIN d.ins /\ d.ins[o] = c.ins[o]
  /\ \A o \in DOMAIN d.ins : o \in DOMAIN c.ins \/ o >= c.size

(* What was written contains no jump, and calls only what names reach.     *)
Plain(x) == x.op \notin Jumps /\ (x.op = "CALL" => Reaches(x.arg))

Straight(c, d) == \A o \in DOMAIN d.ins : o \in DOMAIN c.ins \/ Plain(d.ins[o])

Appends(c, d) == Grows(c, d) /\ Straight(c, d)

(* An instruction of the right width is put where the size said.           *)
LEMMA InstructionAdded ==
  ASSUME NEW c, SoundCode(c), NEW op, NEW arg, Checked([op |-> op, arg |-> arg]),
         NEW d, d = AddInstruction(c, op, arg, Bytes(op))
  PROVE  /\ Grows(c, d)
         /\ d.size = c.size + Bytes(op)
         /\ DOMAIN d.ins = DOMAIN c.ins \union {c.size}
         /\ d.ins[c.size] = [op |-> op, arg |-> arg]
<1>1. /\ d.size = c.size + Bytes(op)
      /\ DOMAIN d.ins = DOMAIN c.ins \union {c.size}
      /\ d.ins[c.size] = [op |-> op, arg |-> arg]
      /\ \A o \in DOMAIN c.ins : o # c.size => d.ins[o] = c.ins[o]
      /\ d = [ins |-> d.ins, size |-> d.size]
  BY DEF AddInstruction
<1>2. Bytes(op) \in {1, 5} /\ c.size \in Nat
  BY DEF Bytes, INT_SIZE, SoundCode
<1>3. \A o \in DOMAIN c.ins : o \in Int /\ 0 <= o /\ o < c.size
  BY <1>2 DEF SoundCode
<1>4. \A o \in DOMAIN c.ins : o \in DOMAIN d.ins /\ d.ins[o] = c.ins[o]
  BY <1>1, <1>2, <1>3
<1>5. d.size \in Nat /\ DOMAIN d.ins \subseteq 0..(d.size - 1)
  BY <1>1, <1>2, <1>3
<1>6. Ends(c) \subseteq Ends(d) /\ d.size \in Ends(d)
  BY <1>1 DEF Ends
<1>7. ASSUME NEW o \in DOMAIN d.ins
      PROVE  Checked(d.ins[o]) /\ o + Bytes(d.ins[o].op) \in Ends(d)
  <2>1. CASE o = c.size
    BY <1>1, <1>6, <2>1
  <2>2. CASE o \in DOMAIN c.ins
    BY <1>4, <1>6, <2>2 DEF SoundCode
  <2> QED  BY <1>1, <2>1, <2>2
<1>8. SoundCode(d)
  BY <1>1, <1>5, <1>7 DEF SoundCode
<1>9. c.size <= d.size /\ c.size \in Ends(d)
  BY <1>1, <1>2 DEF Ends
<1>10. \A o \in DOMAIN d.ins : o \in DOMAIN c.ins \/ o >= c.size
  BY <1>1, <1>2
<1> QED  BY <1>1, <1>4, <1>8, <1>9, <1>10 DEF Grows

(* Nothing written is code grown by nothing.                               *)
LEMMA AppendsNothing == ASSUME NEW c, SoundCode(c) PROVE Appends(c, c)
BY DEF Appends, Grows, Straight, SoundCode, Ends

(* One write behind another.                                               *)
LEMMA AppendsBehind ==
  ASSUME NEW c, NEW d, NEW e, SoundCode(c), Appends(c, d), Appends(d, e)
  PROVE  Appends(c, e)
<1>1. c.size \in Nat /\ d.size \in Nat /\ e.size \in Nat
  BY DEF Appends, Grows, SoundCode
<1>2. \A o \in DOMAIN e.ins : o \in Int
  BY <1>1 DEF Appends, Grows, SoundCode
<1>3. c.size <= e.size
  BY <1>1 DEF Appends, Grows
<1>4. c.size \in Ends(e)
  BY DEF Appends, Grows, Ends
<1>5. \A o \in DOMAIN c.ins : o \in DOMAIN e.ins /\ e.ins[o] = c.ins[o]
  BY DEF Appends, Grows
<1>6. \A o \in DOMAIN e.ins : o \in DOMAIN c.ins \/ o >= c.size
  BY <1>1, <1>2 DEF Appends, Grows
<1>7. Straight(c, e)
  BY DEF Appends, Grows, Straight
<1> QED  BY <1>3, <1>4, <1>5, <1>6, <1>7 DEF Appends, Grows

(* The one-byte instructions.                                              *)
LEMMA WriteOpAppends ==
  ASSUME NEW c, SoundCode(c), NEW op \in OneByte
  PROVE  Appends(c, WriteOp(c, op))
<1> DEFINE x == [op |-> op, arg |-> NoOperand]
           d == WriteOp(c, op)
<1>1. Checked(x) /\ Plain(x)
  BY DEF Checked, Plain, OneByte, Jumps
<1>2. d = AddInstruction(c, op, NoOperand, Bytes(op))
  BY DEF WriteOp, Bytes
<1> HIDE DEF d
<1>3. Grows(c, d) /\ DOMAIN d.ins = DOMAIN c.ins \union {c.size} /\ d.ins[c.size] = x
  BY <1>1, <1>2, InstructionAdded
<1> HIDE DEF x
<1>4. Appends(c, d)
  BY <1>1, <1>3 DEF Appends, Straight
<1> QED  BY <1>4 DEF d

(* An instruction with an operand, no jump.                                *)
LEMMA WriteConstantAppends ==
  ASSUME NEW c, SoundCode(c), NEW op, op \notin OneByte, NEW arg,
         Checked([op |-> op, arg |-> arg]), Plain([op |-> op, arg |-> arg])
  PROVE  Appends(c, WriteConstant(c, op, arg))
<1> DEFINE x == [op |-> op, arg |-> arg]
           d == WriteConstant(c, op, arg)
<1>1. d = AddInstruction(c, op, arg, Bytes(op))
  BY DEF WriteConstant, Bytes
<1> HIDE DEF d
<1>2. Grows(c, d) /\ DOMAIN d.ins = DOMAIN c.ins \union {c.size} /\ d.ins[c.size] = x
  BY <1>1, InstructionAdded
<1>3. Plain(x)
  OBVIOUS
<1> HIDE DEF x
<1>4. Appends(c, d)
  BY <1>2, <1>3 DEF Appends, Straight
<1> QED  BY <1>4 DEF d

(* Every nonempty set of numbers has a least one.                          *)
LEMMA LeastOne ==
  ASSUME NEW S, S \subseteq Nat, S # {}
  PROVE  \E m \in S : \A k \in S : m <= k
<1>1. PICK m \in S : \A k \in S : ~(<<k, m>> \in OpToRel(<, Nat))
  BY NatLessThanWellFounded, WFMin
<1>2. ASSUME NEW k \in S PROVE m <= k
  <2>1. k \in Nat /\ m \in Nat
    OBVIOUS
  <2>2. <<k, m>> \in OpToRel(<, Nat) <=> <<k, m>> \in Nat \X Nat /\ k < m
    BY DEF OpToRel
  <2>3. ~(k < m)
    BY <1>1, <2>1, <2>2, Zenon
  <2> QED BY <2>1, <2>3
<1> QED BY <1>2

-----------------------------------------------------------------------------
(* Expressions: none of them writes a jump *)

(* A number is pushed by one instruction.                                  *)
LEMMA WriteNumberAppends ==
  ASSUME NEW c, SoundCode(c), NEW n
  PROVE  Appends(c, WriteNumber(c, n))
<1>1. Checked([op |-> "NUMBER", arg |-> n]) /\ Plain([op |-> "NUMBER", arg |-> n])
  BY DEF Checked, Plain, Jumps
<1> QED  BY <1>1, WriteConstantAppends DEF WriteNumber, OneByte

(* An access is one instruction, on a local or a global.                   *)
LEMMA WriteAccessAppends ==
  ASSUME NEW c, SoundCode(c), NEW s, NEW id \in VarIds,
         NEW localOp \in {"GET_LOCAL", "SET_LOCAL", "INCR_LOCAL"},
         NEW globalOp \in {"GET_GLOBAL", "SET_GLOBAL", "INCR_GLOBAL"}
  PROVE  Appends(c, WriteAccess(c, s, id, localOp, globalOp))
<1> DEFINE idx == ResolveLocal(s, id)
           x == [op |-> localOp, arg |-> idx]
           y == [op |-> globalOp, arg |-> id]
<1>1. Checked(x) /\ Plain(x) /\ localOp \notin OneByte
  <2> HIDE DEF idx
  <2> QED  BY DEF Checked, Plain, Jumps, OneByte
<1>2. Checked(y) /\ Plain(y) /\ globalOp \notin OneByte
  BY DEF Checked, Plain, Jumps, OneByte
<1> HIDE DEF idx
<1>3. Appends(c, WriteConstant(c, localOp, idx))
  BY <1>1, WriteConstantAppends
<1>4. Appends(c, WriteConstant(c, globalOp, id))
  BY <1>2, WriteConstantAppends
<1> QED  BY <1>3, <1>4 DEF WriteAccess, idx

(* Reading, assigning and incrementing a variable.                         *)
LEMMA VariablesAppend ==
  ASSUME NEW c, SoundCode(c), NEW s, NEW id \in VarIds
  PROVE  /\ Appends(c, WriteGetVar(c, s, id))
         /\ Appends(c, WriteSetVar(c, s, id))
         /\ Appends(c, WriteIncrVar(c, s, id))
         /\ Appends(c, WriteAssignment(c, s, id))
<1>1. \A e : SoundCode(e) => /\ Appends(e, WriteGetVar(e, s, id))
                             /\ Appends(e, WriteSetVar(e, s, id))
                             /\ Appends(e, WriteIncrVar(e, s, id))
  BY WriteAccessAppends DEF WriteGetVar, WriteSetVar, WriteIncrVar
<1> DEFINE d == WriteNumber(c, TagOf(id))
<1>2. Appends(c, d)
  BY WriteNumberAppends
<1> HIDE DEF d
<1>3. Appends(d, WriteSetVar(d, s, id))
  BY <1>1, <1>2 DEF Appends, Grows
<1>4. Appends(c, WriteSetVar(d, s, id))
  BY <1>2, <1>3, AppendsBehind
<1>5. Appends(c, WriteAssignment(c, s, id))
  BY <1>4 DEF WriteAssignment, d
<1> QED  BY <1>1, <1>5

(* The arguments are cleared by one instruction or none.                   *)
LEMMA ClearArgsAppends ==
  ASSUME NEW c, SoundCode(c), NEW argc \in Nat
  PROVE  Appends(c, ClearArgs(c, argc))
<1>1. Checked([op |-> "CLARGS", arg |-> argc]) /\ Plain([op |-> "CLARGS", arg |-> argc])
  BY DEF Checked, Plain, Jumps
<1>2. Appends(c, WriteConstant(c, "CLARGS", argc))
  BY <1>1, WriteConstantAppends DEF OneByte
<1> QED  BY <1>2, AppendsNothing DEF ClearArgs

(* The locals are popped by one instruction or none.                       *)
LEMMA PopLocalsAppends ==
  ASSUME NEW c, SoundCode(c), NEW n \in Nat
  PROVE  Appends(c, PopLocals(c, n))
<1>1. Checked([op |-> "POPN", arg |-> n]) /\ Plain([op |-> "POPN", arg |-> n])
  BY DEF Checked, Plain, Jumps
<1>2. Appends(c, WriteConstant(c, "POPN", n))
  BY <1>1, WriteConstantAppends DEF OneByte
<1>3. Appends(c, WriteOp(c, "POP"))
  BY WriteOpAppends DEF OneByte
<1> QED  BY <1>2, <1>3, AppendsNothing DEF PopLocals

(* The call of a native function.                                          *)
LEMMA NativeCallAppends ==
  ASSUME NEW c, SoundCode(c), NEW name, NEW argc \in Nat
  PROVE  Appends(c, WriteNativeCall(c, name, argc))
<1> DEFINE d == WriteNumber(c, argc)
           e == WriteConstant(d, "NATIVE_CALL", name)
<1>1. Appends(c, d) /\ SoundCode(d)
  BY WriteNumberAppends DEF Appends, Grows
<1> HIDE DEF d
<1>2. /\ Checked([op |-> "NATIVE_CALL", arg |-> name])
      /\ Plain([op |-> "NATIVE_CALL", arg |-> name])
  BY DEF Checked, Plain, Jumps
<1>3. Appends(d, e) /\ SoundCode(e)
  BY <1>1, <1>2, WriteConstantAppends DEF Appends, Grows, OneByte
<1> HIDE DEF e
<1>4. Appends(e, ClearArgs(e, argc))
  BY <1>3, ClearArgsAppends
<1>5. Appends(c, e)
  BY <1>1, <1>3, AppendsBehind
<1>6. Appends(c, ClearArgs(e, argc))
  BY <1>4, <1>5, AppendsBehind
<1> QED  BY <1>6 DEF WriteNativeCall, d, e

(* The condition of a branch or a loop.                                    *)
LEMMA ConditionAppends ==
  ASSUME NEW c, SoundCode(c) PROVE Appends(c, WriteCondition(c))
BY NativeCallAppends DEF WriteCondition

(* The code behind each of n arguments                                     *)
ArgumentLoop(c, values, n, h) ==
  /\ h[0] = c /\ WriteArguments(c, values) = h[n]
  /\ \A k \in 1..n : h[k] = WriteNumber(h[k - 1], values[n - k + 1])

(* The loop over the arguments exists as a function of how many are        *)
(* written, and its last value is what all of them leave.                  *)
LEMMA ArgumentsWritten ==
  ASSUME NEW c, NEW values, NEW n \in Nat, n = Len(values)
  PROVE  \E h : ArgumentLoop(c, values, n, h)
<1> DEFINE Step(g, k) == IF k = 0 THEN c ELSE WriteNumber(g[k - 1], values[n - k + 1])
           IsLoop(g, m) == g = [k \in 0..m |-> Step(g, k)]
<1>1. \E g : IsLoop(g, n)
  <2> DEFINE bad == {m \in 0..n : ~\E g : IsLoop(g, m)}
  <2>1. bad = {}
    <3> SUFFICES ASSUME bad # {} PROVE FALSE
      OBVIOUS
    <3>1. bad \subseteq Nat
      OBVIOUS
    <3>2. PICK m \in bad : \A k \in bad : m <= k
      <4> HIDE DEF bad
      <4> QED  BY <3>1, LeastOne
    <3>3. m \in 0..n /\ ~\E g : IsLoop(g, m)
      OBVIOUS
    <3>4. m # 0
      <4>1. ASSUME m = 0 PROVE IsLoop([k \in 0..0 |-> c], m)
        BY <4>1
      <4> QED  BY <3>3, <4>1
    <3>5. m - 1 \in 0..n /\ m - 1 \notin bad
      <4> HIDE DEF bad
      <4>1. m - 1 \in 0..n /\ ~(m <= m - 1)
        BY <3>3, <3>4
      <4> QED  BY <3>2, <4>1
    <3>6. PICK f : IsLoop(f, m - 1)
      <4> HIDE DEF IsLoop
      <4> QED  BY <3>5
    <3> DEFINE last == WriteNumber(f[m - 1], values[n - m + 1])
               g == [k \in 0..m |-> IF k = m THEN last ELSE f[k]]
    <3>7. ASSUME NEW k \in 0..m PROVE g[k] = Step(g, k)
      <4>1. CASE k = 0
        <5>1. 0 \in 0..(m - 1) /\ 0 # m
          BY <3>3, <3>4
        <5>2. f[0] = Step(f, 0)
          BY <3>6, <5>1
        <5> QED  BY <4>1, <5>1, <5>2
      <4>2. CASE k # 0 /\ k # m
        <5>1. k \in 0..(m - 1) /\ k - 1 \in 0..m /\ k - 1 # m /\ k - 1 \in 0..(m - 1)
          BY <3>3, <4>2
        <5>2. f[k] = Step(f, k)
          BY <3>6, <5>1
        <5>3. g[k] = f[k] /\ g[k - 1] = f[k - 1]
          BY <4>2, <5>1
        <5> HIDE DEF g
        <5> QED  BY <4>2, <5>2, <5>3
      <4>3. CASE k = m
        <5>1. m \in 0..m /\ m - 1 \in 0..m /\ m - 1 # m
          BY <3>3, <3>4
        <5>2. g[m] = last /\ g[m - 1] = f[m - 1]
          BY <5>1
        <5> HIDE DEF g
        <5> QED  BY <3>4, <4>3, <5>2
      <4> QED  BY <4>1, <4>2, <4>3
    <3>8. IsLoop(g, m)
      <4>1. g = [k \in 0..m |-> g[k]]
        OBVIOUS
      <4> HIDE DEF g, Step
      <4> QED  BY <3>7, <4>1
    <3> HIDE DEF g, IsLoop
    <3> QED  BY <3>3, <3>8
  <2>2. n \in 0..n
    OBVIOUS
  <2> HIDE DEF IsLoop
  <2> QED  BY <2>1, <2>2
<1>2. PICK h : h = CHOOSE g : IsLoop(g, n)
  OBVIOUS
<1>3. IsLoop(h, n)
  <2> HIDE DEF IsLoop
  <2> QED  BY <1>1, <1>2
<1>4. WriteArguments(c, values) = h[n]
  BY <1>2 DEF WriteArguments
<1>5. \A k \in 0..n : h[k] = Step(h, k)
  BY <1>3
<1>6. 0 \in 0..n /\ \A k \in 1..n : k \in 0..n /\ k # 0
  OBVIOUS
<1> HIDE DEF IsLoop
<1> QED  BY <1>4, <1>5, <1>6 DEF ArgumentLoop

(* So a call's arguments are written as code.                              *)
LEMMA ArgumentsAppend ==
  ASSUME NEW c, SoundCode(c), NEW values, Len(values) \in Nat
  PROVE  Appends(c, WriteArguments(c, values))
<1> DEFINE n == Len(values)
<1>1. PICK h : ArgumentLoop(c, values, n, h)
  BY ArgumentsWritten
<1>2. Appends(c, h[n])
  <2> DEFINE bad == {m \in 0..n : ~Appends(c, h[m])}
  <2>1. bad = {}
    <3> SUFFICES ASSUME bad # {} PROVE FALSE
      OBVIOUS
    <3>1. bad \subseteq Nat
      OBVIOUS
    <3>2. PICK m \in bad : \A k \in bad : m <= k
      <4> HIDE DEF bad
      <4> QED  BY <3>1, LeastOne
    <3>3. m \in 0..n /\ ~Appends(c, h[m])
      OBVIOUS
    <3>4. m # 0
      <4>1. h[0] = c
        BY <1>1 DEF ArgumentLoop
      <4> QED  BY <3>3, <4>1, AppendsNothing
    <3>5. m - 1 \in 0..n /\ m - 1 \notin bad
      BY <3>2, <3>3, <3>4
    <3>6. Appends(c, h[m - 1])
      BY <3>5
    <3>7. m \in 1..n
      BY <3>3, <3>4
    <3>8. h[m] = WriteNumber(h[m - 1], values[n - m + 1])
      BY <1>1, <3>7 DEF ArgumentLoop
    <3>9. Appends(h[m - 1], h[m])
      BY <3>6, <3>8, WriteNumberAppends DEF Appends, Grows
    <3> QED  BY <3>3, <3>6, <3>9, AppendsBehind
  <2>2. n \in 0..n /\ n \notin bad
    <3> HIDE DEF bad
    <3> QED  BY <2>1
  <2> QED  BY <2>2
<1> QED  BY <1>1, <1>2 DEF ArgumentLoop

(* A call that compiles: the name stands for a function object.            *)
LEMMA CallAppends ==
  ASSUME NEW c, SoundCode(c), Symbols, FunctionsOk, NEW f \in FuncIds,
         IsFunction(symtable[f]), NEW argc \in Nat
  PROVE  Appends(c, WriteCall(c, f, argc))
<1> DEFINE i == symtable[f].v
           values == [k \in 1..argc |-> ParamTag(i, k)]
           d == WriteArguments(c, values)
           e == WriteConstant(d, "CALL", i)
<1>1. i \in DOMAIN fns /\ Reaches(i)
  BY DEF Symbols, Function, Value, Reaches
<1>2. Len(values) = argc
  OBVIOUS
<1> HIDE DEF values, i
<1>3. Appends(c, d) /\ SoundCode(d)
  BY <1>2, ArgumentsAppend DEF Appends, Grows
<1> HIDE DEF d
<1>4. Checked([op |-> "CALL", arg |-> i]) /\ Plain([op |-> "CALL", arg |-> i])
  BY <1>1 DEF Checked, Plain, Jumps
<1>5. Appends(d, e) /\ SoundCode(e)
  BY <1>3, <1>4, WriteConstantAppends DEF Appends, Grows, OneByte
<1> HIDE DEF e
<1>6. Appends(e, ClearArgs(e, argc))
  BY <1>5, ClearArgsAppends
<1>7. Appends(c, e)
  BY <1>3, <1>5, AppendsBehind
<1>8. Appends(c, ClearArgs(e, argc))
  BY <1>6, <1>7, AppendsBehind
<1> QED  BY <1>8 DEF WriteCall, d, e, i, values

-----------------------------------------------------------------------------
(* What a piece of compilation does to the jumps *)

Built(c, base, pending) == CodeOk(c, base, pending) /\ CallsReach(c)

(* An offset the compiler has written stays one.                           *)
LEMMA EndsGrow ==
  ASSUME NEW c, NEW d, Grows(c, d) PROVE Ends(c) \subseteq Ends(d)
BY DEF Grows, Ends

(* Straight code leaves every jump as it is.                               *)
LEMMA AppendingBuilds ==
  ASSUME NEW c, NEW d, NEW base, NEW pending, Built(c, base, pending), Appends(c, d)
  PROVE  Built(d, base, pending)
<1>1. /\ SoundCode(c) /\ base \in Nat /\ base <= c.size /\ base \in Ends(c)
      /\ JumpsLand(c, base, pending) /\ PendingAreJumps(c, base, pending)
      /\ CallsReach(c)
  BY DEF Built, CodeOk
<1>2. /\ Grows(c, d) /\ Straight(c, d) /\ SoundCode(d) /\ c.size <= d.size
      /\ \A o \in DOMAIN c.ins : o \in DOMAIN d.ins /\ d.ins[o] = c.ins[o]
  BY DEF Appends, Grows
<1>3. Ends(c) \subseteq Ends(d)
  BY <1>2, EndsGrow
<1>4. c.size \in Nat /\ d.size \in Nat
  BY <1>1, <1>2 DEF SoundCode
<1>5. ASSUME NEW o \in DOMAIN d.ins, d.ins[o].op \in Jumps
      PROVE  o \in DOMAIN c.ins /\ c.ins[o].op \in Jumps /\ Landing(d, o) = Landing(c, o)
  <2>1. o \in DOMAIN c.ins
    BY <1>2, <1>5 DEF Straight, Plain
  <2> QED  BY <1>2, <1>5, <2>1 DEF Landing
<1>6. JumpsLand(d, base, pending)
  BY <1>1, <1>2, <1>3, <1>5 DEF JumpsLand
<1>7. PendingAreJumps(d, base, pending)
  BY <1>1, <1>2 DEF PendingAreJumps
<1>8. CallsReach(d)
  BY <1>1, <1>2 DEF CallsReach, Straight, Plain
<1>9. base <= d.size
  BY <1>1, <1>2, <1>4
<1> QED  BY <1>1, <1>2, <1>3, <1>6, <1>7, <1>8, <1>9 DEF Built, CodeOk

(* A new jump is pending, or lands within the function.                    *)
LEMMA JumpWritten ==
  ASSUME NEW c, NEW base, NEW pending, Built(c, base, pending),
         NEW op \in Jumps, NEW arg \in Int, NEW d, d = WriteConstant(c, op, arg),
         NEW left, pending \subseteq left, left \subseteq pending \union {OperandOffset(c)},
         \/ OperandOffset(c) \in left
         \/ LET target == OperandOffset(c) + INT_SIZE + arg
            IN  target \in Ends(c) /\ target >= base
  PROVE  Built(d, base, left) /\ Grows(c, d)
<1>1. /\ SoundCode(c) /\ base \in Nat /\ base <= c.size /\ base \in Ends(c)
      /\ JumpsLand(c, base, pending) /\ PendingAreJumps(c, base, pending)
      /\ CallsReach(c)
  BY DEF Built, CodeOk
<1> DEFINE x == [op |-> op, arg |-> arg]
<1>2. Checked(x) /\ op \notin OneByte /\ op # "CALL"
  BY DEF Checked, Jumps, OneByte
<1>3. d = AddInstruction(c, op, arg, Bytes(op))
  BY <1>2 DEF WriteConstant, Bytes
<1>4. /\ Grows(c, d) /\ DOMAIN d.ins = DOMAIN c.ins \union {c.size}
      /\ d.ins[c.size] = x /\ d.size = c.size + Bytes(op)
  <2> HIDE DEF x
  <2>1. Checked([op |-> op, arg |-> arg]) /\ x = [op |-> op, arg |-> arg]
    BY <1>2 DEF x
  <2> QED  BY <1>1, <1>3, <2>1, InstructionAdded
<1>5. /\ \A o \in DOMAIN c.ins : o \in DOMAIN d.ins /\ d.ins[o] = c.ins[o]
      /\ c.size <= d.size /\ SoundCode(d) /\ Ends(c) \subseteq Ends(d)
  BY <1>4, EndsGrow DEF Grows
<1>6. /\ c.size \in Nat /\ d.size \in Nat
      /\ OperandOffset(c) = c.size + 1 /\ OperandOffset(c) - 1 = c.size
      /\ Landing(d, c.size) = OperandOffset(c) + INT_SIZE + arg
  BY <1>1, <1>4, <1>5 DEF SoundCode, OperandOffset, Landing, INT_SIZE
<1>7. \A o \in DOMAIN c.ins : Landing(d, o) = Landing(c, o)
  BY <1>5 DEF Landing
<1>8. JumpsLand(d, base, left)
  <2> SUFFICES ASSUME NEW o \in DOMAIN d.ins, d.ins[o].op \in Jumps
               PROVE  \/ /\ o < base /\ Landing(d, o) \in DOMAIN d.ins
                         /\ SameSide(o, Landing(d, o))
                      \/ /\ o >= base
                         /\ o + 1 \in left \/ (Landing(d, o) \in Ends(d) /\ Landing(d, o) >= base)
    BY DEF JumpsLand
  <2>1. CASE o = c.size
    BY <1>1, <1>5, <1>6, <2>1
  <2>2. CASE o \in DOMAIN c.ins
    <3>1. c.ins[o].op \in Jumps
      BY <1>5, <2>2
    <3>2. \/ o < base /\ Landing(c, o) \in DOMAIN c.ins /\ SameSide(o, Landing(c, o))
          \/ o >= base /\ (o + 1 \in pending \/ (Landing(c, o) \in Ends(c) /\ Landing(c, o) >= base))
      BY <1>1, <2>2, <3>1 DEF JumpsLand
    <3> QED  BY <1>5, <1>7, <2>2, <3>2
  <2> QED  BY <1>4, <2>1, <2>2
<1>9. PendingAreJumps(d, base, left)
  <2> SUFFICES ASSUME NEW p \in left
               PROVE  p \in Nat /\ p - 1 >= base /\ p - 1 \in DOMAIN d.ins /\ d.ins[p - 1].op \in Jumps
    BY DEF PendingAreJumps
  <2>1. CASE p = OperandOffset(c)
    BY <1>1, <1>4, <1>6, <2>1
  <2>2. CASE p \in pending
    BY <1>1, <1>5, <2>2 DEF PendingAreJumps
  <2> QED  BY <2>1, <2>2
<1>10. CallsReach(d)
  BY <1>1, <1>2, <1>4, <1>5 DEF CallsReach
<1>11. base <= d.size
  BY <1>1, <1>5, <1>6
<1> QED  BY <1>1, <1>4, <1>5, <1>8, <1>9, <1>10, <1>11 DEF Built, CodeOk

(* WriteJumpBack lands where it was told to.                               *)
LEMMA JumpBackWritten ==
  ASSUME NEW c, NEW base, NEW pending, Built(c, base, pending),
         NEW target \in Nat, target \in Ends(c), target >= base
  PROVE  /\ Built(WriteJumpBack(c, target), base, pending)
         /\ Grows(c, WriteJumpBack(c, target))
<1> DEFINE arg == target - (OperandOffset(c) + INT_SIZE)
<1>1. /\ arg \in Int /\ OperandOffset(c) + INT_SIZE + arg = target
      /\ OperandOffset(c) \in Nat
  BY DEF Built, CodeOk, SoundCode, OperandOffset, INT_SIZE
<1>2. WriteJumpBack(c, target) = WriteConstant(c, "JUMP", arg)
  BY DEF WriteJumpBack
<1> HIDE DEF arg
<1> QED  BY <1>1, <1>2, JumpWritten DEF Jumps

(* Patching gives pending jumps a place to land.                           *)
LEMMA JumpsPatched ==
  ASSUME NEW c, NEW base, NEW pending, Built(c, base, pending), NEW left,
         left \subseteq pending, NEW d,
         d = [ins |-> d.ins, size |-> c.size], DOMAIN d.ins = DOMAIN c.ins,
         \A o \in DOMAIN c.ins :
           \/ d.ins[o] = c.ins[o] /\ (o + 1 \in left \/ o + 1 \notin pending)
           \/ /\ o + 1 \in pending
              /\ d.ins[o] = [op |-> c.ins[o].op, arg |-> d.ins[o].arg]
              /\ d.ins[o].arg \in Int
              /\ Landing(d, o) \in Ends(c) /\ Landing(d, o) >= base
  PROVE  Built(d, base, left) /\ Ends(d) = Ends(c)
<1>1. /\ SoundCode(c) /\ base \in Nat /\ base <= c.size /\ base \in Ends(c)
      /\ JumpsLand(c, base, pending) /\ PendingAreJumps(c, base, pending)
      /\ CallsReach(c)
  BY DEF Built, CodeOk
<1>2. d.size = c.size /\ Ends(d) = Ends(c)
  BY DEF Ends
<1>3. \A o \in DOMAIN c.ins : d.ins[o].op = c.ins[o].op
  <2> TAKE o \in DOMAIN c.ins
  <2>1. CASE d.ins[o] = c.ins[o]
    BY <2>1
  <2>2. CASE d.ins[o] = [op |-> c.ins[o].op, arg |-> d.ins[o].arg]
    <3>1. PICK x, a : x = c.ins[o].op /\ a = d.ins[o].arg
      OBVIOUS
    <3>2. d.ins[o] = [op |-> x, arg |-> a]
      BY <2>2, <3>1
    <3>3. [op |-> x, arg |-> a].op = x
      OBVIOUS
    <3> QED  BY <3>1, <3>2, <3>3
  <2> QED  BY <2>1, <2>2
<1>4. \A o \in DOMAIN c.ins : o \in Int
  BY <1>1 DEF SoundCode
<1>5. \A o \in DOMAIN c.ins : o + 1 \in pending => o >= base /\ c.ins[o].op \in Jumps
  <2> TAKE o \in DOMAIN c.ins
  <2>1. (o + 1) - 1 = o
    BY <1>4
  <2> QED  BY <1>1, <2>1 DEF PendingAreJumps
<1>6. SoundCode(d)
  <2>1. ASSUME NEW o \in DOMAIN c.ins PROVE Checked(d.ins[o])
    <3>1. Checked(c.ins[o])
      BY <1>1 DEF SoundCode
    <3>2. CASE d.ins[o] = c.ins[o]
      BY <3>1, <3>2
    <3>3. CASE d.ins[o] # c.ins[o]
      <4>1. /\ d.ins[o] = [op |-> d.ins[o].op, arg |-> d.ins[o].arg]
            /\ d.ins[o].op \in Jumps /\ d.ins[o].arg \in Int
        BY <1>3, <1>5, <3>3
      <4> QED  BY <4>1 DEF Checked, Jumps
    <3> QED  BY <3>2, <3>3
  <2> QED  BY <1>1, <1>2, <1>3, <2>1 DEF SoundCode
<1>7. JumpsLand(d, base, left)
  <2> SUFFICES ASSUME NEW o \in DOMAIN c.ins, c.ins[o].op \in Jumps
               PROVE  \/ /\ o < base /\ Landing(d, o) \in DOMAIN d.ins
                         /\ SameSide(o, Landing(d, o))
                      \/ /\ o >= base
                         /\ o + 1 \in left \/ (Landing(d, o) \in Ends(d) /\ Landing(d, o) >= base)
    BY <1>3 DEF JumpsLand
  <2>1. CASE d.ins[o] = c.ins[o] /\ (o + 1 \in left \/ o + 1 \notin pending)
    <3>1. Landing(d, o) = Landing(c, o)
      BY <2>1 DEF Landing
    <3> QED  BY <1>1, <1>2, <2>1, <3>1 DEF JumpsLand
  <2>2. CASE o + 1 \in pending /\ Landing(d, o) \in Ends(c) /\ Landing(d, o) >= base
    BY <1>2, <1>5, <2>2
  <2> QED  BY <2>1, <2>2
<1>8. PendingAreJumps(d, base, left)
  BY <1>1, <1>3 DEF PendingAreJumps
<1>9. CallsReach(d)
  <2>1. ASSUME NEW o \in DOMAIN c.ins, d.ins[o].op = "CALL" PROVE Reaches(d.ins[o].arg)
    <3>1. c.ins[o].op = "CALL" /\ c.ins[o].op \notin Jumps
      BY <1>3, <2>1 DEF Jumps
    <3>2. d.ins[o] = c.ins[o]
      BY <1>5, <3>1
    <3> QED  BY <1>1, <3>1, <3>2 DEF CallsReach
  <2> QED  BY <2>1 DEF CallsReach
<1> QED  BY <1>1, <1>2, <1>6, <1>7, <1>8, <1>9 DEF Built, CodeOk

(* UPDATE_JUMP_LENGTH: a pending jump gets the end of the code.            *)
LEMMA PatchedToHere ==
  ASSUME NEW c, NEW base, NEW pending, Built(c, base, pending), NEW off \in pending,
         NEW left, left \subseteq pending, pending \ {off} \subseteq left
  PROVE  /\ Built(PatchToHere(c, off), base, left)
         /\ Ends(PatchToHere(c, off)) = Ends(c)
         /\ PatchToHere(c, off).size = c.size
<1> DEFINE d == PatchToHere(c, off)
           num == c.size - off - INT_SIZE
<1>1. /\ SoundCode(c) /\ base \in Nat /\ base <= c.size /\ c.size \in Nat
      /\ c = [ins |-> c.ins, size |-> c.size]
      /\ off \in Nat /\ off - 1 \in DOMAIN c.ins
  BY DEF Built, CodeOk, SoundCode, PendingAreJumps
<1>2. num \in Int /\ (off - 1) + 1 = off /\ (off - 1) + 1 + INT_SIZE + num = c.size
  BY <1>1 DEF INT_SIZE
<1>3. d = [c EXCEPT !.ins[off - 1].arg = num]
  BY DEF PatchToHere, RewriteConstant
<1> HIDE DEF num
<1>4. /\ d = [ins |-> d.ins, size |-> c.size]
      /\ DOMAIN d.ins = DOMAIN c.ins
      /\ \A o \in DOMAIN c.ins : o # off - 1 => d.ins[o] = c.ins[o]
      /\ d.ins[off - 1] = [c.ins[off - 1] EXCEPT !.arg = num]
  <2> DEFINE f == [c.ins EXCEPT ![off - 1].arg = num]
  <2>1. d = [ins |-> f, size |-> c.size]
    <3>1. d = [c EXCEPT !.ins = f]
      BY <1>3
    <3> HIDE DEF f, d
    <3> QED  BY <1>1, <3>1
  <2>2. d.ins = f
    <3> HIDE DEF f, d
    <3> QED  BY <2>1
  <2>3. /\ DOMAIN f = DOMAIN c.ins
        /\ \A o \in DOMAIN c.ins : o # off - 1 => f[o] = c.ins[o]
        /\ f[off - 1] = [c.ins[off - 1] EXCEPT !.arg = num]
    BY <1>1
  <2> HIDE DEF f, d
  <2> QED  BY <2>1, <2>2, <2>3
<1> HIDE DEF d
<1>5. d.ins[off - 1] = [op |-> c.ins[off - 1].op, arg |-> num]
  <2>1. c.ins[off - 1] = [op |-> c.ins[off - 1].op, arg |-> c.ins[off - 1].arg]
    BY <1>1 DEF SoundCode, Checked
  <2> QED  BY <1>4, <2>1
<1>6. Landing(d, off - 1) = c.size
  BY <1>2, <1>5 DEF Landing
<1>7. ASSUME NEW o \in DOMAIN c.ins
      PROVE  \/ d.ins[o] = c.ins[o] /\ (o + 1 \in left \/ o + 1 \notin pending)
             \/ /\ o + 1 \in pending
                /\ d.ins[o] = [op |-> c.ins[o].op, arg |-> d.ins[o].arg]
                /\ d.ins[o].arg \in Int
                /\ Landing(d, o) \in Ends(c) /\ Landing(d, o) >= base
  <2>1. CASE o = off - 1
    <3>1. d.ins[o] = [op |-> c.ins[o].op, arg |-> num]
      BY <1>5, <2>1
    <3>2. d.ins[o].arg = num
      BY <3>1
    <3>3. Landing(d, o) = c.size /\ o + 1 = off
      BY <1>2, <1>6, <2>1
    <3> QED  BY <1>1, <1>2, <3>1, <3>2, <3>3 DEF Ends
  <2>2. CASE o # off - 1
    <3>1. o + 1 # off
      BY <1>1, <2>2 DEF SoundCode
    <3> QED  BY <1>4, <2>2, <3>1
  <2> QED  BY <2>1, <2>2
<1>8. Built(d, base, left) /\ Ends(d) = Ends(c)
  BY <1>4, <1>7, JumpsPatched
<1>9. d.size = c.size
  BY <1>4
<1> QED  BY <1>8, <1>9 DEF d

(* free_cycle_head: every break and continue of the loop gets its place.   *)
LEMMA PatchedCycle ==
  ASSUME NEW c, NEW base, NEW pending, Built(c, base, pending), NEW head \in CycleHead,
         \A info \in head.infos : info.off \in pending,
         head.start \in Ends(c), head.start >= base,
         NEW left, left \subseteq pending,
         \A p \in pending : p \in left \/ \E info \in head.infos : info.off = p
  PROVE  /\ Built(PatchCycle(c, head), base, left)
         /\ Ends(PatchCycle(c, head)) = Ends(c)
         /\ PatchCycle(c, head).size = c.size
<1> DEFINE d == PatchCycle(c, head)
           Of(o) == \E info \in head.infos : info.off = o + 1
           info(o) == CHOOSE i \in head.infos : i.off = o + 1
           num(o) == IF info(o).type = "break" THEN c.size - info(o).off - INT_SIZE
                     ELSE head.start - (info(o).off + INT_SIZE)
           f == [o \in DOMAIN c.ins |->
                   IF Of(o) THEN [c.ins[o] EXCEPT !.arg = num(o)] ELSE c.ins[o]]
<1>1. /\ SoundCode(c) /\ base \in Nat /\ base <= c.size /\ c.size \in Nat
      /\ c = [ins |-> c.ins, size |-> c.size]
      /\ head.start \in Nat
  BY DEF Built, CodeOk, SoundCode, CycleHead
<1>2. d = [ins |-> f, size |-> c.size]
  <2>1. d = [c EXCEPT !.ins = f]
    BY DEF PatchCycle
  <2> HIDE DEF f, d
  <2> QED  BY <1>1, <2>1
<1>3. /\ d = [ins |-> d.ins, size |-> c.size] /\ DOMAIN d.ins = DOMAIN c.ins
      /\ d.ins = f
  <2>1. DOMAIN f = DOMAIN c.ins
    OBVIOUS
  <2> HIDE DEF f, d
  <2> QED  BY <1>2, <2>1
<1>4. ASSUME NEW o \in DOMAIN c.ins, Of(o)
      PROVE  /\ d.ins[o] = [op |-> c.ins[o].op, arg |-> d.ins[o].arg]
             /\ d.ins[o].arg \in Int
             /\ Landing(d, o) = c.size \/ Landing(d, o) = head.start
             /\ o + 1 \in pending
  <2>1. info(o) \in head.infos /\ info(o).off = o + 1
    BY <1>4
  <2>2. o + 1 \in pending
    BY <2>1
  <2>3. o \in Nat
    BY <1>1 DEF SoundCode
  <2>4. num(o) \in {c.size - (o + 1) - INT_SIZE, head.start - ((o + 1) + INT_SIZE)}
    <3> HIDE DEF info
    <3> QED  BY <2>1
  <2>5. d.ins[o] = [c.ins[o] EXCEPT !.arg = num(o)]
    <3> HIDE DEF num, Of, d
    <3> QED  BY <1>3, <1>4
  <2> HIDE DEF num, d
  <2>6. c.ins[o] = [op |-> c.ins[o].op, arg |-> c.ins[o].arg]
    BY <1>1 DEF SoundCode, Checked
  <2>7. d.ins[o] = [op |-> c.ins[o].op, arg |-> num(o)]
    BY <2>5, <2>6
  <2>8. num(o) \in Int /\ o + 1 + INT_SIZE + num(o) \in {c.size, head.start}
    BY <1>1, <2>3, <2>4 DEF INT_SIZE
  <2>9. Landing(d, o) = o + 1 + INT_SIZE + num(o)
    BY <2>7 DEF Landing
  <2>10. d.ins[o].arg = num(o)
    BY <2>7
  <2> QED  BY <2>2, <2>7, <2>8, <2>9, <2>10
<1>5. ASSUME NEW o \in DOMAIN c.ins, ~Of(o)
      PROVE  d.ins[o] = c.ins[o] /\ (o + 1 \in left \/ o + 1 \notin pending)
  <2>1. d.ins[o] = c.ins[o]
    <3> HIDE DEF Of, d
    <3> QED  BY <1>3, <1>5
  <2> QED  BY <1>5, <2>1
<1> HIDE DEF d, f, num
<1>6. ASSUME NEW o \in DOMAIN c.ins
      PROVE  \/ d.ins[o] = c.ins[o] /\ (o + 1 \in left \/ o + 1 \notin pending)
             \/ /\ o + 1 \in pending
                /\ d.ins[o] = [op |-> c.ins[o].op, arg |-> d.ins[o].arg]
                /\ d.ins[o].arg \in Int
                /\ Landing(d, o) \in Ends(c) /\ Landing(d, o) >= base
  <2>1. CASE Of(o)
    <3>1. c.size \in Ends(c) /\ c.size >= base
      BY <1>1 DEF Ends
    <3>2. Landing(d, o) \in Ends(c) /\ Landing(d, o) >= base
      BY <1>4, <2>1, <3>1
    <3> QED  BY <1>4, <2>1, <3>2
  <2>2. CASE ~Of(o)
    <3> HIDE DEF Of
    <3> QED  BY <1>5, <2>2
  <2> QED  BY <2>1, <2>2
<1>7. Built(d, base, left) /\ Ends(d) = Ends(c)
  <2> HIDE DEF Of, info
  <2> QED  BY <1>3, <1>6, JumpsPatched
<1>8. d.size = c.size
  BY <1>3
<1> QED  BY <1>7, <1>8 DEF d

-----------------------------------------------------------------------------
(* The C stack of the parser *)

(* A sequence with one element put in front.                               *)
LEMMA Pushing ==
  ASSUME NEW S, NEW s \in Seq(S), NEW e \in S
  PROVE  /\ <<e>> \o s \in Seq(S) /\ Len(<<e>> \o s) = Len(s) + 1
         /\ (<<e>> \o s)[1] = e
         /\ \A i \in 1..Len(s) : (<<e>> \o s)[i + 1] = s[i]
         /\ \A i \in 2..(Len(s) + 1) : (<<e>> \o s)[i] = s[i - 1]
         /\ DOMAIN (<<e>> \o s) = 1..(Len(s) + 1)
<1>1. <<e>> \in Seq(S) /\ Len(<<e>>) = 1 /\ Len(s) \in Nat
  OBVIOUS
<1>2. /\ <<e>> \o s \in Seq(S) /\ Len(<<e>> \o s) = Len(s) + 1
      /\ \A i \in 1..(Len(s) + 1) : (<<e>> \o s)[i] = IF i <= 1 THEN <<e>>[i] ELSE s[i - 1]
  BY <1>1
<1>3. (<<e>> \o s)[1] = e
  BY <1>1, <1>2
<1>4. \A i \in 1..Len(s) : i + 1 \in 1..(Len(s) + 1) /\ ~(i + 1 <= 1) /\ (i + 1) - 1 = i
  BY <1>1
<1>5. \A i \in 1..Len(s) : (<<e>> \o s)[i + 1] = s[i]
  BY <1>2, <1>4
<1>6. \A i \in 2..(Len(s) + 1) : (<<e>> \o s)[i] = s[i - 1]
  BY <1>1, <1>2
<1>7. DOMAIN (<<e>> \o s) = 1..(Len(s) + 1)
  BY <1>2
<1> QED  BY <1>2, <1>3, <1>5, <1>6, <1>7

(* A sequence without its first element.                                   *)
LEMMA Popping ==
  ASSUME NEW S, NEW s \in Seq(S), s # <<>>
  PROVE  /\ Tail(s) \in Seq(S) /\ Len(Tail(s)) = Len(s) - 1 /\ Len(s) >= 1
         /\ Head(s) = s[1] /\ Head(s) \in S
         /\ \A i \in 1..(Len(s) - 1) : Tail(s)[i] = s[i + 1]
         /\ DOMAIN Tail(s) = 1..(Len(s) - 1)
<1>1. Len(s) \in Nat /\ Len(s) # 0 /\ Len(s) >= 1
  OBVIOUS
<1>2. Tail(s) \in Seq(S) /\ Len(Tail(s)) = Len(s) - 1
  BY <1>1
<1> QED  BY <1>1, <1>2

(* A construct is opened, with a cycle of its own if it is a loop.         *)
LEMMA LoopsMatchPush ==
  ASSUME NEW ct \in Seq(Record), NEW cy \in Seq(CycleHead), LoopsMatch(ct, cy),
         NEW r \in Record, NEW cy2 \in Seq(CycleHead),
         Len(cy2) = Len(cy) + (IF r.kind \in Looping THEN 1 ELSE 0)
  PROVE  LoopsMatch(<<r>> \o ct, cy2)
<1> DEFINE k == Len(ct)
           new == <<r>> \o ct
           one == IF r.kind \in Looping THEN 1 ELSE 0
<1>1. PICK n \in [0..k -> Nat] :
        /\ n[0] = 0 /\ n[k] = Len(cy)
        /\ \A d \in 1..k : n[d] = n[d - 1] + (IF ct[k + 1 - d].kind \in Looping THEN 1 ELSE 0)
  BY DEF LoopsMatch
<1>2. k \in Nat /\ one \in Nat /\ Len(cy) \in Nat
  OBVIOUS
<1>3. /\ Len(new) = k + 1 /\ new[1] = r
      /\ \A i \in 2..(k + 1) : new[i] = ct[i - 1]
  BY Pushing
<1> DEFINE m == [d \in 0..(k + 1) |-> IF d = k + 1 THEN Len(cy) + one ELSE n[d]]
<1> HIDE DEF k, new, one
<1>4. m \in [0..(k + 1) -> Nat]
  BY <1>1, <1>2
<1>5. m[0] = 0 /\ m[k + 1] = Len(cy2)
  BY <1>1, <1>2 DEF one
<1>6. ASSUME NEW d \in 1..(k + 1)
      PROVE  m[d] = m[d - 1] + (IF new[(k + 1) + 1 - d].kind \in Looping THEN 1 ELSE 0)
  <2>1. CASE d = k + 1
    <3>1. m[d] = Len(cy) + one /\ m[d - 1] = Len(cy) /\ (k + 1) + 1 - d = 1
      BY <1>1, <1>2, <2>1
    <3> HIDE DEF m
    <3> QED  BY <1>3, <3>1 DEF one
  <2>2. CASE d # k + 1
    <3>1. /\ d \in 1..k /\ m[d] = n[d] /\ m[d - 1] = n[d - 1]
          /\ (k + 1) + 1 - d \in 2..(k + 1) /\ ((k + 1) + 1 - d) - 1 = k + 1 - d
      BY <1>2, <2>2
    <3>2. new[(k + 1) + 1 - d] = ct[k + 1 - d]
      BY <1>3, <3>1
    <3> HIDE DEF m
    <3> QED  BY <1>1, <3>1, <3>2
  <2> QED  BY <2>1, <2>2
<1> HIDE DEF m
<1>7. LoopsMatch(new, cy2)
  BY <1>3, <1>4, <1>5, <1>6 DEF LoopsMatch
<1> QED  BY <1>7 DEF new

(* A construct is closed, and its cycle with it.                           *)
LEMMA LoopsMatchPop ==
  ASSUME NEW ct \in Seq(Record), NEW cy \in Seq(CycleHead), LoopsMatch(ct, cy), ct # <<>>
  PROVE  /\ Head(ct).kind \in Looping => cy # <<>> /\ LoopsMatch(Tail(ct), Tail(cy))
         /\ Head(ct).kind \notin Looping => LoopsMatch(Tail(ct), cy)
<1> DEFINE k == Len(ct)
           rest == Tail(ct)
<1>1. PICK n \in [0..k -> Nat] :
        /\ n[0] = 0 /\ n[k] = Len(cy)
        /\ \A d \in 1..k : n[d] = n[d - 1] + (IF ct[k + 1 - d].kind \in Looping THEN 1 ELSE 0)
  BY DEF LoopsMatch
<1>2. /\ k \in Nat /\ k >= 1 /\ Len(rest) = k - 1 /\ Head(ct) = ct[1]
      /\ \A i \in 1..(k - 1) : rest[i] = ct[i + 1]
      /\ Len(cy) \in Nat
  BY Popping
<1> HIDE DEF k, rest
<1>3. Len(cy) = n[k - 1] + (IF Head(ct).kind \in Looping THEN 1 ELSE 0)
  <2>1. k \in 1..k /\ k + 1 - k = 1
    BY <1>2
  <2> QED  BY <1>1, <1>2, <2>1
<1> DEFINE m == [d \in 0..(k - 1) |-> n[d]]
<1>4. m \in [0..(k - 1) -> Nat] /\ m[0] = 0 /\ m[k - 1] = n[k - 1] /\ n[k - 1] \in Nat
  BY <1>1, <1>2
<1>5. ASSUME NEW d \in 1..(k - 1)
      PROVE  m[d] = m[d - 1] + (IF rest[(k - 1) + 1 - d].kind \in Looping THEN 1 ELSE 0)
  <2>1. /\ d \in 1..k /\ m[d] = n[d] /\ m[d - 1] = n[d - 1]
        /\ (k - 1) + 1 - d \in 1..(k - 1) /\ ((k - 1) + 1 - d) + 1 = k + 1 - d
    BY <1>2
  <2>2. rest[(k - 1) + 1 - d] = ct[k + 1 - d]
    BY <1>2, <2>1
  <2> HIDE DEF m
  <2> QED  BY <1>1, <2>1, <2>2
<1> HIDE DEF m
<1>6. ASSUME NEW cy2, Len(cy2) = n[k - 1] PROVE LoopsMatch(rest, cy2)
  BY <1>2, <1>4, <1>5, <1>6 DEF LoopsMatch
<1>7. CASE Head(ct).kind \in Looping
  <2>1. Len(cy) = n[k - 1] + 1 /\ Len(cy) # 0
    BY <1>3, <1>4, <1>7
  <2>2. cy # <<>>
    BY <2>1
  <2>3. Len(Tail(cy)) = Len(cy) - 1
    BY <2>2, Popping
  <2>4. Len(Tail(cy)) = n[k - 1]
    BY <1>4, <2>1, <2>3
  <2> QED  BY <1>6, <1>7, <2>2, <2>4 DEF rest
<1>8. CASE Head(ct).kind \notin Looping
  <2>1. Len(cy) = n[k - 1]
    BY <1>3, <1>4, <1>8
  <2> QED  BY <1>6, <1>8, <2>1 DEF rest
<1> QED  BY <1>7, <1>8

(* The parser's state behind an opening brace.                             *)
LEMMA OpenedOk ==
  ASSUME NEW ct, NEW cy, NEW c, NEW base, ParserOk(ct, cy, c, base), ct # <<>>,
         NEW d, Ends(c) \subseteq Ends(d),
         NEW r \in Record, r.kind # "function",
         NEW cy2,
         \/ r.kind \notin Looping /\ cy2 = cy
         \/ /\ r.kind \in Looping /\ r.start \in Ends(d) /\ r.start >= base
            /\ \E h \in CycleHead : /\ cy2 = <<h>> \o cy
                                    /\ h.start \in Ends(d) /\ h.start >= base
  PROVE  /\ ParserOk(<<r>> \o ct, cy2, d, base)
         /\ <<r>> \o ct # <<>>
         /\ (<<r>> \o ct)[Len(<<r>> \o ct)] = ct[Len(ct)]
<1> DEFINE new == <<r>> \o ct
           k == Len(ct)
<1>1. /\ ct \in Seq(Record) /\ cy \in Seq(CycleHead) /\ LoopsMatch(ct, cy)
      /\ \A i \in DOMAIN ct : ct[i].kind = "function" <=> i = Len(ct)
      /\ \A i \in DOMAIN ct : ct[i].kind \in Looping => ct[i].start \in Ends(c) /\ ct[i].start >= base
      /\ \A i \in DOMAIN cy : cy[i].start \in Ends(c) /\ cy[i].start >= base
  BY DEF ParserOk
<1>2. k \in Nat /\ k # 0 /\ DOMAIN ct = 1..k
  BY <1>1
<1>3. /\ new \in Seq(Record) /\ Len(new) = k + 1 /\ new[1] = r /\ DOMAIN new = 1..(k + 1)
      /\ \A i \in 2..(k + 1) : new[i] = ct[i - 1]
  BY <1>1, Pushing
<1> HIDE DEF new, k
<1>4. \A i \in 2..(k + 1) : i - 1 \in 1..k
  BY <1>2
<1>5. ASSUME NEW i \in 1..(k + 1) PROVE new[i].kind = "function" <=> i = k + 1
  <2>1. CASE i = 1
    BY <1>2, <1>3, <2>1
  <2>2. CASE i # 1
    <3>1. i \in 2..(k + 1) /\ i - 1 \in DOMAIN ct /\ (i - 1 = k <=> i = k + 1)
      BY <1>2, <2>2
    <3> QED  BY <1>1, <1>3, <3>1 DEF k
  <2> QED  BY <2>1, <2>2
<1>6. ASSUME NEW i \in 1..(k + 1), new[i].kind \in Looping
      PROVE  new[i].start \in Ends(d) /\ new[i].start >= base
  <2>1. CASE i = 1
    BY <1>3, <1>6, <2>1
  <2>2. CASE i # 1
    <3>1. i \in 2..(k + 1) /\ i - 1 \in DOMAIN ct
      BY <1>2, <2>2
    <3> QED  BY <1>1, <1>3, <1>6, <3>1
  <2> QED  BY <2>1, <2>2
<1>7. /\ cy2 \in Seq(CycleHead)
      /\ Len(cy2) = Len(cy) + (IF r.kind \in Looping THEN 1 ELSE 0)
      /\ \A i \in DOMAIN cy2 : cy2[i].start \in Ends(d) /\ cy2[i].start >= base
  <2>1. CASE r.kind \notin Looping
    <3>1. cy2 = cy /\ Len(cy) \in Nat
      BY <1>1, <2>1
    <3>2. Len(cy2) = Len(cy) + 0
      BY <3>1
    <3> QED  BY <1>1, <2>1, <3>1, <3>2
  <2>2. CASE r.kind \in Looping
    <3>1. PICK h \in CycleHead : /\ cy2 = <<h>> \o cy
                                /\ h.start \in Ends(d) /\ h.start >= base
      BY <2>2
    <3>2. /\ cy2 \in Seq(CycleHead) /\ Len(cy2) = Len(cy) + 1 /\ cy2[1] = h
          /\ \A i \in 2..(Len(cy) + 1) : cy2[i] = cy[i - 1]
          /\ DOMAIN cy2 = 1..(Len(cy) + 1)
      BY <1>1, <3>1, Pushing
    <3>3. ASSUME NEW i \in DOMAIN cy2 PROVE cy2[i].start \in Ends(d) /\ cy2[i].start >= base
      <4>1. CASE i = 1
        BY <3>1, <3>2, <4>1
      <4>2. CASE i # 1
        <5>1. Len(cy) \in Nat /\ DOMAIN cy = 1..Len(cy)
          BY <1>1
        <5>2. i \in 2..(Len(cy) + 1) /\ i - 1 \in DOMAIN cy
          BY <3>2, <4>2, <5>1
        <5> QED  BY <1>1, <3>2, <5>2
      <4> QED  BY <4>1, <4>2
    <3> QED  BY <2>2, <3>2, <3>3
  <2> QED  BY <2>1, <2>2
<1>8. LoopsMatch(new, cy2)
  BY <1>1, <1>7, LoopsMatchPush DEF new
<1>9. ParserOk(new, cy2, d, base)
  BY <1>3, <1>5, <1>6, <1>7, <1>8 DEF ParserOk
<1>10. new # <<>> /\ new[Len(new)] = ct[k]
  <2>1. k + 1 \in 2..(k + 1) /\ (k + 1) - 1 = k /\ Len(new) # 0
    BY <1>2, <1>3
  <2> QED  BY <1>3, <2>1
<1> QED  BY <1>9, <1>10 DEF new, k

(* The parser's state behind a closing brace other than a function's.      *)
LEMMA ClosedOk ==
  ASSUME NEW ct, NEW cy, NEW c, NEW base, ParserOk(ct, cy, c, base), ct # <<>>,
         Head(ct).kind # "function", NEW d, Ends(c) \subseteq Ends(d),
         NEW cy2, cy2 = IF Head(ct).kind \in Looping THEN Tail(cy) ELSE cy
  PROVE  /\ ParserOk(Tail(ct), cy2, d, base)
         /\ Tail(ct) # <<>>
         /\ Tail(ct)[Len(Tail(ct))] = ct[Len(ct)]
         /\ Head(ct) \in Record
         /\ Head(ct).kind \in Looping =>
              /\ cy # <<>> /\ Head(cy) \in CycleHead
              /\ Head(ct).start \in Ends(c) /\ Head(ct).start >= base
              /\ Head(cy).start \in Ends(c) /\ Head(cy).start >= base
<1> DEFINE rest == Tail(ct)
           k == Len(ct)
<1>1. /\ ct \in Seq(Record) /\ cy \in Seq(CycleHead) /\ LoopsMatch(ct, cy)
      /\ \A i \in DOMAIN ct : ct[i].kind = "function" <=> i = Len(ct)
      /\ \A i \in DOMAIN ct : ct[i].kind \in Looping => ct[i].start \in Ends(c) /\ ct[i].start >= base
      /\ \A i \in DOMAIN cy : cy[i].start \in Ends(c) /\ cy[i].start >= base
  BY DEF ParserOk
<1>2. /\ rest \in Seq(Record) /\ Len(rest) = k - 1 /\ k >= 1 /\ k \in Nat
      /\ Head(ct) = ct[1] /\ Head(ct) \in Record
      /\ \A i \in 1..(k - 1) : rest[i] = ct[i + 1]
      /\ DOMAIN rest = 1..(k - 1) /\ DOMAIN ct = 1..k
  BY <1>1, Popping
<1>3. k # 1
  BY <1>1, <1>2
<1> HIDE DEF rest
<1>4. \A i \in 1..(k - 1) : i + 1 \in 1..k /\ (i + 1 = k <=> i = k - 1)
  BY <1>2
<1>5. \A i \in DOMAIN rest : rest[i].kind = "function" <=> i = Len(rest)
  BY <1>1, <1>2, <1>4
<1>6. \A i \in DOMAIN rest : rest[i].kind \in Looping => rest[i].start \in Ends(d) /\ rest[i].start >= base
  BY <1>1, <1>2, <1>4
<1>7. /\ Head(ct).kind \in Looping => cy # <<>> /\ LoopsMatch(rest, Tail(cy))
      /\ Head(ct).kind \notin Looping => LoopsMatch(rest, cy)
  BY <1>1, LoopsMatchPop DEF rest
<1>8. /\ cy2 \in Seq(CycleHead)
      /\ \A i \in DOMAIN cy2 : cy2[i].start \in Ends(d) /\ cy2[i].start >= base
      /\ Head(ct).kind \in Looping =>
           /\ Head(cy) \in CycleHead /\ Head(cy).start \in Ends(c) /\ Head(cy).start >= base
  <2>1. CASE Head(ct).kind \in Looping
    <3>1. /\ Tail(cy) \in Seq(CycleHead) /\ Head(cy) = cy[1] /\ Head(cy) \in CycleHead
          /\ Len(cy) >= 1 /\ Len(cy) \in Nat /\ DOMAIN cy = 1..Len(cy)
          /\ \A i \in 1..(Len(cy) - 1) : Tail(cy)[i] = cy[i + 1]
          /\ DOMAIN Tail(cy) = 1..(Len(cy) - 1)
      BY <1>1, <1>7, <2>1, Popping
    <3>2. 1 \in DOMAIN cy /\ \A i \in DOMAIN Tail(cy) : i + 1 \in DOMAIN cy
      BY <3>1
    <3> QED  BY <1>1, <2>1, <3>1, <3>2
  <2>2. CASE Head(ct).kind \notin Looping
    BY <1>1, <2>2
  <2> QED  BY <2>1, <2>2
<1>9. LoopsMatch(rest, cy2)
  BY <1>7
<1>10. ParserOk(rest, cy2, d, base)
  BY <1>2, <1>5, <1>6, <1>8, <1>9 DEF ParserOk
<1>11. rest # <<>> /\ rest[Len(rest)] = ct[k]
  <2>1. k - 1 \in 1..(k - 1) /\ (k - 1) + 1 = k /\ Len(rest) # 0
    BY <1>2, <1>3
  <2> QED  BY <1>2, <2>1
<1>12. Head(ct).kind \in Looping => Head(ct).start \in Ends(c) /\ Head(ct).start >= base
  BY <1>1, <1>2
<1> QED  BY <1>2, <1>7, <1>8, <1>10, <1>11, <1>12 DEF rest

-----------------------------------------------------------------------------
(* Which jumps are pending *)

(* Opening a branch or a loop adds its own jump.                           *)
LEMMA PendingOpened ==
  ASSUME NEW ct \in Seq(Record), NEW cy \in Seq(CycleHead), NEW r \in Record,
         NEW cy2, cy2 = cy \/ \E h \in CycleHead : cy2 = <<h>> \o cy /\ h.infos = {}
  PROVE  /\ Pending(ct, cy) \subseteq Pending(<<r>> \o ct, cy2)
         /\ Pending(<<r>> \o ct, cy2) \subseteq Pending(ct, cy) \union {r.off}
         /\ r.kind \in Branching => r.off \in Pending(<<r>> \o ct, cy2)
         /\ r.kind \notin Branching => Pending(<<r>> \o ct, cy2) = Pending(ct, cy)
<1> DEFINE new == <<r>> \o ct
           k == Len(ct)
<1>1. /\ k \in Nat /\ DOMAIN ct = 1..k
      /\ new[1] = r /\ DOMAIN new = 1..(k + 1)
      /\ \A i \in 1..k : new[i + 1] = ct[i]
      /\ \A i \in 2..(k + 1) : new[i] = ct[i - 1]
      /\ r.off \in Nat
  BY Pushing DEF Record
<1> HIDE DEF new, k
<1>2. \A p : (\E i \in DOMAIN new : new[i].kind \in Branching /\ new[i].off = p)
          <=> \/ \E i \in DOMAIN ct : ct[i].kind \in Branching /\ ct[i].off = p
              \/ r.kind \in Branching /\ r.off = p
  <2> TAKE p
  <2>1. ASSUME NEW i \in DOMAIN new, new[i].kind \in Branching /\ new[i].off = p
        PROVE  \/ \E j \in DOMAIN ct : ct[j].kind \in Branching /\ ct[j].off = p
               \/ r.kind \in Branching /\ r.off = p
    <3>1. CASE i = 1
      BY <1>1, <2>1, <3>1
    <3>2. CASE i # 1
      <4>1. i \in 2..(k + 1) /\ i - 1 \in DOMAIN ct
        BY <1>1, <3>2
      <4> QED  BY <1>1, <2>1, <4>1
    <3> QED  BY <3>1, <3>2
  <2>2. ASSUME NEW i \in DOMAIN ct, ct[i].kind \in Branching /\ ct[i].off = p
        PROVE  \E j \in DOMAIN new : new[j].kind \in Branching /\ new[j].off = p
    <3>1. i + 1 \in DOMAIN new /\ new[i + 1] = ct[i]
      BY <1>1
    <3> QED  BY <2>2, <3>1
  <2>3. 1 \in DOMAIN new
    BY <1>1
  <2> QED  BY <1>1, <2>1, <2>2, <2>3
<1>3. \A p : (\E i \in DOMAIN cy2 : \E info \in cy2[i].infos : info.off = p)
          <=> (\E i \in DOMAIN cy : \E info \in cy[i].infos : info.off = p)
  <2>1. CASE cy2 = cy
    BY <2>1
  <2>2. ASSUME NEW h \in CycleHead, cy2 = <<h>> \o cy, h.infos = {}
        PROVE  \A p : (\E i \in DOMAIN cy2 : \E info \in cy2[i].infos : info.off = p)
                   <=> (\E i \in DOMAIN cy : \E info \in cy[i].infos : info.off = p)
    <3>1. /\ Len(cy) \in Nat /\ DOMAIN cy = 1..Len(cy)
          /\ cy2[1] = h /\ DOMAIN cy2 = 1..(Len(cy) + 1)
          /\ \A i \in 1..Len(cy) : cy2[i + 1] = cy[i]
          /\ \A i \in 2..(Len(cy) + 1) : cy2[i] = cy[i - 1]
      BY <2>2, Pushing
    <3> TAKE p
    <3>2. ASSUME NEW i \in DOMAIN cy2, NEW info \in cy2[i].infos, info.off = p
          PROVE  \E j \in DOMAIN cy : \E x \in cy[j].infos : x.off = p
      <4>1. i # 1
        BY <2>2, <3>1
      <4>2. i \in 2..(Len(cy) + 1) /\ i - 1 \in DOMAIN cy
        BY <3>1, <4>1
      <4> QED  BY <3>1, <3>2, <4>2
    <3>3. ASSUME NEW i \in DOMAIN cy, NEW info \in cy[i].infos, info.off = p
          PROVE  \E j \in DOMAIN cy2 : \E x \in cy2[j].infos : x.off = p
      <4>1. i + 1 \in DOMAIN cy2 /\ cy2[i + 1] = cy[i]
        BY <3>1
      <4> QED  BY <3>3, <4>1
    <3> QED  BY <3>2, <3>3
  <2> QED  BY <2>1, <2>2
<1>4. \A p : p \in Pending(new, cy2) <=>
              \/ p \in Pending(ct, cy)
              \/ r.kind \in Branching /\ r.off = p
  BY <1>1, <1>2, <1>3 DEF Pending
<1> QED  BY <1>4 DEF new

BranchJump(ct, p) == \E d \in DOMAIN ct : ct[d].kind \in Branching /\ ct[d].off = p
LoopJump(cy, p) == \E k \in DOMAIN cy : \E info \in cy[k].infos : info.off = p

(* The innermost construct is gone, and with it its own jump.              *)
LEMMA RecordGone ==
  ASSUME NEW ct \in Seq(Record), ct # <<>>, NEW p
  PROVE  /\ BranchJump(Tail(ct), p) => BranchJump(ct, p)
         /\ BranchJump(ct, p) => \/ BranchJump(Tail(ct), p)
                                 \/ Head(ct).kind \in Branching /\ p = Head(ct).off
         /\ Head(ct).kind \in Branching => BranchJump(ct, Head(ct).off)
         /\ Head(ct).off \in Nat
<1> DEFINE rest == Tail(ct)
           k == Len(ct)
<1>1. /\ k \in Nat /\ k >= 1 /\ DOMAIN ct = 1..k /\ DOMAIN rest = 1..(k - 1)
      /\ \A i \in 1..(k - 1) : rest[i] = ct[i + 1]
      /\ Head(ct) = ct[1] /\ Head(ct).off \in Nat
  <2>1. /\ k \in Nat /\ k >= 1 /\ DOMAIN ct = 1..k /\ DOMAIN rest = 1..(k - 1)
        /\ \A i \in 1..(k - 1) : rest[i] = ct[i + 1]
        /\ Head(ct) = ct[1] /\ Head(ct) \in Record
    BY Popping
  <2>2. Head(ct).off \in Nat
    BY <2>1 DEF Record
  <2> QED  BY <2>1, <2>2
<1> HIDE DEF rest, k
<1>2. ASSUME NEW i \in DOMAIN rest, rest[i].kind \in Branching, rest[i].off = p
      PROVE  \E j \in DOMAIN ct : ct[j].kind \in Branching /\ ct[j].off = p
  <2>1. i + 1 \in DOMAIN ct /\ rest[i] = ct[i + 1]
    BY <1>1
  <2> QED  BY <1>2, <2>1
<1>3. ASSUME NEW i \in DOMAIN ct, ct[i].kind \in Branching, ct[i].off = p
      PROVE  \/ \E j \in DOMAIN rest : rest[j].kind \in Branching /\ rest[j].off = p
             \/ Head(ct).kind \in Branching /\ p = Head(ct).off
  <2>1. CASE i = 1
    BY <1>1, <1>3, <2>1
  <2>2. CASE i # 1
    <3>1. i - 1 \in DOMAIN rest /\ (i - 1) + 1 = i
      BY <1>1, <2>2
    <3>2. rest[i - 1] = ct[i]
      BY <1>1, <3>1
    <3> QED  BY <1>3, <3>1, <3>2
  <2> QED  BY <2>1, <2>2
<1>4. Head(ct).kind \in Branching => BranchJump(ct, Head(ct).off)
  <2>1. 1 \in DOMAIN ct
    BY <1>1
  <2> QED  BY <1>1, <2>1 DEF BranchJump
<1>5. /\ BranchJump(rest, p) => BranchJump(ct, p)
      /\ BranchJump(ct, p) => \/ BranchJump(rest, p)
                              \/ Head(ct).kind \in Branching /\ p = Head(ct).off
  BY <1>2, <1>3 DEF BranchJump
<1> QED  BY <1>1, <1>4, <1>5 DEF rest

(* The innermost cycle is gone, and with it its breaks and continues.      *)
LEMMA CycleGone ==
  ASSUME NEW cy \in Seq(CycleHead), cy # <<>>, NEW p
  PROVE  /\ LoopJump(Tail(cy), p) => LoopJump(cy, p)
         /\ LoopJump(cy, p) => \/ LoopJump(Tail(cy), p)
                               \/ \E info \in Head(cy).infos : info.off = p
         /\ \A info \in Head(cy).infos : info.off \in Nat /\ LoopJump(cy, info.off)
<1> DEFINE rest == Tail(cy)
<1>1. /\ Len(cy) \in Nat /\ Len(cy) >= 1 /\ DOMAIN cy = 1..Len(cy)
      /\ Head(cy) = cy[1] /\ Head(cy) \in CycleHead
      /\ DOMAIN rest = 1..(Len(cy) - 1)
      /\ \A i \in 1..(Len(cy) - 1) : rest[i] = cy[i + 1]
  BY Popping
<1> HIDE DEF rest
<1>2. ASSUME NEW i \in DOMAIN rest, NEW info \in rest[i].infos, info.off = p
      PROVE  \E j \in DOMAIN cy : \E x \in cy[j].infos : x.off = p
  <2>1. i + 1 \in DOMAIN cy /\ rest[i] = cy[i + 1]
    BY <1>1
  <2> QED  BY <1>2, <2>1
<1>3. ASSUME NEW i \in DOMAIN cy, NEW info \in cy[i].infos, info.off = p
      PROVE  \/ \E j \in DOMAIN rest : \E x \in rest[j].infos : x.off = p
             \/ \E x \in Head(cy).infos : x.off = p
  <2>1. CASE i = 1
    BY <1>1, <1>3, <2>1
  <2>2. CASE i # 1
    <3>1. i - 1 \in DOMAIN rest /\ (i - 1) + 1 = i
      BY <1>1, <2>2
    <3>2. rest[i - 1] = cy[i]
      BY <1>1, <3>1
    <3> QED  BY <1>3, <3>1, <3>2
  <2> QED  BY <2>1, <2>2
<1>4. ASSUME NEW info \in Head(cy).infos
      PROVE  info.off \in Nat /\ LoopJump(cy, info.off)
  <2>1. 1 \in DOMAIN cy /\ cy[1] = Head(cy) /\ info.off \in Nat
    BY <1>1 DEF CycleHead
  <2> QED  BY <2>1 DEF LoopJump
<1>5. /\ LoopJump(rest, p) => LoopJump(cy, p)
      /\ LoopJump(cy, p) => LoopJump(rest, p) \/ \E info \in Head(cy).infos : info.off = p
  BY <1>2, <1>3 DEF LoopJump
<1> QED  BY <1>4, <1>5 DEF rest

(* A pending jump is kept by a construct or by a loop.                     *)
LEMMA PendingJumps ==
  \A ct, cy, p : p \in Pending(ct, cy) <=> p \in Nat /\ (BranchJump(ct, p) \/ LoopJump(cy, p))
BY DEF Pending, BranchJump, LoopJump

(* A construct that is no loop is closed: its own jump is pending no more. *)
LEMMA PendingClosed ==
  ASSUME NEW ct \in Seq(Record), ct # <<>>, NEW cy
  PROVE  /\ Pending(Tail(ct), cy) \subseteq Pending(ct, cy)
         /\ \A p \in Pending(ct, cy) :
              \/ p \in Pending(Tail(ct), cy)
              \/ Head(ct).kind \in Branching /\ p = Head(ct).off
         /\ Head(ct).kind \in Branching => Head(ct).off \in Pending(ct, cy)
<1>1. ASSUME NEW p
      PROVE  /\ p \in Pending(Tail(ct), cy) => p \in Pending(ct, cy)
             /\ p \in Pending(ct, cy) => \/ p \in Pending(Tail(ct), cy)
                                         \/ Head(ct).kind \in Branching /\ p = Head(ct).off
  BY RecordGone, PendingJumps
<1>2. Head(ct).kind \in Branching => Head(ct).off \in Pending(ct, cy)
  BY RecordGone, PendingJumps
<1> QED  BY <1>1, <1>2

(* A loop is closed: its own jump and those of its breaks and continues go.*)
LEMMA PendingLoopClosed ==
  ASSUME NEW ct \in Seq(Record), ct # <<>>, NEW cy \in Seq(CycleHead), cy # <<>>,
         Head(ct).kind \in Looping
  PROVE  /\ Pending(Tail(ct), Tail(cy)) \subseteq Pending(ct, cy)
         /\ \A p \in Pending(ct, cy) :
              \/ p \in Pending(Tail(ct), Tail(cy))
              \/ p = Head(ct).off
              \/ \E info \in Head(cy).infos : info.off = p
         /\ Head(ct).off \in Pending(ct, cy)
         /\ \A info \in Head(cy).infos : info.off \in Pending(ct, cy)
<1>1. ASSUME NEW p
      PROVE  /\ p \in Pending(Tail(ct), Tail(cy)) => p \in Pending(ct, cy)
             /\ p \in Pending(ct, cy) => \/ p \in Pending(Tail(ct), Tail(cy))
                                         \/ p = Head(ct).off
                                         \/ \E info \in Head(cy).infos : info.off = p
  BY RecordGone, CycleGone, PendingJumps
<1>2. Head(ct).off \in Pending(ct, cy)
  BY RecordGone, PendingJumps DEF Branching, Looping
<1>3. \A info \in Head(cy).infos : info.off \in Pending(ct, cy)
  BY CycleGone, PendingJumps
<1> QED  BY <1>1, <1>2, <1>3

InfoAdded(cy, info) == [cy EXCEPT ![1].infos = @ \union {info}]

(* A break or continue is noted in the innermost cycle.                    *)
LEMMA InfoNoted ==
  ASSUME NEW cy \in Seq(CycleHead), cy # <<>>,
         NEW info \in [type : {"break", "continue"}, off : Nat]
  PROVE  /\ InfoAdded(cy, info) \in Seq(CycleHead)
         /\ Len(InfoAdded(cy, info)) = Len(cy) /\ DOMAIN InfoAdded(cy, info) = DOMAIN cy
         /\ \A k \in DOMAIN cy : InfoAdded(cy, info)[k].start = cy[k].start
         /\ \A p : LoopJump(InfoAdded(cy, info), p) <=> LoopJump(cy, p) \/ p = info.off
<1>1. /\ Len(cy) \in Nat /\ Len(cy) >= 1 /\ DOMAIN cy = 1..Len(cy) /\ 1 \in DOMAIN cy
      /\ cy[1] \in CycleHead /\ info.off \in Nat
  BY Popping
<1> DEFINE h == [cy[1] EXCEPT !.infos = @ \union {info}]
<1>2. cy[1] = [start |-> cy[1].start, infos |-> cy[1].infos]
  BY <1>1 DEF CycleHead
<1>3. h = [start |-> cy[1].start, infos |-> cy[1].infos \union {info}]
  <2> DEFINE v == cy[1].infos \union {info}
  <2>1. h = [cy[1] EXCEPT !.infos = v]
    OBVIOUS
  <2> HIDE DEF v, h
  <2>2. h = [start |-> cy[1].start, infos |-> v]
    BY <1>2, <2>1
  <2> QED  BY <2>2 DEF v
<1>4. h \in CycleHead /\ h.start = cy[1].start /\ h.infos = cy[1].infos \union {info}
  BY <1>1, <1>3 DEF CycleHead
<1> DEFINE cy2 == InfoAdded(cy, info)
<1>5. cy2 = [cy EXCEPT ![1] = h]
  BY DEF InfoAdded
<1> HIDE DEF h, cy2
<1>6. /\ cy2 \in Seq(CycleHead) /\ Len(cy2) = Len(cy) /\ DOMAIN cy2 = DOMAIN cy
      /\ cy2[1] = h /\ \A k \in DOMAIN cy : k # 1 => cy2[k] = cy[k]
  <2>1. /\ DOMAIN cy2 = DOMAIN cy /\ cy2[1] = h
        /\ \A k \in DOMAIN cy : k # 1 => cy2[k] = cy[k]
    BY <1>1, <1>5
  <2>2. cy2 \in Seq(CycleHead)
    <3>1. /\ cy \in Seq(CycleHead) /\ 1 \in 1..Len(cy) /\ h \in CycleHead
          /\ cy2 = [cy EXCEPT ![1] = h]
      BY <1>1, <1>4, <1>5
    <3> QED  BY ONLY <3>1, ExceptSeq
  <2>3. Len(cy2) = Len(cy)
    BY <1>1, <2>1, <2>2
  <2> QED  BY <2>1, <2>2, <2>3
<1>7. \A k \in DOMAIN cy : cy2[k].start = cy[k].start
  BY <1>4, <1>6
<1>8. \A p : (\E k \in DOMAIN cy2 : \E x \in cy2[k].infos : x.off = p)
          <=> (\E k \in DOMAIN cy : \E x \in cy[k].infos : x.off = p) \/ info.off = p
  <2> TAKE p
  <2>1. ASSUME NEW k \in DOMAIN cy2, NEW x \in cy2[k].infos, x.off = p
        PROVE  (\E j \in DOMAIN cy : \E y \in cy[j].infos : y.off = p) \/ info.off = p
    BY <1>4, <1>6, <2>1
  <2>2. ASSUME NEW k \in DOMAIN cy, NEW x \in cy[k].infos, x.off = p
        PROVE  \E j \in DOMAIN cy2 : \E y \in cy2[j].infos : y.off = p
    BY <1>4, <1>6, <2>2
  <2>3. ASSUME info.off = p PROVE \E j \in DOMAIN cy2 : \E y \in cy2[j].infos : y.off = p
    BY <1>1, <1>4, <1>6, <2>3
  <2> QED  BY <2>1, <2>2, <2>3
<1>9. \A p : LoopJump(cy2, p) <=> LoopJump(cy, p) \/ p = info.off
  BY <1>8 DEF LoopJump
<1> QED  BY <1>6, <1>7, <1>9 DEF cy2

(* Its jump is pending from then on.                                       *)
LEMMA PendingNoted ==
  ASSUME NEW ct, NEW cy \in Seq(CycleHead), cy # <<>>,
         NEW info \in [type : {"break", "continue"}, off : Nat]
  PROVE  /\ Pending(ct, cy) \subseteq Pending(ct, InfoAdded(cy, info))
         /\ Pending(ct, InfoAdded(cy, info)) \subseteq Pending(ct, cy) \union {info.off}
         /\ info.off \in Pending(ct, InfoAdded(cy, info))
<1>1. info.off \in Nat
  OBVIOUS
<1>2. \A p : LoopJump(InfoAdded(cy, info), p) <=> LoopJump(cy, p) \/ p = info.off
  BY InfoNoted
<1>3. ASSUME NEW p
      PROVE  p \in Pending(ct, InfoAdded(cy, info)) <=> p \in Pending(ct, cy) \/ p = info.off
  BY <1>1, <1>2, PendingJumps
<1> QED  BY <1>3

-----------------------------------------------------------------------------
(* Scope *)

(* The loop of end_scope stops somewhere.                                  *)
LEMMA KeptExists ==
  ASSUME NEW s, s.locals \in Seq(Locals), NEW d \in Int
  PROVE  /\ Kept(s, d) \in 0..Len(s.locals)
         /\ Kept(s, d) > 0 => s.locals[Kept(s, d)].depth <= d
         /\ d <= 0 => Kept(s, d) = 0
<1> DEFINE n == Len(s.locals)
           stops == {k \in 0..n : \A j \in (k + 1)..n : s.locals[j].depth > d}
<1>1. n \in Nat /\ \A j \in 1..n : s.locals[j].depth \in Nat \ {0}
  <2>1. n \in Nat /\ \A j \in 1..n : s.locals[j] \in Locals
    OBVIOUS
  <2> QED  BY <2>1 DEF Locals
<1> HIDE DEF n
<1>2. n \in stops /\ stops \subseteq Nat
  BY <1>1
<1>3. PICK m \in stops : \A k \in stops : m <= k
  <2> HIDE DEF stops
  <2> QED  BY <1>2, LeastOne
<1>4. m \in 0..n /\ \A j \in (m + 1)..n : s.locals[j].depth > d
  OBVIOUS
<1>5. ASSUME m > 0 PROVE s.locals[m].depth <= d
  <2>1. m - 1 \in 0..n /\ m - 1 \notin stops
    <3>1. m - 1 \in 0..n /\ ~(m <= m - 1)
      BY <1>1, <1>4, <1>5
    <3> HIDE DEF stops
    <3> QED  BY <1>3, <3>1
  <2>2. PICK j \in m..n : ~(s.locals[j].depth > d)
    <3>1. (m - 1) + 1 = m
      BY <1>4
    <3> QED  BY <2>1, <3>1
  <2>3. j = m
    BY <1>1, <1>4, <2>2
  <2>4. m \in 1..n
    BY <1>4, <1>5
  <2> QED  BY <1>1, <2>2, <2>3, <2>4
<1>6. /\ Kept(s, d) \in 0..n
      /\ Kept(s, d) > 0 => s.locals[Kept(s, d)].depth <= d
  BY <1>4, <1>5 DEF Kept, n
<1>7. ASSUME d <= 0 PROVE Kept(s, d) = 0
  <2> DEFINE k == Kept(s, d)
  <2>1. ASSUME k > 0 PROVE FALSE
    <3>1. k \in 1..n /\ s.locals[k].depth <= d
      BY <1>1, <1>6, <2>1
    <3> HIDE DEF k
    <3> QED  BY <1>1, <1>7, <3>1
  <2>2. k \in 0..n
    BY <1>6
  <2> HIDE DEF k
  <2>3. k = 0
    BY <1>1, <2>1, <2>2
  <2> QED  BY <2>3 DEF k
<1> QED  BY <1>6, <1>7 DEF n

-----------------------------------------------------------------------------
(* Parser steps: the compiler's part of the state *)

(* What holds between two steps of the parser.                             *)
Ready == CompilerInv /\ Symbols /\ CallsReach(code)

(* The offsets the parser keeps are good in longer code as well.           *)
LEMMA ParserOkGrows ==
  ASSUME NEW ct, NEW cy, NEW c, NEW base, ParserOk(ct, cy, c, base),
         NEW d, Ends(c) \subseteq Ends(d)
  PROVE  ParserOk(ct, cy, d, base)
BY DEF ParserOk

(* A step within a body: the function being read stays the same.           *)
LEMMA BodyStep ==
  ASSUME Ready, ctl # <<>>, UNCHANGED <<fns, symtable>>,
         ctl' # <<>>, ctl'[Len(ctl')] = ctl[Len(ctl)],
         ParserOk(ctl', cycles', code', Base),
         Built(code', Base, Pending(ctl', cycles'))
  PROVE  Ready'
<1>1. Base' = Base /\ CurrentFunction' = CurrentFunction /\ fns' = fns /\ symtable' = symtable
  BY DEF Base, CurrentFunction
<1>2. FunctionsOk'
  BY <1>1 DEF Ready, CompilerInv, FunctionsOk
<1>3. ParserOk(ctl, cycles, code, Base)'
  BY <1>1
<1>4. CodeOk(code, Base, Pending(ctl, cycles))'
  BY <1>1 DEF Built, CodeOk, SoundCode, Checked, JumpsLand, SameSide, PendingAreJumps
<1>5. Symbols' /\ CallsReach(code)'
  BY <1>1 DEF Ready, Symbols, CallsReach, Reaches, Built
<1> QED  BY <1>2, <1>3, <1>4, <1>5 DEF Ready, CompilerInv

(* What Ready says within a body.                                          *)
LEMMA InBodyFacts ==
  ASSUME Ready, ctl # <<>>
  PROVE  /\ ctl \in Seq(Record) /\ cycles \in Seq(CycleHead)
         /\ Built(code, Base, Pending(ctl, cycles))
         /\ ParserOk(ctl, cycles, code, Base)
         /\ SoundCode(code) /\ code.size \in Nat /\ Base \in Nat /\ Base <= code.size
         /\ code.size \in Ends(code)
BY DEF Ready, CompilerInv, Built, CodeOk, SoundCode, ParserOk, Ends

(* A simple statement: straight code.                                      *)
LEMMA StatementStep ==
  ASSUME Ready, ctl # <<>>, UNCHANGED <<fns, symtable, ctl, cycles>>,
         Appends(code, code')
  PROVE  Ready'
<1>1. Built(code', Base, Pending(ctl, cycles))
  BY InBodyFacts, AppendingBuilds
<1>2. ParserOk(ctl, cycles, code', Base)
  BY InBodyFacts, EndsGrow, ParserOkGrows DEF Appends
<1> QED  BY <1>1, <1>2, BodyStep

(* An error leaves everything as it was.                                   *)
LEMMA ErrorStep ==
  ASSUME Ready, UNCHANGED <<code, fns, symtable, cycles, ctl>>
  PROVE  Ready'
BY DEF Ready, CompilerInv, FunctionsOk, CodeOk, SoundCode, Checked, JumpsLand, SameSide,
       PendingAreJumps, Symbols, CallsReach, Reaches, Base, CurrentFunction

(* A construct that is no loop is opened behind straight code and a jump.  *)
LEMMA OpenStep ==
  ASSUME Ready, ctl # <<>>, UNCHANGED <<fns, symtable>>,
         NEW c, Appends(code, c), NEW r \in Record, r.kind # "function",
         ctl' = <<r>> \o ctl,
         \/ /\ r.kind \notin Branching /\ code' = c
         \/ /\ r.kind \in Branching /\ r.off = OperandOffset(c)
            /\ code' = WriteConstant(c, "FJUMP", PLACEHOLDER),
         \/ r.kind \notin Looping /\ cycles' = cycles
         \/ /\ r.kind \in Looping /\ r.start \in Ends(c) /\ r.start >= Base
            /\ cycles' = StartCycle(code)
  PROVE  Ready'
<1>1. /\ ctl \in Seq(Record) /\ cycles \in Seq(CycleHead)
      /\ Built(code, Base, Pending(ctl, cycles)) /\ ParserOk(ctl, cycles, code, Base)
      /\ code.size \in Nat /\ Base \in Nat /\ Base <= code.size /\ code.size \in Ends(code)
  BY InBodyFacts
<1>2. Built(c, Base, Pending(ctl, cycles)) /\ Grows(code, c)
  BY <1>1, AppendingBuilds DEF Appends
<1> DEFINE h == [start |-> code.size, infos |-> {}]
<1>3. h \in CycleHead /\ h.start = code.size /\ h.infos = {}
  BY <1>1 DEF CycleHead
<1>4. cycles' = cycles \/ cycles' = <<h>> \o cycles
  BY DEF StartCycle
<1>5. r.kind \in Looping => cycles' = <<h>> \o cycles
  BY DEF StartCycle
<1> HIDE DEF h
<1>6. /\ Pending(ctl, cycles) \subseteq Pending(ctl', cycles')
      /\ Pending(ctl', cycles') \subseteq Pending(ctl, cycles) \union {r.off}
      /\ r.kind \in Branching => r.off \in Pending(ctl', cycles')
      /\ r.kind \notin Branching => Pending(ctl', cycles') = Pending(ctl, cycles)
  <2>1. cycles' = cycles \/ \E x \in CycleHead : cycles' = <<x>> \o cycles /\ x.infos = {}
    BY <1>3, <1>4
  <2>2. ctl \in Seq(Record) /\ cycles \in Seq(CycleHead)
    BY <1>1
  <2> DEFINE cy == cycles'
  <2>3. cy = cycles \/ \E x \in CycleHead : cy = <<x>> \o cycles /\ x.infos = {}
    BY <2>1
  <2> HIDE DEF cy
  <2>4. /\ Pending(ctl, cycles) \subseteq Pending(<<r>> \o ctl, cy)
        /\ Pending(<<r>> \o ctl, cy) \subseteq Pending(ctl, cycles) \union {r.off}
        /\ r.kind \in Branching => r.off \in Pending(<<r>> \o ctl, cy)
        /\ r.kind \notin Branching => Pending(<<r>> \o ctl, cy) = Pending(ctl, cycles)
    BY <2>2, <2>3, PendingOpened
  <2> QED  BY <2>4 DEF cy
<1>7. Built(code', Base, Pending(ctl', cycles')) /\ Ends(c) \subseteq Ends(code')
  <2>1. CASE r.kind \notin Branching
    BY <1>2, <1>6, <2>1
  <2>2. CASE r.kind \in Branching
    <3>1. PLACEHOLDER \in Int
      BY DEF PLACEHOLDER, INT_SIZE
    <3>2. /\ code' = WriteConstant(c, "FJUMP", PLACEHOLDER) /\ r.off = OperandOffset(c)
          /\ OperandOffset(c) \in Pending(ctl', cycles')
      BY <1>6, <2>2
    <3>3. Built(code', Base, Pending(ctl', cycles')) /\ Grows(c, code')
      BY <1>2, <1>6, <3>1, <3>2, JumpWritten DEF Jumps
    <3> QED  BY <3>3, EndsGrow
  <2> QED  BY <2>1, <2>2
<1>8. Ends(code) \subseteq Ends(code')
  BY <1>2, <1>7, EndsGrow
<1>9. \/ r.kind \notin Looping /\ cycles' = cycles
      \/ /\ r.kind \in Looping /\ r.start \in Ends(code') /\ r.start >= Base
         /\ \E x \in CycleHead : /\ cycles' = <<x>> \o cycles
                                 /\ x.start \in Ends(code') /\ x.start >= Base
  <2>1. h.start \in Ends(code') /\ h.start >= Base
    BY <1>1, <1>3, <1>8
  <2> QED  BY <1>3, <1>5, <1>7, <2>1
<1>10. /\ ParserOk(ctl', cycles', code', Base) /\ ctl' # <<>>
       /\ ctl'[Len(ctl')] = ctl[Len(ctl)]
  <2> DEFINE cy == cycles'
             d == code'
  <2>1. \/ r.kind \notin Looping /\ cy = cycles
        \/ /\ r.kind \in Looping /\ r.start \in Ends(d) /\ r.start >= Base
           /\ \E x \in CycleHead : /\ cy = <<x>> \o cycles
                                   /\ x.start \in Ends(d) /\ x.start >= Base
    BY <1>9
  <2>2. Ends(code) \subseteq Ends(d) /\ ParserOk(ctl, cycles, code, Base)
    BY <1>1, <1>8
  <2> HIDE DEF cy, d
  <2>3. /\ ParserOk(<<r>> \o ctl, cy, d, Base) /\ <<r>> \o ctl # <<>>
        /\ (<<r>> \o ctl)[Len(<<r>> \o ctl)] = ctl[Len(ctl)]
    BY <2>1, <2>2, OpenedOk, ZenonT(60)
  <2> QED  BY <2>3 DEF cy, d
<1> QED  BY <1>7, <1>10, BodyStep

(* A construct is closed: its own jumps are patched and its cycle is gone. *)
LEMMA CloseStep ==
  ASSUME Ready, ctl # <<>>, UNCHANGED <<fns, symtable>>, Head(ctl).kind # "function",
         ctl' = Tail(ctl),
         cycles' = IF Head(ctl).kind \in Looping THEN Tail(cycles) ELSE cycles,
         Built(code', Base, Pending(ctl', cycles')), Ends(code) \subseteq Ends(code')
  PROVE  Ready'
<1>1. ParserOk(ctl, cycles, code, Base)
  BY InBodyFacts
<1>2. /\ ParserOk(ctl', cycles', code', Base) /\ ctl' # <<>>
      /\ ctl'[Len(ctl')] = ctl[Len(ctl)]
  BY <1>1, ClosedOk
<1> QED  BY <1>2, BodyStep

-----------------------------------------------------------------------------
(* The steps between the functions *)

(* At global scope no loop is open and no jump is pending.                 *)
LEMMA TopLevelFacts ==
  ASSUME Ready, ctl = <<>>
  PROVE  /\ cycles = <<>> /\ Base = code.size /\ Pending(ctl, cycles) = {}
         /\ LoopsMatch(<<>>, <<>>) /\ SoundCode(code) /\ code.size \in Nat
         /\ code.size \in Ends(code)
         /\ \A o \in DOMAIN code.ins : code.ins[o].op \in Jumps =>
              Landing(code, o) \in DOMAIN code.ins /\ SameSide(o, Landing(code, o))
<1>1. /\ cycles \in Seq(CycleHead) /\ LoopsMatch(ctl, cycles) /\ SoundCode(code)
      /\ JumpsLand(code, Base, Pending(ctl, cycles))
  BY DEF Ready, CompilerInv, ParserOk, CodeOk
<1>2. Len(cycles) = 0
  BY <1>1 DEF LoopsMatch
<1>3. cycles = <<>>
  BY <1>1, <1>2
<1>4. Pending(ctl, cycles) = {}
  BY <1>3 DEF Pending
<1>5. Base = code.size
  BY DEF Base
<1>6. \A o \in DOMAIN code.ins : o < code.size
  BY <1>1 DEF SoundCode
<1>7. LoopsMatch(<<>>, <<>>) /\ code.size \in Nat /\ code.size \in Ends(code)
  BY <1>1, <1>3 DEF SoundCode, Ends
<1> QED  BY <1>1, <1>3, <1>4, <1>5, <1>6, <1>7 DEF JumpsLand, SoundCode

(* A declaration or the head of a definition: a function object is made,   *)
(* the name is given an object, and the entry, if any, is the end of code. *)
LEMMA FunctionsStep ==
  ASSUME Ready, ctl = <<>>, UNCHANGED <<code, cycles>>,
         fns' \in Seq(FunctionObject),
         Len(fns') = Len(fns) + 1,
         \A j \in DOMAIN fns : fns'[j].name = fns[j].name,
         \A j \in DOMAIN fns' : \/ j \in DOMAIN fns /\ fns'[j].entry = fns[j].entry
                                \/ fns'[j].entry \in {NoEntry, code.size},
         NEW f \in FuncIds, NEW i \in DOMAIN fns', fns'[i].name = f,
         symtable' = [symtable EXCEPT ![f] = Function(i)],
         IsNone(symtable[f]) \/ symtable[f] = Function(i),
         Base' = code.size, Pending(ctl', cycles') = {},
         ParserOk(ctl', cycles', code, code.size),
         ctl' # <<>> => CurrentFunction' \in DOMAIN fns' /\ fns'[CurrentFunction'].entry # NoEntry
  PROVE  Ready'
<1>1. /\ SoundCode(code) /\ code.size \in Nat /\ code.size \in Ends(code) /\ Base = code.size
      /\ \A o \in DOMAIN code.ins : code.ins[o].op \in Jumps =>
           Landing(code, o) \in DOMAIN code.ins /\ SameSide(o, Landing(code, o))
  BY TopLevelFacts
<1>2. /\ fns \in Seq(FunctionObject)
      /\ \A j \in DOMAIN fns : fns[j].entry <= code.size
      /\ DOMAIN symtable = VarIds \union FuncIds /\ CallsReach(code) /\ Symbols
  BY <1>1 DEF Ready, CompilerInv, FunctionsOk, Symbols
<1>3. DOMAIN fns \subseteq DOMAIN fns'
  BY <1>2
<1>4. \A o \in DOMAIN code.ins : o \in Nat /\ o < code.size
  BY <1>1 DEF SoundCode
<1>5. ASSUME NEW o \in DOMAIN code.ins, NEW p \in DOMAIN code.ins, SameSide(o, p)
      PROVE  SameSide(o, p)'
  <2>1. o' = o /\ p' = p
    OBVIOUS
  <2>2. ASSUME NEW j \in DOMAIN fns' PROVE fns'[j].entry <= o <=> fns'[j].entry <= p
    <3>1. o \in Nat /\ p \in Nat /\ o < code.size /\ p < code.size
      BY <1>4
    <3>2. CASE j \in DOMAIN fns /\ fns'[j].entry = fns[j].entry
      BY <1>5, <3>2 DEF SameSide
    <3>3. CASE fns'[j].entry \in {NoEntry, code.size}
      BY <1>1, <3>1, <3>3 DEF NoEntry
    <3> QED  BY <3>2, <3>3
  <2> QED  BY <2>2 DEF SameSide
<1>6. SoundCode(code)'
  BY <1>1, <1>3 DEF SoundCode, Checked, Ends
<1>7. JumpsLand(code, Base, Pending(ctl, cycles))'
  <2>1. ASSUME NEW o \in DOMAIN code.ins, code.ins[o].op \in Jumps
        PROVE  o < code.size /\ Landing(code, o) \in DOMAIN code.ins /\ SameSide(o, Landing(code, o))'
    <3>1. Landing(code, o) \in DOMAIN code.ins /\ SameSide(o, Landing(code, o)) /\ o < code.size
      BY <1>1, <1>4, <2>1
    <3>2. PICK p \in DOMAIN code.ins : p = Landing(code, o)
      BY <3>1
    <3>3. SameSide(o, p)'
      BY <1>5, <3>1, <3>2
    <3>4. \A j \in DOMAIN fns' : fns'[j].entry <= o <=> fns'[j].entry <= Landing(code, o)
      BY <3>2, <3>3 DEF SameSide
    <3>5. Landing(code, o)' = Landing(code, o)
      BY DEF Landing
    <3> QED  BY <3>1, <3>4, <3>5 DEF SameSide
  <2> QED  BY <2>1 DEF JumpsLand, Landing
<1>8. CodeOk(code, Base, Pending(ctl, cycles))'
  BY <1>1, <1>6, <1>7 DEF CodeOk, PendingAreJumps, Ends
<1>9. FunctionsOk'
  <2>1. ASSUME NEW j \in DOMAIN fns' PROVE fns'[j].entry <= code.size
    <3>1. CASE j \in DOMAIN fns /\ fns'[j].entry = fns[j].entry
      BY <1>2, <3>1
    <3>2. CASE fns'[j].entry \in {NoEntry, code.size}
      BY <1>1, <3>2 DEF NoEntry
    <3> QED  BY <3>1, <3>2
  <2>2. \A j \in DOMAIN fns' : fns'[j].entry <= Base'
    BY <2>1
  <2> QED  BY <2>2 DEF FunctionsOk
<1>10. Symbols'
  <2>1. f \in DOMAIN symtable /\ symtable'[f] = Function(i) /\ DOMAIN symtable' = DOMAIN symtable
        /\ \A g \in FuncIds : g # f => symtable'[g] = symtable[g]
    BY <1>2
  <2>2. ASSUME NEW g \in FuncIds, IsFunction(symtable'[g])
        PROVE  \E j \in DOMAIN fns' : symtable'[g] = Function(j) /\ fns'[j].name = g
    <3>1. CASE g = f
      BY <2>1, <3>1
    <3>2. CASE g # f
      <4>1. symtable'[g] = symtable[g] /\ IsFunction(symtable[g])
        BY <2>1, <2>2, <3>2
      <4>2. PICK j \in DOMAIN fns : symtable[g] = Function(j) /\ fns[j].name = g
        BY <1>2, <4>1 DEF Symbols
      <4> QED  BY <1>3, <4>1, <4>2
    <3> QED  BY <3>1, <3>2
  <2> QED  BY <1>2, <2>1, <2>2 DEF Symbols
<1>11. CallsReach(code)'
  <2>1. ASSUME NEW o \in DOMAIN code.ins, code.ins[o].op = "CALL"
        PROVE  symtable'[fns'[code.ins[o].arg].name] = Function(code.ins[o].arg)
    <3>0. PICK a : a = code.ins[o].arg
      OBVIOUS
    <3>1. a \in DOMAIN fns
      BY <1>1, <2>1, <3>0 DEF SoundCode, Checked
    <3>2. symtable[fns[a].name] = Function(a)
      BY <1>2, <2>1, <3>0 DEF CallsReach, Reaches
    <3>3. fns'[a].name = fns[a].name /\ fns[a].name \in FuncIds
      <4>1. fns[a] \in FunctionObject
        BY <1>2, <3>1
      <4> QED  BY <3>1, <4>1 DEF FunctionObject
    <3>4. CASE fns[a].name # f
      <4>1. symtable'[fns[a].name] = symtable[fns[a].name]
        BY <1>2, <3>3, <3>4
      <4>2. symtable'[fns'[a].name] = Function(a)
        BY <3>2, <3>3, <4>1
      <4> QED  BY <3>0, <4>2
    <3>5. CASE fns[a].name = f
      <4>1. symtable[f] = Function(a) /\ ~IsNone(symtable[f])
        BY <3>2, <3>5 DEF Function, Value, IsNone
      <4>2. Function(a) = Function(i)
        BY <4>1
      <4>3. a = i
        BY <4>2 DEF Function, Value
      <4>4. symtable'[f] = Function(i)
        BY <1>2
      <4>5. fns'[a].name = f
        BY <3>3, <3>5
      <4> QED  BY <3>0, <4>3, <4>4, <4>5
    <3> QED  BY <3>0, <3>4, <3>5
  <2> QED  BY <2>1 DEF CallsReach, Reaches
<1>12. ParserOk(ctl, cycles, code, Base)'
  BY DEF ParserOk, Ends
<1> QED  BY <1>8, <1>9, <1>10, <1>11, <1>12 DEF Ready, CompilerInv

GlobalVarStep(id) == /\ IsNone(symtable[id])
                     /\ symtable' = [symtable EXCEPT ![id] = Number(GlobalTag(id))]
                     /\ UNCHANGED <<code, fns, ctl, cycles>>

(* A global variable takes no name a function has.                         *)
LEMMA GlobalDeclared ==
  ASSUME Ready, ctl = <<>>, NEW id \in VarIds, GlobalVarStep(id)
  PROVE  Ready'
<1>1. /\ IsNone(symtable[id]) /\ UNCHANGED <<code, fns, ctl, cycles>>
      /\ symtable' = [symtable EXCEPT ![id] = Number(GlobalTag(id))]
  BY DEF GlobalVarStep
<1>2. DOMAIN symtable = VarIds \union FuncIds /\ Symbols /\ CallsReach(code) /\ CompilerInv
  BY DEF Ready, Symbols
<1>3. CompilerInv'
  BY <1>1, <1>2 DEF CompilerInv, FunctionsOk, CodeOk, SoundCode, Checked, JumpsLand, SameSide,
       PendingAreJumps, Base, CurrentFunction
<1>4. \A g : IsFunction(symtable[g]) => g # id
  BY <1>1 DEF IsFunction, IsNone
<1>5. ~IsFunction(Number(GlobalTag(id)))
  BY DEF IsFunction, Number, Value
<1>6. /\ DOMAIN symtable' = VarIds \union FuncIds
      /\ symtable'[id] = Number(GlobalTag(id))
      /\ \A g \in VarIds \union FuncIds : g # id => symtable'[g] = symtable[g]
  BY <1>1, <1>2
<1>7. Symbols'
  <2>1. ASSUME NEW g \in FuncIds, IsFunction(symtable'[g])
        PROVE  \E i \in DOMAIN fns : symtable'[g] = Function(i) /\ fns[i].name = g
    <3>1. g # id
      BY <1>5, <1>6, <2>1
    <3>2. symtable'[g] = symtable[g]
      BY <1>6, <3>1
    <3> QED  BY <1>2, <2>1, <3>2 DEF Symbols
  <2> QED  BY <1>1, <1>6, <2>1 DEF Symbols
<1>8. CallsReach(code)'
  <2>1. ASSUME NEW o \in DOMAIN code.ins, code.ins[o].op = "CALL"
        PROVE  symtable'[fns[code.ins[o].arg].name] = Function(code.ins[o].arg)
    <3>1. PICK a : a = code.ins[o].arg
      OBVIOUS
    <3>2. a \in DOMAIN fns
      BY <1>2, <2>1, <3>1 DEF CompilerInv, CodeOk, SoundCode, Checked
    <3>3. symtable[fns[a].name] = Function(a)
      BY <1>2, <2>1, <3>1 DEF CallsReach, Reaches
    <3>4. fns[a] \in FunctionObject
      BY <1>2, <3>2 DEF CompilerInv, FunctionsOk
    <3>5. fns[a].name \in FuncIds
      BY <3>4 DEF FunctionObject
    <3>6. IsFunction(symtable[fns[a].name])
      BY <3>3 DEF IsFunction, Function, Value
    <3>7. symtable'[fns[a].name] = symtable[fns[a].name]
      BY <1>4, <1>6, <3>5, <3>6
    <3> QED  BY <3>1, <3>3, <3>7
  <2> QED  BY <1>1, <2>1 DEF CallsReach, Reaches
<1> QED  BY <1>3, <1>7, <1>8 DEF Ready

(* func f(...);                                                            *)
LEMMA DeclareStep ==
  ASSUME Ready, ctl = <<>>, NEW f \in FuncIds, NEW argc \in Nat, IsNone(symtable[f]),
         fns' = Append(fns, NewFunction(f, argc, NoEntry)),
         symtable' = [symtable EXCEPT ![f] = Function(Len(fns) + 1)],
         UNCHANGED <<code, cycles, ctl>>
  PROVE  Ready'
<1> DEFINE g == NewFunction(f, argc, NoEntry)
<1>1. g \in FunctionObject /\ g.name = f /\ g.entry = NoEntry
  BY DEF NewFunction, FunctionObject
<1>2. fns \in Seq(FunctionObject) /\ ParserOk(ctl, cycles, code, Base)
  BY DEF Ready, CompilerInv, FunctionsOk
<1>3. fns' = Append(fns, g)
  OBVIOUS
<1> HIDE DEF g
<1>4. /\ fns' \in Seq(FunctionObject) /\ Len(fns') = Len(fns) + 1
      /\ \A j \in DOMAIN fns : fns'[j] = fns[j]
      /\ fns'[Len(fns) + 1] = g
      /\ Len(fns) + 1 \in DOMAIN fns'
  BY <1>1, <1>2, <1>3
<1>5. ASSUME NEW j \in DOMAIN fns'
      PROVE  \/ j \in DOMAIN fns /\ fns'[j].entry = fns[j].entry
             \/ fns'[j].entry \in {NoEntry, code.size}
  <2>1. j \in DOMAIN fns \/ j = Len(fns) + 1
    BY <1>2, <1>4
  <2> QED  BY <1>1, <1>4, <2>1
<1>6. Base = code.size /\ Pending(ctl, cycles) = {}
  BY TopLevelFacts
<1>7. Base' = code.size /\ Pending(ctl', cycles') = {} /\ ctl' = <<>>
      /\ ParserOk(ctl', cycles', code, code.size)
  BY <1>2, <1>6 DEF Base
<1>8. \A j \in DOMAIN fns : fns'[j].name = fns[j].name
  BY <1>4
<1>9. fns'[Len(fns) + 1].name = f
  BY <1>1, <1>4
<1> QED  BY <1>4, <1>5, <1>7, <1>8, <1>9, FunctionsStep

(* func f(...) {                                                           *)
LEMMA DefineStep ==
  ASSUME Ready, ctl = <<>>, NEW f \in FuncIds, NEW argc \in Nat, Definable(f, argc),
         fns' = [Append(fns, NewFunction(f, argc, NoEntry))
                   EXCEPT ![DefinedObject(f)].entry = code.size],
         symtable' = [symtable EXCEPT ![f] = Function(DefinedObject(f))],
         ctl' = <<Activation("function", DefinedObject(f), 0, NoPost)>> \o ctl,
         UNCHANGED <<code, cycles>>
  PROVE  Ready'
<1> DEFINE g == NewFunction(f, argc, NoEntry)
           i == DefinedObject(f)
           act == Activation("function", i, 0, NoPost)
           hs == Append(fns, g)
<1>1. g \in FunctionObject /\ g.name = f /\ g.entry = NoEntry
  BY DEF NewFunction, FunctionObject
<1>2. /\ fns \in Seq(FunctionObject) /\ code.size \in Nat /\ LoopsMatch(<<>>, <<>>)
      /\ cycles = <<>> /\ Symbols
  BY TopLevelFacts DEF Ready, CompilerInv, FunctionsOk
<1>3. /\ i \in 1..(Len(fns) + 1)
      /\ (IsNone(symtable[f]) /\ i = Len(fns) + 1) \/ symtable[f] = Function(i)
      /\ i \in DOMAIN fns => fns[i].name = f
  <2>1. CASE IsFunction(symtable[f])
    <3>1. PICK j \in DOMAIN fns : symtable[f] = Function(j) /\ fns[j].name = f
      BY <1>2, <2>1 DEF Symbols
    <3>2. i = j
      BY <2>1, <3>1 DEF DefinedObject, Function, Value
    <3> HIDE DEF i
    <3> QED  BY <1>2, <3>1, <3>2
  <2>2. CASE ~IsFunction(symtable[f])
    <3>1. IsNone(symtable[f]) /\ i = Len(fns) + 1
      BY <2>2 DEF Definable, DefinedObject
    <3> HIDE DEF i
    <3> QED  BY <1>2, <3>1
  <2> QED  BY <2>1, <2>2
<1>4. fns' = [hs EXCEPT ![i].entry = code.size] /\ symtable' = [symtable EXCEPT ![f] = Function(i)]
      /\ ctl' = <<act>> /\ act.kind = "function" /\ act.start = i
  BY DEF Activation
<1>5. act \in Record
  <2>1. i \in Nat /\ 0 \in Nat /\ NoPost \in {NoPost} \union VarIds
    BY <1>2, <1>3
  <2> HIDE DEF i
  <2> QED  BY <2>1 DEF Activation, Record
<1> HIDE DEF g, i, act
<1>6. /\ hs \in Seq(FunctionObject) /\ Len(hs) = Len(fns) + 1
      /\ \A j \in DOMAIN fns : hs[j] = fns[j]
      /\ hs[Len(fns) + 1] = g /\ DOMAIN hs = 1..(Len(fns) + 1)
  BY <1>1, <1>2
<1> HIDE DEF hs
<1>7. hs[i].name = f
  BY <1>1, <1>2, <1>3, <1>6
<1> DEFINE h == [hs[i] EXCEPT !.entry = code.size]
<1>8. h \in FunctionObject /\ h.name = f /\ h.entry = code.size
  <2>1. hs[i] \in FunctionObject
    BY <1>3, <1>6
  <2> QED  BY <1>2, <1>7, <2>1 DEF FunctionObject
<1>9. fns' = [hs EXCEPT ![i] = h]
  BY <1>4
<1> HIDE DEF h
<1>10. /\ fns' \in Seq(FunctionObject) /\ Len(fns') = Len(fns) + 1
       /\ DOMAIN fns' = 1..(Len(fns) + 1)
       /\ fns'[i] = h /\ \A j \in 1..(Len(fns) + 1) : j # i => fns'[j] = hs[j]
  <2>1. i \in 1..Len(hs) /\ h \in FunctionObject /\ hs \in Seq(FunctionObject)
    BY <1>3, <1>6, <1>8
  <2>2. /\ [hs EXCEPT ![i] = h] \in Seq(FunctionObject)
        /\ Len([hs EXCEPT ![i] = h]) = Len(hs)
        /\ \A j \in 1..Len(hs) : [hs EXCEPT ![i] = h][j] = IF j = i THEN h ELSE hs[j]
    BY ONLY <2>1, ExceptSeq
  <2> QED  BY <1>3, <1>6, <1>9, <2>2
<1>11. ASSUME NEW j \in DOMAIN fns
       PROVE  fns'[j].name = fns[j].name
  <2>1. j \in 1..(Len(fns) + 1)
    BY <1>2
  <2>2. CASE j = i
    BY <1>3, <1>8, <1>10, <2>2
  <2>3. CASE j # i
    BY <1>6, <1>10, <2>1, <2>3
  <2> QED  BY <2>2, <2>3
<1>12. ASSUME NEW j \in DOMAIN fns'
       PROVE  \/ j \in DOMAIN fns /\ fns'[j].entry = fns[j].entry
              \/ fns'[j].entry \in {NoEntry, code.size}
  <2>1. CASE j = i
    BY <1>8, <1>10, <2>1
  <2>2. CASE j # i
    <3>1. j \in 1..(Len(fns) + 1) /\ fns'[j] = hs[j]
      BY <1>10, <2>2
    <3>2. j \in DOMAIN fns \/ j = Len(fns) + 1
      BY <1>2, <3>1
    <3> QED  BY <1>1, <1>6, <3>1, <3>2
  <2> QED  BY <2>1, <2>2
<1>13. i \in DOMAIN fns' /\ fns'[i].name = f /\ fns'[i].entry = code.size
  BY <1>3, <1>8, <1>10
<1>14. ctl' # <<>> /\ CurrentFunction' = i /\ Base' = code.size /\ fns'[i].entry # NoEntry
  <2>1. ctl'[Len(ctl')].start = i
    BY <1>4
  <2> QED  BY <1>2, <1>4, <1>13, <2>1 DEF CurrentFunction, Base, NoEntry
<1>15. Pending(ctl', cycles') = {}
  <2>1. cycles' = <<>> /\ ctl' = <<act>> /\ act.kind \notin Branching
    BY <1>2, <1>4 DEF Branching
  <2> QED  BY <2>1 DEF Pending
<1>16. ParserOk(ctl', cycles', code, code.size)
  <2>1. cycles' = <<>> /\ ctl' = <<act>> /\ <<>> \in Seq(CycleHead) /\ <<>> \in Seq(Record)
        /\ act.kind \notin Looping /\ act \in Record
    BY <1>2, <1>4, <1>5 DEF Looping
  <2>2. Len(<<>>) = Len(<<>>) + (IF act.kind \in Looping THEN 1 ELSE 0)
    BY <2>1
  <2>3. LoopsMatch(<<act>> \o <<>>, <<>>)
    BY <1>2, <2>1, <2>2, LoopsMatchPush
  <2>4. <<act>> \o <<>> = <<act>> /\ <<act>> \in Seq(Record)
    BY <2>1
  <2>5. LoopsMatch(<<act>>, <<>>)
    BY <2>3, <2>4
  <2> QED  BY <1>4, <2>1, <2>4, <2>5 DEF ParserOk
<1>17. IsNone(symtable[f]) \/ symtable[f] = Function(i)
  BY <1>3
<1> QED
  <2>1. symtable' = [symtable EXCEPT ![f] = Function(i)]
    BY <1>4
  <2> QED  BY <1>10, <1>11, <1>12, <1>13, <1>14, <1>15, <1>16, <1>17, <2>1, FunctionsStep

(* A function is not in anything, and its loops are closed.                *)
LEMMA FunctionAlone ==
  ASSUME Ready, ctl # <<>>, Head(ctl).kind = "function"
  PROVE  /\ Len(ctl) = 1 /\ Tail(ctl) = <<>> /\ ctl[1].kind = "function" /\ DOMAIN ctl = {1}
         /\ cycles = <<>> /\ LoopsMatch(<<>>, <<>>)
<1>1. ctl \in Seq(Record) /\ cycles \in Seq(CycleHead) /\ ParserOk(ctl, cycles, code, Base)
  <2>1. ParserOk(ctl, cycles, code, Base)
    BY DEF Ready, CompilerInv
  <2> QED  BY <2>1 DEF ParserOk
<1>2. Len(ctl) = 1 /\ Tail(ctl) = <<>> /\ ctl[1].kind = "function" /\ DOMAIN ctl = {1}
  <2>1. 1 \in DOMAIN ctl /\ Head(ctl) = ctl[1]
    BY <1>1
  <2>2. 1 = Len(ctl)
    BY <1>1, <2>1 DEF ParserOk
  <2>3. Tail(ctl) \in Seq(Record) /\ Len(Tail(ctl)) = 0
    BY <1>1, <2>2, Popping
  <2>4. PICK t : t = Tail(ctl)
    OBVIOUS
  <2>5. t = <<>>
    <3>1. t \in Seq(Record) /\ Len(t) = 0
      BY <2>3, <2>4
    <3> QED  BY ONLY <3>1
  <2> QED  BY <1>1, <2>1, <2>2, <2>4, <2>5
<1>3. cycles = <<>> /\ LoopsMatch(<<>>, <<>>)
  <2>1. Head(ctl).kind \notin Looping /\ LoopsMatch(ctl, cycles)
    BY <1>1 DEF Looping, ParserOk
  <2>2. LoopsMatch(<<>>, cycles)
    BY <1>1, <1>2, <2>1, LoopsMatchPop
  <2>3. Len(cycles) = 0
    BY <2>2 DEF LoopsMatch
  <2>4. cycles = <<>>
    BY <1>1, <2>3
  <2> QED  BY <2>2, <2>4
<1> QED  BY <1>2, <1>3

(* The end of a function: its code is finished.                            *)
LEMMA EndFunctionStep ==
  ASSUME Ready, ctl # <<>>, Head(ctl).kind = "function", NEW n \in Nat,
         code' = PopLocals(WriteOp(WriteOp(code, "NONE"), "RETURN"), n),
         ctl' = Tail(ctl), UNCHANGED <<fns, symtable, cycles>>
  PROVE  Ready'
<1>1. /\ ctl \in Seq(Record) /\ cycles \in Seq(CycleHead) /\ ParserOk(ctl, cycles, code, Base)
      /\ Built(code, Base, Pending(ctl, cycles)) /\ FunctionsOk
      /\ SoundCode(code) /\ code.size \in Nat /\ Base \in Nat /\ Base <= code.size
  BY InBodyFacts DEF Ready, CompilerInv
<1>2. Len(ctl) = 1 /\ Tail(ctl) = <<>> /\ ctl[1].kind = "function" /\ DOMAIN ctl = {1}
  BY FunctionAlone
<1>3. cycles = <<>> /\ LoopsMatch(<<>>, <<>>)
  BY FunctionAlone
<1>4. Pending(ctl, cycles) = {} /\ ctl' = <<>> /\ cycles' = <<>>
      /\ Pending(ctl', cycles') = {} /\ Base' = code'.size
  <2>1. Pending(ctl, cycles) = {}
    BY <1>2, <1>3 DEF Pending, Branching
  <2>2. Pending(<<>>, <<>>) = {}
    BY DEF Pending
  <2> QED  BY <1>2, <1>3, <2>1, <2>2 DEF Base
<1> DEFINE c1 == WriteOp(code, "NONE")
           c2 == WriteOp(c1, "RETURN")
           d == code'
<1>5. Appends(code, c1) /\ c1.size = code.size + 1 /\ SoundCode(c1)
  <2>1. Appends(code, c1)
    BY <1>1, WriteOpAppends DEF OneByte
  <2>2. c1.size = code.size + 1
    BY DEF WriteOp, AddInstruction
  <2> QED  BY <2>1, <2>2 DEF Appends, Grows
<1>6. d = PopLocals(c2, n)
  OBVIOUS
<1> HIDE DEF d
<1>7. Appends(c1, c2) /\ SoundCode(c2)
  <2> HIDE DEF c1
  <2> QED  BY <1>5, WriteOpAppends DEF OneByte, Appends, Grows
<1> HIDE DEF c1, c2
<1>8. Appends(c2, d) /\ SoundCode(d)
  BY <1>6, <1>7, PopLocalsAppends DEF Appends, Grows
<1>9. Appends(code, c2)
  BY <1>1, <1>5, <1>7, AppendsBehind
<1>10. Appends(code, d)
  BY <1>1, <1>8, <1>9, AppendsBehind
<1>11. code.size < d.size /\ d.size \in Nat
  <2>1. c1.size <= c2.size /\ c2.size <= d.size
    BY <1>7, <1>8 DEF Appends, Grows
  <2>2. c2.size \in Nat /\ d.size \in Nat
    BY <1>7, <1>8 DEF SoundCode
  <2> QED  BY <1>1, <1>5, <2>1, <2>2
<1>12. Ends(code) \subseteq DOMAIN d.ins
  <2>1. code.size \in DOMAIN d.ins
    BY <1>10, <1>11 DEF Appends, Grows, Ends
  <2> QED  BY <1>10, <2>1 DEF Appends, Grows, Ends
<1>13. Built(d, Base, {})
  BY <1>1, <1>4, <1>10, AppendingBuilds
<1>14. ASSUME NEW o \in DOMAIN d.ins, d.ins[o].op \in Jumps
       PROVE  /\ o < d.size /\ Landing(d, o) \in DOMAIN d.ins
              /\ SameSide(o, Landing(d, o))
  <2>1. o \in Nat /\ o < d.size
    BY <1>11, <1>13 DEF Built, CodeOk, SoundCode
  <2>2. o \in DOMAIN code.ins /\ d.ins[o] = code.ins[o]
    BY <1>10, <1>14 DEF Appends, Straight, Plain, Grows
  <2>3. Landing(d, o) = Landing(code, o) /\ code.ins[o].op \in Jumps
    BY <1>14, <2>2 DEF Landing
  <2>4. JumpsLand(code, Base, {})
    BY <1>1, <1>4 DEF Built, CodeOk
  <2>5. CASE Landing(code, o) \in DOMAIN code.ins /\ SameSide(o, Landing(code, o))
    BY <1>12, <2>1, <2>3, <2>5 DEF Ends
  <2>6. CASE o >= Base /\ Landing(code, o) \in Ends(code) /\ Landing(code, o) >= Base
    <3>1. Landing(code, o) \in DOMAIN d.ins
      BY <1>12, <2>6
    <3>2. Landing(code, o) \in Nat
      BY <1>11, <1>13, <3>1 DEF Built, CodeOk, SoundCode
    <3>3. ASSUME NEW i \in DOMAIN fns PROVE fns[i].entry <= o /\ fns[i].entry <= Landing(code, o)
      <4>1. fns[i].entry <= Base
        BY <1>1 DEF FunctionsOk
      <4>2. fns[i] \in FunctionObject
        BY <1>1 DEF FunctionsOk
      <4>3. fns[i].entry \in Int
        BY <4>2 DEF FunctionObject, NoEntry
      <4> QED  BY <1>1, <2>1, <2>6, <3>2, <4>1, <4>3
    <3>4. SameSide(o, Landing(code, o))
      BY <3>3 DEF SameSide
    <3> QED  BY <2>1, <2>3, <3>1, <3>4
  <2> QED  BY <2>2, <2>3, <2>4, <2>5, <2>6 DEF JumpsLand
<1>15. CodeOk(d, d.size, {})
  BY <1>11, <1>13, <1>14 DEF Built, CodeOk, JumpsLand, PendingAreJumps, Ends
<1>16. ParserOk(<<>>, <<>>, d, d.size)
  BY <1>3 DEF ParserOk
<1>17. \A i \in DOMAIN fns : fns[i].entry <= d.size
  <2>1. ASSUME NEW i \in DOMAIN fns PROVE fns[i].entry <= d.size
    <3>1. fns[i].entry <= Base /\ fns[i] \in FunctionObject
      BY <1>1 DEF FunctionsOk
    <3>2. fns[i].entry \in Int
      BY <3>1 DEF FunctionObject, NoEntry
    <3> QED  BY <1>1, <1>11, <3>1, <3>2
  <2> QED  BY <2>1
<1>18. FunctionsOk'
  <2>1. Base' = d.size
    BY <1>4 DEF d
  <2> QED  BY <1>1, <1>4, <1>17, <2>1 DEF FunctionsOk
<1>19. ParserOk(ctl, cycles, code, Base)'
  <2>1. ParserOk(ctl', cycles', code', Base')
    BY <1>4, <1>16 DEF d
  <2> QED  BY <2>1
<1>20. CodeOk(code, Base, Pending(ctl, cycles))'
  <2>1. CodeOk(code', Base', {})
    BY <1>4, <1>15 DEF d
  <2> QED  BY <1>4, <2>1 DEF CodeOk, SoundCode, Checked, JumpsLand, SameSide, PendingAreJumps
<1>21. CallsReach(code)'
  <2>1. CallsReach(code')
    BY <1>13 DEF Built, d
  <2> QED  BY <2>1 DEF CallsReach, Reaches
<1>22. Symbols'
  BY DEF Ready, Symbols
<1> QED  BY <1>18, <1>19, <1>20, <1>21, <1>22 DEF Ready, CompilerInv

(* The end of a block.                                                     *)
LEMMA EndBlockStep ==
  ASSUME Ready, ctl # <<>>, Head(ctl).kind = "block", NEW n \in Nat,
         code' = PopLocals(code, n), ctl' = Tail(ctl), UNCHANGED <<fns, symtable, cycles>>
  PROVE  Ready'
<1>1. /\ ctl \in Seq(Record) /\ cycles \in Seq(CycleHead)
      /\ Built(code, Base, Pending(ctl, cycles)) /\ SoundCode(code)
  BY InBodyFacts
<1>2. Pending(ctl', cycles') = Pending(ctl, cycles)
  <2>1. /\ Pending(Tail(ctl), cycles) \subseteq Pending(ctl, cycles)
        /\ \A p \in Pending(ctl, cycles) : p \in Pending(Tail(ctl), cycles)
    BY <1>1, PendingClosed DEF Branching, Looping
  <2> QED  BY <2>1
<1> DEFINE d == code'
<1>3. d = PopLocals(code, n)
  OBVIOUS
<1> HIDE DEF d
<1>4. Appends(code, d)
  BY <1>1, <1>3, PopLocalsAppends
<1>5. Built(d, Base, Pending(ctl, cycles)) /\ Ends(code) \subseteq Ends(d)
  BY <1>1, <1>4, AppendingBuilds, EndsGrow DEF Appends
<1>6. Built(code', Base, Pending(ctl', cycles')) /\ Ends(code) \subseteq Ends(code')
  BY <1>2, <1>5 DEF d
<1> QED  BY <1>6, CloseStep DEF Looping

(* The end of a branch: its jump lands behind it.                          *)
LEMMA EndBranchStep ==
  ASSUME Ready, ctl # <<>>, Head(ctl).kind \in {"if", "else"}, NEW n \in Nat,
         code' = PatchToHere(PopLocals(code, n), Head(ctl).off),
         ctl' = Tail(ctl), UNCHANGED <<fns, symtable, cycles>>
  PROVE  Ready'
<1>1. /\ ctl \in Seq(Record) /\ cycles \in Seq(CycleHead)
      /\ Built(code, Base, Pending(ctl, cycles)) /\ SoundCode(code)
  BY InBodyFacts
<1> DEFINE off == Head(ctl).off
           c == PopLocals(code, n)
           P == Pending(ctl, cycles)
           T == Pending(Tail(ctl), cycles)
<1>2. /\ T \subseteq P /\ off \in P /\ P \ {off} \subseteq T
  BY <1>1, PendingClosed DEF Branching, Looping
<1>3. Appends(code, c)
  BY <1>1, PopLocalsAppends
<1>4. code' = PatchToHere(c, off) /\ Pending(ctl', cycles') = T
  OBVIOUS
<1> HIDE DEF off, c, P, T
<1>5. Built(c, Base, P) /\ Ends(code) \subseteq Ends(c)
  BY <1>1, <1>3, AppendingBuilds, EndsGrow DEF Appends, P
<1>6. Built(PatchToHere(c, off), Base, T) /\ Ends(PatchToHere(c, off)) = Ends(c)
  BY <1>2, <1>5, PatchedToHere
<1>7. Built(code', Base, Pending(ctl', cycles')) /\ Ends(code) \subseteq Ends(code')
  BY <1>4, <1>5, <1>6
<1> QED  BY <1>7, CloseStep DEF Looping

(* } else {                                                                *)
LEMMA ElseStep ==
  ASSUME Ready, ctl # <<>>, Head(ctl).kind = "if", NEW n \in Nat, NEW c2,
         c2 = WriteConstant(PopLocals(code, n), "JUMP", PLACEHOLDER),
         code' = PatchToHere(c2, Head(ctl).off),
         ctl' = <<Activation("else", 0, c2.size - INT_SIZE, NoPost)>> \o Tail(ctl),
         UNCHANGED <<fns, symtable, cycles>>
  PROVE  Ready'
<1>1. /\ ctl \in Seq(Record) /\ cycles \in Seq(CycleHead) /\ ParserOk(ctl, cycles, code, Base)
      /\ Built(code, Base, Pending(ctl, cycles)) /\ SoundCode(code)
  BY InBodyFacts
<1> DEFINE off == Head(ctl).off
           c == PopLocals(code, n)
           r == Activation("else", 0, c2.size - INT_SIZE, NoPost)
           ct == Tail(ctl)
           P == Pending(ctl, cycles)
           T == Pending(ct, cycles)
           N == Pending(<<r>> \o ct, cycles)
<1>2. Appends(code, c) /\ SoundCode(c)
  BY <1>1, PopLocalsAppends DEF Appends, Grows
<1>3. c2 = WriteConstant(c, "JUMP", PLACEHOLDER)
  OBVIOUS
<1>4. ct \in Seq(Record)
  BY <1>1, Popping
<1>5. T \subseteq P /\ off \in P /\ P \ {off} \subseteq T
  BY <1>1, PendingClosed DEF Branching, Looping
<1>6. code' = PatchToHere(c2, off) /\ ctl' = <<r>> \o ct /\ Pending(ctl', cycles') = N
  OBVIOUS
<1> HIDE DEF c
<1>7. c2.size - INT_SIZE = OperandOffset(c) /\ c2.size - INT_SIZE \in Nat
  <2>1. c.size \in Nat /\ c2.size = c.size + (1 + INT_SIZE)
    BY <1>2, <1>3 DEF SoundCode, WriteConstant, AddInstruction
  <2> QED  BY <2>1 DEF INT_SIZE, OperandOffset
<1>8. /\ r \in Record /\ r.off = OperandOffset(c) /\ r.kind = "else"
  BY <1>7 DEF Activation, Record, Branching
<1> HIDE DEF off, r, ct
<1>9. T \subseteq N /\ N \subseteq T \union {r.off} /\ r.off \in N
  BY <1>1, <1>4, <1>8, PendingOpened DEF Branching
<1> HIDE DEF P, T, N
<1>10. Built(c, Base, P) /\ Ends(code) \subseteq Ends(c)
  BY <1>1, <1>2, AppendingBuilds, EndsGrow DEF Appends, P
<1>11. Built(c2, Base, P \union {r.off}) /\ Grows(c, c2)
  <2>1. PLACEHOLDER \in Int /\ "JUMP" \in Jumps
    BY DEF PLACEHOLDER, INT_SIZE, Jumps
  <2>2. OperandOffset(c) \in P \union {r.off} /\ P \union {r.off} \subseteq P \union {OperandOffset(c)}
        /\ P \subseteq P \union {r.off}
    BY <1>8
  <2> QED  BY <1>3, <1>10, <2>1, <2>2, JumpWritten
<1>12. Built(PatchToHere(c2, off), Base, N) /\ Ends(PatchToHere(c2, off)) = Ends(c2)
  <2>1. off \in P \union {r.off} /\ N \subseteq P \union {r.off}
        /\ (P \union {r.off}) \ {off} \subseteq N
    BY <1>5, <1>9
  <2> QED  BY <1>11, <2>1, PatchedToHere
<1> DEFINE d == PatchToHere(c2, off)
<1>13. Ends(code) \subseteq Ends(d)
  BY <1>10, <1>11, <1>12, EndsGrow
<1> HIDE DEF d
<1>14. ParserOk(ct, cycles, d, Base) /\ ct # <<>> /\ ct[Len(ct)] = ctl[Len(ctl)]
  BY <1>1, <1>13, ClosedOk DEF Looping, ct
<1>15. /\ ParserOk(<<r>> \o ct, cycles, d, Base) /\ <<r>> \o ct # <<>>
       /\ (<<r>> \o ct)[Len(<<r>> \o ct)] = ct[Len(ct)]
  BY <1>8, <1>14, OpenedOk DEF Looping
<1>16. ParserOk(ctl', cycles', code', Base) /\ ctl' # <<>> /\ ctl'[Len(ctl')] = ctl[Len(ctl)]
  BY <1>6, <1>14, <1>15 DEF d
<1>17. Built(code', Base, Pending(ctl', cycles'))
  BY <1>6, <1>12
<1> QED  BY <1>16, <1>17, BodyStep

(* The end of a loop: the jump back, the exit, the breaks and continues.   *)
LEMMA EndLoopStep ==
  ASSUME Ready, ctl # <<>>, Head(ctl).kind \in Looping, NEW n \in Nat,
         NEW c, Appends(code, c),
         NEW head, head = ContinueAt(Head(cycles), head.start),
         head.start \in Ends(code), head.start >= Base,
         code' = PopLocals(PatchCycle(PatchToHere(WriteJumpBack(c, Head(ctl).start),
                                                  Head(ctl).off), head), n),
         ctl' = Tail(ctl), cycles' = Tail(cycles), UNCHANGED <<fns, symtable>>
  PROVE  Ready'
<1>1. /\ ctl \in Seq(Record) /\ cycles \in Seq(CycleHead) /\ ParserOk(ctl, cycles, code, Base)
      /\ Built(code, Base, Pending(ctl, cycles)) /\ SoundCode(code)
  BY InBodyFacts
<1> DEFINE act == Head(ctl)
           ct == Tail(ctl)
           cy == Tail(cycles)
           P == Pending(ctl, cycles)
           T == Pending(ct, cy)
           Q == {p \in P : p \in T \/ \E info \in head.infos : info.off = p}
           c1 == WriteJumpBack(c, act.start)
           c2 == PatchToHere(c1, act.off)
           c3 == PatchCycle(c2, head)
<1>2. /\ cycles # <<>> /\ Head(cycles) \in CycleHead
      /\ act.start \in Ends(code) /\ act.start >= Base
  <2>1. Ends(code) \subseteq Ends(code) /\ Head(ctl).kind # "function"
    BY DEF Looping
  <2> QED  BY <1>1, <2>1, ClosedOk
<1>3. /\ T \subseteq P /\ act.off \in P
      /\ \A p \in P : p \in T \/ p = act.off \/ \E info \in Head(cycles).infos : info.off = p
      /\ \A info \in Head(cycles).infos : info.off \in P
  BY <1>1, <1>2, PendingLoopClosed
<1>4. head.infos = Head(cycles).infos /\ head \in CycleHead
  <2>1. head.start \in Nat
    BY <1>1 DEF SoundCode, Ends
  <2> QED  BY <1>2, <2>1 DEF ContinueAt, CycleHead
<1>5. Q \subseteq P /\ P \ {act.off} \subseteq Q /\ T \subseteq Q
      /\ \A info \in head.infos : info.off \in Q
  BY <1>3, <1>4
<1>6. /\ code' = PopLocals(c3, n) /\ Pending(ctl', cycles') = T
  OBVIOUS
<1>7. act.start \in Nat
  BY <1>1, <1>2 DEF SoundCode, Ends
<1>8. \A p \in Q : p \in T \/ \E info \in head.infos : info.off = p
  OBVIOUS
<1> HIDE DEF act, ct, cy, P, T, Q
<1>9. Built(c, Base, P) /\ Ends(code) \subseteq Ends(c)
  BY <1>1, AppendingBuilds, EndsGrow DEF Appends, P
<1>10. Built(c1, Base, P) /\ Ends(c) \subseteq Ends(c1)
  BY <1>2, <1>7, <1>9, JumpBackWritten, EndsGrow
<1> HIDE DEF c1
<1>11. Built(c2, Base, Q) /\ Ends(c2) = Ends(c1)
  BY <1>3, <1>5, <1>10, PatchedToHere
<1> HIDE DEF c2
<1>12. Built(c3, Base, T) /\ Ends(c3) = Ends(c2)
  <2>1. head.start \in Ends(c2)
    BY <1>9, <1>10, <1>11
  <2> QED  BY <1>4, <1>5, <1>8, <1>11, <2>1, PatchedCycle
<1> HIDE DEF c3
<1> DEFINE d == PopLocals(c3, n)
<1>13. Appends(c3, d)
  BY <1>12, PopLocalsAppends DEF Built, CodeOk
<1> HIDE DEF d
<1>14. Built(d, Base, T) /\ Ends(c3) \subseteq Ends(d)
  BY <1>12, <1>13, AppendingBuilds, EndsGrow DEF Appends
<1>15. Ends(code) \subseteq Ends(d)
  BY <1>9, <1>10, <1>11, <1>12, <1>14
<1>16. Built(code', Base, Pending(ctl', cycles')) /\ Ends(code) \subseteq Ends(code')
  BY <1>6, <1>14, <1>15 DEF d
<1> QED  BY <1>16, CloseStep DEF Looping

(* break and continue: a jump to be patched when the loop ends.            *)
LEMMA JumpStep ==
  ASSUME Ready, ctl # <<>>, cycles # <<>>, NEW kind \in {"break", "continue"},
         code' = WriteConstant(code, "JUMP", PLACEHOLDER), cycles' = AddInfo(kind),
         UNCHANGED <<fns, symtable, ctl>>
  PROVE  Ready'
<1>1. /\ ctl \in Seq(Record) /\ cycles \in Seq(CycleHead) /\ ParserOk(ctl, cycles, code, Base)
      /\ Built(code, Base, Pending(ctl, cycles)) /\ SoundCode(code) /\ code.size \in Nat
  BY InBodyFacts
<1> DEFINE info == [type |-> kind, off |-> OperandOffset(code)]
           cy == cycles'
           d == code'
<1>2. info \in [type : {"break", "continue"}, off : Nat] /\ info.off = OperandOffset(code)
  BY <1>1 DEF OperandOffset
<1>3. cy = InfoAdded(cycles, info) /\ d = WriteConstant(code, "JUMP", PLACEHOLDER)
  BY DEF AddInfo, InfoAdded
<1> HIDE DEF info, cy, d
<1>4. /\ cy \in Seq(CycleHead) /\ Len(cy) = Len(cycles) /\ DOMAIN cy = DOMAIN cycles
      /\ \A k \in DOMAIN cycles : cy[k].start = cycles[k].start
      /\ Pending(ctl, cycles) \subseteq Pending(ctl, cy)
      /\ Pending(ctl, cy) \subseteq Pending(ctl, cycles) \union {info.off}
      /\ info.off \in Pending(ctl, cy)
  <2>1. /\ cycles \in Seq(CycleHead) /\ cycles # <<>> /\ cy = InfoAdded(cycles, info)
        /\ info \in [type : {"break", "continue"}, off : Nat]
    BY <1>1, <1>2, <1>3
  <2>2. /\ InfoAdded(cycles, info) \in Seq(CycleHead)
        /\ Len(InfoAdded(cycles, info)) = Len(cycles)
        /\ DOMAIN InfoAdded(cycles, info) = DOMAIN cycles
        /\ \A k \in DOMAIN cycles : InfoAdded(cycles, info)[k].start = cycles[k].start
    BY ONLY <2>1, InfoNoted
  <2>3. /\ Pending(ctl, cycles) \subseteq Pending(ctl, InfoAdded(cycles, info))
        /\ Pending(ctl, InfoAdded(cycles, info)) \subseteq Pending(ctl, cycles) \union {info.off}
        /\ info.off \in Pending(ctl, InfoAdded(cycles, info))
    BY ONLY <2>1, PendingNoted
  <2> QED  BY <2>1, <2>2, <2>3
<1>5. Built(d, Base, Pending(ctl, cy)) /\ Grows(code, d)
  <2>1. PLACEHOLDER \in Int /\ "JUMP" \in Jumps
    BY DEF PLACEHOLDER, INT_SIZE, Jumps
  <2> DEFINE P == Pending(ctl, cycles)
             N == Pending(ctl, cy)
             b == Base
  <2>2. /\ Built(code, b, P) /\ d = WriteConstant(code, "JUMP", PLACEHOLDER)
        /\ P \subseteq N /\ N \subseteq P \union {OperandOffset(code)}
        /\ OperandOffset(code) \in N
    BY <1>1, <1>2, <1>3, <1>4
  <2> HIDE DEF P, N, b
  <2>3. Built(d, b, N) /\ Grows(code, d)
    BY <2>1, <2>2, JumpWritten
  <2> QED  BY <2>3 DEF b, N
<1>6. ParserOk(ctl, cy, d, Base)
  <2>1. Ends(code) \subseteq Ends(d)
    BY <1>5, EndsGrow
  <2>2. LoopsMatch(ctl, cy)
    BY <1>1, <1>4 DEF ParserOk, LoopsMatch
  <2> QED  BY <1>1, <1>4, <2>1, <2>2 DEF ParserOk
<1>7. Built(code', Base, Pending(ctl', cycles')) /\ ParserOk(ctl', cycles', code', Base)
  BY <1>5, <1>6 DEF cy, d
<1> QED  BY <1>7, BodyStep

-----------------------------------------------------------------------------
(* Every parser step *)

(* What end_scope pops is a number of locals.                              *)
LEMMA PoppedIsNat == ScopeInv => PoppedBy(scope) \in Nat
<1> SUFFICES ASSUME ScopeInv PROVE PoppedBy(scope) \in Nat
  OBVIOUS
<1>1. scope.locals \in Seq(Locals) /\ scope.depth = Len(ctl)
  BY DEF ScopeInv
<1>2. ASSUME NEW d \in Int PROVE Len(scope.locals) - Kept(scope, d) \in Nat
  <2>1. Kept(scope, d) \in 0..Len(scope.locals) /\ Len(scope.locals) \in Nat
    BY <1>1, KeptExists
  <2> QED  BY <2>1
<1>3. scope.depth - 1 \in Int
  BY <1>1
<1>4. Len(scope.locals) - Kept(scope, scope.depth - 1) \in Nat
  BY ONLY <1>2, <1>3
<1> QED  BY <1>4, Zenon DEF PoppedBy

(* The numbers of arguments a program is read with.                        *)
LEMMA ArgcsAreNumbers == Argcs \subseteq Nat
BY ProgramAssumption DEF Argcs

(* The initialiser of a local is straight code.                            *)
LEMMA InitAppends ==
  ASSUME Ready, ctl # <<>>, NEW init \in VarInits, NEW s, InitCompiles(s, init)
  PROVE  Appends(code, InitCode(code, s, init))
<1>1. SoundCode(code) /\ Symbols /\ FunctionsOk
  BY InBodyFacts DEF Ready, CompilerInv
<1>2. CASE init.kind = "literal"
  BY <1>1, <1>2, WriteNumberAppends DEF InitCode
<1>3. CASE init.kind = "copy"
  <2>1. init.id \in VarIds
    BY <1>3 DEF VarInits
  <2> QED  BY <1>1, <1>3, <2>1, VariablesAppend DEF InitCode
<1>4. CASE init.kind = "call"
  <2>1. init.id \in FuncIds
    BY <1>4 DEF VarInits
  <2>2. IsFunction(symtable[init.id])
    BY <1>4 DEF InitCompiles
  <2>3. PICK i \in DOMAIN fns : symtable[init.id] = Function(i)
    BY <1>1, <2>1, <2>2 DEF Symbols
  <2>4. symtable[init.id].v = i
    BY <2>3 DEF Function, Value
  <2>5. fns[i] \in FunctionObject
    BY <1>1, <2>3 DEF FunctionsOk
  <2>6. fns[symtable[init.id].v].argc \in Nat
    BY <2>4, <2>5 DEF FunctionObject
  <2>7. Appends(code, WriteCall(code, init.id, fns[symtable[init.id].v].argc))
    BY <1>1, <2>1, <2>2, <2>6, CallAppends
  <2> QED  BY <1>4, <2>7 DEF InitCode
<1> QED  BY <1>2, <1>3, <1>4 DEF VarInits

(* A clause of a for loop is straight code.                                *)
LEMMA ForInitAppends ==
  ASSUME NEW c, SoundCode(c), NEW s, NEW init \in ForInits
  PROVE  Appends(c, CASE init.kind = "none" -> c
                      [] init.kind = "for_var"  -> WriteNumber(c, VariableTag)
                      [] init.kind = "for_expr" -> WriteAssignment(c, s, init.id))
<1>1. CASE init.kind = "none"
  BY <1>1, AppendsNothing
<1>2. CASE init.kind = "for_var"
  BY <1>2, WriteNumberAppends
<1>3. CASE init.kind = "for_expr"
  <2>1. init.id \in VarIds
    BY <1>3 DEF ForInits
  <2> QED  BY <1>3, <2>1, VariablesAppend
<1> QED  BY <1>1, <1>2, <1>3 DEF ForInits

(* A statement ending in a pop.                                            *)
LEMMA ExpressionStep ==
  ASSUME Ready, NEW c, NEW e, ExpressionStatement(c, e), Appends(code, c)
  PROVE  Ready'
<1>1. ctl # <<>> /\ UNCHANGED <<fns, symtable, ctl, cycles>> /\ code' = WriteOp(c, "POP")
  BY DEF ExpressionStatement, InBody
<1>2. SoundCode(code) /\ SoundCode(c)
  BY <1>1, InBodyFacts DEF Appends, Grows
<1> DEFINE d == code'
<1>3. d = WriteOp(c, "POP")
  BY <1>1
<1> HIDE DEF d
<1>4. Appends(c, d)
  BY <1>2, <1>3, WriteOpAppends DEF OneByte
<1>5. Appends(code, d)
  BY <1>2, <1>4, AppendsBehind
<1> QED  BY <1>1, <1>5, StatementStep DEF d

(* Declarations and functions.                                             *)
LEMMA OuterStepsKeepReady ==
  ASSUME Ready, ScopeInv,
         \/ \E id \in VarIds : GlobalVar(id)
         \/ \E f \in FuncIds, n \in Argcs : DeclareFunction(f, n) \/ OpenFunction(f, n)
         \/ CloseFunction
         \/ EndOfInput
  PROVE  Ready'
<1>0. CompileError => Ready'
  BY ErrorStep DEF CompileError
<1>1. ASSUME NEW id \in VarIds, GlobalVar(id) PROVE Ready'
  <2>1. CASE ~CompileError
    BY <1>1, <2>1, GlobalDeclared DEF GlobalVar, GlobalVarStep
  <2> QED  BY <1>0, <2>1
<1>2. ASSUME NEW f \in FuncIds, NEW n \in Argcs, DeclareFunction(f, n) PROVE Ready'
  <2>1. CASE ~CompileError
    <3>1. /\ ctl = <<>> /\ IsNone(symtable[f]) /\ fns' = Append(fns, NewFunction(f, n, NoEntry))
          /\ symtable' = [symtable EXCEPT ![f] = Function(Len(fns) + 1)]
          /\ UNCHANGED <<code, cycles, ctl>>
      BY <1>2, <2>1 DEF DeclareFunction
    <3> QED  BY <3>1, DeclareStep, ArgcsAreNumbers
  <2> QED  BY <1>0, <2>1
<1>3. ASSUME NEW f \in FuncIds, NEW n \in Argcs, OpenFunction(f, n) PROVE Ready'
  <2>1. CASE ~CompileError
    <3>1. /\ ctl = <<>> /\ Definable(f, n)
          /\ fns' = [Append(fns, NewFunction(f, n, NoEntry))
                       EXCEPT ![DefinedObject(f)].entry = code.size]
          /\ symtable' = [symtable EXCEPT ![f] = Function(DefinedObject(f))]
          /\ ctl' = <<Activation("function", DefinedObject(f), 0, NoPost)>> \o ctl
          /\ UNCHANGED <<code, cycles>>
      BY <1>3, <2>1 DEF OpenFunction, Enter
    <3> QED  BY <3>1, DefineStep, ArgcsAreNumbers
  <2> QED  BY <1>0, <2>1
<1>4. ASSUME CloseFunction PROVE Ready'
  <2>1. /\ ctl # <<>> /\ Head(ctl).kind = "function"
        /\ code' = PopLocals(WriteOp(WriteOp(code, "NONE"), "RETURN"), PoppedBy(scope))
        /\ ctl' = Tail(ctl) /\ UNCHANGED <<fns, symtable, cycles>>
    BY <1>4 DEF CloseFunction, CloseBody, Leave
  <2> QED  BY <2>1, EndFunctionStep, PoppedIsNat
<1>5. ASSUME EndOfInput PROVE Ready'
  <2>1. UNCHANGED <<code, fns, symtable, cycles, ctl>>
    BY <1>5 DEF EndOfInput, CompileError
  <2> QED  BY <2>1, ErrorStep
<1> QED  BY <1>1, <1>2, <1>3, <1>4, <1>5

(* Blocks and branches.                                                    *)
LEMMA BlockStepsKeepReady ==
  ASSUME Ready, ScopeInv,
         OpenBlock \/ CloseBlock \/ OpenIf \/ CloseIf \/ CloseIfOpenElse \/ CloseElse
  PROVE  Ready'
<1>1. CASE OpenBlock
  <2> DEFINE r == Activation("block", 0, 0, NoPost)
  <2>1. /\ ctl # <<>> /\ ctl' = <<r>> \o ctl /\ UNCHANGED <<code, fns, symtable, cycles>>
    BY <1>1 DEF OpenBlock, InBody, Enter
  <2>2. /\ r \in Record /\ r.kind = "block" /\ r.kind # "function"
        /\ r.kind \notin Branching /\ r.kind \notin Looping
    BY DEF Activation, Record, Branching, Looping
  <2>3. Appends(code, code) /\ code' = code
    BY <2>1, InBodyFacts, AppendsNothing
  <2> HIDE DEF r
  <2> QED  BY <2>1, <2>2, <2>3, OpenStep
<1>2. CASE CloseBlock
  <2>1. /\ ctl # <<>> /\ Head(ctl).kind = "block" /\ code' = PopLocals(code, PoppedBy(scope))
        /\ ctl' = Tail(ctl) /\ UNCHANGED <<fns, symtable, cycles>>
    BY <1>2 DEF CloseBlock, Leave
  <2> QED  BY <2>1, EndBlockStep, PoppedIsNat
<1>3. CASE OpenIf
  <2> DEFINE c == WriteCondition(code)
             r == Activation("if", 0, OperandOffset(c), NoPost)
  <2>1. /\ ctl # <<>> /\ ctl' = <<r>> \o ctl /\ UNCHANGED <<fns, symtable, cycles>>
        /\ code' = WriteConstant(c, "FJUMP", PLACEHOLDER)
    BY <1>3 DEF OpenIf, InBody, Enter
  <2>2. Appends(code, c) /\ c.size \in Nat
    BY <2>1, InBodyFacts, ConditionAppends DEF Appends, Grows, SoundCode
  <2> HIDE DEF c
  <2>3. /\ r \in Record /\ r.kind # "function" /\ r.off = OperandOffset(c)
        /\ r.kind \in Branching /\ r.kind \notin Looping
    BY <2>2 DEF Activation, Record, Branching, Looping, OperandOffset
  <2> HIDE DEF r
  <2> QED  BY <2>1, <2>2, <2>3, OpenStep
<1>4. CASE CloseIf
  <2>1. /\ ctl # <<>> /\ Head(ctl).kind \in {"if", "else"}
        /\ code' = PatchToHere(PopLocals(code, PoppedBy(scope)), Head(ctl).off)
        /\ ctl' = Tail(ctl) /\ UNCHANGED <<fns, symtable, cycles>>
    BY <1>4 DEF CloseIf, Leave
  <2> QED  BY <2>1, EndBranchStep, PoppedIsNat
<1>5. CASE CloseIfOpenElse
  <2> DEFINE c2 == WriteConstant(PopLocals(code, PoppedBy(scope)), "JUMP", PLACEHOLDER)
  <2>1. /\ ctl # <<>> /\ Head(ctl).kind = "if"
        /\ code' = PatchToHere(c2, Head(ctl).off)
        /\ ctl' = <<Activation("else", 0, c2.size - INT_SIZE, NoPost)>> \o Tail(ctl)
        /\ UNCHANGED <<fns, symtable, cycles>>
    BY <1>5 DEF CloseIfOpenElse, Leave
  <2>2. c2 = WriteConstant(PopLocals(code, PoppedBy(scope)), "JUMP", PLACEHOLDER)
    OBVIOUS
  <2> HIDE DEF c2
  <2> QED  BY <2>1, <2>2, ElseStep, PoppedIsNat
<1>6. CASE CloseElse
  <2>1. /\ ctl # <<>> /\ Head(ctl).kind \in {"if", "else"}
        /\ code' = PatchToHere(PopLocals(code, PoppedBy(scope)), Head(ctl).off)
        /\ ctl' = Tail(ctl) /\ UNCHANGED <<fns, symtable, cycles>>
    BY <1>6 DEF CloseElse, Leave
  <2> QED  BY <2>1, EndBranchStep, PoppedIsNat
<1> QED  BY <1>1, <1>2, <1>3, <1>4, <1>5, <1>6

(* Loops.                                                                  *)
LEMMA LoopStepsKeepReady ==
  ASSUME Ready, ScopeInv,
         \/ OpenWhile \/ CloseWhile \/ CloseFor \/ Break \/ Continue
         \/ \E init \in ForInits, endless \in BOOLEAN, post \in Posts : OpenFor(init, endless, post)
  PROVE  Ready'
<1>0. CompileError => Ready'
  BY ErrorStep DEF CompileError
<1>1. CASE OpenWhile
  <2> DEFINE c == WriteCondition(code)
             r == Activation("while", code.size, OperandOffset(c), NoPost)
  <2>1. /\ ctl # <<>> /\ ctl' = <<r>> \o ctl /\ UNCHANGED <<fns, symtable>>
        /\ code' = WriteConstant(c, "FJUMP", PLACEHOLDER) /\ cycles' = StartCycle(code)
    BY <1>1 DEF OpenWhile, InBody, Enter
  <2>2. Appends(code, c) /\ c.size \in Nat /\ code.size \in Nat /\ code.size \in Ends(c)
        /\ code.size >= Base
    BY <2>1, InBodyFacts, ConditionAppends DEF Appends, Grows, SoundCode
  <2> HIDE DEF c
  <2>3. /\ r \in Record /\ r.kind # "function" /\ r.off = OperandOffset(c)
        /\ r.kind \in Branching /\ r.kind \in Looping /\ r.start = code.size
    BY <2>2 DEF Activation, Record, Branching, Looping, OperandOffset
  <2> HIDE DEF r
  <2> QED  BY <2>1, <2>2, <2>3, OpenStep
<1>2. CASE CloseWhile
  <2> DEFINE head == Head(cycles)
  <2>1. /\ ctl # <<>> /\ Head(ctl).kind \in Looping /\ Head(ctl).kind # "function"
        /\ code' = PopLocals(PatchCycle(PatchToHere(WriteJumpBack(code, Head(ctl).start),
                                                    Head(ctl).off), head), PoppedBy(scope))
        /\ ctl' = Tail(ctl) /\ cycles' = Tail(cycles) /\ UNCHANGED <<fns, symtable>>
    BY <1>2 DEF CloseWhile, Leave, Looping, EndCycle
  <2>2. ParserOk(ctl, cycles, code, Base) /\ SoundCode(code)
    BY <2>1, InBodyFacts
  <2>3. head \in CycleHead /\ head.start \in Ends(code) /\ head.start >= Base
    BY <2>1, <2>2, ClosedOk
  <2> HIDE DEF head
  <2>4. head = ContinueAt(head, head.start)
    BY <2>3 DEF ContinueAt, CycleHead
  <2>5. head = ContinueAt(Head(cycles), head.start)
    BY <2>4 DEF head
  <2>6. Appends(code, code)
    BY <2>2, AppendsNothing
  <2>7. PoppedBy(scope) \in Nat
    BY PoppedIsNat
  <2> QED  BY <2>1, <2>3, <2>5, <2>6, <2>7, EndLoopStep
<1>3. CASE CloseFor
  <2> DEFINE act == Head(ctl)
             head == ContinueAt(Head(cycles), code.size)
             c == IF act.post = NoPost THEN code
                  ELSE WriteOp(WriteIncrVar(code, scope, act.post), "POP")
  <2>1. /\ ctl # <<>> /\ Head(ctl).kind \in Looping /\ Head(ctl).kind # "function"
        /\ code' = PopLocals(PatchCycle(PatchToHere(WriteJumpBack(c, Head(ctl).start),
                                                    Head(ctl).off), head), PoppedBy(scope))
        /\ ctl' = Tail(ctl) /\ cycles' = Tail(cycles) /\ UNCHANGED <<fns, symtable>>
    BY <1>3 DEF CloseFor, Leave, Looping, EndCycle
  <2>2. /\ ParserOk(ctl, cycles, code, Base) /\ SoundCode(code) /\ code.size \in Ends(code)
        /\ code.size >= Base
    BY <2>1, InBodyFacts
  <2>3. Head(cycles) \in CycleHead /\ act \in Record
    BY <2>1, <2>2, ClosedOk
  <2>4. head.start = code.size /\ head = ContinueAt(Head(cycles), head.start)
    BY <2>3 DEF ContinueAt, CycleHead
  <2>5. Appends(code, c)
    <3>1. CASE act.post = NoPost
      BY <2>2, <3>1, AppendsNothing
    <3>2. CASE act.post # NoPost
      <4> DEFINE e == WriteIncrVar(code, scope, act.post)
      <4>1. act.post \in VarIds
        BY <2>3, <3>2 DEF Record
      <4>2. Appends(code, e) /\ SoundCode(e)
        BY <2>2, <4>1, VariablesAppend DEF Appends, Grows
      <4>3. c = WriteOp(e, "POP")
        BY <3>2
      <4> HIDE DEF e, c
      <4>4. Appends(e, c)
        BY <4>2, <4>3, WriteOpAppends DEF OneByte
      <4> QED  BY <2>2, <4>2, <4>4, AppendsBehind
    <3> QED  BY <3>1, <3>2
  <2>6. PoppedBy(scope) \in Nat /\ head.start \in Ends(code) /\ head.start >= Base
    BY <2>2, <2>4, PoppedIsNat
  <2> HIDE DEF act, head, c
  <2> QED  BY <2>1, <2>4, <2>5, <2>6, EndLoopStep
<1>4. ASSUME NEW kind \in {"break", "continue"}, Jump(kind) PROVE Ready'
  <2>1. CASE ~CompileError
    <3>1. /\ ctl # <<>> /\ cycles # <<>> /\ code' = WriteConstant(code, "JUMP", PLACEHOLDER)
          /\ cycles' = AddInfo(kind) /\ UNCHANGED <<fns, symtable, ctl>>
      BY <1>4, <2>1 DEF Jump, InBody
    <3> QED  BY <3>1, JumpStep
  <2> QED  BY <1>0, <2>1
<1>5. ASSUME NEW init \in ForInits, NEW endless \in BOOLEAN, NEW post \in Posts,
             OpenFor(init, endless, post)
      PROVE  Ready'
  <2> DEFINE isVar == init.kind = "for_var"
             s  == IF isVar THEN DefineLocal(DeclareLocal(BeginScope(scope), init.id))
                   ELSE BeginScope(scope)
             c1 == CASE init.kind = "none" -> code
                     [] init.kind = "for_var"  -> WriteNumber(code, VariableTag)
                     [] init.kind = "for_expr" -> WriteAssignment(code, s, init.id)
             c2 == IF endless THEN WriteConstant(c1, "BOOLEAN", 1) ELSE WriteCondition(c1)
             r  == Activation("for", c1.size, OperandOffset(c2), post)
  <2>c. CASE CompileError
    BY <1>0, <2>c
  <2> SUFFICES ASSUME ~CompileError PROVE Ready'
    BY <2>c
  <2>1. /\ ctl # <<>> /\ ctl' = <<r>> \o ctl /\ UNCHANGED <<fns, symtable>>
        /\ code' = WriteConstant(c2, "FJUMP", PLACEHOLDER) /\ cycles' = StartCycle(code)
    BY <1>5 DEF OpenFor, InBody, Enter
  <2>2. SoundCode(code) /\ code.size \in Nat /\ code.size >= Base /\ Base \in Nat
    BY <2>1, InBodyFacts
  <2> HIDE DEF s
  <2>3. Appends(code, c1)
    BY <2>2, ForInitAppends
  <2> HIDE DEF c1
  <2>4. SoundCode(c1) /\ c1.size >= code.size
    BY <2>3 DEF Appends, Grows
  <2>5. Appends(c1, c2)
    <3>1. /\ Checked([op |-> "BOOLEAN", arg |-> 1]) /\ Plain([op |-> "BOOLEAN", arg |-> 1])
      BY DEF Checked, Plain, Jumps
    <3>2. Appends(c1, WriteConstant(c1, "BOOLEAN", 1))
      BY <2>4, <3>1, WriteConstantAppends DEF OneByte
    <3>3. Appends(c1, WriteCondition(c1))
      BY <2>4, ConditionAppends
    <3> QED  BY <3>2, <3>3
  <2> HIDE DEF c2
  <2>6. Appends(code, c2)
    BY <2>2, <2>3, <2>5, AppendsBehind
  <2>7. c1.size \in Ends(c2) /\ c1.size >= Base /\ c1.size \in Nat /\ c2.size \in Nat
    BY <2>2, <2>4, <2>5 DEF Appends, Grows, SoundCode
  <2>8. post \in {NoPost} \union VarIds
    BY DEF Posts
  <2>9. /\ r \in Record /\ r.kind # "function" /\ r.off = OperandOffset(c2)
        /\ r.kind \in Branching /\ r.kind \in Looping /\ r.start = c1.size
    BY <2>7, <2>8 DEF Activation, Record, Branching, Looping, OperandOffset
  <2> HIDE DEF r
  <2> QED  BY <2>1, <2>6, <2>7, <2>9, OpenStep
<1> QED  BY <1>1, <1>2, <1>3, <1>4, <1>5 DEF Break, Continue

(* Simple statements.                                                      *)
LEMMA StatementsKeepReady ==
  ASSUME Ready, ScopeInv,
         \/ \E id \in VarIds, init \in VarInits : LocalVar(id, init)
         \/ \E id \in VarIds : Output(id) \/ Assign(id) \/ Increment(id)
         \/ \E f \in FuncIds, n \in Argcs : Call(f, n)
         \/ \E id \in VarIds, f \in FuncIds : AssignCall(id, f)
         \/ \E withValue \in BOOLEAN : Return(withValue)
  PROVE  Ready'
<1>0. CompileError => Ready'
  BY ErrorStep DEF CompileError
<1>a. SoundCode(code) /\ Symbols /\ FunctionsOk
  BY DEF Ready, CompilerInv, CodeOk
<1>1. ASSUME NEW id \in VarIds, NEW init \in VarInits, LocalVar(id, init) PROVE Ready'
  <2>1. CASE ~CompileError
    <3> DEFINE s == DeclareVariable(scope, id)
    <3>1. /\ ctl # <<>> /\ InitCompiles(s, init) /\ code' = InitCode(code, s, init)
          /\ UNCHANGED <<fns, symtable, cycles, ctl>>
      BY <1>1, <2>1 DEF LocalVar, InBody
    <3> HIDE DEF s
    <3>2. Appends(code, InitCode(code, s, init))
      BY <3>1, InitAppends
    <3>3. Appends(code, code')
      BY <3>1, <3>2
    <3> QED  BY <3>1, <3>3, StatementStep
  <2> QED  BY <1>0, <2>1
<1>2. ASSUME NEW id \in VarIds, Output(id) PROVE Ready'
  <2> DEFINE c == WriteGetVar(code, scope, id)
             d == WriteNativeCall(c, "print", 1)
  <2>1. PICK e : ExpressionStatement(d, e)
    BY <1>2 DEF Output
  <2>2. Appends(code, c) /\ SoundCode(c)
    BY <1>a, VariablesAppend DEF Appends, Grows
  <2> HIDE DEF c
  <2>3. Appends(c, d)
    BY <2>2, NativeCallAppends
  <2> HIDE DEF d
  <2>4. Appends(code, d)
    BY <1>a, <2>2, <2>3, AppendsBehind
  <2> QED  BY <2>1, <2>4, ExpressionStep
<1>3. ASSUME NEW id \in VarIds, Assign(id) PROVE Ready'
  <2> DEFINE d == WriteAssignment(code, scope, id)
  <2>1. PICK e : ExpressionStatement(d, e)
    BY <1>3 DEF Assign
  <2>2. Appends(code, d)
    BY <1>a, VariablesAppend
  <2> HIDE DEF d
  <2> QED  BY <2>1, <2>2, ExpressionStep
<1>4. ASSUME NEW id \in VarIds, Increment(id) PROVE Ready'
  <2> DEFINE d == WriteIncrVar(code, scope, id)
  <2>1. PICK e : ExpressionStatement(d, e)
    BY <1>4 DEF Increment
  <2>2. Appends(code, d)
    BY <1>a, VariablesAppend
  <2> HIDE DEF d
  <2> QED  BY <2>1, <2>2, ExpressionStep
<1>5. ASSUME NEW f \in FuncIds, NEW n \in Argcs, Call(f, n) PROVE Ready'
  <2> DEFINE d == WriteCall(code, f, n)
  <2>1. CASE ~CompileError
    <3>1. PICK e : Callable(f, n) /\ ExpressionStatement(d, e)
      BY <1>5, <2>1 DEF Call
    <3>2. Appends(code, d)
      BY <1>a, <3>1, CallAppends, ArgcsAreNumbers DEF Callable
    <3> HIDE DEF d
    <3> QED  BY <3>1, <3>2, ExpressionStep
  <2> QED  BY <1>0, <2>1
<1>6. ASSUME NEW id \in VarIds, NEW f \in FuncIds, AssignCall(id, f) PROVE Ready'
  <2> DEFINE c == WriteCall(code, f, 0)
             d == WriteSetVar(c, scope, id)
  <2>1. PICK e : Callable(f, 0) /\ ExpressionStatement(d, e)
    BY <1>6 DEF AssignCall
  <2>2. Appends(code, c) /\ SoundCode(c)
    BY <1>a, <2>1, CallAppends DEF Callable, Appends, Grows
  <2> HIDE DEF c
  <2>3. Appends(c, d)
    BY <2>2, VariablesAppend
  <2> HIDE DEF d
  <2>4. Appends(code, d)
    BY <1>a, <2>2, <2>3, AppendsBehind
  <2> QED  BY <2>1, <2>4, ExpressionStep
<1>7. ASSUME NEW withValue \in BOOLEAN, Return(withValue) PROVE Ready'
  <2> DEFINE c == IF withValue THEN WriteNumber(code, ReturnTag(CurrentFunction))
                  ELSE WriteOp(code, "NONE")
             d == code'
  <2>1. /\ ctl # <<>> /\ d = WriteOp(c, "RETURN") /\ UNCHANGED <<fns, symtable, cycles, ctl>>
    BY <1>7 DEF Return, InBody
  <2> HIDE DEF d
  <2>2. Appends(code, c)
    BY <1>a, WriteNumberAppends, WriteOpAppends DEF OneByte
  <2> HIDE DEF c
  <2>3. Appends(c, d)
    BY <2>1, <2>2, WriteOpAppends DEF OneByte, Appends, Grows
  <2>4. Appends(code, d)
    BY <1>a, <2>2, <2>3, AppendsBehind
  <2> QED  BY <2>1, <2>4, StatementStep DEF d
<1> QED  BY <1>1, <1>2, <1>3, <1>4, <1>5, <1>6, <1>7

(* Whatever is read, the code stays sound and the calls reach.             *)
LEMMA ParseKeepsReady ==
  ASSUME Ready, ScopeInv, Parse PROVE Ready'
BY OuterStepsKeepReady, BlockStepsKeepReady, LoopStepsKeepReady, StatementsKeepReady
   DEF Parse

-----------------------------------------------------------------------------
(* Scopes open and close with the parser's C stack *)

(* A scope is opened with a construct.                                     *)
LEMMA ScopeOpened ==
  ASSUME ScopeInv, ctl \in Seq(Record), NEW r \in Record, ctl' = <<r>> \o ctl,
         scope' = [locals |-> scope.locals, args |-> scope'.args, depth |-> scope.depth + 1]
  PROVE  ScopeInv'
<1>1. Len(ctl') = Len(ctl) + 1 /\ ctl' # <<>>
  <2>1. <<r>> \o ctl \in Seq(Record) /\ Len(<<r>> \o ctl) = Len(ctl) + 1 /\ Len(ctl) \in Nat
    BY Pushing
  <2> QED  BY <2>1
<1>2. scope.depth = Len(ctl) /\ scope.locals \in Seq(Locals)
  BY DEF ScopeInv
<1> DEFINE args == scope'.args
<1>3. scope' = [locals |-> scope.locals, args |-> args, depth |-> scope.depth + 1]
  OBVIOUS
<1> HIDE DEF args
<1>4. /\ scope'.locals = scope.locals /\ scope'.depth = scope.depth + 1 /\ scope'.args = args
  BY <1>3
<1>5. scope' = [locals |-> scope'.locals, args |-> scope'.args, depth |-> scope'.depth]
  BY <1>3, <1>4
<1> QED  BY <1>1, <1>2, <1>4, <1>5 DEF ScopeInv

(* begin_scope *)
LEMMA BeginScopeIs ==
  ASSUME ScopeInv
  PROVE  BeginScope(scope) = [locals |-> scope.locals, args |-> scope.args,
                              depth |-> scope.depth + 1]
BY DEF BeginScope, ScopeInv

(* A closed scope leaves locals, and none at global scope.                 *)
LEMMA EndScopeIs ==
  ASSUME NEW s, s.locals \in Seq(Locals), s.depth \in Nat \ {0}
  PROVE  /\ EndScope(s) = [locals |-> EndScope(s).locals, args |-> EndScope(s).args,
                           depth |-> EndScope(s).depth]
         /\ EndScope(s).depth = s.depth - 1
         /\ EndScope(s).locals \in Seq(Locals)
         /\ s.depth = 1 => EndScope(s).locals = <<>> /\ EndScope(s).args = <<>>
<1> DEFINE d == s.depth - 1
           k == Kept(s, d)
           e == EndScope(s)
<1>1. k \in 0..Len(s.locals) /\ (d = 0 => k = 0) /\ d \in Int
  <2>1. d \in Int
    OBVIOUS
  <2> HIDE DEF d
  <2>2. Kept(s, d) \in 0..Len(s.locals) /\ (d <= 0 => Kept(s, d) = 0)
    BY <2>1, KeptExists
  <2> QED  BY <2>1, <2>2
<1>2. e = [locals |-> SubSeq(s.locals, 1, k), args |-> IF d = 0 THEN <<>> ELSE s.args, depth |-> d]
  BY DEF EndScope
<1> HIDE DEF k, e
<1>3. SubSeq(s.locals, 1, k) \in Seq(Locals)
  BY <1>1
<1>4. k = 0 => SubSeq(s.locals, 1, k) = <<>>
  OBVIOUS
<1> QED  BY <1>1, <1>2, <1>3, <1>4 DEF e

(* A scope is closed with a construct.                                     *)
LEMMA ScopeClosed ==
  ASSUME ScopeInv, ctl \in Seq(Record), ctl # <<>>, ctl' = Tail(ctl), scope' = EndScope(scope)
  PROVE  ScopeInv'
<1>1. Len(ctl') = Len(ctl) - 1 /\ ctl' \in Seq(Record) /\ Len(ctl) \in Nat \ {0}
  <2>1. Tail(ctl) \in Seq(Record) /\ Len(Tail(ctl)) = Len(ctl) - 1 /\ Len(ctl) >= 1 /\ Len(ctl) \in Nat
    BY Popping
  <2> QED  BY <2>1
<1>2. scope.depth = Len(ctl) /\ scope.locals \in Seq(Locals)
  BY DEF ScopeInv
<1> DEFINE e == EndScope(scope)
<1>3. /\ e = [locals |-> e.locals, args |-> e.args, depth |-> e.depth]
      /\ e.depth = Len(ctl) - 1 /\ e.locals \in Seq(Locals)
      /\ Len(ctl) = 1 => e.locals = <<>> /\ e.args = <<>>
  BY <1>1, <1>2, EndScopeIs
<1>4. scope' = e
  OBVIOUS
<1> HIDE DEF e
<1>5. ctl' = <<>> => Len(ctl) = 1
  <2>1. ctl' = <<>> => Len(ctl') = 0
    OBVIOUS
  <2> QED  BY <1>1, <2>1
<1> QED  BY <1>1, <1>3, <1>4, <1>5 DEF ScopeInv

(* One scope is closed and another opened for the other branch.            *)
LEMMA ScopeReopened ==
  ASSUME ScopeInv, ctl \in Seq(Record), ctl # <<>>, NEW r \in Record,
         ctl' = <<r>> \o Tail(ctl), scope' = BeginScope(EndScope(scope))
  PROVE  ScopeInv'
<1>1. Len(ctl') = Len(ctl) /\ ctl' # <<>> /\ Len(ctl) \in Nat \ {0}
  <2>1. Tail(ctl) \in Seq(Record) /\ Len(Tail(ctl)) = Len(ctl) - 1 /\ Len(ctl) >= 1 /\ Len(ctl) \in Nat
    BY Popping
  <2>2. Len(<<r>> \o Tail(ctl)) = Len(Tail(ctl)) + 1 /\ <<r>> \o Tail(ctl) \in Seq(Record)
    BY <2>1, Pushing
  <2> QED  BY <2>1, <2>2
<1>2. scope.depth = Len(ctl) /\ scope.locals \in Seq(Locals)
  BY DEF ScopeInv
<1> DEFINE e == EndScope(scope)
<1>3. /\ e = [locals |-> e.locals, args |-> e.args, depth |-> e.depth]
      /\ e.depth = Len(ctl) - 1 /\ e.locals \in Seq(Locals)
  BY <1>1, <1>2, EndScopeIs
<1>4. scope' = [e EXCEPT !.depth = @ + 1]
  BY DEF BeginScope
<1> HIDE DEF e
<1>5. scope' = [locals |-> e.locals, args |-> e.args, depth |-> Len(ctl)]
  BY <1>1, <1>3, <1>4
<1>6. scope'.locals = e.locals /\ scope'.args = e.args /\ scope'.depth = Len(ctl)
  BY <1>5
<1>7. scope' = [locals |-> scope'.locals, args |-> scope'.args, depth |-> scope'.depth]
  BY <1>5, <1>6
<1> QED  BY <1>1, <1>3, <1>6, <1>7 DEF ScopeInv

(* A variable is declared and defined in one go.                           *)
LEMMA LocalDefined ==
  ASSUME NEW s, s = [locals |-> s.locals, args |-> s.args, depth |-> s.depth],
         s.locals \in Seq(Locals), s.depth \in Nat \ {0}, NEW id \in VarIds
  PROVE  LET t == DefineLocal(DeclareLocal(s, id))
         IN  t = [locals |-> t.locals, args |-> s.args, depth |-> s.depth]
             /\ t.locals \in Seq(Locals)
             /\ t.locals = Append(s.locals, [id |-> id, depth |-> s.depth])
<1> DEFINE x == [id |-> id, depth |-> Undefined]
           y == [id |-> id, depth |-> s.depth]
           ls == Append(s.locals, x)
           n == Len(s.locals) + 1
           t == DefineLocal(DeclareLocal(s, id))
           v == [ls EXCEPT ![n] = y]
<1>1. DeclareLocal(s, id) = [locals |-> ls, args |-> s.args, depth |-> s.depth]
  <2>1. DeclareLocal(s, id) = [s EXCEPT !.locals = ls]
    BY DEF DeclareLocal
  <2> HIDE DEF ls
  <2> QED  BY <2>1
<1>2. Len(ls) = n /\ ls[n] = x /\ \A i \in 1..Len(s.locals) : ls[i] = s.locals[i]
  OBVIOUS
<1>3. x = [id |-> id, depth |-> Undefined] /\ y \in Locals
  BY DEF Locals
<1>4. [ls[n] EXCEPT !.depth = s.depth] = y
  BY <1>2
<1> HIDE DEF x, y, ls
<1>5. t = [locals |-> [ls EXCEPT ![n].depth = s.depth], args |-> s.args, depth |-> s.depth]
  <2> DEFINE r == DeclareLocal(s, id)
             u == [ls EXCEPT ![n].depth = s.depth]
  <2>1. r.locals = ls /\ r.depth = s.depth /\ r = [locals |-> ls, args |-> s.args, depth |-> s.depth]
    BY <1>1
  <2>2. t = DefineLocal(r)
    OBVIOUS
  <2> HIDE DEF r
  <2>3. DefineLocal(r) = [r EXCEPT !.locals = [r.locals EXCEPT ![Len(r.locals)].depth = r.depth]]
    BY DEF DefineLocal
  <2>4. [r.locals EXCEPT ![Len(r.locals)].depth = r.depth] = u
    BY <1>2, <2>1
  <2> HIDE DEF u
  <2>5. t = [r EXCEPT !.locals = u]
    BY <2>2, <2>3, <2>4
  <2> HIDE DEF t
  <2>6. t = [locals |-> u, args |-> s.args, depth |-> s.depth]
    BY <2>1, <2>5
  <2> QED  BY <2>6 DEF u
<1>6. t = [locals |-> v, args |-> s.args, depth |-> s.depth]
  BY <1>4, <1>5
<1>7. v = Append(s.locals, y)
  <2>1. /\ DOMAIN ls = 1..n /\ DOMAIN v = 1..n /\ v[n] = y
        /\ \A i \in 1..Len(s.locals) : v[i] = s.locals[i]
    <3>1. DOMAIN ls = 1..n /\ n \in 1..n
      BY <1>2 DEF ls
    <3>2. \A i \in 1..Len(s.locals) : i \in 1..n /\ i # n
      OBVIOUS
    <3> HIDE DEF n
    <3> QED  BY <1>2, <3>1, <3>2
  <2> DEFINE w == Append(s.locals, y)
  <2>2. w \in Seq(Locals) /\ Len(w) = n /\ w[n] = y /\ \A i \in 1..Len(s.locals) : w[i] = s.locals[i]
    BY <1>3
  <2>3. \A i \in 1..n : i = n \/ i \in 1..Len(s.locals)
    OBVIOUS
  <2>4. DOMAIN w = 1..n
    BY <2>2
  <2>5. \A i \in 1..n : w[i] = v[i]
    <3> HIDE DEF w, v, n
    <3> QED  BY <2>1, <2>2, <2>3
  <2>6. v = [i \in 1..n |-> v[i]]
    BY <2>1
  <2>7. w = [i \in 1..n |-> w[i]]
    BY <2>2
  <2> HIDE DEF w, v, n
  <2> QED  BY <2>5, <2>6, <2>7 DEF w
<1>8. Append(s.locals, y) \in Seq(Locals)
  BY <1>3
<1> HIDE DEF v, t
<1>9. t.locals = v
  BY <1>6
<1> QED  BY <1>6, <1>7, <1>8, <1>9 DEF t, y

(* Nothing of it moves.                                                    *)
LEMMA ScopeStays ==
  ASSUME ScopeInv, scope' = scope, ctl' = ctl PROVE ScopeInv'
BY DEF ScopeInv

(* A local more, at the depth of the scope it is declared in.              *)
LEMMA ScopeGains ==
  ASSUME ScopeInv, ctl \in Seq(Record), ctl # <<>>, ctl' = ctl, NEW id \in VarIds,
         scope' = DefineLocal(DeclareLocal(scope, id))
  PROVE  ScopeInv'
<1>1. /\ scope = [locals |-> scope.locals, args |-> scope.args, depth |-> scope.depth]
      /\ scope.depth = Len(ctl) /\ scope.locals \in Seq(Locals) /\ scope.depth \in Nat \ {0}
  BY DEF ScopeInv
<1> DEFINE t == DefineLocal(DeclareLocal(scope, id))
<1>2. /\ t = [locals |-> t.locals, args |-> scope.args, depth |-> scope.depth]
      /\ t.locals \in Seq(Locals)
  BY <1>1, LocalDefined
<1>3. scope' = t
  OBVIOUS
<1> HIDE DEF t
<1>4. t.depth = scope.depth /\ t = [locals |-> t.locals, args |-> t.args, depth |-> t.depth]
  BY <1>2
<1> QED  BY <1>1, <1>2, <1>3, <1>4 DEF ScopeInv

(* Every parser step keeps depth and nesting together.                     *)
LEMMA ParseKeepsScope ==
  ASSUME Ready, ScopeInv, Parse PROVE ScopeInv'
<1>a. ctl \in Seq(Record) /\ NoPost \in {NoPost} \union VarIds
  BY DEF Ready, CompilerInv, ParserOk
<1>b. /\ scope = [locals |-> scope.locals, args |-> scope.args, depth |-> scope.depth]
      /\ scope.depth = Len(ctl) /\ scope.locals \in Seq(Locals) /\ Len(ctl) \in Nat
  BY <1>a DEF ScopeInv
<1>c. /\ code.size \in Nat /\ FunctionsOk /\ Symbols /\ SoundCode(code)
  BY DEF Ready, CompilerInv, CodeOk, SoundCode
<1>0. CompileError => ScopeInv'
  BY ScopeStays DEF CompileError
<1>d. ASSUME ctl # <<>>, ctl' = Tail(ctl), scope' = EndScope(scope) PROVE ScopeInv'
  BY <1>a, <1>d, ScopeClosed
<1>e. ASSUME NEW r \in Record, ctl' = <<r>> \o ctl, scope' = BeginScope(scope) PROVE ScopeInv'
  <2>1. scope' = [locals |-> scope.locals, args |-> scope'.args, depth |-> scope.depth + 1]
    BY <1>e, BeginScopeIs
  <2> QED  BY <1>a, <1>e, <2>1, ScopeOpened
<1>1. ASSUME NEW id \in VarIds, GlobalVar(id) PROVE ScopeInv'
  BY <1>0, <1>1, ScopeStays DEF GlobalVar
<1>f. ASSUME NEW n \in Nat
      PROVE  FunctionScope(n) = [locals |-> scope.locals, args |-> FunctionScope(n).args,
                                 depth |-> scope.depth + 1]
  <2> DEFINE b == BeginScope(scope)
             v == b.args \o Params(n)
             g == FunctionScope(n)
  <2>1. b = [locals |-> scope.locals, args |-> scope.args, depth |-> scope.depth + 1]
    BY BeginScopeIs
  <2>2. g = [b EXCEPT !.args = v]
    BY DEF FunctionScope
  <2> HIDE DEF b, v, g
  <2>3. g = [locals |-> scope.locals, args |-> v, depth |-> scope.depth + 1]
    BY <2>1, <2>2
  <2>4. g.args = v
    BY <2>3
  <2> QED  BY <2>3, <2>4 DEF g
<1>2. ASSUME NEW f \in FuncIds, NEW n \in Argcs, DeclareFunction(f, n) PROVE ScopeInv'
  <2>1. CASE ~CompileError
    <3> DEFINE g == FunctionScope(n)
    <3>1. ctl = <<>> /\ ctl' = <<>> /\ scope' = EndScope(g)
      BY <1>2, <2>1 DEF DeclareFunction
    <3>2. g = [locals |-> scope.locals, args |-> g.args, depth |-> scope.depth + 1]
      BY <1>f, ArgcsAreNumbers
    <3> HIDE DEF g
    <3>3. g.locals \in Seq(Locals) /\ g.depth = 1
      BY <1>b, <3>1, <3>2
    <3> DEFINE e == EndScope(g)
    <3>4. /\ e = [locals |-> e.locals, args |-> e.args, depth |-> e.depth]
          /\ e.depth = 0 /\ e.locals \in Seq(Locals) /\ e.locals = <<>> /\ e.args = <<>>
      BY <3>3, EndScopeIs
    <3> HIDE DEF e
    <3>5. scope' = e
      BY <3>1 DEF e
    <3> QED  BY <3>1, <3>4, <3>5 DEF ScopeInv
  <2> QED  BY <1>0, <2>1
<1>3. ASSUME NEW f \in FuncIds, NEW n \in Argcs, OpenFunction(f, n) PROVE ScopeInv'
  <2>1. CASE ~CompileError
    <3> DEFINE g == FunctionScope(n)
               i == DefinedObject(f)
               r == Activation("function", i, 0, NoPost)
    <3>1. ctl' = <<r>> \o ctl /\ scope' = g
      BY <1>3, <2>1 DEF OpenFunction, Enter
    <3>2. g = [locals |-> scope.locals, args |-> g.args, depth |-> scope.depth + 1]
      BY <1>f, ArgcsAreNumbers
    <3>3. i \in Nat
      <4>1. CASE IsFunction(symtable[f])
        <5>1. PICK j \in DOMAIN fns : symtable[f] = Function(j)
          BY <1>c, <4>1 DEF Symbols
        <5>2. DOMAIN fns \subseteq Nat
          BY <1>c DEF FunctionsOk
        <5> QED  BY <4>1, <5>1, <5>2 DEF DefinedObject, Function, Value
      <4>2. CASE ~IsFunction(symtable[f])
        BY <1>c, <4>2 DEF DefinedObject, FunctionsOk
      <4> QED  BY <4>1, <4>2
    <3> HIDE DEF i
    <3>4. r \in Record
      BY <3>3 DEF Activation, Record
    <3> HIDE DEF g, r
    <3>5. scope' = [locals |-> scope.locals, args |-> scope'.args, depth |-> scope.depth + 1]
      BY <3>1, <3>2
    <3> QED  BY <1>a, <3>1, <3>4, <3>5, ScopeOpened
  <2> QED  BY <1>0, <2>1
<1>4. ASSUME CloseFunction \/ CloseBlock \/ CloseIf \/ CloseElse \/ CloseWhile \/ CloseFor
      PROVE  ScopeInv'
  BY <1>d, <1>4 DEF CloseFunction, CloseBody, CloseBlock, CloseIf, CloseElse, CloseWhile,
     CloseFor, Leave
<1>5. CASE OpenBlock
  <2> DEFINE r == Activation("block", 0, 0, NoPost)
  <2>1. r \in Record
    BY DEF Activation, Record
  <2>2. ctl' = <<r>> \o ctl /\ scope' = BeginScope(scope)
    BY <1>5 DEF OpenBlock, Enter
  <2> HIDE DEF r
  <2> QED  BY <1>e, <2>1, <2>2
<1>6. CASE OpenIf \/ OpenWhile
  <2> DEFINE c == WriteCondition(code)
  <2>1. OperandOffset(c) \in Nat
    BY <1>c, ConditionAppends DEF Appends, Grows, SoundCode, OperandOffset
  <2> DEFINE off == OperandOffset(c)
             r == Activation("if", 0, off, NoPost)
             q == Activation("while", code.size, off, NoPost)
  <2>2. off \in Nat
    BY <2>1
  <2>3. scope' = BeginScope(scope) /\ (ctl' = <<r>> \o ctl \/ ctl' = <<q>> \o ctl)
    BY <1>6 DEF OpenIf, OpenWhile, Enter
  <2> HIDE DEF off
  <2>4. r \in Record /\ q \in Record
    BY <1>c, <2>2 DEF Activation, Record, Branching
  <2> HIDE DEF r, q
  <2> QED  BY <1>e, <2>3, <2>4
<1>7. CASE CloseIfOpenElse
  <2> DEFINE c2 == WriteConstant(PopLocals(code, PoppedBy(scope)), "JUMP", PLACEHOLDER)
             r == Activation("else", 0, c2.size - INT_SIZE, NoPost)
  <2>1. ctl # <<>> /\ ctl' = <<r>> \o Tail(ctl) /\ scope' = BeginScope(EndScope(scope))
    BY <1>7 DEF CloseIfOpenElse, Leave
  <2>2. c2.size - INT_SIZE \in Nat
    <3> DEFINE c == PopLocals(code, PoppedBy(scope))
    <3>1. c.size \in Nat
      BY <1>c, PopLocalsAppends, PoppedIsNat DEF Appends, Grows, SoundCode
    <3>2. c2.size = c.size + (1 + INT_SIZE)
      BY DEF WriteConstant, AddInstruction
    <3> HIDE DEF c, c2
    <3> QED  BY <3>1, <3>2 DEF INT_SIZE
  <2> HIDE DEF c2
  <2>3. r \in Record
    BY <2>2 DEF Activation, Record, Branching
  <2> HIDE DEF r
  <2> QED  BY <1>a, <2>1, <2>3, ScopeReopened
<1>8. ASSUME NEW init \in ForInits, NEW endless \in BOOLEAN, NEW post \in Posts,
             OpenFor(init, endless, post)
      PROVE  ScopeInv'
  <2> DEFINE isVar == init.kind = "for_var"
             b  == BeginScope(scope)
             s  == IF isVar THEN DefineLocal(DeclareLocal(b, init.id)) ELSE b
             c1 == CASE init.kind = "none" -> code
                     [] init.kind = "for_var"  -> WriteNumber(code, VariableTag)
                     [] init.kind = "for_expr" -> WriteAssignment(code, s, init.id)
             c2 == IF endless THEN WriteConstant(c1, "BOOLEAN", 1) ELSE WriteCondition(c1)
             r  == Activation("for", c1.size, OperandOffset(c2), post)
  <2>c. CASE CompileError
    BY <1>0, <2>c
  <2> SUFFICES ASSUME ~CompileError PROVE ScopeInv'
    BY <2>c
  <2>1. ctl # <<>> /\ ctl' = <<r>> \o ctl /\ scope' = s
    BY <1>8 DEF OpenFor, InBody, Enter
  <2>2. Appends(code, c1)
    <3> HIDE DEF s
    <3> QED  BY <1>c, ForInitAppends
  <2>3. SoundCode(c1) /\ c1.size \in Nat
    <3> HIDE DEF c1
    <3> QED  BY <2>2 DEF Appends, Grows, SoundCode
  <2>4. SoundCode(c2) /\ c2.size \in Nat
    <3> HIDE DEF c1
    <3>1. /\ Checked([op |-> "BOOLEAN", arg |-> 1]) /\ Plain([op |-> "BOOLEAN", arg |-> 1])
      BY DEF Checked, Plain, Jumps
    <3>2. Appends(c1, WriteConstant(c1, "BOOLEAN", 1))
      BY <2>3, <3>1, WriteConstantAppends DEF OneByte
    <3>3. Appends(c1, WriteCondition(c1))
      BY <2>3, ConditionAppends
    <3>4. Appends(c1, c2)
      BY <3>2, <3>3
    <3> HIDE DEF c2
    <3> QED  BY <3>4 DEF Appends, Grows, SoundCode
  <2>5. post \in {NoPost} \union VarIds
    BY DEF Posts
  <2> HIDE DEF c1, c2
  <2>6. r \in Record
    BY <2>3, <2>4, <2>5 DEF Activation, Record, Branching, OperandOffset
  <2>7. b = [locals |-> scope.locals, args |-> scope.args, depth |-> scope.depth + 1]
    BY BeginScopeIs
  <2> HIDE DEF r, b
  <2>8. CASE ~isVar
    <3>1. scope' = BeginScope(scope)
      BY <2>1, <2>8 DEF b
    <3> QED  BY <1>e, <2>1, <2>6, <3>1
  <2>9. CASE isVar
    <3>1. init.id \in VarIds
      BY <2>9 DEF ForInits
    <3>2. /\ b = [locals |-> b.locals, args |-> b.args, depth |-> b.depth]
          /\ b.locals \in Seq(Locals) /\ b.depth \in Nat \ {0}
          /\ b.depth = Len(ctl) + 1 /\ b.args = scope.args
      BY <1>b, <2>7
    <3>3. s = DefineLocal(DeclareLocal(b, init.id))
      BY <2>9
    <3> HIDE DEF s
    <3>4. s = [locals |-> s.locals, args |-> b.args, depth |-> b.depth] /\ s.locals \in Seq(Locals)
      BY <3>1, <3>2, <3>3, LocalDefined
    <3>5. Len(ctl') = Len(ctl) + 1 /\ ctl' # <<>>
      <4>1. <<r>> \o ctl \in Seq(Record) /\ Len(<<r>> \o ctl) = Len(ctl) + 1
        BY <1>a, <2>6, Pushing
      <4> QED  BY <1>b, <2>1, <4>1
    <3>6. scope'.locals = s.locals /\ scope'.args = b.args /\ scope'.depth = Len(ctl) + 1
          /\ scope' = [locals |-> s.locals, args |-> b.args, depth |-> b.depth]
      BY <2>1, <3>2, <3>4
    <3>7. scope' = [locals |-> scope'.locals, args |-> scope'.args, depth |-> scope'.depth]
      BY <3>2, <3>6
    <3> QED  BY <3>4, <3>5, <3>6, <3>7 DEF ScopeInv
  <2> QED  BY <2>8, <2>9
<1>9. ASSUME NEW id \in VarIds, NEW init \in VarInits, LocalVar(id, init) PROVE ScopeInv'
  <2>1. CASE ~CompileError
    <3>1. ctl # <<>> /\ ctl' = ctl /\ scope' = DefineLocal(DeclareVariable(scope, id))
      BY <1>9, <2>1 DEF LocalVar, InBody
    <3>2. DeclareVariable(scope, id) = DeclareLocal(scope, id)
      <4>1. scope.depth # 0
        BY <1>a, <1>b, <3>1
      <4> QED  BY <4>1 DEF DeclareVariable, IsGlobalScope
    <3>3. scope' = DefineLocal(DeclareLocal(scope, id))
      BY <3>1, <3>2
    <3> QED  BY <1>a, <3>1, <3>3, ScopeGains
  <2> QED  BY <1>0, <2>1
<1>10. ASSUME NEW kind, Jump(kind) PROVE ScopeInv'
  BY <1>0, <1>10, ScopeStays DEF Jump
<1>11. ASSUME NEW c, NEW e, ExpressionStatement(c, e) PROVE ScopeInv'
  BY <1>11, ScopeStays DEF ExpressionStatement
<1>12. ASSUME NEW id \in VarIds, Output(id) \/ Assign(id) \/ Increment(id) PROVE ScopeInv'
  BY <1>11, <1>12 DEF Output, Assign, Increment
<1>13. ASSUME NEW f \in FuncIds, NEW n \in Argcs, Call(f, n) PROVE ScopeInv'
  BY <1>0, <1>11, <1>13 DEF Call
<1>14. ASSUME NEW id \in VarIds, NEW f \in FuncIds, AssignCall(id, f) PROVE ScopeInv'
  BY <1>11, <1>14 DEF AssignCall
<1>15. ASSUME NEW withValue \in BOOLEAN, Return(withValue) PROVE ScopeInv'
  BY <1>15, ScopeStays DEF Return
<1>16. CASE EndOfInput
  BY <1>0, <1>16, ScopeStays DEF EndOfInput
<1> QED  BY <1>1, <1>2, <1>3, <1>4, <1>5, <1>6, <1>7, <1>8, <1>9, <1>10, <1>12, <1>13, <1>14,
            <1>15, <1>16 DEF Parse, Break, Continue

-----------------------------------------------------------------------------
(* The machine *)

(* A machine that has been started.                                        *)
Live(m) == Frame(m) /\ m.status # "idle"

(* Stopping, popping and moving a register.                                *)
LEMMA RegistersKeep ==
  ASSUME NEW m, Live(m)
  PROVE  /\ \A status : status # "idle" => Live(Stop(m, status))
         /\ Live(Drop(m))
         /\ \A ip \in 0..code.size : Live([m EXCEPT !.ip = ip])
         /\ \A bp \in 0..STACK_SIZE : Live([m EXCEPT !.bp = bp])
         /\ \A sp \in Int : sp <= STACK_SIZE => Live([m EXCEPT !.sp = sp])
<1>1. /\ m = [ip |-> m.ip, sp |-> m.sp, bp |-> m.bp, stack |-> m.stack, status |-> m.status]
      /\ m.ip \in 0..code.size /\ m.sp \in Int /\ m.sp <= STACK_SIZE
      /\ m.bp \in 0..STACK_SIZE /\ DOMAIN m.stack = Slots /\ m.status # "idle"
  BY DEF Live, Frame
<1>2. ASSUME NEW status, status # "idle" PROVE Live(Stop(m, status))
  <2> DEFINE h == Stop(m, status)
  <2>1. h = [m EXCEPT !.status = status]
    BY DEF Stop
  <2> HIDE DEF h
  <2>2. h = [ip |-> m.ip, sp |-> m.sp, bp |-> m.bp, stack |-> m.stack, status |-> status]
    BY <1>1, <2>1
  <2>3. Live(h)
    BY <1>1, <1>2, <2>2 DEF Live, Frame
  <2> QED  BY <2>3 DEF h
<1>3. ASSUME NEW ip \in 0..code.size PROVE Live([m EXCEPT !.ip = ip])
  <2> DEFINE h == [m EXCEPT !.ip = ip]
  <2>1. h = [ip |-> ip, sp |-> m.sp, bp |-> m.bp, stack |-> m.stack, status |-> m.status]
    BY <1>1
  <2> HIDE DEF h
  <2>2. Live(h)
    BY <1>1, <2>1 DEF Live, Frame
  <2> QED  BY <2>2 DEF h
<1>4. ASSUME NEW bp \in 0..STACK_SIZE PROVE Live([m EXCEPT !.bp = bp])
  <2> DEFINE h == [m EXCEPT !.bp = bp]
  <2>1. h = [ip |-> m.ip, sp |-> m.sp, bp |-> bp, stack |-> m.stack, status |-> m.status]
    BY <1>1
  <2> HIDE DEF h
  <2>2. Live(h)
    BY <1>1, <2>1 DEF Live, Frame
  <2> QED  BY <2>2 DEF h
<1>5. ASSUME NEW sp \in Int, sp <= STACK_SIZE PROVE Live([m EXCEPT !.sp = sp])
  <2> DEFINE h == [m EXCEPT !.sp = sp]
  <2>1. h = [ip |-> m.ip, sp |-> sp, bp |-> m.bp, stack |-> m.stack, status |-> m.status]
    BY <1>1
  <2> HIDE DEF h
  <2>2. Live(h)
    BY <1>1, <1>5, <2>1 DEF Live, Frame
  <2> QED  BY <2>2 DEF h
<1>6. Live(Drop(m))
  <2> DEFINE h == [m EXCEPT !.sp = @ - 1]
  <2>1. m.sp - 1 \in Int /\ m.sp - 1 <= STACK_SIZE
    BY <1>1, StackAssumption
  <2>2. h = [m EXCEPT !.sp = m.sp - 1]
    OBVIOUS
  <2>3. Live([m EXCEPT !.sp = m.sp - 1])
    BY <1>5, <2>1
  <2>4. Live(h)
    BY <2>2, <2>3
  <2> HIDE DEF h
  <2>5. Drop(m) = m \/ Drop(m) = Stop(m, "stack_smashed") \/ Drop(m) = h
    BY DEF Drop, h
  <2> QED  BY <1>2, <2>4, <2>5
<1> QED  BY <1>2, <1>3, <1>4, <1>5, <1>6

(* Pushing, and the locals.                                                *)
LEMMA StackKeeps ==
  ASSUME NEW m, Live(m), NEW val
  PROVE  /\ Live(Push(m, val))
         /\ Running(Push(m, val)) => Push(m, val).sp \in 0..STACK_SIZE
         /\ \A idx : Live(PushLocal(m, idx)) /\ Live(StoreLocal(m, idx, val))
<1>1. /\ m = [ip |-> m.ip, sp |-> m.sp, bp |-> m.bp, stack |-> m.stack, status |-> m.status]
      /\ m.ip \in 0..code.size /\ m.sp \in Int /\ m.sp <= STACK_SIZE
      /\ m.bp \in 0..STACK_SIZE /\ DOMAIN m.stack = Slots /\ m.status # "idle"
  BY DEF Live, Frame
<1>2. \A status : status # "idle" => Live(Stop(m, status))
  BY RegistersKeep
<1>3. ASSUME NEW v
      PROVE  Live(Push(m, v)) /\ (Running(Push(m, v)) => Push(m, v).sp \in 0..STACK_SIZE)
  <2>1. CASE ~Running(m)
    <3>1. Push(m, v) = m
      BY <2>1 DEF Push
    <3> QED  BY <2>1, <3>1
  <2>2. CASE Running(m) /\ m.sp >= STACK_SIZE
    <3>1. Push(m, v) = Stop(m, "stack_overflow")
      BY <1>1, <2>2, StackAssumption DEF Push
    <3>2. ~Running(Stop(m, "stack_overflow"))
      BY <1>1 DEF Stop, Running
    <3> QED  BY <1>2, <3>1, <3>2
  <2>3. CASE Running(m) /\ ~(m.sp >= STACK_SIZE) /\ m.sp < 0
    <3>1. Push(m, v) = Stop(m, "undefined")
      BY <2>3 DEF Push
    <3>2. ~Running(Stop(m, "undefined"))
      BY <1>1 DEF Stop, Running
    <3> QED  BY <1>2, <3>1, <3>2
  <2>4. CASE Running(m) /\ ~(m.sp >= STACK_SIZE) /\ ~(m.sp < 0)
    <3> DEFINE h == Push(m, v)
               st == [m.stack EXCEPT ![m.sp] = v]
    <3>1. h = [m EXCEPT !.stack = st, !.sp = m.sp + 1]
      BY <2>4 DEF Push
    <3>2. DOMAIN st = Slots
      BY <1>1
    <3> HIDE DEF h, st
    <3>3. h = [ip |-> m.ip, sp |-> m.sp + 1, bp |-> m.bp, stack |-> st, status |-> m.status]
      BY <1>1, <3>1
    <3>4. m.sp + 1 \in 0..STACK_SIZE
      BY <1>1, <2>4, StackAssumption
    <3>5. Frame(h) /\ h.status # "idle" /\ h.sp \in 0..STACK_SIZE
      BY <1>1, <3>2, <3>3, <3>4 DEF Frame
    <3> QED  BY <3>5 DEF Live, h
  <2> QED  BY <2>1, <2>2, <2>3, <2>4
<1>4. ASSUME NEW idx PROVE Live(PushLocal(m, idx))
  BY <1>2, <1>3 DEF PushLocal
<1>5. ASSUME NEW idx PROVE Live(StoreLocal(m, idx, val))
  <2> DEFINE st == [m.stack EXCEPT ![Local(m, idx)] = val]
             h == [m EXCEPT !.stack = st]
  <2>1. DOMAIN st = Slots
    BY <1>1
  <2>2. StoreLocal(m, idx, val) = h \/ StoreLocal(m, idx, val) = Stop(m, "undefined")
    BY DEF StoreLocal
  <2> HIDE DEF st
  <2>3. h = [ip |-> m.ip, sp |-> m.sp, bp |-> m.bp, stack |-> st, status |-> m.status]
    BY <1>1
  <2> HIDE DEF h
  <2>4. Live(h)
    BY <1>1, <2>1, <2>3 DEF Live, Frame
  <2> QED  BY <1>2, <2>2, <2>4
<1> QED  BY <1>3, <1>4, <1>5

(* What the compiler left, as the machine finds it.                        *)
LEMMA CodeAtRunTime ==
  ASSUME CompilerInv, ctl = <<>>
  PROVE  /\ SoundCode(code) /\ code.size \in Nat /\ cycles = <<>>
         /\ \A i \in DOMAIN fns : fns[i].entry \in {NoEntry} \union (0..code.size)
         /\ \A o \in DOMAIN code.ins : code.ins[o].op \in Jumps =>
              Landing(code, o) \in DOMAIN code.ins /\ SameSide(o, Landing(code, o))
<1>1. /\ cycles \in Seq(CycleHead) /\ LoopsMatch(ctl, cycles) /\ SoundCode(code)
      /\ JumpsLand(code, Base, Pending(ctl, cycles)) /\ Base = code.size /\ FunctionsOk
  BY DEF CompilerInv, ParserOk, CodeOk, Base
<1>2. Len(cycles) = 0
  BY <1>1 DEF LoopsMatch
<1>3. cycles = <<>>
  BY <1>1, <1>2
<1>4. \A o \in DOMAIN code.ins : o < code.size
  BY <1>1 DEF SoundCode
<1>5. ASSUME NEW i \in DOMAIN fns PROVE fns[i].entry \in {NoEntry} \union (0..code.size)
  <2>1. fns[i] \in FunctionObject /\ fns[i].entry <= code.size
    BY <1>1 DEF FunctionsOk
  <2>2. fns[i].entry \in {NoEntry} \union Nat
    BY <2>1 DEF FunctionObject
  <2> QED  BY <1>1, <2>1, <2>2 DEF SoundCode
<1> QED  BY <1>1, <1>3, <1>4, <1>5 DEF JumpsLand, SoundCode

(* Where the machine goes behind the instruction it executes.              *)
LEMMA BehindInstruction ==
  ASSUME SoundCode(code), Live(vm), vm.ip \in DOMAIN code.ins
  PROVE  /\ Live(Simple)
         /\ Instruction.op \notin OneByte => Live(Constant)
         /\ Simple = [vm EXCEPT !.ip = vm.ip + 1]
         /\ Constant = [vm EXCEPT !.ip = vm.ip + 1 + INT_SIZE]
<1>1. vm.ip + Bytes(Instruction.op) \in Ends(code) /\ code.size \in Nat
      /\ vm.ip \in Nat /\ vm.ip < code.size /\ DOMAIN code.ins \subseteq 0..(code.size - 1)
  BY DEF SoundCode, Instruction
<1>2. vm.ip + Bytes(Instruction.op) <= code.size
  <2> DEFINE e == vm.ip + Bytes(Instruction.op)
  <2>1. e \in Ends(code)
    BY <1>1
  <2> HIDE DEF e
  <2>2. e <= code.size
    BY <1>1, <2>1 DEF Ends
  <2> QED  BY <2>2 DEF e
<1>3. vm.ip + 1 \in 0..code.size
  BY <1>1
<1>4. Simple = [vm EXCEPT !.ip = vm.ip + 1]
      /\ Constant = [vm EXCEPT !.ip = vm.ip + 1 + INT_SIZE]
  BY DEF Simple, Constant
<1>5. ASSUME Instruction.op \notin OneByte PROVE vm.ip + 1 + INT_SIZE \in 0..code.size
  <2>1. Bytes(Instruction.op) = 5
    BY <1>5 DEF Bytes, INT_SIZE
  <2> QED  BY <1>1, <1>2, <2>1 DEF INT_SIZE
<1>6. \A ip \in 0..code.size : Live([vm EXCEPT !.ip = ip])
  BY RegistersKeep
<1>7. Live([vm EXCEPT !.ip = vm.ip + 1])
      /\ (Instruction.op \notin OneByte => Live([vm EXCEPT !.ip = vm.ip + 1 + INT_SIZE]))
  BY <1>3, <1>5, <1>6
<1> QED  BY <1>4, <1>7

(* A call: the return address and bp are pushed, then the body entered.    *)
LEMMA CallKeepsFrame ==
  ASSUME NEW m, Live(m), NEW i \in DOMAIN fns,
         fns[i].entry \in {NoEntry} \union (0..code.size)
  PROVE  Live(PerformCall(m, i))
<1>1. \A status : status # "idle" => Live(Stop(m, status))
  BY RegistersKeep
<1>2. CASE fns[i].entry = NoEntry
  BY <1>1, <1>2 DEF PerformCall
<1>3. CASE fns[i].entry # NoEntry
  <2>1. PICK p : p = Push(m, Number(m.ip))
    OBVIOUS
  <2>2. Live(p)
    BY <2>1, StackKeeps
  <2>3. PICK m1 : m1 = [p EXCEPT !.ip = fns[i].entry]
    OBVIOUS
  <2>4. Live(m1)
    BY <1>3, <2>2, <2>3, RegistersKeep
  <2>5. PICK m2 : m2 = Push(m1, Number(m.bp))
    OBVIOUS
  <2>6. Live(m2) /\ (Running(m2) => m2.sp \in 0..STACK_SIZE)
    BY <2>4, <2>5, StackKeeps
  <2>7. Running(m2) => Live([m2 EXCEPT !.bp = m2.sp])
    BY <2>6, RegistersKeep
  <2>8. PerformCall(m, i) = IF Running(m2) THEN [m2 EXCEPT !.bp = m2.sp] ELSE m2
    BY <1>3, <2>1, <2>3, <2>5 DEF PerformCall
  <2> QED  BY <2>6, <2>7, <2>8
<1> QED  BY <1>2, <1>3

(* A return: the frame goes, the caller's registers come back.             *)
LEMMA ReturnKeepsFrame ==
  ASSUME SoundCode(code), Live(vm), OP_RETURN
  PROVE  Live(vm')
<1>1. Live(Simple) /\ vm.bp \in 0..STACK_SIZE /\ vm.bp \in Int
  BY BehindInstruction DEF OP_RETURN, AtOpcode, Live, Frame
<1>2. Live(Drop(Simple)) /\ Live(Stop(Simple, "done"))
  BY <1>1, RegistersKeep
<1>3. PICK m1 : m1 = [Drop(Simple) EXCEPT !.sp = vm.bp]
  OBVIOUS
<1>4. Live(m1)
  BY <1>1, <1>2, <1>3, RegistersKeep
<1>5. Live(Drop(m1)) /\ Live(Drop(Drop(m1))) /\ Live(Stop(m1, "undefined"))
  <2>1. Live(Drop(m1)) /\ Live(Stop(m1, "undefined"))
    BY <1>4, RegistersKeep
  <2> QED  BY <2>1, RegistersKeep
<1>6. PICK m2, oldBp, retIp, result :
        m2 = Drop(m1) /\ oldBp = Top(m1) /\ retIp = Top(m2) /\ result = Top(vm)
  OBVIOUS
<1>7. PICK back : back = Push([Drop(m2) EXCEPT !.bp = oldBp.v, !.ip = retIp.v], result)
  OBVIOUS
<1>8. IsIndex(oldBp, STACK_SIZE) /\ IsIndex(retIp, code.size) => Live(back)
  <2>1. SUFFICES ASSUME oldBp.v \in 0..STACK_SIZE, retIp.v \in 0..code.size
                 PROVE  Live(back)
    BY DEF IsIndex
  <2>2. PICK m3 : m3 = [Drop(m2) EXCEPT !.bp = oldBp.v]
    OBVIOUS
  <2>3. Live(m3)
    BY <1>5, <1>6, <2>1, <2>2, RegistersKeep
  <2>4. Live([m3 EXCEPT !.ip = retIp.v])
    BY <2>1, <2>3, RegistersKeep
  <2>5. [m3 EXCEPT !.ip = retIp.v] = [Drop(m2) EXCEPT !.bp = oldBp.v, !.ip = retIp.v]
    BY <2>2
  <2> QED  BY <1>7, <2>4, <2>5, StackKeeps
<1>9. vm' = CASE vm.bp = 0 -> Stop(Simple, "done")
              [] vm.bp # 0 /\ ~Running(Drop(Simple)) -> Drop(Simple)
              [] vm.bp = 1 /\ Running(Drop(Simple)) -> Drop(m2)
              [] OTHER -> IF IsIndex(oldBp, STACK_SIZE) /\ IsIndex(retIp, code.size)
                          THEN back ELSE Stop(m1, "undefined")
  BY <1>3, <1>6, <1>7 DEF OP_RETURN
<1>10. \/ vm' = Stop(Simple, "done") \/ vm' = Drop(Simple) \/ vm' = Drop(m2)
       \/ vm' = Stop(m1, "undefined")
       \/ IsIndex(oldBp, STACK_SIZE) /\ IsIndex(retIp, code.size) /\ vm' = back
  BY <1>9
<1> QED  BY <1>2, <1>5, <1>6, <1>8, <1>10

(* Every instruction keeps the machine's registers in their ranges.        *)
LEMMA ExecuteKeepsFrame ==
  ASSUME CompilerInv, ctl = <<>>, Live(vm), Execute
  PROVE  Live(vm')
<1>1. /\ SoundCode(code)
      /\ \A i \in DOMAIN fns : fns[i].entry \in {NoEntry} \union (0..code.size)
      /\ \A o \in DOMAIN code.ins : code.ins[o].op \in Jumps =>
           Landing(code, o) \in DOMAIN code.ins
  BY CodeAtRunTime
<1>2. vm.ip \in DOMAIN code.ins
  BY DEF Execute, AtOpcode, OP_RETURN, OP_POP, OP_POPN, OP_CLARGS, OP_NUMBER, OP_BOOLEAN,
     OP_NONE, OP_GET_GLOBAL, OP_SET_GLOBAL, OP_GET_LOCAL, OP_SET_LOCAL, OP_INCR_LOCAL,
     OP_INCR_GLOBAL, OP_JUMP, OP_FJUMP, OP_CALL, OP_NATIVE_CALL
<1>3. /\ Live(Simple)
      /\ Instruction.op \notin OneByte => Live(Constant)
      /\ Constant = [vm EXCEPT !.ip = vm.ip + 1 + INT_SIZE]
  BY <1>1, <1>2, BehindInstruction
<1>4. Checked(Instruction) /\ Operand = Instruction.arg
  BY <1>1, <1>2 DEF SoundCode, Instruction, Operand
<1>5. \A m, val : Live(m) => Live(Push(m, val))
  BY StackKeeps
<1>6. \A m, idx : Live(m) => Live(PushLocal(m, idx))
  BY StackKeeps
<1>7. \A m, idx, val : Live(m) => Live(StoreLocal(m, idx, val))
  BY StackKeeps
<1>8. \A m : Live(m) => Live(Drop(m))
  BY RegistersKeep
<1>9. \A m, status : Live(m) /\ status # "idle" => Live(Stop(m, status))
  BY RegistersKeep
<1>10. ASSUME NEW m, Live(m), NEW n \in Nat
       PROVE  Live([m EXCEPT !.sp = @ - n])
  <2>1. m.sp \in Int /\ m.sp <= STACK_SIZE /\ STACK_SIZE \in Nat
    BY <1>10, StackAssumption DEF Live, Frame
  <2>2. m.sp - n \in Int /\ m.sp - n <= STACK_SIZE
    BY <2>1
  <2>3. Live([m EXCEPT !.sp = m.sp - n])
    BY <1>10, <2>2, RegistersKeep
  <2> QED  BY <2>3
<1>11. CASE OP_RETURN
  BY <1>1, <1>11, ReturnKeepsFrame
<1>12. CASE OP_POP
  BY <1>3, <1>10, <1>12 DEF OP_POP
<1>13. CASE OP_POPN
  <2>1. Instruction.op = "POPN"
    BY <1>13 DEF OP_POPN, AtOpcode
  <2>2. Operand \in Nat /\ Live(Constant)
    BY <1>3, <1>4, <2>1 DEF Checked, OneByte
  <2>3. vm' = [Constant EXCEPT !.sp = @ - Operand]
    BY <1>13 DEF OP_POPN
  <2> QED  BY <1>10, <2>2, <2>3
<1>14. CASE OP_CLARGS
  <2>1. Instruction.op = "CLARGS"
    BY <1>14 DEF OP_CLARGS, AtOpcode
  <2>2. Operand \in Nat /\ Live(Constant)
    BY <1>3, <1>4, <2>1 DEF Checked, OneByte
  <2>3. PICK m : m = Drop(Constant)
    OBVIOUS
  <2>4. vm' = Push([m EXCEPT !.sp = @ - Operand], Top(vm))
    BY <1>14, <2>3 DEF OP_CLARGS
  <2>5. Live(m)
    BY <1>8, <2>2, <2>3
  <2>6. Live([m EXCEPT !.sp = @ - Operand])
    BY <1>10, <2>2, <2>5
  <2> QED  BY <1>5, <2>4, <2>6
<1>15. CASE OP_NUMBER \/ OP_BOOLEAN
  <2>1. Live(Constant)
    BY <1>3, <1>15 DEF OP_NUMBER, OP_BOOLEAN, AtOpcode, OneByte
  <2> QED  BY <1>5, <1>15, <2>1 DEF OP_NUMBER, OP_BOOLEAN
<1>16. CASE OP_NONE
  BY <1>3, <1>5, <1>16 DEF OP_NONE
<1>17. CASE OP_GET_GLOBAL
  <2>1. Live(Constant)
    BY <1>3, <1>17 DEF OP_GET_GLOBAL, AtOpcode, OneByte
  <2>2. \/ \E idx : vm' = PushLocal(Constant, idx)
        \/ vm' = Stop(Constant, "runtime_error")
        \/ \E val : vm' = Push(Constant, val)
    BY <1>17 DEF OP_GET_GLOBAL
  <2> QED  BY <1>5, <1>6, <1>9, <2>1, <2>2
<1>18. CASE OP_SET_GLOBAL
  <2>1. Live(Constant)
    BY <1>3, <1>18 DEF OP_SET_GLOBAL, AtOpcode, OneByte
  <2>2. PICK m : m = Drop(Constant)
    OBVIOUS
  <2>3. Live(m)
    BY <1>8, <2>1, <2>2
  <2>4. \/ vm' = m
        \/ \E idx, val : vm' = Push(StoreLocal(m, idx, val), val)
        \/ \E val : vm' = Push(m, val)
        \/ vm' = Stop(m, "runtime_error")
    BY <1>18, <2>2 DEF OP_SET_GLOBAL
  <2> QED  BY <1>5, <1>7, <1>9, <2>3, <2>4
<1>19. CASE OP_GET_LOCAL
  <2>1. Live(Constant)
    BY <1>3, <1>19 DEF OP_GET_LOCAL, AtOpcode, OneByte
  <2> QED  BY <1>6, <1>19, <2>1 DEF OP_GET_LOCAL
<1>20. CASE OP_SET_LOCAL
  <2>1. Live(Constant)
    BY <1>3, <1>20 DEF OP_SET_LOCAL, AtOpcode, OneByte
  <2>2. PICK m : m = Drop(Constant)
    OBVIOUS
  <2>3. Live(m)
    BY <1>8, <2>1, <2>2
  <2>4. vm' = m \/ vm' = Push(StoreLocal(m, Operand, Top(vm)), Top(vm))
    BY <1>20, <2>2 DEF OP_SET_LOCAL
  <2> QED  BY <1>5, <1>7, <2>3, <2>4
<1>21. CASE OP_INCR_LOCAL
  <2>1. Live(Constant)
    BY <1>3, <1>21 DEF OP_INCR_LOCAL, AtOpcode, OneByte
  <2>2. \/ vm' = Stop(Constant, "runtime_error")
        \/ \E v, val : vm' = Push(StoreLocal(Constant, Operand, v), val)
    BY <1>21 DEF OP_INCR_LOCAL
  <2> QED  BY <1>5, <1>7, <1>9, <2>1, <2>2
<1>22. CASE OP_INCR_GLOBAL
  <2>1. Live(Constant)
    BY <1>3, <1>22 DEF OP_INCR_GLOBAL, AtOpcode, OneByte
  <2>2. vm' = Stop(Constant, "runtime_error") \/ \E val : vm' = Push(Constant, val)
    BY <1>22 DEF OP_INCR_GLOBAL
  <2> QED  BY <1>5, <1>9, <2>1, <2>2
<1>j. ASSUME Instruction.op \in Jumps, NEW m, Live(m), m.ip = vm.ip + 1 + INT_SIZE
      PROVE  Live([m EXCEPT !.ip = @ + Operand])
  <2>1. Landing(code, vm.ip) \in DOMAIN code.ins
    BY <1>1, <1>2, <1>j DEF Instruction
  <2>2. Landing(code, vm.ip) = m.ip + Operand
    BY <1>j DEF Landing, Operand, Instruction
  <2>3. m.ip + Operand \in 0..code.size
    <3> DEFINE l == Landing(code, vm.ip)
    <3>1. l \in 0..(code.size - 1) /\ code.size \in Nat
      BY <1>1, <2>1 DEF SoundCode
    <3> HIDE DEF l
    <3>2. l \in 0..code.size
      BY <3>1
    <3> QED  BY <2>2, <3>2 DEF l
  <2>4. Live([m EXCEPT !.ip = m.ip + Operand])
    BY <1>j, <2>3, RegistersKeep
  <2> QED  BY <2>4
<1>23. CASE OP_JUMP
  <2>1. Instruction.op = "JUMP"
    BY <1>23 DEF OP_JUMP, AtOpcode
  <2>2. Live(Constant) /\ Instruction.op \in Jumps
    BY <1>3, <2>1 DEF Jumps, OneByte
  <2>3. Constant.ip = vm.ip + 1 + INT_SIZE
    BY <1>3 DEF Live, Frame
  <2>4. vm' = [Constant EXCEPT !.ip = @ + Operand]
    BY <1>23 DEF OP_JUMP
  <2> QED  BY <1>j, <2>2, <2>3, <2>4
<1>24. CASE OP_FJUMP
  <2>1. Instruction.op = "FJUMP"
    BY <1>24 DEF OP_FJUMP, AtOpcode
  <2>2. Live(Constant) /\ Instruction.op \in Jumps
    BY <1>3, <2>1 DEF Jumps, OneByte
  <2>3. PICK m : m = Drop(Constant)
    OBVIOUS
  <2>4. Live(m)
    BY <1>8, <2>2, <2>3
  <2>5. m.ip = vm.ip + 1 + INT_SIZE
    <3>1. PICK k : k = Constant
      OBVIOUS
    <3>2. k.ip = vm.ip + 1 + INT_SIZE
      BY <1>3, <3>1 DEF Live, Frame
    <3>3. m = k \/ m = Stop(k, "stack_smashed") \/ m = [k EXCEPT !.sp = @ - 1]
      BY <2>3, <3>1 DEF Drop
    <3>4. Live(k)
      BY <2>2, <3>1
    <3>5. k = [ip |-> k.ip, sp |-> k.sp, bp |-> k.bp, stack |-> k.stack, status |-> k.status]
      BY <3>4 DEF Live, Frame
    <3> QED  BY <3>2, <3>3, <3>5 DEF Stop
  <2>6. \/ vm' = m
        \/ vm' = Stop(m, "runtime_error")
        \/ vm' = [m EXCEPT !.ip = @ + Operand]
    BY <1>24, <2>3 DEF OP_FJUMP
  <2> QED  BY <1>9, <1>j, <2>2, <2>4, <2>5, <2>6
<1>25. CASE OP_CALL
  <2>1. Instruction.op = "CALL"
    BY <1>25 DEF OP_CALL, AtOpcode
  <2>2. Live(Constant) /\ Operand \in DOMAIN fns
    BY <1>3, <1>4, <2>1 DEF Checked, OneByte
  <2>3. fns[Operand].entry \in {NoEntry} \union (0..code.size)
    BY <1>1, <2>2
  <2>4. PICK i \in DOMAIN fns : i = Operand
    BY <2>2
  <2>5. vm' = PerformCall(Constant, i)
    BY <1>25, <2>4 DEF OP_CALL
  <2>6. fns[i].entry \in {NoEntry} \union (0..code.size)
    BY <2>3, <2>4
  <2> QED  BY <2>2, <2>5, <2>6, CallKeepsFrame
<1>26. CASE OP_NATIVE_CALL
  <2>1. Live(Constant)
    BY <1>3, <1>26 DEF OP_NATIVE_CALL, AtOpcode, OneByte
  <2>2. \E answer : vm' = Push(Drop(Constant), answer)
    BY <1>26 DEF OP_NATIVE_CALL
  <2> QED  BY <1>5, <1>8, <2>1, <2>2
<1> QED  BY <1>11, <1>12, <1>13, <1>14, <1>15, <1>16, <1>17, <1>18, <1>19, <1>20, <1>21,
            <1>22, <1>23, <1>24, <1>25, <1>26 DEF Execute

-----------------------------------------------------------------------------
(* The inductive invariant *)

(* When no variable bears a function's name, running the program cannot    *)
(* turn that name into something else.                                     *)
CallsInv == VarIds \cap FuncIds = {} => CallsReach(code)

EnmaInv == /\ CompilerInv
           /\ NamesInv
           /\ ScopeInv
           /\ PhaseInv
           /\ MachineInv
           /\ CallsInv

(* Before anything is read.                                                *)
LEMMA InvInit == EnmaInit => EnmaInv
<1> SUFFICES ASSUME EnmaInit PROVE EnmaInv
  OBVIOUS
<1>1. /\ code.ins = [o \in {} |-> NoOperand] /\ code.size = 0
      /\ code = [ins |-> code.ins, size |-> code.size]
      /\ DOMAIN code.ins = {} /\ fns = <<>> /\ cycles = <<>> /\ ctl = <<>>
      /\ phase = "parsing" /\ scope = GlobalScope /\ vm = Machine
      /\ symtable = [id \in VarIds \union FuncIds |-> None]
  BY DEF EnmaInit, Init, EmptyCode
<1>2. Base = 0 /\ DOMAIN fns = {} /\ DOMAIN ctl = {} /\ DOMAIN cycles = {} /\ Len(ctl) = 0
      /\ Len(cycles) = 0
  BY <1>1 DEF Base
<1>3. FunctionsOk
  BY <1>1, <1>2 DEF FunctionsOk
<1>4. LoopsMatch(ctl, cycles)
  <2> DEFINE n == [d \in 0..Len(ctl) |-> 0]
  <2>1. n \in [0..Len(ctl) -> Nat] /\ n[0] = 0 /\ n[Len(ctl)] = Len(cycles)
    BY <1>2
  <2>2. \A d \in 1..Len(ctl) :
          n[d] = n[d - 1] + (IF ctl[Len(ctl) + 1 - d].kind \in Looping THEN 1 ELSE 0)
    BY <1>2
  <2> QED  BY <2>1, <2>2 DEF LoopsMatch
<1>5. ParserOk(ctl, cycles, code, Base)
  <2>1. ctl \in Seq(Record) /\ cycles \in Seq(CycleHead)
    BY <1>1
  <2> QED  BY <1>2, <1>4, <2>1 DEF ParserOk
<1>6. CodeOk(code, Base, Pending(ctl, cycles))
  <2>1. Pending(ctl, cycles) = {}
    BY <1>2 DEF Pending
  <2>2. SoundCode(code)
    BY <1>1 DEF SoundCode
  <2> QED  BY <1>1, <1>2, <2>1, <2>2 DEF CodeOk, JumpsLand, PendingAreJumps, Ends
<1>7. NamesInv /\ CallsInv
  BY <1>1 DEF NamesInv, Symbols, CallsReach, CallsInv, IsFunction, None, Value
<1>8. ScopeInv
  <2>1. scope.locals = <<>> /\ scope.args = <<>> /\ scope.depth = 0
        /\ scope = [locals |-> scope.locals, args |-> scope.args, depth |-> scope.depth]
    BY <1>1 DEF GlobalScope
  <2> QED  BY <1>2, <2>1 DEF ScopeInv
<1>9. PhaseInv
  BY <1>1 DEF PhaseInv, Machine
<1>10. MachineInv
  <2>1. /\ vm.ip = 0 /\ vm.sp = 0 /\ vm.bp = 0 /\ DOMAIN vm.stack = Slots
        /\ vm = [ip |-> vm.ip, sp |-> vm.sp, bp |-> vm.bp, stack |-> vm.stack,
                 status |-> vm.status]
    BY <1>1 DEF Machine
  <2> QED  BY <1>1, <2>1, StackAssumption DEF MachineInv, Frame
<1> QED  BY <1>3, <1>5, <1>6, <1>7, <1>8, <1>9, <1>10 DEF EnmaInv, CompilerInv

(* The parser reads as long as nothing has ended it, and only the end of   *)
(* the file between two functions ends it well.                            *)
LEMMA ParsingPhase ==
  ASSUME Parse, phase \in {"parsing", "parsed", "compile_error"}
  PROVE  /\ phase = "parsing"
         /\ phase' \in {"parsing", "parsed", "compile_error"}
         /\ phase' = "parsed" => ctl' = <<>>
<1>1. /\ phase = "parsing"
      /\ phase' \in {phase, "compile_error"} \/ (phase' = "parsed" /\ ctl = <<>> /\ ctl' = ctl)
  BY ZenonT(60)
  DEF Parse, GlobalVar, DeclareFunction, OpenFunction, CloseFunction, CloseBody, OpenBlock,
     CloseBlock, OpenIf, CloseIf, CloseIfOpenElse, CloseElse, OpenWhile, CloseWhile, OpenFor,
     CloseFor, Break, Continue, Jump, LocalVar, Output, Assign, Increment, Call, AssignCall,
     ExpressionStatement, Return, EndOfInput, ReadStatement, Leave, CompileError
<1> QED  BY <1>1

(* Reading.                                                                *)
LEMMA CompileKeepsInv == EnmaInv /\ Compile => EnmaInv'
<1> SUFFICES ASSUME EnmaInv, Compile PROVE EnmaInv'
  OBVIOUS
<1>1. Parse /\ vm' = vm /\ CompilerInv /\ NamesInv /\ ScopeInv /\ PhaseInv /\ MachineInv
  BY DEF EnmaInv, Compile
<1>2. /\ phase = "parsing" /\ phase' \in {"parsing", "parsed", "compile_error"}
      /\ phase' = "parsed" => ctl' = <<>>
  BY <1>1, ParsingPhase DEF PhaseInv
<1>3. vm.status = "idle"
  BY <1>1, <1>2 DEF PhaseInv
<1>4. Ready
  BY <1>1, <1>3 DEF Ready, NamesInv
<1>5. Ready' /\ ScopeInv'
  BY <1>1, <1>4, ParseKeepsReady, ParseKeepsScope
<1>6. CompilerInv' /\ NamesInv' /\ CallsInv'
  BY <1>5 DEF Ready, NamesInv, CallsInv, Symbols
<1>7. PhaseInv'
  BY <1>1, <1>2, <1>3 DEF PhaseInv
<1>8. MachineInv'
  <2>1. vm.ip = 0 /\ code'.size \in Nat
    BY <1>1, <1>3, <1>6 DEF MachineInv, CompilerInv, CodeOk, SoundCode
  <2> QED  BY <1>1, <2>1 DEF MachineInv, Frame
<1> QED  BY <1>5, <1>6, <1>7, <1>8 DEF EnmaInv

(* Where nothing of the compiler's changes, what it left stays sound.      *)
LEMMA CompilerStays ==
  ASSUME CompilerInv, ScopeInv, UNCHANGED <<code, fns, scope, cycles, ctl>>
  PROVE  CompilerInv' /\ ScopeInv'
BY DEF CompilerInv, FunctionsOk, CodeOk, SoundCode, Checked, JumpsLand, SameSide,
       PendingAreJumps, Base, CurrentFunction, ScopeInv

(* Execution begins.                                                       *)
LEMMA StartKeepsInv == EnmaInv /\ Start => EnmaInv'
<1> SUFFICES ASSUME EnmaInv, Start PROVE EnmaInv'
  OBVIOUS
<1>1. /\ UNCHANGED <<code, fns, scope, cycles, ctl, symtable, phase>>
      /\ CompilerInv /\ ScopeInv /\ NamesInv /\ PhaseInv /\ MachineInv /\ CallsInv
  BY DEF EnmaInv, Start, ExecuteMain, Unchanged, programVars, parserVars
<1>2. CompilerInv' /\ ScopeInv'
  BY <1>1, CompilerStays
<1>3. phase = "parsed" /\ vm.status = "idle" /\ ctl = <<>>
  BY <1>1 DEF PhaseInv, Start, ExecuteMain
<1>4. Symbols /\ "main" \in FuncIds
  BY <1>1, <1>3, ProgramAssumption DEF NamesInv
<1>5. \A i \in DOMAIN fns : fns[i].entry \in {NoEntry} \union (0..code.size)
  BY <1>1, <1>3, CodeAtRunTime
<1>6. Frame(vm') /\ vm'.status # "idle"
  <2>1. /\ vm = [ip |-> vm.ip, sp |-> vm.sp, bp |-> vm.bp, stack |-> vm.stack,
                 status |-> vm.status]
        /\ vm.ip \in 0..code.size /\ vm.sp \in Int /\ vm.sp <= STACK_SIZE
        /\ vm.bp \in 0..STACK_SIZE /\ DOMAIN vm.stack = Slots
    BY <1>1 DEF MachineInv, Frame
  <2> DEFINE val == symtable["main"]
             f   == fns[val.v]
  <2>2. vm' = IF IsFunction(val) /\ f.entry # NoEntry /\ f.argc = 0
              THEN [vm EXCEPT !.ip = f.entry, !.status = "running"]
              ELSE Stop(vm, "user_error")
    BY DEF Start, ExecuteMain
  <2>3. IsFunction(val) => val.v \in DOMAIN fns
    BY <1>4 DEF Symbols, Function, Value
  <2>4. IsFunction(val) /\ f.entry # NoEntry => f.entry \in 0..code.size
    BY <1>5, <2>3
  <2> HIDE DEF f, val
  <2>5. CASE IsFunction(val) /\ f.entry # NoEntry /\ f.argc = 0
    <3>1. vm' = [ip |-> f.entry, sp |-> vm.sp, bp |-> vm.bp, stack |-> vm.stack,
                 status |-> "running"]
      BY <2>1, <2>2, <2>5
    <3> QED  BY <2>1, <2>4, <2>5, <3>1 DEF Frame
  <2>6. CASE ~(IsFunction(val) /\ f.entry # NoEntry /\ f.argc = 0)
    <3>1. vm' = [ip |-> vm.ip, sp |-> vm.sp, bp |-> vm.bp, stack |-> vm.stack,
                 status |-> "user_error"]
      BY <2>1, <2>2, <2>6 DEF Stop
    <3> QED  BY <2>1, <3>1 DEF Frame
  <2> QED  BY <2>5, <2>6
<1>7. MachineInv' /\ NamesInv' /\ PhaseInv' /\ CallsInv'
  <2>1. MachineInv'
    BY <1>1, <1>6 DEF MachineInv, Frame
  <2>2. NamesInv'
    BY <1>1, <1>6 DEF NamesInv
  <2>3. PhaseInv'
    BY <1>1, <1>3 DEF PhaseInv
  <2>4. CallsInv'
    BY <1>1 DEF CallsInv, CallsReach, Reaches
  <2> QED  BY <2>1, <2>2, <2>3, <2>4
<1> QED  BY <1>2, <1>7 DEF EnmaInv

(* An instruction changes no code, and of the symbol table only what the   *)
(* name of a variable stands for.                                          *)
LEMMA ExecuteLeaves ==
  ASSUME SoundCode(code), Execute
  PROVE  /\ UNCHANGED <<code, fns, scope>> /\ Running(vm)
         /\ \/ symtable' = symtable
            \/ \E id \in VarIds : \E val : symtable' = [symtable EXCEPT ![id] = val]
<1>1. CASE OP_SET_GLOBAL
  <2>1. Instruction.op = "SET_GLOBAL" /\ Checked(Instruction) /\ Operand = Instruction.arg
        /\ Running(vm)
    BY <1>1 DEF OP_SET_GLOBAL, AtOpcode, SoundCode, Instruction, Operand
  <2>2. Operand \in VarIds
    BY <2>1 DEF Checked
  <2>3. UNCHANGED <<code, fns, scope>>
    BY <1>1 DEF OP_SET_GLOBAL
  <2>4. symtable' = symtable \/ symtable' = [symtable EXCEPT ![Operand] = Top(vm)]
    BY <1>1 DEF OP_SET_GLOBAL
  <2> QED  BY <2>1, <2>2, <2>3, <2>4
<1>2. CASE OP_INCR_GLOBAL
  <2>1. Instruction.op = "INCR_GLOBAL" /\ Checked(Instruction) /\ Operand = Instruction.arg
        /\ Running(vm)
    BY <1>2 DEF OP_INCR_GLOBAL, AtOpcode, SoundCode, Instruction, Operand
  <2>2. Operand \in VarIds
    BY <2>1 DEF Checked
  <2>3. UNCHANGED <<code, fns, scope>>
    BY <1>2 DEF OP_INCR_GLOBAL
  <2>4. \/ symtable' = symtable
        \/ \E val : symtable' = [symtable EXCEPT ![Operand] = val]
    BY <1>2 DEF OP_INCR_GLOBAL
  <2> QED  BY <2>1, <2>2, <2>3, <2>4
<1>3. CASE ~OP_SET_GLOBAL /\ ~OP_INCR_GLOBAL
  <2>1. Unchanged /\ Running(vm)
    BY <1>3 DEF Execute, AtOpcode, OP_RETURN, OP_POP, OP_POPN, OP_CLARGS, OP_NUMBER,
       OP_BOOLEAN, OP_NONE, OP_GET_GLOBAL, OP_GET_LOCAL, OP_SET_LOCAL, OP_INCR_LOCAL,
       OP_JUMP, OP_FJUMP, OP_CALL, OP_NATIVE_CALL
  <2> QED  BY <2>1 DEF Unchanged, programVars
<1> QED  BY <1>1, <1>2, <1>3

(* Executing.                                                              *)
LEMMA RunKeepsInv == EnmaInv /\ Run => EnmaInv'
<1> SUFFICES ASSUME EnmaInv, Run PROVE EnmaInv'
  OBVIOUS
<1>1. /\ Execute /\ UNCHANGED <<cycles, ctl, phase>>
      /\ CompilerInv /\ NamesInv /\ ScopeInv /\ PhaseInv /\ MachineInv /\ CallsInv
  BY DEF EnmaInv, Run, parserVars
<1>2. SoundCode(code) /\ FunctionsOk
  BY <1>1 DEF CompilerInv, CodeOk
<1>3. /\ UNCHANGED <<code, fns, scope>> /\ Running(vm)
      /\ \/ symtable' = symtable
         \/ \E id \in VarIds : \E val : symtable' = [symtable EXCEPT ![id] = val]
  BY <1>1, <1>2, ExecuteLeaves
<1>4. vm.status # "idle"
  BY <1>3 DEF Running
<1>5. ctl = <<>> /\ phase = "parsed"
  BY <1>1, <1>4 DEF PhaseInv
<1>6. Live(vm')
  BY <1>1, <1>4, <1>5, ExecuteKeepsFrame DEF Live, MachineInv
<1>7. CompilerInv' /\ ScopeInv'
  BY <1>1, <1>3, CompilerStays
<1>8. MachineInv' /\ NamesInv' /\ PhaseInv'
  <2>1. vm'.status # "idle" /\ Frame(vm') /\ code' = code
    BY <1>3, <1>6 DEF Live
  <2>2. MachineInv'
    BY <2>1 DEF MachineInv, Frame
  <2>3. NamesInv'
    BY <1>1, <1>3, <2>1 DEF NamesInv
  <2>4. PhaseInv'
    BY <1>1, <1>5 DEF PhaseInv
  <2> QED  BY <2>2, <2>3, <2>4
<1>9. CallsInv'
  <2> SUFFICES ASSUME VarIds \cap FuncIds = {}, NEW o \in DOMAIN code.ins,
                      code.ins[o].op = "CALL"
               PROVE  symtable'[fns[code.ins[o].arg].name] = Function(code.ins[o].arg)
    BY <1>3 DEF CallsInv, CallsReach, Reaches
  <2>1. symtable[fns[code.ins[o].arg].name] = Function(code.ins[o].arg)
    BY <1>1 DEF CallsInv, CallsReach, Reaches
  <2>2. code.ins[o].arg \in DOMAIN fns
    BY <1>2 DEF SoundCode, Checked
  <2>3. fns[code.ins[o].arg] \in FunctionObject
    BY <1>2, <2>2 DEF FunctionsOk
  <2>4. fns[code.ins[o].arg].name \in FuncIds
    BY <2>3 DEF FunctionObject
  <2>5. fns[code.ins[o].arg].name \notin VarIds
    BY <2>4
  <2>6. PICK n, i : n = fns[code.ins[o].arg].name /\ i = code.ins[o].arg
    OBVIOUS
  <2>7. symtable'[n] = symtable[n]
    <3>1. n \in DOMAIN symtable
      BY <1>1, <2>4, <2>6 DEF NamesInv
    <3> QED  BY <1>3, <2>5, <2>6, <3>1
  <2> QED  BY <2>1, <2>6, <2>7
<1> QED  BY <1>7, <1>8, <1>9 DEF EnmaInv

(* A step that changes nothing.                                            *)
LEMMA StutterKeepsInv == EnmaInv /\ UNCHANGED vars => EnmaInv'
<1> SUFFICES ASSUME EnmaInv, UNCHANGED vars PROVE EnmaInv'
  OBVIOUS
<1>1. UNCHANGED <<code, fns, scope, cycles, ctl, symtable, phase, vm>>
  BY DEF vars
<1>2. CompilerInv' /\ ScopeInv'
  BY <1>1, CompilerStays DEF EnmaInv
<1>3. MachineInv' /\ PhaseInv'
  BY <1>1 DEF EnmaInv, MachineInv, Frame, PhaseInv
<1>4. NamesInv' /\ CallsInv'
  BY <1>1 DEF EnmaInv, NamesInv, Symbols, CallsInv, CallsReach, Reaches
<1> QED  BY <1>2, <1>3, <1>4 DEF EnmaInv

(* The invariant holds of every reachable state.                           *)
LEMMA AlwaysEnmaInv == Spec => []EnmaInv
<1>1. EnmaInit => EnmaInv
  BY InvInit
<1>2. EnmaInv /\ [Next]_vars => EnmaInv'
  BY CompileKeepsInv, StartKeepsInv, RunKeepsInv, StutterKeepsInv DEF Next, Exited
<1> QED  BY <1>1, <1>2, PTL DEF Spec

-----------------------------------------------------------------------------
(* Theorems *)

(* Offsets into the code are offsets the compiler wrote, and sp and bp     *)
(* stay below the end of the stack (stack_push, preamble and epilogue of   *)
(* vm.c), whatever program is read and however large it is.                *)
THEOREM RegistersStayInRange == Spec => []TypeOK
<1>1. EnmaInv => TypeOK
  <2> SUFFICES ASSUME EnmaInv PROVE TypeOK
    OBVIOUS
  <2>1. CompilerInv /\ PhaseInv /\ Frame(vm)
    BY DEF EnmaInv, MachineInv
  <2>2. SoundCode(code) /\ FunctionsOk /\ Base \in Nat /\ Base <= code.size
    BY <2>1 DEF CompilerInv, CodeOk
  <2>3. DOMAIN code.ins \subseteq 0..code.size /\ code.size \in Nat
    BY <2>2 DEF SoundCode
  <2>4. ASSUME NEW i \in DOMAIN fns PROVE fns[i].entry \in {NoEntry} \union (0..code.size)
    <3>1. fns[i] \in FunctionObject /\ fns[i].entry <= Base
      BY <2>2 DEF FunctionsOk
    <3>2. fns[i].entry \in {NoEntry} \union Nat
      BY <3>1 DEF FunctionObject
    <3> QED  BY <2>2, <2>3, <3>1, <3>2
  <2>5. /\ phase \in {"parsing", "parsed", "compile_error"}
        /\ vm.ip \in 0..code.size /\ vm.sp <= STACK_SIZE /\ vm.bp \in 0..STACK_SIZE
        /\ DOMAIN vm.stack = Slots
    BY <2>1 DEF PhaseInv, Frame
  <2> QED  BY <2>3, <2>4, <2>5 DEF TypeOK
<1> QED  BY <1>1, AlwaysEnmaInv, PTL

(* When the file has been read no scope is open, however the program nests *)
(* its constructs: OP_GET_GLOBAL and OP_SET_GLOBAL, which resolve the name *)
(* again in that scope (vm.c), find no local and no argument of any name.  *)
THEOREM NoLocalOutlivesParsing == Spec => []GlobalsStayGlobal
<1>1. EnmaInv => GlobalsStayGlobal
  <2> SUFFICES ASSUME EnmaInv, phase = "parsed", NEW id \in VarIds \union Range(ParamIds)
               PROVE  ResolveLocal(scope, id) = -1
    BY DEF GlobalsStayGlobal
  <2>1. scope.locals = <<>> /\ scope.args = <<>>
    BY DEF EnmaInv, PhaseInv, ScopeInv
  <2>2. Len(scope.locals) = 0 /\ Len(scope.args) = 0
    BY <2>1
  <2>3. FindArgument(scope, id) = -1 /\ TopLocal(scope, id) = 0
    BY <2>2 DEF FindArgument, TopLocal
  <2> QED  BY <2>3 DEF ResolveLocal
<1> QED  BY <1>1, AlwaysEnmaInv, PTL

(* Every jump of parse_if, parse_while, parse_for, parse_break and         *)
(* parse_continue has been patched by the time its function is closed, and *)
(* lands on an instruction of that function, at any depth of nesting and   *)
(* for any number of breaks and continues (cycler.c).                      *)
THEOREM JumpsLandInTheirFunction == Spec => []JumpsStayInFunction
<1>1. EnmaInv => JumpsStayInFunction
  <2> SUFFICES ASSUME EnmaInv, ctl = <<>>, NEW o \in DOMAIN code.ins,
                      code.ins[o].op \in {"JUMP", "FJUMP"}
               PROVE  /\ JumpTarget(o) \in DOMAIN code.ins
                      /\ \A i \in DOMAIN fns : fns[i].entry # NoEntry =>
                           (fns[i].entry <= o <=> fns[i].entry <= JumpTarget(o))
    BY DEF JumpsStayInFunction
  <2>1. Landing(code, o) \in DOMAIN code.ins /\ SameSide(o, Landing(code, o))
    BY CodeAtRunTime DEF EnmaInv, Jumps
  <2>2. JumpTarget(o) = Landing(code, o)
    BY DEF JumpTarget, Landing
  <2> QED  BY <2>1, <2>2 DEF SameSide
<1> QED  BY <1>1, AlwaysEnmaInv, PTL

(* A call compiled against a declaration reaches the object the later      *)
(* definition fills in, and keeps reaching it while the program runs, when *)
(* no variable bears a function's name: set_variable_value would replace   *)
(* what such a name stands for.                                            *)
THEOREM CallsReachTheirObject ==
  ASSUME VarIds \cap FuncIds = {}
  PROVE  Spec => []CallsReachTheirFunction
<1>1. EnmaInv => CallsReachTheirFunction
  BY DEF EnmaInv, CallsInv, CallsReach, Reaches, CallsReachTheirFunction
<1> QED  BY <1>1, AlwaysEnmaInv, PTL
=============================================================================
