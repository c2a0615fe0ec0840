----------------------------- MODULE EnmaFrames -----------------------------
(***************************************************************************)
(* What follows at run time, for every tame program: the stack has the     *)
(* height the compiler counted on, control stays in the code, and the      *)
(* frames of the callers lie below, linked and untouched.                  *)
(***************************************************************************)
EXTENDS EnmaHeights

-----------------------------------------------------------------------------
(* The machine within a function *)

Formed(m) == /\ m = [ip |-> m.ip, sp |-> m.sp, bp |-> m.bp, stack |-> m.stack,
                     status |-> m.status]
             /\ m.sp \in Int /\ m.bp \in Nat /\ DOMAIN m.stack = Slots

(* The slot i holds in d what it held in m.                                *)
Holds(m, d, i) == d.stack[i] = m.stack[i]

(* What a push does if it succeeds                                         *)
LEMMA PushIs ==
  ASSUME NEW m, Formed(m), NEW val, NEW d, d = Push(m, val), Running(d)
  PROVE  /\ Formed(d) /\ Running(m) /\ d.ip = m.ip /\ d.bp = m.bp /\ d.sp = m.sp + 1
         /\ m.sp \in Slots /\ d.stack[m.sp] = val
         /\ \A i \in Slots : i # m.sp => Holds(m, d, i)
<1>1. /\ m = [ip |-> m.ip, sp |-> m.sp, bp |-> m.bp, stack |-> m.stack, status |-> m.status]
      /\ m.sp \in Int /\ m.bp \in Nat /\ DOMAIN m.stack = Slots
  BY DEF Formed
<1>2. \A status : status # "running" => ~Running(Stop(m, status))
  <2> TAKE status
  <2>1. Stop(m, status) = [ip |-> m.ip, sp |-> m.sp, bp |-> m.bp, stack |-> m.stack,
                           status |-> status]
    BY <1>1 DEF Stop
  <2> QED  BY <2>1 DEF Running
<1> DEFINE st == [m.stack EXCEPT ![m.sp] = val]
           h == [m EXCEPT !.stack = st, !.sp = m.sp + 1]
<1>3. Running(m)
  BY DEF Push
<1>4. ~(m.sp >= STACK_SIZE) /\ ~(m.sp < 0)
  BY <1>2, <1>3 DEF Push
<1>5. d = h
  BY <1>3, <1>4 DEF Push
<1>6. m.sp \in Slots
  BY <1>1, <1>4, StackAssumption DEF Slots
<1>7. DOMAIN st = Slots /\ st[m.sp] = val /\ \A i \in Slots : i # m.sp => st[i] = m.stack[i]
  BY <1>1, <1>6
<1>a. h = [m EXCEPT !.stack = st, !.sp = m.sp + 1]
  OBVIOUS
<1> HIDE DEF st, h
<1>8. h = [ip |-> m.ip, sp |-> m.sp + 1, bp |-> m.bp, stack |-> st, status |-> m.status]
  BY <1>1, <1>a
<1>9. d.ip = m.ip /\ d.sp = m.sp + 1 /\ d.bp = m.bp /\ d.stack = st /\ d.status = m.status
  BY <1>5, <1>8
<1>10. Formed(d)
  BY <1>1, <1>5, <1>7, <1>8, <1>9 DEF Formed
<1> QED  BY <1>3, <1>6, <1>7, <1>9, <1>10 DEF Holds

(* Moving one register leaves the others.                                  *)
LEMMA RegistersAre ==
  ASSUME NEW m, Formed(m)
  PROVE  /\ \A ip : LET d == [m EXCEPT !.ip = ip]
                    IN  /\ Formed(d) /\ d.ip = ip /\ d.sp = m.sp /\ d.bp = m.bp
                        /\ d.stack = m.stack /\ d.status = m.status
         /\ \A sp \in Int : LET d == [m EXCEPT !.sp = sp]
                            IN  /\ Formed(d) /\ d.ip = m.ip /\ d.sp = sp /\ d.bp = m.bp
                                /\ d.stack = m.stack /\ d.status = m.status
         /\ \A bp \in Nat : LET d == [m EXCEPT !.bp = bp]
                            IN  /\ Formed(d) /\ d.ip = m.ip /\ d.sp = m.sp /\ d.bp = bp
                                /\ d.stack = m.stack /\ d.status = m.status
         /\ \A status : LET d == Stop(m, status) IN d.status = status
<1>1. /\ m = [ip |-> m.ip, sp |-> m.sp, bp |-> m.bp, stack |-> m.stack, status |-> m.status]
      /\ m.sp \in Int /\ m.bp \in Nat /\ DOMAIN m.stack = Slots
  BY DEF Formed
<1>2. ASSUME NEW ip
      PROVE  LET d == [m EXCEPT !.ip = ip]
             IN  /\ Formed(d) /\ d.ip = ip /\ d.sp = m.sp /\ d.bp = m.bp
                 /\ d.stack = m.stack /\ d.status = m.status
  <2> DEFINE d == [m EXCEPT !.ip = ip]
  <2>1. d = [ip |-> ip, sp |-> m.sp, bp |-> m.bp, stack |-> m.stack, status |-> m.status]
    BY <1>1
  <2> HIDE DEF d
  <2>2. /\ Formed(d) /\ d.ip = ip /\ d.sp = m.sp /\ d.bp = m.bp
        /\ d.stack = m.stack /\ d.status = m.status
    BY <1>1, <2>1 DEF Formed
  <2> QED  BY <2>2 DEF d
<1>3. ASSUME NEW sp \in Int
      PROVE  LET d == [m EXCEPT !.sp = sp]
             IN  /\ Formed(d) /\ d.ip = m.ip /\ d.sp = sp /\ d.bp = m.bp
                 /\ d.stack = m.stack /\ d.status = m.status
  <2> DEFINE d == [m EXCEPT !.sp = sp]
  <2>1. d = [ip |-> m.ip, sp |-> sp, bp |-> m.bp, stack |-> m.stack, status |-> m.status]
    BY <1>1
  <2> HIDE DEF d
  <2>2. /\ Formed(d) /\ d.ip = m.ip /\ d.sp = sp /\ d.bp = m.bp
        /\ d.stack = m.stack /\ d.status = m.status
    BY <1>1, <2>1 DEF Formed
  <2> QED  BY <2>2 DEF d
<1>4. ASSUME NEW bp \in Nat
      PROVE  LET d == [m EXCEPT !.bp = bp]
             IN  /\ Formed(d) /\ d.ip = m.ip /\ d.sp = m.sp /\ d.bp = bp
                 /\ d.stack = m.stack /\ d.status = m.status
  <2> DEFINE d == [m EXCEPT !.bp = bp]
  <2>1. d = [ip |-> m.ip, sp |-> m.sp, bp |-> bp, stack |-> m.stack, status |-> m.status]
    BY <1>1
  <2> HIDE DEF d
  <2>2. /\ Formed(d) /\ d.ip = m.ip /\ d.sp = m.sp /\ d.bp = bp
        /\ d.stack = m.stack /\ d.status = m.status
    BY <1>1, <2>1 DEF Formed
  <2> QED  BY <2>2 DEF d
<1>5. ASSUME NEW status PROVE LET d == Stop(m, status) IN d.status = status
  <2> DEFINE d == Stop(m, status)
  <2>1. d = [m EXCEPT !.status = status]
    BY DEF Stop
  <2> HIDE DEF d
  <2>2. d = [ip |-> m.ip, sp |-> m.sp, bp |-> m.bp, stack |-> m.stack, status |-> status]
    BY <1>1, <2>1
  <2>3. d.status = status
    BY <2>2
  <2> QED  BY <2>3 DEF d
<1> QED  BY <1>2, <1>3, <1>4, <1>5

(* What taking the top away does if there is one                           *)
LEMMA DropIs ==
  ASSUME NEW m, Formed(m), NEW d, d = Drop(m), Running(d)
  PROVE  /\ Formed(d) /\ Running(m) /\ d.ip = m.ip /\ d.bp = m.bp /\ d.sp = m.sp - 1
         /\ m.sp > 0 /\ d.stack = m.stack
<1>1. ~Running(Stop(m, "stack_smashed"))
  BY RegistersAre DEF Running
<1>2. Running(m) /\ ~(m.sp <= 0) /\ m.sp \in Int
  BY <1>1 DEF Drop, Formed
<1>3. d = [m EXCEPT !.sp = m.sp - 1]
  BY <1>2 DEF Drop
<1>4. m.sp - 1 \in Int /\ m.sp > 0
  BY <1>2
<1>5. PICK s \in Int : s = m.sp - 1
  BY <1>4
<1>6. d = [m EXCEPT !.sp = s]
  BY <1>3, <1>5
<1>7. /\ Formed(d) /\ d.ip = m.ip /\ d.sp = s /\ d.bp = m.bp
      /\ d.stack = m.stack /\ d.status = m.status
  BY <1>6, RegistersAre
<1> QED  BY <1>2, <1>4, <1>5, <1>7

(* What a store into a slot of the frame does if it succeeds               *)
LEMMA StoreLocalIs ==
  ASSUME NEW m, Formed(m), NEW idx, NEW val, NEW d, d = StoreLocal(m, idx, val), Running(d)
  PROVE  /\ Formed(d) /\ Running(m) /\ d.ip = m.ip /\ d.bp = m.bp /\ d.sp = m.sp
         /\ \A i \in Slots : i # m.bp + idx => Holds(m, d, i)
<1>1. ~Running(Stop(m, "undefined"))
  BY RegistersAre DEF Running
<1>2. Local(m, idx) \in Slots
  BY <1>1 DEF StoreLocal
<1> DEFINE st == [m.stack EXCEPT ![Local(m, idx)] = val]
           h == [m EXCEPT !.stack = st]
<1>3. d = h
  BY <1>2 DEF StoreLocal
<1>4. /\ m = [ip |-> m.ip, sp |-> m.sp, bp |-> m.bp, stack |-> m.stack, status |-> m.status]
      /\ m.sp \in Int /\ m.bp \in Nat /\ DOMAIN m.stack = Slots
  BY DEF Formed
<1>5. DOMAIN st = Slots /\ \A i \in Slots : i # m.bp + idx => st[i] = m.stack[i]
  BY <1>4 DEF Local
<1> HIDE DEF st
<1>6. h = [ip |-> m.ip, sp |-> m.sp, bp |-> m.bp, stack |-> st, status |-> m.status]
  BY <1>4
<1> HIDE DEF h
<1>7. d.ip = m.ip /\ d.sp = m.sp /\ d.bp = m.bp /\ d.stack = st /\ d.status = m.status
  BY <1>3, <1>6
<1>8. Formed(d)
  BY <1>3, <1>4, <1>5, <1>6, <1>7 DEF Formed
<1>9. Running(m)
  BY <1>7 DEF Running
<1> QED  BY <1>5, <1>7, <1>8, <1>9 DEF Holds

(* A read of a slot pushes some value if it succeeds.                      *)
LEMMA PushLocalIs ==
  ASSUME NEW m, Formed(m), NEW idx, NEW d, d = PushLocal(m, idx), Running(d)
  PROVE  \E val : d = Push(m, val)
<1>1. ~Running(Stop(m, "undefined"))
  BY RegistersAre DEF Running
<1> QED  BY <1>1 DEF PushLocal

(* An instruction writes into the frame of its function alone: the values  *)
(* from bp on and the a arguments.                                         *)
Within(m, d, a) == \A i \in Slots : i < m.bp /\ i \notin (m.bp - 2 - a)..(m.bp - 3) => Holds(m, d, i)

(* Behind an instruction that stays in the function                        *)
Inner(x, a) ==
  /\ vm'.bp = vm.bp
  /\ vm'.sp = vm.sp + Rise(x)
  /\ Within(vm, vm', a)
  /\ \/ vm'.ip = vm.ip + Bytes(x.op)
     \/ x.op \in Jumps /\ vm'.ip = Landing(code, vm.ip)

(* A value is pushed.                                                      *)
LEMMA PushInner ==
  ASSUME NEW m, Formed(m), m.bp = vm.bp, vm.bp \in Nat, m.ip = vm.ip + Bytes(Instruction.op),
         NEW a, Within(vm, m, a), m.sp >= vm.bp, m.sp + 1 = vm.sp + Rise(Instruction),
         NEW val, vm' = Push(m, val), Running(vm')
  PROVE  Inner(Instruction, a)
<1>1. /\ vm'.ip = m.ip /\ vm'.bp = m.bp /\ vm'.sp = m.sp + 1
      /\ \A i \in Slots : i # m.sp => Holds(m, vm', i)
  <2>1. PICK d : d = vm'
    OBVIOUS
  <2>2. /\ d.ip = m.ip /\ d.bp = m.bp /\ d.sp = m.sp + 1
        /\ \A i \in Slots : i # m.sp => Holds(m, d, i)
    BY <2>1, PushIs
  <2> QED  BY <2>1, <2>2
<1>2. Within(vm, vm', a)
  <2>1. m.sp \in Int
    BY DEF Formed
  <2>2. \A i \in Slots : i < vm.bp => i # m.sp
    BY <2>1, StackAssumption DEF Slots
  <2> QED  BY <1>1, <2>2 DEF Within, Holds
<1> QED  BY <1>1, <1>2 DEF Inner

(* Every instruction but a call and a return stays in its function.        *)
LEMMA InnerStep ==
  ASSUME SoundCode(code), Live(vm), scope.locals = <<>>, scope.args = <<>>,
         Execute, Running(vm'), Instruction.op \notin {"CALL", "RETURN"},
         NEW a \in Nat, vm.sp >= vm.bp, Fits(Instruction, At(vm.sp - vm.bp, a))
  PROVE  Inner(Instruction, a)
<1> DEFINE x == Instruction
<1>0. vm.ip \in DOMAIN code.ins
  BY DEF Execute, AtOpcode, OP_RETURN, OP_POP, OP_POPN, OP_CLARGS, OP_NUMBER, OP_BOOLEAN,
     OP_NONE, OP_GET_GLOBAL, OP_SET_GLOBAL, OP_GET_LOCAL, OP_SET_LOCAL, OP_INCR_LOCAL,
     OP_INCR_GLOBAL, OP_JUMP, OP_FJUMP, OP_CALL, OP_NATIVE_CALL
<1>1. /\ Formed(vm) /\ vm.ip \in Nat /\ vm.sp \in Int /\ vm.bp \in Nat /\ vm.bp \in Int
      /\ STACK_SIZE \in Nat
  BY StackAssumption DEF Live, Frame, Formed
<1>2. /\ Formed(Simple) /\ Simple.ip = vm.ip + 1 /\ Simple.sp = vm.sp /\ Simple.bp = vm.bp
      /\ Simple.stack = vm.stack
  <2>1. PICK ip : ip = vm.ip + 1
    OBVIOUS
  <2>2. Simple = [vm EXCEPT !.ip = ip]
    BY <1>1, <2>1 DEF Simple
  <2> QED  BY <1>1, <2>1, <2>2, RegistersAre
<1>3. /\ Formed(Constant) /\ Constant.ip = vm.ip + 5 /\ Constant.sp = vm.sp
      /\ Constant.bp = vm.bp /\ Constant.stack = vm.stack
  <2>1. PICK ip : ip = vm.ip + 5
    OBVIOUS
  <2>2. Constant = [vm EXCEPT !.ip = ip]
    BY <1>1, <2>1 DEF Constant, INT_SIZE
  <2> QED  BY <1>1, <2>1, <2>2, RegistersAre
<1>4. Checked(Instruction) /\ Operand = Instruction.arg
  BY <1>0 DEF SoundCode, Instruction, Operand
<1>5. PICK s, k : s = Simple /\ k = Constant
  OBVIOUS
<1>6. /\ x.op \in OneByte => vm.ip + Bytes(x.op) = vm.ip + 1
      /\ x.op \notin OneByte => vm.ip + Bytes(x.op) = vm.ip + 5
  BY DEF Bytes, INT_SIZE
<1>7. /\ x.op \in Drops \union {"SET_LOCAL", "SET_GLOBAL", "NATIVE_CALL"} => vm.sp - 1 >= vm.bp
      /\ x.op = "POPN"      => x.arg <= vm.sp - vm.bp
      /\ x.op = "CLARGS"    => x.arg < vm.sp - vm.bp
      /\ x.op = "SET_LOCAL" => x.arg \in ((-2 - a)..(-3)) \union (0..(vm.sp - vm.bp - 2))
      /\ x.op = "INCR_LOCAL" => x.arg \in ((-2 - a)..(-3)) \union (0..(vm.sp - vm.bp - 1))
  BY <1>1 DEF Fits, At, Writable, Steppable
<1>8. \A m : m.stack = vm.stack => Within(vm, m, a)
  BY DEF Within, Holds
<1>9. \A id : ResolveLocal(scope, id) = -1
  <2>1. Len(scope.locals) = 0 /\ Len(scope.args) = 0
    OBVIOUS
  <2>2. \A id : FindArgument(scope, id) = -1 /\ TopLocal(scope, id) = 0
    BY <2>1 DEF FindArgument, TopLocal
  <2> QED  BY <2>2 DEF ResolveLocal
<1> HIDE DEF x
<1>10. CASE OP_POP
  <2>1. x.op = "POP" /\ vm' = [s EXCEPT !.sp = @ - 1]
    BY <1>5, <1>10 DEF OP_POP, AtOpcode, x
  <2>2. PICK n \in Int : n = vm.sp - 1
    BY <1>1
  <2>3. vm' = [s EXCEPT !.sp = n]
    BY <1>2, <1>5, <2>1, <2>2
  <2>4. vm'.ip = s.ip /\ vm'.bp = s.bp /\ vm'.sp = n /\ vm'.stack = s.stack
    BY <1>2, <1>5, <2>3, RegistersAre
  <2>5. Rise(x) = -1 /\ x.op \in OneByte
    BY <2>1 DEF Rise, Pushes, Drops, OneByte
  <2>6. Within(vm, vm', a)
    BY <1>2, <1>5, <2>4 DEF Within, Holds
  <2> QED  BY <1>1, <1>2, <1>5, <1>6, <2>2, <2>4, <2>5, <2>6 DEF Inner, x
<1>11. CASE OP_POPN
  <2>1. x.op = "POPN" /\ vm' = [k EXCEPT !.sp = @ - x.arg]
    BY <1>4, <1>5, <1>11 DEF OP_POPN, AtOpcode, x
  <2>2. x.arg \in Nat
    BY <1>4, <2>1 DEF Checked, x
  <2>3. PICK n \in Int : n = vm.sp - x.arg
    BY <1>1, <2>2
  <2>4. vm' = [k EXCEPT !.sp = n]
    BY <1>3, <1>5, <2>1, <2>3
  <2>5. vm'.ip = k.ip /\ vm'.bp = k.bp /\ vm'.sp = n /\ vm'.stack = k.stack
    BY <1>3, <1>5, <2>4, RegistersAre
  <2>6. Rise(x) = -x.arg /\ x.op \notin OneByte
    BY <2>1 DEF Rise, Pushes, Drops, OneByte
  <2>7. Within(vm, vm', a)
    BY <1>3, <1>5, <2>5 DEF Within, Holds
  <2>8. vm'.sp = vm.sp + Rise(x)
    BY <1>1, <2>2, <2>3, <2>5, <2>6
  <2> QED  BY <1>1, <1>3, <1>5, <1>6, <2>5, <2>6, <2>7, <2>8 DEF Inner, x
<1>12. CASE OP_CLARGS
  <2>1. PICK m : m = Drop(k)
    OBVIOUS
  <2>2. x.op = "CLARGS" /\ vm' = Push([m EXCEPT !.sp = @ - x.arg], Top(vm))
    BY <1>4, <1>5, <1>12, <2>1 DEF OP_CLARGS, AtOpcode, x
  <2>3. x.arg \in Nat /\ x.op \notin OneByte /\ Rise(x) = -x.arg
    BY <1>4, <2>2 DEF Checked, x, OneByte, Rise, Pushes, Drops
  <2>4. Running(m)
    <3>1. PICK p : p = [m EXCEPT !.sp = @ - x.arg]
      OBVIOUS
    <3>2. Running(p)
      BY <2>2, <3>1 DEF Push
    <3>3. p.status = m.status
      BY <3>1
    <3> QED  BY <3>2, <3>3 DEF Running
  <2>5. /\ Formed(m) /\ m.ip = vm.ip + 5 /\ m.bp = vm.bp /\ m.sp = vm.sp - 1
        /\ m.stack = vm.stack
    BY <1>3, <1>5, <2>1, <2>4, DropIs
  <2>6. PICK n \in Int : n = vm.sp - 1 - x.arg
    BY <1>1, <2>3
  <2>7. PICK p : p = [m EXCEPT !.sp = n]
    OBVIOUS
  <2>8. vm' = Push(p, Top(vm))
    BY <2>2, <2>5, <2>6, <2>7
  <2>9. Formed(p) /\ p.ip = vm.ip + 5 /\ p.bp = vm.bp /\ p.sp = n /\ p.stack = vm.stack
    BY <2>5, <2>7, RegistersAre
  <2>10. p.sp >= vm.bp /\ p.sp + 1 = vm.sp + Rise(x)
    BY <1>1, <1>7, <2>2, <2>3, <2>6, <2>9, SMTT(40)
  <2> QED  BY <1>1, <1>6, <1>8, <2>3, <2>8, <2>9, <2>10, PushInner DEF x
(* What pushes a value onto the stack it finds *)
<1>p. ASSUME NEW val, vm' = Push(k, val), x.op \in Pushes, x.op \notin OneByte
      PROVE  Inner(Instruction, a)
  <2>1. Rise(x) = 1
    BY <1>p DEF Rise
  <2> QED  BY <1>1, <1>3, <1>5, <1>6, <1>8, <1>p, <2>1, PushInner DEF x
<1>q. \A status : status # "running" => vm' # Stop(k, status)
  BY <1>3, <1>5, RegistersAre DEF Running
<1>13. CASE OP_NUMBER \/ OP_BOOLEAN
  BY <1>5, <1>13, <1>p DEF OP_NUMBER, OP_BOOLEAN, AtOpcode, x, Pushes, OneByte
<1>14. CASE OP_NONE
  <2>1. x.op = "NONE" /\ vm' = Push(s, None)
    BY <1>5, <1>14 DEF OP_NONE, AtOpcode, x
  <2>2. Rise(x) = 1 /\ x.op \in OneByte
    BY <2>1 DEF Rise, Pushes, OneByte
  <2> QED  BY <1>1, <1>2, <1>5, <1>6, <1>8, <2>1, <2>2, PushInner DEF x
<1>15. CASE OP_GET_GLOBAL
  <2>1. x.op = "GET_GLOBAL"
    BY <1>15 DEF OP_GET_GLOBAL, AtOpcode, x
  <2>2. vm' = Stop(k, "runtime_error") \/ \E val : vm' = Push(k, val)
    BY <1>5, <1>9, <1>15 DEF OP_GET_GLOBAL
  <2> QED  BY <1>p, <1>q, <2>1, <2>2 DEF Pushes, OneByte
<1>16. CASE OP_GET_LOCAL
  <2>1. x.op = "GET_LOCAL" /\ vm' = PushLocal(k, Operand)
    BY <1>5, <1>16 DEF OP_GET_LOCAL, AtOpcode, x
  <2>2. \E val : vm' = Push(k, val)
    BY <1>3, <1>5, <2>1, PushLocalIs
  <2> QED  BY <1>p, <2>1, <2>2 DEF Pushes, OneByte
<1>17. CASE OP_INCR_LOCAL
  <2>1. x.op = "INCR_LOCAL"
    BY <1>17 DEF OP_INCR_LOCAL, AtOpcode, x
  <2>2. \/ vm' = Stop(k, "runtime_error")
        \/ \E v, val : vm' = Push(StoreLocal(k, x.arg, v), val)
    BY <1>4, <1>5, <1>17 DEF OP_INCR_LOCAL, x
  <2>3. PICK v, val : vm' = Push(StoreLocal(k, x.arg, v), val)
    BY <1>q, <2>2
  <2>4. PICK p : p = StoreLocal(k, x.arg, v)
    OBVIOUS
  <2>5. vm' = Push(p, val) /\ Running(p)
    BY <2>3, <2>4 DEF Push
  <2>6. /\ Formed(p) /\ p.ip = k.ip /\ p.bp = k.bp /\ p.sp = k.sp
        /\ \A i \in Slots : i # k.bp + x.arg => Holds(k, p, i)
    BY <1>3, <1>5, <2>4, <2>5, StoreLocalIs
  <2>7. Rise(x) = 1 /\ x.op \notin OneByte
    BY <2>1 DEF Rise, Pushes, OneByte
  <2>8. p.sp >= vm.bp /\ p.sp + 1 = vm.sp + Rise(x)
    BY <1>1, <1>3, <1>5, <2>6, <2>7
  <2>9. Within(vm, p, a)
    <3>1. ASSUME NEW i \in Slots, i < vm.bp, i \notin (vm.bp - 2 - a)..(vm.bp - 3)
          PROVE  i # vm.bp + x.arg
      <4>1. i \in Int
        BY StackAssumption DEF Slots
      <4>2. x.arg \in (-2 - a)..(-3) \/ x.arg \in 0..(vm.sp - vm.bp - 1)
        BY <1>7, <2>1
      <4> QED  BY <1>1, <3>1, <4>1, <4>2
    <3> QED  BY <1>3, <1>5, <2>6, <3>1 DEF Within, Holds
  <2>10. p.bp = vm.bp /\ p.ip = vm.ip + Bytes(x.op)
    BY <1>3, <1>5, <1>6, <2>6, <2>7
  <2> QED  BY <1>1, <2>5, <2>6, <2>8, <2>9, <2>10, PushInner DEF x
<1>18. CASE OP_INCR_GLOBAL
  <2>1. x.op = "INCR_GLOBAL"
    BY <1>18 DEF OP_INCR_GLOBAL, AtOpcode, x
  <2>2. vm' = Stop(k, "runtime_error") \/ \E val : vm' = Push(k, val)
    BY <1>5, <1>18 DEF OP_INCR_GLOBAL
  <2> QED  BY <1>p, <1>q, <2>1, <2>2 DEF Pushes, OneByte
(* What takes the top away and pushes a value in its place, or jumps *)
<1>d. ASSUME NEW m, m = Drop(k), Running(m)
      PROVE  /\ Formed(m) /\ m.ip = vm.ip + 5 /\ m.bp = vm.bp /\ m.sp = vm.sp - 1
             /\ m.stack = vm.stack
  BY <1>3, <1>5, <1>d, DropIs
<1>e. ASSUME NEW m, m = Drop(k) PROVE ~Running(Stop(m, "runtime_error"))
  <2>1. CASE m = k
    BY <1>3, <1>5, <2>1, RegistersAre DEF Running
  <2>2. CASE m = Stop(k, "stack_smashed")
    <3>1. k = [ip |-> k.ip, sp |-> k.sp, bp |-> k.bp, stack |-> k.stack, status |-> k.status]
      BY <1>3, <1>5 DEF Formed
    <3>2. m = [ip |-> k.ip, sp |-> k.sp, bp |-> k.bp, stack |-> k.stack,
               status |-> "stack_smashed"]
      BY <2>2, <3>1 DEF Stop
    <3>3. Stop(m, "runtime_error").status = "runtime_error"
      BY <3>2 DEF Stop
    <3> QED  BY <3>3 DEF Running
  <2>3. CASE Running(m)
    BY <1>d, <1>e, <2>3, RegistersAre DEF Running
  <2>4. CASE m = [k EXCEPT !.sp = @ - 1] /\ Running(k)
    <3>1. m.status = k.status
      BY <2>4
    <3> QED  BY <2>3, <2>4, <3>1 DEF Running
  <2> QED  BY <1>e, <2>1, <2>2, <2>4 DEF Drop
<1>19. CASE OP_SET_GLOBAL
  <2>1. PICK m : m = Drop(k)
    OBVIOUS
  <2>2. x.op = "SET_GLOBAL"
    BY <1>19 DEF OP_SET_GLOBAL, AtOpcode, x
  <2>3. \/ vm' = m
        \/ vm' = Push(m, Top(vm))
        \/ vm' = Stop(m, "runtime_error")
    BY <1>5, <1>9, <1>19, <2>1 DEF OP_SET_GLOBAL
  <2>4. Running(m)
    BY <1>e, <2>1, <2>3 DEF Push
  <2>5. vm' = Push(m, Top(vm))
    BY <1>5, <1>9, <1>19, <1>e, <2>1, <2>4 DEF OP_SET_GLOBAL
  <2>6. Rise(x) = 0 /\ x.op \notin OneByte
    BY <2>2 DEF Rise, Pushes, Drops, OneByte
  <2>7. m.sp >= vm.bp /\ m.sp + 1 = vm.sp + Rise(x)
    BY <1>1, <1>7, <1>d, <2>1, <2>2, <2>4, <2>6
  <2> QED  BY <1>1, <1>6, <1>8, <1>d, <2>1, <2>4, <2>5, <2>6, <2>7, PushInner DEF x
<1>20. CASE OP_NATIVE_CALL
  <2>1. PICK m : m = Drop(k)
    OBVIOUS
  <2>2. PICK val : x.op = "NATIVE_CALL" /\ vm' = Push(m, val)
    BY <1>5, <1>20, <2>1 DEF OP_NATIVE_CALL, AtOpcode, x
  <2>3. Running(m)
    BY <2>2 DEF Push
  <2>4. Rise(x) = 0 /\ x.op \notin OneByte
    BY <2>2 DEF Rise, Pushes, Drops, OneByte
  <2>5. m.sp >= vm.bp /\ m.sp + 1 = vm.sp + Rise(x)
    BY <1>1, <1>7, <1>d, <2>1, <2>2, <2>3, <2>4
  <2> QED  BY <1>1, <1>6, <1>8, <1>d, <2>1, <2>2, <2>3, <2>4, <2>5, PushInner DEF x
<1>21. CASE OP_SET_LOCAL
  <2>1. PICK m : m = Drop(k)
    OBVIOUS
  <2>2. x.op = "SET_LOCAL" /\ Running(m) /\ vm' = Push(StoreLocal(m, x.arg, Top(vm)), Top(vm))
    BY <1>4, <1>5, <1>21, <2>1 DEF OP_SET_LOCAL, AtOpcode, x
  <2>3. PICK p : p = StoreLocal(m, x.arg, Top(vm))
    OBVIOUS
  <2>4. Running(p)
    BY <2>2, <2>3 DEF Push
  <2>5. Formed(m) /\ m.ip = vm.ip + 5 /\ m.bp = vm.bp /\ m.sp = vm.sp - 1 /\ m.stack = vm.stack
    BY <1>d, <2>1, <2>2
  <2>6. /\ Formed(p) /\ p.ip = m.ip /\ p.bp = m.bp /\ p.sp = m.sp
        /\ \A i \in Slots : i # m.bp + x.arg => Holds(m, p, i)
    BY <2>3, <2>4, <2>5, StoreLocalIs
  <2>7. Rise(x) = 0 /\ x.op \notin OneByte
    BY <2>2 DEF Rise, Pushes, Drops, OneByte
  <2>8. p.sp >= vm.bp /\ p.sp + 1 = vm.sp + Rise(x)
    BY <1>1, <1>7, <2>2, <2>5, <2>6, <2>7
  <2>9. Within(vm, p, a)
    <3>1. ASSUME NEW i \in Slots, i < vm.bp, i \notin (vm.bp - 2 - a)..(vm.bp - 3)
          PROVE  i # vm.bp + x.arg
      <4>1. i \in Int
        BY StackAssumption DEF Slots
      <4>2. x.arg \in (-2 - a)..(-3) \/ x.arg \in 0..(vm.sp - vm.bp - 2)
        BY <1>7, <2>2
      <4> QED  BY <1>1, <3>1, <4>1, <4>2
    <3> QED  BY <2>5, <2>6, <3>1 DEF Within, Holds
  <2>10. vm' = Push(p, Top(vm))
    BY <2>2, <2>3
  <2>11. p.bp = vm.bp /\ p.ip = vm.ip + Bytes(x.op)
    BY <1>6, <2>5, <2>6, <2>7
  <2> QED  BY <1>1, <2>6, <2>8, <2>9, <2>10, <2>11, PushInner DEF x
<1>22. CASE OP_JUMP
  <2>1. x.op = "JUMP" /\ vm' = [k EXCEPT !.ip = @ + x.arg]
    BY <1>4, <1>5, <1>22 DEF OP_JUMP, AtOpcode, x
  <2>2. PICK ip : ip = vm.ip + 5 + x.arg
    OBVIOUS
  <2>3. vm' = [k EXCEPT !.ip = ip]
    BY <1>3, <1>5, <2>1, <2>2
  <2>4. vm'.ip = ip /\ vm'.bp = k.bp /\ vm'.sp = k.sp /\ vm'.stack = k.stack
    BY <1>3, <1>5, <2>3, RegistersAre
  <2>5. x.op \in Jumps /\ Rise(x) = 0
    BY <2>1 DEF Jumps, Rise, Pushes, Drops
  <2>6. ip = Landing(code, vm.ip)
    BY <1>1, <1>4, <2>2, <2>5 DEF Landing, INT_SIZE, Instruction, x, Checked
  <2>7. Within(vm, vm', a)
    BY <1>3, <1>5, <2>4 DEF Within, Holds
  <2> QED  BY <1>1, <1>3, <1>5, <2>4, <2>5, <2>6, <2>7 DEF Inner, x
<1>23. CASE OP_FJUMP
  <2>1. PICK m : m = Drop(k)
    OBVIOUS
  <2>2. x.op = "FJUMP"
    BY <1>23 DEF OP_FJUMP, AtOpcode, x
  <2>3. \/ vm' = m
        \/ vm' = Stop(m, "runtime_error")
        \/ vm' = [m EXCEPT !.ip = @ + x.arg]
    BY <1>4, <1>5, <1>23, <2>1 DEF OP_FJUMP, x
  <2>4. vm' = m \/ vm' = [m EXCEPT !.ip = @ + x.arg]
    BY <1>e, <2>1, <2>3
  <2>5. Running(m)
    <3>1. CASE vm' = m
      BY <3>1
    <3>2. CASE vm' = [m EXCEPT !.ip = @ + x.arg]
      <4>1. vm'.status = m.status
        BY <3>2
      <4> QED  BY <4>1 DEF Running
    <3> QED  BY <2>4, <3>1, <3>2
  <2>6. Formed(m) /\ m.ip = vm.ip + 5 /\ m.bp = vm.bp /\ m.sp = vm.sp - 1 /\ m.stack = vm.stack
    BY <1>d, <2>1, <2>5
  <2>7. PICK ip : ip = vm.ip + 5 + x.arg
    OBVIOUS
  <2>8. /\ vm'.ip \in {vm.ip + 5, ip} /\ vm'.bp = vm.bp /\ vm'.sp = vm.sp - 1
        /\ vm'.stack = vm.stack
    <3>1. CASE vm' = m
      BY <2>6, <3>1
    <3>2. CASE vm' = [m EXCEPT !.ip = @ + x.arg]
      <4>1. vm' = [m EXCEPT !.ip = ip]
        BY <2>6, <2>7, <3>2
      <4>2. vm'.ip = ip /\ vm'.bp = m.bp /\ vm'.sp = m.sp /\ vm'.stack = m.stack
        BY <2>6, <4>1, RegistersAre
      <4> QED  BY <2>6, <4>2
    <3> QED  BY <2>4, <3>1, <3>2
  <2>9. x.op \in Jumps /\ Rise(x) = -1 /\ x.op \notin OneByte
    BY <2>2 DEF Jumps, Rise, Pushes, Drops, OneByte
  <2>10. ip = Landing(code, vm.ip)
    BY <1>1, <1>4, <2>7, <2>9 DEF Landing, INT_SIZE, Instruction, x, Checked
  <2>11. Within(vm, vm', a)
    BY <2>8 DEF Within, Holds
  <2>12. vm'.sp = vm.sp + Rise(x)
    BY <1>1, <2>8, <2>9
  <2> QED  BY <1>6, <2>8, <2>9, <2>10, <2>11, <2>12 DEF Inner, x
<1>24. ~OP_CALL /\ ~OP_RETURN
  BY DEF OP_CALL, OP_RETURN, AtOpcode
<1> QED  BY <1>10, <1>11, <1>12, <1>13, <1>14, <1>15, <1>16, <1>17, <1>18, <1>19, <1>20, <1>21,
            <1>22, <1>23, <1>24 DEF Execute

-----------------------------------------------------------------------------
(* The frames *)

(* The call at o, made in the frame at b0, which has a0 arguments, made    *)
(* the frame at b, which has a: that one lies on what the caller had on    *)
(* its stack, the arguments on top, and holds the way back.                *)
Called(H, m, b0, a0, b, a, o) ==
  /\ o \in DOMAIN H \cap DOMAIN code.ins /\ code.ins[o].op = "CALL"
  /\ fns[code.ins[o].arg].argc = a
  /\ H[o] = At(b - 2 - b0, a0)
  /\ b0 + 2 + a <= b
  /\ m.stack[b - 1] = Number(b0)
  /\ m.stack[b - 2] = Number(o + 1 + INT_SIZE)

(* B[k] is where the frame of the k-th function called begins, A[k] how    *)
(* many arguments it has, and K[k] the call; main is the one with k = 0.   *)
Frames(H, m, n, B, A, K) ==
  /\ n \in Nat /\ B \in [Nat -> Nat] /\ A \in [Nat -> Nat]
  /\ B[0] = 0 /\ A[0] = 0 /\ B[n] = m.bp
  /\ \A k \in 1..n : Called(H, m, B[k - 1], A[k - 1], B[k], A[k], K[k])
  /\ \A j, k \in 0..n : j < k => B[j] + 2 <= B[k]

(* What lies above bp is what the running function has put there.          *)
Upright(H, m, a) == m.sp >= m.bp /\ Marked(H, m.ip, At(m.sp - m.bp, a))

Framed(H, m) == \E n, B, A, K : Frames(H, m, n, B, A, K) /\ Upright(H, m, A[n])

(* Writing within the running frame leaves those below it alone.           *)
LEMMA FramesStay ==
  ASSUME NEW H, NEW n, NEW B, NEW A, NEW K, Frames(H, vm, n, B, A, K), Live(vm),
         NEW m, m.bp = vm.bp, Within(vm, m, A[n])
  PROVE  Frames(H, m, n, B, A, K)
<1>1. /\ n \in Nat /\ \A k \in Nat : B[k] \in Nat /\ A[k] \in Nat
      /\ B[n] = vm.bp /\ vm.bp \in 0..STACK_SIZE /\ STACK_SIZE \in Nat
  BY StackAssumption DEF Frames, Live, Frame
<1>2. ASSUME NEW k \in 1..n
      PROVE  Called(H, m, B[k - 1], A[k - 1], B[k], A[k], K[k])
  <2>1. Called(H, vm, B[k - 1], A[k - 1], B[k], A[k], K[k])
    BY DEF Frames
  <2>2. /\ k \in Nat /\ k - 1 \in Nat /\ n - 1 \in Nat /\ n \in 1..n
        /\ B[k - 1] + 2 + A[k] <= B[k]
    BY <1>1, <2>1 DEF Called
  <2>3. B[n - 1] + 2 + A[n] <= B[n]
    BY <2>2 DEF Frames, Called
  <2>4. B[k] - 1 \in Slots /\ B[k] - 2 \in Slots /\ B[k] <= B[n]
    <3>1. k = n \/ (k < n /\ k \in 0..n /\ n \in 0..n)
      BY <1>1
    <3>2. B[k] <= B[n]
      BY <1>1, <2>2, <3>1 DEF Frames
    <3>3. B[k] \in Nat /\ B[k - 1] \in Nat /\ A[k] \in Nat /\ B[n] \in Nat
      BY <1>1, <2>2
    <3> QED  BY <1>1, <2>2, <3>2, <3>3 DEF Slots
  <2>5. k < n => B[k] <= B[n - 1]
    <3>1. ASSUME k < n PROVE k = n - 1 \/ (k < n - 1 /\ k \in 0..n /\ n - 1 \in 0..n)
      BY <1>1, <3>1
    <3>2. B[n - 1] \in Nat /\ B[k] \in Nat
      BY <1>1, <2>2
    <3> QED  BY <3>1, <3>2 DEF Frames
  <2>6. ASSUME NEW i \in {B[k] - 1, B[k] - 2} PROVE Holds(vm, m, i)
    <3>1. i \in Slots
      BY <2>4
    <3>2. B[k] \in Nat /\ B[n - 1] \in Nat /\ A[n] \in Nat /\ B[n] \in Nat
      BY <1>1, <2>2
    <3>3. CASE k = n
      <4>1. i < vm.bp /\ i \notin (vm.bp - 2 - A[n])..(vm.bp - 3)
        BY <1>1, <3>2, <3>3
      <4> QED  BY <3>1, <4>1 DEF Within
    <3>4. CASE k < n
      <4>1. i < vm.bp /\ i \notin (vm.bp - 2 - A[n])..(vm.bp - 3)
        BY <1>1, <2>3, <2>5, <3>2, <3>4
      <4> QED  BY <3>1, <4>1 DEF Within
    <3> QED  BY <1>1, <3>3, <3>4
  <2>7. m.stack[B[k] - 1] = vm.stack[B[k] - 1] /\ m.stack[B[k] - 2] = vm.stack[B[k] - 2]
    BY <2>6 DEF Holds
  <2> QED  BY <2>1, <2>7 DEF Called
<1> QED  BY <1>2 DEF Frames

(* An instruction that stays in the function writes into its frame.        *)
LEMMA InnerWithin ==
  ASSUME CompilerInv, ScopeInv, ctl = <<>>, NEW H, Known(H), Live(vm),
         NEW n, NEW B, NEW A, NEW K, Frames(H, vm, n, B, A, K), Upright(H, vm, A[n]),
         Execute, Running(vm'), Instruction.op \notin {"CALL", "RETURN"}
  PROVE  Inner(Instruction, A[n])
<1>1. PICK a : a = A[n]
  OBVIOUS
<1>2. /\ vm.sp >= vm.bp /\ vm.ip \in DOMAIN H /\ H[vm.ip] = At(vm.sp - vm.bp, a) /\ a \in Nat
  BY <1>1 DEF Upright, Marked, Frames
<1>3. /\ Steady(code, H, {}) /\ DOMAIN H \subseteq DOMAIN code.ins /\ SoundCode(code)
  <2>1. cycles = <<>> /\ SoundCode(code)
    BY CodeAtRunTime
  <2>2. Pending(ctl, cycles) = {}
    BY <2>1 DEF Pending
  <2> QED  BY <2>1, <2>2 DEF Known
<1>4. Fits(Instruction, H[vm.ip])
  BY <1>2, <1>3 DEF Steady, Instruction
<1> QED  BY <1>1, <1>2, <1>3, <1>4, InnerStep DEF ScopeInv

(* So the frames stay.                                                     *)
LEMMA InnerFrames ==
  ASSUME CompilerInv, ScopeInv, ctl = <<>>, NEW H, Known(H), Framed(H, vm), Live(vm),
         Execute, Running(vm'), Instruction.op \notin {"CALL", "RETURN"}
  PROVE  Framed(H, vm')
<1>1. PICK n, B, A, K : Frames(H, vm, n, B, A, K) /\ Upright(H, vm, A[n])
  BY DEF Framed
<1>2. PICK a : a = A[n]
  OBVIOUS
<1>3. /\ vm.sp >= vm.bp /\ vm.ip \in DOMAIN H /\ H[vm.ip] = At(vm.sp - vm.bp, a)
      /\ a \in Nat /\ vm.sp \in Int /\ vm.bp \in Int
  BY <1>1, <1>2 DEF Upright, Marked, Frames, Live, Frame
<1>4. /\ Steady(code, H, {}) /\ DOMAIN H \subseteq DOMAIN code.ins /\ SoundCode(code)
  <2>1. cycles = <<>> /\ SoundCode(code)
    BY CodeAtRunTime
  <2>2. Pending(ctl, cycles) = {}
    BY <2>1 DEF Pending
  <2> QED  BY <2>1, <2>2 DEF Known
<1>5. /\ Fits(Instruction, H[vm.ip])
      /\ Instruction.op # "RETURN" => Leads(code, H, vm.ip)
      /\ Instruction.op \in Jumps => Lands(code, H, vm.ip)
  BY <1>3, <1>4 DEF Steady, Instruction
<1>6. Inner(Instruction, a)
  BY <1>1, <1>2, InnerWithin
<1>7. Frames(H, vm', n, B, A, K)
  <2>1. PICK m : m = vm'
    OBVIOUS
  <2>2. m.bp = vm.bp /\ Within(vm, m, A[n])
    BY <1>2, <1>6, <2>1 DEF Inner
  <2>3. Frames(H, m, n, B, A, K)
    BY <1>1, <2>2, FramesStay
  <2> QED  BY <2>1, <2>3
<1>8. Marked(H, vm'.ip, After(Instruction, H[vm.ip]))
  <2>1. Leads(code, H, vm.ip)
    BY <1>5
  <2>2. Behind(code, vm.ip) = vm.ip + Bytes(Instruction.op)
    BY DEF Behind, Instruction
  <2>3. Marked(H, Behind(code, vm.ip), After(Instruction, H[vm.ip]))
    BY <2>1 DEF Leads, Marked, Instruction
  <2>4. CASE vm'.ip = vm.ip + Bytes(Instruction.op)
    BY <2>2, <2>3, <2>4
  <2>5. CASE Instruction.op \in Jumps /\ vm'.ip = Landing(code, vm.ip)
    BY <1>5, <2>3, <2>5 DEF Lands, Marked
  <2> QED  BY <1>6, <2>4, <2>5 DEF Inner
<1>9. Upright(H, vm', a)
  <2>1. After(Instruction, H[vm.ip]) = At(vm.sp - vm.bp + Rise(Instruction), a)
    BY <1>3, Levels DEF After
  <2>2. After(Instruction, H[vm.ip]) \in Level
    BY <1>4, <1>8 DEF Marked, Steady
  <2>3. vm.sp - vm.bp + Rise(Instruction) \in Nat
    BY <2>1, <2>2, Levels
  <2>4. Rise(Instruction) \in Int
    <3>1. Checked(Instruction)
      BY <1>3, <1>4 DEF SoundCode, Instruction
    <3> QED  BY <3>1 DEF Checked, Rise
  <2>5. PICK r : r = Rise(Instruction)
    OBVIOUS
  <2>6. vm'.bp = vm.bp /\ vm'.sp = vm.sp + r
    BY <1>6, <2>5 DEF Inner
  <2>7. vm'.sp - vm'.bp = vm.sp - vm.bp + r /\ vm'.sp >= vm'.bp
    BY <1>3, <2>3, <2>4, <2>5, <2>6
  <2> QED  BY <1>8, <2>1, <2>5, <2>7 DEF Upright
<1> QED  BY <1>2, <1>7, <1>9 DEF Framed

(* What a call does if it succeeds                                         *)
LEMMA CallIs ==
  ASSUME NEW m, Formed(m), NEW i, NEW d, d = PerformCall(m, i), Running(d)
  PROVE  /\ fns[i].entry # NoEntry /\ d.ip = fns[i].entry
         /\ d.bp = m.sp + 2 /\ d.sp = m.sp + 2 /\ m.sp \in Slots /\ m.sp + 1 \in Slots
         /\ d.stack[m.sp] = Number(m.ip) /\ d.stack[m.sp + 1] = Number(m.bp)
         /\ \A j \in Slots : j < m.sp => Holds(m, d, j)
<1>1. fns[i].entry # NoEntry
  <2>1. ~Running(Stop(m, "runtime_error"))
    BY RegistersAre DEF Running
  <2> QED  BY <2>1 DEF PerformCall
<1>2. PICK p : p = Push(m, Number(m.ip))
  OBVIOUS
<1>3. PICK e : e = fns[i].entry
  OBVIOUS
<1>4. PICK q : q = [p EXCEPT !.ip = e]
  OBVIOUS
<1>5. PICK r : r = Push(q, Number(m.bp))
  OBVIOUS
<1>6. d = IF Running(r) THEN [r EXCEPT !.bp = r.sp] ELSE r
  BY <1>1, <1>2, <1>3, <1>4, <1>5 DEF PerformCall
<1>7. Running(r) /\ d = [r EXCEPT !.bp = r.sp]
  BY <1>6
<1>8. Running(p)
  <2>1. Running(q)
    BY <1>5, <1>7 DEF Push
  <2>2. q.status = p.status
    BY <1>4
  <2> QED  BY <2>1, <2>2 DEF Running
<1>9. /\ Formed(p) /\ p.bp = m.bp /\ p.sp = m.sp + 1 /\ m.sp \in Slots
      /\ p.stack[m.sp] = Number(m.ip)
      /\ \A j \in Slots : j # m.sp => Holds(m, p, j)
  BY <1>2, <1>8, PushIs
<1>10. Formed(q) /\ q.ip = e /\ q.bp = m.bp /\ q.sp = p.sp /\ q.stack = p.stack
  BY <1>4, <1>9, RegistersAre
<1>11. /\ Formed(r) /\ r.ip = e /\ r.sp = q.sp + 1 /\ q.sp \in Slots
       /\ r.stack[q.sp] = Number(m.bp)
       /\ \A j \in Slots : j # q.sp => Holds(q, r, j)
  BY <1>5, <1>7, <1>10, PushIs
<1>12. m.sp \in Int /\ m.sp \in Nat
  BY <1>9, StackAssumption DEF Formed, Slots
<1>13. PICK b \in Nat : b = r.sp
  BY <1>9, <1>10, <1>11, <1>12
<1>14. d.ip = r.ip /\ d.sp = r.sp /\ d.bp = b /\ d.stack = r.stack
  BY <1>7, <1>11, <1>13, RegistersAre
<1>15. r.sp = m.sp + 2 /\ q.sp = m.sp + 1
  BY <1>9, <1>10, <1>11, <1>12
<1>16. d.stack[m.sp] = Number(m.ip)
  <2>1. m.sp # q.sp
    BY <1>12, <1>15
  <2>2. Holds(q, r, m.sp)
    BY <1>9, <1>11, <2>1
  <2> QED  BY <1>9, <1>10, <1>14, <2>2 DEF Holds
<1>17. ASSUME NEW j \in Slots, j < m.sp PROVE Holds(m, d, j)
  <2>1. j # m.sp /\ j # q.sp
    BY <1>12, <1>15, <1>17, StackAssumption DEF Slots
  <2>2. Holds(m, p, j) /\ Holds(q, r, j)
    BY <1>9, <1>11, <2>1
  <2> QED  BY <1>10, <1>14, <2>2 DEF Holds
<1> QED  BY <1>1, <1>3, <1>9, <1>11, <1>13, <1>14, <1>15, <1>16, <1>17

(* What the frames say, one by one                                         *)
LEMMA FramesFacts ==
  ASSUME NEW H, NEW m, NEW n, NEW B, NEW A, NEW K, Frames(H, m, n, B, A, K)
  PROVE  /\ n \in Nat /\ n + 1 \in Nat /\ \A k \in Nat : B[k] \in Nat /\ A[k] \in Nat
         /\ B[n] = m.bp /\ B[0] = 0 /\ A[0] = 0 /\ B \in [Nat -> Nat] /\ A \in [Nat -> Nat]
         /\ \A k \in 1..n : Called(H, m, B[k - 1], A[k - 1], B[k], A[k], K[k])
         /\ \A j, k \in 0..n : j < k => B[j] + 2 <= B[k]
         /\ \A k \in 0..n : B[k] <= B[n]
<1>1. /\ n \in Nat /\ B \in [Nat -> Nat] /\ A \in [Nat -> Nat]
      /\ B[n] = m.bp /\ B[0] = 0 /\ A[0] = 0
      /\ \A k \in 1..n : Called(H, m, B[k - 1], A[k - 1], B[k], A[k], K[k])
      /\ \A j, k \in 0..n : j < k => B[j] + 2 <= B[k]
  BY DEF Frames
<1>2. n + 1 \in Nat /\ \A k \in Nat : B[k] \in Nat /\ A[k] \in Nat
  BY <1>1
<1>3. ASSUME NEW k \in 0..n PROVE B[k] <= B[n]
  <2>1. k \in Nat /\ n \in 0..n /\ (k = n \/ k < n) /\ B[k] \in Nat /\ B[n] \in Nat
    BY <1>1, <1>2
  <2> QED  BY <1>1, <2>1
<1> QED  BY <1>1, <1>2, <1>3

(* Behind an instruction with an operand                                   *)
LEMMA ConstantIs ==
  ASSUME Formed(vm), vm.ip \in Nat
  PROVE  /\ Formed(Constant) /\ Constant.ip = vm.ip + 5 /\ Constant.sp = vm.sp
         /\ Constant.bp = vm.bp /\ Constant.stack = vm.stack
<1>1. PICK ip : ip = vm.ip + 5
  OBVIOUS
<1>2. Constant = [vm EXCEPT !.ip = ip]
  BY <1>1 DEF Constant, INT_SIZE
<1> QED  BY <1>1, <1>2, RegistersAre

(* A function is called.                                                   *)
LEMMA CallFrames ==
  ASSUME CompilerInv, ctl = <<>>, NEW H, Known(H), Live(vm), OP_CALL, Running(vm'),
         NEW n, NEW B, NEW A, NEW K, Frames(H, vm, n, B, A, K), Upright(H, vm, A[n])
  PROVE  Framed(H, vm') /\ vm'.bp > vm.bp /\ \A i \in Slots : i < vm.sp => Holds(vm, vm', i)
<1>a. n \in Nat /\ n + 1 \in Nat
  BY FramesFacts
<1>e. \A k \in Nat : B[k] \in Nat /\ A[k] \in Nat
  BY FramesFacts
<1>f. B[n] = vm.bp /\ B[0] = 0 /\ A[0] = 0
  BY FramesFacts
<1>g. B \in [Nat -> Nat] /\ A \in [Nat -> Nat]
  BY FramesFacts
<1>c. /\ \A k \in 1..n : Called(H, vm, B[k - 1], A[k - 1], B[k], A[k], K[k])
      /\ \A j, k \in 0..n : j < k => B[j] + 2 <= B[k]
      /\ \A k \in 0..n : B[k] <= B[n]
  BY FramesFacts
<1>b. /\ vm.sp >= vm.bp /\ vm.ip \in DOMAIN H /\ H[vm.ip] = At(vm.sp - vm.bp, A[n])
  BY DEF Upright, Marked
<1>2. vm.sp \in Nat /\ vm.bp \in Nat /\ STACK_SIZE \in Nat /\ Formed(vm) /\ vm.ip \in Nat
  <2>1. /\ vm = [ip |-> vm.ip, sp |-> vm.sp, bp |-> vm.bp, stack |-> vm.stack, status |-> vm.status]
        /\ vm.sp \in Int /\ vm.bp \in Nat /\ vm.ip \in Nat /\ DOMAIN vm.stack = Slots
    BY StackAssumption DEF Live, Frame
  <2>2. vm.sp \in Nat
    BY <1>b, <2>1
  <2> QED  BY <2>1, <2>2, StackAssumption DEF Formed
<1>3. /\ Steady(code, H, {}) /\ DOMAIN H \subseteq DOMAIN code.ins /\ SoundCode(code)
      /\ Entered(H) /\ FunctionsOk
  <2>1. cycles = <<>> /\ SoundCode(code)
    BY CodeAtRunTime
  <2>2. Pending(ctl, cycles) = {}
    BY <2>1 DEF Pending
  <2> QED  BY <2>1, <2>2 DEF Known, CompilerInv
<1>4. Instruction.op = "CALL" /\ Operand = Instruction.arg /\ vm' = PerformCall(Constant, Operand)
  BY DEF OP_CALL, AtOpcode, Operand
<1>5. PICK i : i = Operand
  OBVIOUS
<1>6. i \in DOMAIN fns /\ vm.ip \in DOMAIN code.ins /\ code.ins[vm.ip].op = "CALL"
      /\ code.ins[vm.ip].arg = i
  BY <1>a, <1>b, <1>2, <1>3, <1>4, <1>5 DEF SoundCode, Checked, Instruction
<1>7. PICK a : a = fns[i].argc
  OBVIOUS
<1>8. a \in Nat /\ a <= vm.sp - vm.bp
  <2>1. fns[i] \in FunctionObject
    BY <1>3, <1>6 DEF FunctionsOk
  <2>2. Fits(code.ins[vm.ip], H[vm.ip])
    BY <1>a, <1>b, <1>2, <1>3, <1>6 DEF Steady
  <2> QED  BY <1>a, <1>b, <1>2, <1>6, <1>7, <2>1, <2>2 DEF FunctionObject, Fits, At
<1>9. /\ Formed(Constant) /\ Constant.ip = vm.ip + 5 /\ Constant.sp = vm.sp
      /\ Constant.bp = vm.bp /\ Constant.stack = vm.stack
  BY <1>2, ConstantIs
<1>10. PICK k, d : k = Constant /\ d = vm'
  OBVIOUS
<1>11. /\ fns[i].entry # NoEntry /\ d.ip = fns[i].entry
       /\ d.bp = vm.sp + 2 /\ d.sp = vm.sp + 2 /\ vm.sp \in Slots /\ vm.sp + 1 \in Slots
       /\ d.stack[vm.sp] = Number(vm.ip + 5) /\ d.stack[vm.sp + 1] = Number(vm.bp)
       /\ \A j \in Slots : j < vm.sp => Holds(k, d, j)
  <2>1. d = PerformCall(k, i) /\ Formed(k) /\ Running(d)
    BY <1>4, <1>5, <1>9, <1>10
  <2>2. /\ fns[i].entry # NoEntry /\ d.ip = fns[i].entry
        /\ d.bp = k.sp + 2 /\ d.sp = k.sp + 2 /\ k.sp \in Slots /\ k.sp + 1 \in Slots
        /\ d.stack[k.sp] = Number(k.ip) /\ d.stack[k.sp + 1] = Number(k.bp)
        /\ \A j \in Slots : j < k.sp => Holds(k, d, j)
    BY <2>1, CallIs
  <2> QED  BY <1>9, <1>10, <2>2
<1>12. \A j \in Slots : j < vm.sp => Holds(vm, d, j)
  BY <1>9, <1>10, <1>11 DEF Holds
<1>13. Marked(H, d.ip, At(0, a))
  BY <1>3, <1>6, <1>7, <1>11 DEF Entered
<1>14. PICK C : C = [B EXCEPT ![n + 1] = vm.sp + 2]
  OBVIOUS
<1>15. PICK D : D = [A EXCEPT ![n + 1] = a]
  OBVIOUS
<1>16. PICK L : L = [j \in Nat |-> IF j = n + 1 THEN vm.ip ELSE K[j]]
  OBVIOUS
<1>17. /\ C \in [Nat -> Nat] /\ D \in [Nat -> Nat]
       /\ C[n + 1] = vm.sp + 2 /\ D[n + 1] = a /\ L[n + 1] = vm.ip
       /\ \A j \in 0..n : C[j] = B[j] /\ D[j] = A[j] /\ L[j] = K[j]
  <2>1. B \in [Nat -> Nat] /\ A \in [Nat -> Nat] /\ vm.sp + 2 \in Nat
    BY ONLY <1>g, <1>2
  <2>2. \A j \in 0..n : j \in Nat /\ j # n + 1
    BY <1>a, <1>b, <1>2
  <2> QED  BY <1>a, <1>b, <1>2, <1>8, <1>14, <1>15, <1>16, <2>1, <2>2
<1>19. ASSUME NEW j \in 1..n PROVE Called(H, d, B[j - 1], A[j - 1], B[j], A[j], K[j])
  <2>1. Called(H, vm, B[j - 1], A[j - 1], B[j], A[j], K[j])
    BY DEF Frames
  <2>2. B[j] \in Nat /\ B[j - 1] \in Nat /\ A[j] \in Nat /\ B[j - 1] + 2 + A[j] <= B[j]
    BY <1>a, <1>e, <2>1 DEF Called
  <2>3. B[j] <= B[n]
    BY ONLY <1>a, <1>c
  <2>4. B[j] - 1 \in Slots /\ B[j] - 2 \in Slots /\ B[j] - 1 < vm.sp /\ B[j] - 2 < vm.sp
    BY ONLY <1>f, <1>b, <1>2, <1>11, <2>2, <2>3 DEF Slots
  <2>5. d.stack[B[j] - 1] = vm.stack[B[j] - 1] /\ d.stack[B[j] - 2] = vm.stack[B[j] - 2]
    BY <1>12, <2>4 DEF Holds
  <2> QED  BY <2>1, <2>5 DEF Called
<1>20. Called(H, d, B[n], A[n], vm.sp + 2, a, vm.ip)
  <2>1. (vm.sp + 2) - 1 = vm.sp + 1 /\ (vm.sp + 2) - 2 = vm.sp /\ vm.ip + 1 + INT_SIZE = vm.ip + 5
    BY ONLY <1>2 DEF INT_SIZE
  <2>2. vm.bp + 2 + a <= vm.sp + 2
    BY ONLY <1>2, <1>8
  <2>3. H[vm.ip] = At((vm.sp + 2) - 2 - B[n], A[n]) /\ B[n] + 2 + a <= vm.sp + 2
    BY ONLY <1>b, <1>f, <2>1, <2>2
  <2>4. d.stack[(vm.sp + 2) - 1] = Number(B[n])
    BY ONLY <1>f, <1>11, <2>1
  <2>5. d.stack[(vm.sp + 2) - 2] = Number(vm.ip + 1 + INT_SIZE)
    BY ONLY <1>11, <2>1
  <2> QED  BY ONLY <1>b, <1>6, <1>7, <2>3, <2>4, <2>5 DEF Called
<1>21. Frames(H, d, n + 1, C, D, L)
  <2>1. ASSUME NEW j \in 1..(n + 1) PROVE Called(H, d, C[j - 1], D[j - 1], C[j], D[j], L[j])
    <3>1. CASE j \in 1..n
      <4>1. j \in 0..n /\ j - 1 \in 0..n
        BY <1>a, <1>b, <1>2, <3>1
      <4> QED  BY <1>17, <1>19, <3>1, <4>1
    <3>2. CASE j = n + 1
      <4>1. j - 1 = n /\ n \in 0..n
        BY <1>a, <1>b, <1>2, <3>2
      <4> QED  BY <1>17, <1>20, <3>2, <4>1
    <3> QED  BY <1>a, <1>b, <1>2, <3>1, <3>2
  <2>2. C[0] = 0 /\ D[0] = 0
    <3>1. 0 \in 0..n
      BY ONLY <1>a
    <3> QED  BY ONLY <1>f, <1>17, <3>1
  <2>3. C[n + 1] = d.bp
    BY <1>11, <1>17
  <2>4. ASSUME NEW j \in 0..(n + 1), NEW l \in 0..(n + 1), j < l PROVE C[j] + 2 <= C[l]
    <3>1. j \in 0..n
      BY <1>a, <1>b, <1>2, <2>4
    <3>2. CASE l \in 0..n
      BY <1>17, <2>4, <3>1, <3>2 DEF Frames
    <3>3. CASE l = n + 1
      <4>1. C[j] = B[j] /\ B[j] <= B[n] /\ j \in Nat
        BY ONLY <1>a, <1>c, <1>17, <3>1
      <4>2. C[l] = vm.sp + 2 /\ B[j] \in Nat
        BY <1>a, <1>e, <1>17, <3>3, <4>1
      <4> QED  BY ONLY <1>f, <1>b, <1>2, <4>1, <4>2
    <3> QED  BY <1>a, <1>b, <1>2, <3>2, <3>3
  <2> QED  BY <1>a, <1>b, <1>2, <1>17, <2>1, <2>2, <2>3, <2>4 DEF Frames
<1>22. Upright(H, d, D[n + 1])
  <2>1. d.sp - d.bp = 0 /\ d.sp >= d.bp
    BY ONLY <1>2, <1>11
  <2> QED  BY <1>13, <1>17, <2>1 DEF Upright
<1>23. d.bp > vm.bp
  BY ONLY <1>b, <1>2, <1>11
<1> QED  BY <1>10, <1>12, <1>21, <1>22, <1>23 DEF Framed

(* What a return does if it succeeds                                       *)
LEMMA Dropped ==
  ASSUME NEW m, Formed(m), Running(m), m.sp > 0, NEW d, d = Drop(m)
  PROVE  Running(d) /\ Formed(d) /\ d.ip = m.ip /\ d.bp = m.bp /\ d.sp = m.sp - 1
         /\ d.stack = m.stack
<1>1. m.sp \in Int
  BY DEF Formed
<1>2. PICK s \in Int : s = m.sp - 1
  BY <1>1
<1>3. d = [m EXCEPT !.sp = s]
  BY <1>1, <1>2 DEF Drop
<1>4. /\ Formed(d) /\ d.ip = m.ip /\ d.sp = s /\ d.bp = m.bp
      /\ d.stack = m.stack /\ d.status = m.status
  BY <1>3, RegistersAre
<1> QED  BY <1>2, <1>4 DEF Running

(* Behind an instruction without one                                       *)
LEMMA SimpleIs ==
  ASSUME Formed(vm), vm.ip \in Nat
  PROVE  /\ Formed(Simple) /\ Simple.ip = vm.ip + 1 /\ Simple.sp = vm.sp
         /\ Simple.bp = vm.bp /\ Simple.stack = vm.stack
<1>1. PICK ip : ip = vm.ip + 1
  OBVIOUS
<1>2. Simple = [vm EXCEPT !.ip = ip]
  BY <1>1 DEF Simple
<1> QED  BY <1>1, <1>2, RegistersAre

(* A return to a frame that holds a place b and an address r               *)
LEMMA ReturnIs ==
  ASSUME Formed(vm), vm.ip \in Nat, OP_RETURN, Running(vm'), vm.bp \in 2..STACK_SIZE,
         NEW b \in 0..STACK_SIZE, NEW r \in 0..code.size,
         vm.stack[vm.bp - 1] = Number(b), vm.stack[vm.bp - 2] = Number(r)
  PROVE  /\ vm'.ip = r /\ vm'.bp = b /\ vm'.sp = vm.bp - 1
         /\ \A i \in Slots : i # vm.bp - 2 => Holds(vm, vm', i)
<1>1. PICK s : s = Simple
  OBVIOUS
<1>2. Formed(s) /\ s.sp = vm.sp /\ s.bp = vm.bp /\ s.stack = vm.stack
  BY <1>1, SimpleIs
<1>3. PICK d : d = Drop(s)
  OBVIOUS
<1>4. PICK m1 : m1 = [d EXCEPT !.sp = vm.bp]
  OBVIOUS
<1>5. PICK m2 : m2 = Drop(m1)
  OBVIOUS
<1>6. PICK m3 : m3 = Drop(m2)
  OBVIOUS
<1>7. PICK o, t, res : o = Top(m1) /\ t = Top(m2) /\ res = Top(vm)
  OBVIOUS
<1>8. vm' = CASE vm.bp = 0 -> Stop(s, "done")
              [] vm.bp # 0 /\ ~Running(d) -> d
              [] vm.bp = 1 /\ Running(d) -> m3
              [] OTHER ->
                   IF IsIndex(o, STACK_SIZE) /\ IsIndex(t, code.size)
                   THEN Push([m3 EXCEPT !.bp = o.v, !.ip = t.v], res)
                   ELSE Stop(m1, "undefined")
  BY <1>1, <1>3, <1>4, <1>5, <1>6, <1>7 DEF OP_RETURN
<1>9. vm.bp \in Int /\ vm.bp # 0 /\ vm.bp # 1 /\ STACK_SIZE \in Nat /\ vm.bp \in Nat
  BY StackAssumption DEF Formed
<1>10. Running(d)
  BY <1>8, <1>9
<1>11. /\ Formed(d) /\ d.bp = vm.bp /\ d.stack = vm.stack
  BY <1>2, <1>3, <1>10, DropIs
<1>12. /\ Formed(m1) /\ m1.sp = vm.bp /\ m1.stack = vm.stack /\ Running(m1)
  BY <1>4, <1>9, <1>10, <1>11, RegistersAre DEF Running
<1>13. /\ Formed(m2) /\ m2.sp = vm.bp - 1 /\ m2.stack = vm.stack /\ Running(m2)
  <2>1. m1.sp > 0
    BY <1>12
  <2> QED  BY <1>5, <1>12, <2>1, Dropped
<1>14. /\ Formed(m3) /\ m3.sp = vm.bp - 2 /\ m3.stack = vm.stack
  <2>1. m2.sp > 0
    BY <1>13
  <2>2. Formed(m3) /\ m3.sp = m2.sp - 1 /\ m3.stack = m2.stack
    BY <1>6, <1>13, <2>1, Dropped
  <2>3. (vm.bp - 1) - 1 = vm.bp - 2
    BY <1>9
  <2> QED  BY <1>13, <2>2, <2>3
<1>15. o = Number(b)
  <2>1. vm.bp - 1 \in Slots
    BY <1>9 DEF Slots
  <2> QED  BY <1>7, <1>12, <2>1 DEF Top
<1>16. t = Number(r)
  <2>1. (vm.bp - 1) - 1 = vm.bp - 2 /\ vm.bp - 2 \in Slots
    BY <1>9 DEF Slots
  <2> QED  BY <1>7, <1>13, <2>1 DEF Top
<1>17. IsIndex(o, STACK_SIZE) /\ o.v = b /\ IsIndex(t, code.size) /\ t.v = r
  BY <1>15, <1>16 DEF IsIndex, IsNumber, Number, Value
<1>18. PICK m4 : m4 = [m3 EXCEPT !.bp = b]
  OBVIOUS
<1>19. PICK m5 : m5 = [m4 EXCEPT !.ip = r]
  OBVIOUS
<1>20. [m3 EXCEPT !.bp = b, !.ip = r] = m5
  BY <1>18, <1>19
<1>21. vm' = Push(m5, res)
  BY <1>8, <1>9, <1>10, <1>17, <1>20
<1>22. Formed(m4) /\ m4.bp = b /\ m4.sp = m3.sp /\ m4.stack = m3.stack
  BY <1>14, <1>18, RegistersAre
<1>23. Formed(m5) /\ m5.ip = r /\ m5.bp = b /\ m5.sp = m3.sp /\ m5.stack = m3.stack
  BY <1>19, <1>22, RegistersAre
<1>24. PICK e : e = vm'
  OBVIOUS
<1>25. /\ e.ip = m5.ip /\ e.bp = m5.bp /\ e.sp = m5.sp + 1
       /\ \A i \in Slots : i # m5.sp => Holds(m5, e, i)
  BY <1>21, <1>23, <1>24, PushIs
<1>26. e.ip = r /\ e.bp = b /\ e.sp = vm.bp - 1
  <2>1. (vm.bp - 2) + 1 = vm.bp - 1
    BY <1>9
  <2> QED  BY <1>14, <1>23, <1>25, <2>1
<1>27. \A i \in Slots : i # vm.bp - 2 => Holds(vm, e, i)
  BY <1>14, <1>23, <1>25 DEF Holds
<1> QED  BY <1>24, <1>26, <1>27

(* A function returns.                                                     *)
LEMMA ReturnFrames ==
  ASSUME CompilerInv, ctl = <<>>, NEW H, Known(H), Live(vm), OP_RETURN, Running(vm'),
         NEW n, NEW B, NEW A, NEW K, Frames(H, vm, n, B, A, K), Upright(H, vm, A[n])
  PROVE  Framed(H, vm') /\ vm'.bp < vm.bp
<1>a. n \in Nat
  BY FramesFacts
<1>b. \A k \in Nat : B[k] \in Nat /\ A[k] \in Nat
  BY FramesFacts
<1>c. B[n] = vm.bp /\ B[0] = 0 /\ A[0] = 0
  BY FramesFacts
<1>d. B \in [Nat -> Nat] /\ A \in [Nat -> Nat]
  BY FramesFacts
<1>e. /\ \A k \in 1..n : Called(H, vm, B[k - 1], A[k - 1], B[k], A[k], K[k])
      /\ \A j, k \in 0..n : j < k => B[j] + 2 <= B[k]
  BY FramesFacts
<1>1. vm.bp \in 0..STACK_SIZE /\ STACK_SIZE \in Nat /\ Formed(vm) /\ vm.ip \in Nat
  BY StackAssumption DEF Live, Frame, Formed
<1>2. /\ Steady(code, H, {}) /\ DOMAIN H \subseteq DOMAIN code.ins /\ SoundCode(code)
  <2>1. cycles = <<>> /\ SoundCode(code)
    BY CodeAtRunTime
  <2>2. Pending(ctl, cycles) = {}
    BY <2>1 DEF Pending
  <2> QED  BY <2>1, <2>2 DEF Known
<1>3. vm.bp # 0
  <2>1. vm.bp = 0 => vm' = Stop(Simple, "done")
    BY DEF OP_RETURN
  <2>2. Formed(Simple)
    BY <1>1, SimpleIs
  <2>3. ~Running(Stop(Simple, "done"))
    BY <2>2, RegistersAre DEF Running
  <2> QED  BY <2>1, <2>3
<1>4. n # 0
  BY ONLY <1>c, <1>3
<1>5. PICK p \in Nat : p = n - 1
  BY ONLY <1>a, <1>4
<1>6. n \in 1..n /\ p \in 0..n /\ n \in 0..n /\ p < n
  BY ONLY <1>a, <1>4, <1>5
<1>7. PICK b, a, o : b = B[p] /\ a = A[p] /\ o = K[n]
  OBVIOUS
<1>8. /\ o \in DOMAIN H \cap DOMAIN code.ins /\ code.ins[o].op = "CALL"
      /\ H[o] = At(vm.bp - 2 - b, a)
      /\ vm.stack[vm.bp - 1] = Number(b) /\ vm.stack[vm.bp - 2] = Number(o + 1 + INT_SIZE)
  <2>1. Called(H, vm, b, a, vm.bp, A[n], o)
    BY <1>c, <1>e, <1>5, <1>6, <1>7
  <2> QED  BY ONLY <2>1 DEF Called
<1>9. b \in Nat /\ a \in Nat /\ b + 2 <= vm.bp
  <2>1. b \in Nat /\ a \in Nat
    BY ONLY <1>b, <1>5, <1>7
  <2>2. B[p] + 2 <= B[n]
    BY ONLY <1>e, <1>6
  <2> QED  BY ONLY <1>c, <1>7, <2>1, <2>2
<1>10. PICK r : r = o + 1 + INT_SIZE
  OBVIOUS
<1>11. r \in 0..code.size /\ r = Behind(code, o)
  <2>1. Bytes(code.ins[o].op) = 5
    BY <1>8 DEF Bytes, OneByte, INT_SIZE
  <2>2. o \in Nat /\ o + 5 \in Ends(code)
    BY <1>2, <1>8, <2>1 DEF SoundCode
  <2>3. r = o + 5
    BY <1>10, <2>2 DEF INT_SIZE
  <2>4. Ends(code) \subseteq 0..code.size
    BY <1>2 DEF SoundCode, Ends
  <2> QED  BY <2>1, <2>2, <2>3, <2>4 DEF Behind
<1>12. /\ vm'.ip = r /\ vm'.bp = b /\ vm'.sp = vm.bp - 1
       /\ \A i \in Slots : i # vm.bp - 2 => Holds(vm, vm', i)
  <2>1. vm.bp \in 2..STACK_SIZE /\ b \in 0..STACK_SIZE
    BY ONLY <1>1, <1>9
  <2> QED  BY <1>1, <1>8, <1>10, <1>11, <2>1, ReturnIs
<1>13. PICK d : d = vm'
  OBVIOUS
<1>14. ASSUME NEW j \in 1..p PROVE Called(H, d, B[j - 1], A[j - 1], B[j], A[j], K[j])
  <2>1. j \in 1..n /\ j \in 0..n /\ (j = p \/ (j < p)) /\ j \in Nat /\ 0 \in 0..n /\ 0 < j
    BY ONLY <1>a, <1>5
  <2>2. Called(H, vm, B[j - 1], A[j - 1], B[j], A[j], K[j])
    BY ONLY <1>e, <2>1
  <2>3. B[j] <= b /\ B[j] \in Nat
    BY ONLY <1>b, <1>e, <1>6, <1>7, <1>9, <2>1
  <2>4. B[j] >= 2
    BY ONLY <1>c, <1>e, <2>1
  <2>5. B[j] - 1 \in Slots /\ B[j] - 2 \in Slots /\ B[j] - 1 # vm.bp - 2 /\ B[j] - 2 # vm.bp - 2
    BY ONLY <1>1, <1>9, <2>3, <2>4 DEF Slots
  <2>6. d.stack[B[j] - 1] = vm.stack[B[j] - 1] /\ d.stack[B[j] - 2] = vm.stack[B[j] - 2]
    BY ONLY <1>12, <1>13, <2>5 DEF Holds
  <2> QED  BY ONLY <2>2, <2>6 DEF Called
<1>15. Frames(H, d, p, B, A, K)
  <2>1. \A j, k \in 0..p : j < k => B[j] + 2 <= B[k]
    <3>1. 0..p \subseteq 0..n
      BY ONLY <1>a, <1>5
    <3> QED  BY ONLY <1>e, <3>1
  <2>2. B[p] = d.bp
    BY ONLY <1>7, <1>12, <1>13
  <2> QED  BY ONLY <1>c, <1>d, <1>5, <1>14, <2>1, <2>2 DEF Frames
<1>16. Marked(H, r, After(code.ins[o], H[o]))
  <2>1. Leads(code, H, o)
    BY <1>2, <1>8 DEF Steady
  <2> QED  BY <1>11, <2>1 DEF Leads, Marked
<1>17. After(code.ins[o], H[o]) = At(vm.bp - 1 - b, a)
  <2>1. Rise(code.ins[o]) = 1
    BY <1>8 DEF Rise, Pushes
  <2>2. vm.bp - 2 - b + 1 = vm.bp - 1 - b
    BY ONLY <1>1, <1>9
  <2>3. H[o].h = vm.bp - 2 - b /\ H[o].a = a
    BY ONLY <1>8, Levels
  <2> QED  BY ONLY <2>1, <2>2, <2>3 DEF After
<1>18. Upright(H, d, A[p])
  <2>1. d.sp - d.bp = vm.bp - 1 - b /\ d.sp >= d.bp
    BY ONLY <1>1, <1>9, <1>12, <1>13
  <2> QED  BY <1>7, <1>12, <1>13, <1>16, <1>17, <2>1 DEF Upright
<1>19. d.bp < vm.bp
  BY ONLY <1>1, <1>9, <1>12, <1>13
<1> QED  BY <1>13, <1>15, <1>18, <1>19 DEF Framed

-----------------------------------------------------------------------------
(* The run *)

(* The levels the compiler has established hold at run time: what the      *)
(* machine's stack holds above bp is the level of the instruction at ip,   *)
(* and below lie the frames of the callers.                                *)
RunInv ==
  /\ LevelsInv
  /\ vm.status = "idle" => vm.sp = 0 /\ vm.bp = 0
  /\ Running(vm) => \E H : Known(H) /\ Framed(H, vm)

(* The frames are those of unchanged code.                                 *)
LEMMA FramedNext ==
  ASSUME NEW H, Framed(H, vm'), UNCHANGED <<code, fns>> PROVE Framed(H, vm)'
<1>1. PICK n, B, A, K : Frames(H, vm', n, B, A, K) /\ Upright(H, vm', A[n])
  BY DEF Framed
<1>2. \A b0, a0, b, a, o : Called(H, vm', b0, a0, b, a, o) => Called(H, vm, b0, a0, b, a, o)'
  BY DEF Called
<1>3. Frames(H, vm, n, B, A, K)'
  BY <1>1, <1>2 DEF Frames
<1>4. Upright(H, vm, A[n])'
  BY <1>1 DEF Upright
<1> QED  BY <1>3, <1>4 DEF Framed

(* Before anything is read.                                                *)
LEMMA RunInit == EnmaInit => RunInv
<1> SUFFICES ASSUME EnmaInit PROVE RunInv
  OBVIOUS
<1> DEFINE H == [o \in {} |-> At(0, 0)]
<1>1. /\ code.ins = [o \in {} |-> NoOperand] /\ code.size = 0
      /\ DOMAIN code.ins = {} /\ fns = <<>> /\ ctl = <<>> /\ lex = NoLex
      /\ expect = NoExpectations /\ vm = Machine
  BY DEF EnmaInit, Init, EmptyCode
<1>2. DOMAIN H = {} /\ DOMAIN fns = {}
  BY <1>1
<1> HIDE DEF H
<1>3. LexInv
  <2>1. lex = [globals |-> lex.globals, params |-> lex.params, blocks |-> lex.blocks]
    BY <1>1 DEF NoLex
  <2>2. expect = [heights |-> expect.heights, reads |-> expect.reads]
    BY <1>1 DEF NoExpectations
  <2> QED  BY <1>1, <2>1, <2>2 DEF LexInv, Shaped
<1>4. Known(H)
  <2>1. DOMAIN expect.heights = {}
    BY <1>1 DEF NoExpectations
  <2> QED  BY <1>1, <1>2, <2>1 DEF Known, Steady, Entered, Met
<1>5. vm.status = "idle" /\ vm.sp = 0 /\ vm.bp = 0
  BY <1>1 DEF Machine
<1> QED  BY <1>3, <1>4, <1>5 DEF RunInv, LevelsInv, Running

(* Reading.                                                                *)
LEMMA CompileKeepsRun ==
  ASSUME Tame, EnmaInv, RunInv, Compile PROVE RunInv'
<1>1. Parse /\ vm' = vm /\ CompilerInv /\ NamesInv /\ ScopeInv /\ PhaseInv
  BY DEF EnmaInv, Compile
<1>2. phase = "parsing"
  BY <1>1, ParsingPhase DEF PhaseInv
<1>3. vm.status = "idle"
  BY <1>1, <1>2 DEF PhaseInv
<1>4. Ready
  BY <1>1, <1>3 DEF Ready, NamesInv
<1>5. LevelsInv'
  BY <1>1, <1>4, ParseKeepsLevels DEF RunInv
<1> QED  BY <1>1, <1>3, <1>5 DEF RunInv, Running

(* Execution begins in the function main.                                  *)
LEMMA StartKeepsRun ==
  ASSUME EnmaInv, RunInv, Start PROVE RunInv'
<1>1. /\ UNCHANGED <<code, fns, scope, cycles, ctl, lex, expect>>
      /\ NamesInv /\ PhaseInv /\ MachineInv /\ vm.status = "idle" /\ phase = "parsed"
  BY DEF EnmaInv, Start, ExecuteMain, Unchanged, programVars, parserVars
<1>2. LevelsInv'
  BY <1>1, LevelsStay DEF RunInv
<1>3. PICK H : Known(H)
  BY DEF RunInv, LevelsInv
<1>4. Known(H)'
  BY <1>1, <1>3, KnownStays
<1>5. /\ vm = [ip |-> vm.ip, sp |-> vm.sp, bp |-> vm.bp, stack |-> vm.stack,
               status |-> vm.status]
      /\ vm.sp = 0 /\ vm.bp = 0
  BY <1>1 DEF MachineInv, Frame, RunInv
<1>6. PICK val, f : val = symtable["main"] /\ f = fns[val.v]
  OBVIOUS
<1>7. vm' = IF IsFunction(val) /\ f.entry # NoEntry /\ f.argc = 0
            THEN [vm EXCEPT !.ip = f.entry, !.status = "running"]
            ELSE Stop(vm, "user_error")
  BY <1>6 DEF Start, ExecuteMain
<1>8. CASE IsFunction(val) /\ f.entry # NoEntry /\ f.argc = 0
  <2>1. PICK m : m = vm'
    OBVIOUS
  <2>2. m = [ip |-> f.entry, sp |-> vm.sp, bp |-> vm.bp, stack |-> vm.stack,
             status |-> "running"]
    BY <1>5, <1>7, <1>8, <2>1
  <2>3. m.ip = f.entry /\ m.sp = 0 /\ m.bp = 0 /\ m.status = "running"
    BY <1>5, <2>2
  <2>4. val.v \in DOMAIN fns
    <3>1. Symbols /\ "main" \in FuncIds
      BY <1>1, ProgramAssumption DEF NamesInv
    <3> QED  BY <1>6, <1>8, <3>1 DEF Symbols, Function, Value
  <2>5. Marked(H, m.ip, At(0, 0))
    BY <1>3, <1>6, <1>8, <2>3, <2>4 DEF Known, Entered
  <2>6. PICK B : B = [k \in Nat |-> 0]
    OBVIOUS
  <2>7. B \in [Nat -> Nat] /\ B[0] = 0
    BY <2>6
  <2>8. Frames(H, m, 0, B, B, B)
    BY <2>3, <2>7 DEF Frames
  <2>9. Upright(H, m, B[0])
    BY <2>3, <2>5, <2>7 DEF Upright
  <2>10. Framed(H, m)
    BY <2>8, <2>9 DEF Framed
  <2>11. Framed(H, vm)'
    BY <1>1, <2>1, <2>10, FramedNext
  <2> QED  BY <1>2, <1>4, <2>1, <2>3, <2>11 DEF RunInv
<1>9. CASE ~(IsFunction(val) /\ f.entry # NoEntry /\ f.argc = 0)
  <2>1. vm' = [ip |-> vm.ip, sp |-> vm.sp, bp |-> vm.bp, stack |-> vm.stack,
               status |-> "user_error"]
    BY <1>5, <1>7, <1>9 DEF Stop
  <2>2. vm'.status = "user_error"
    BY <2>1
  <2> QED  BY <1>2, <2>2 DEF RunInv, Running
<1> QED  BY <1>8, <1>9

(* An instruction is executed.                                             *)
LEMMA OtherInstructions ==
  ASSUME Execute, ~OP_CALL, ~OP_RETURN PROVE Instruction.op \notin {"CALL", "RETURN"}
BY DEF Execute, AtOpcode, OP_POP, OP_POPN, OP_CLARGS, OP_NUMBER, OP_BOOLEAN, OP_NONE,
       OP_GET_GLOBAL, OP_SET_GLOBAL, OP_GET_LOCAL, OP_SET_LOCAL, OP_INCR_LOCAL,
       OP_INCR_GLOBAL, OP_JUMP, OP_FJUMP, OP_NATIVE_CALL

(* Whatever instruction is executed, the frames stay frames.               *)
LEMMA ExecuteFrames ==
  ASSUME EnmaInv, NEW H, Known(H), Framed(H, vm), Running(vm), Execute, Running(vm')
  PROVE  Framed(H, vm')
<1>1. CompilerInv /\ ScopeInv /\ ctl = <<>> /\ Live(vm)
  BY DEF EnmaInv, PhaseInv, MachineInv, Live, Running
<1>2. PICK n, B, A, K : Frames(H, vm, n, B, A, K) /\ Upright(H, vm, A[n])
  BY DEF Framed
<1>3. CASE OP_CALL
  BY <1>1, <1>2, <1>3, CallFrames
<1>4. CASE OP_RETURN
  BY <1>1, <1>2, <1>4, ReturnFrames
<1>5. CASE ~OP_CALL /\ ~OP_RETURN
  <2>1. Instruction.op \notin {"CALL", "RETURN"}
    BY <1>5, OtherInstructions
  <2> QED  BY <1>1, <2>1, InnerFrames
<1> QED  BY <1>3, <1>4, <1>5

(* Executing.                                                              *)
LEMMA RunKeepsRun ==
  ASSUME EnmaInv, RunInv, Run PROVE RunInv'
<1>1. Execute /\ SoundCode(code) /\ MachineInv /\ UNCHANGED <<cycles, ctl, lex, expect>>
  BY DEF EnmaInv, Run, parserVars, CompilerInv, CodeOk
<1>2. UNCHANGED <<code, fns, scope>> /\ Running(vm)
  BY <1>1, ExecuteLeaves
<1>3. LevelsInv'
  BY <1>1, <1>2, LevelsStay DEF RunInv
<1>4. vm'.status # "idle"
  <2>1. CompilerInv /\ ScopeInv /\ NamesInv /\ ctl = <<>> /\ Live(vm)
    BY <1>2 DEF EnmaInv, PhaseInv, MachineInv, Live, Running
  <2> QED  BY <1>1, <2>1, ExecuteKeepsFrame DEF Live
<1>5. PICK H : Known(H) /\ Framed(H, vm)
  BY <1>2 DEF RunInv
<1>6. Known(H)'
  BY <1>1, <1>2, <1>5, KnownStays
<1>7. ASSUME Running(vm') PROVE Framed(H, vm)'
  <2>1. Framed(H, vm')
    BY <1>1, <1>2, <1>5, <1>7, ExecuteFrames
  <2> QED  BY <1>2, <2>1, FramedNext
<1>8. Running(vm)' => Running(vm')
  BY DEF Running
<1> QED  BY <1>3, <1>4, <1>6, <1>7, <1>8 DEF RunInv

(* A step that changes nothing.                                            *)
LEMMA StutterKeepsRun ==
  ASSUME RunInv, UNCHANGED vars PROVE RunInv'
<1>1. UNCHANGED <<code, fns, scope, cycles, ctl, lex, expect, vm>>
  BY DEF vars
<1>2. LevelsInv'
  BY <1>1, LevelsStay DEF RunInv
<1>3. ASSUME Running(vm)' PROVE (\E H : Known(H) /\ Framed(H, vm))'
  <2>1. PICK H : Known(H) /\ Framed(H, vm)
    BY <1>1, <1>3 DEF RunInv, Running
  <2>2. Known(H)'
    BY <1>1, <2>1, KnownStays
  <2>3. Framed(H, vm)'
    <3>1. Framed(H, vm')
      BY <1>1, <2>1
    <3> QED  BY <1>1, <3>1, FramedNext
  <2> QED  BY <2>2, <2>3
<1>4. (vm.status = "idle" => vm.sp = 0 /\ vm.bp = 0)'
  BY <1>1 DEF RunInv
<1> QED  BY <1>2, <1>3, <1>4 DEF RunInv

(* The invariant holds of every reachable state.                           *)
LEMMA AlwaysRunInv ==
  ASSUME Tame PROVE Spec => [](EnmaInv /\ RunInv)
<1>1. EnmaInit => EnmaInv /\ RunInv
  BY InvInit, RunInit
<1>2. EnmaInv /\ RunInv /\ [Next]_vars => (EnmaInv /\ RunInv)'
  <2> SUFFICES ASSUME EnmaInv, RunInv, [Next]_vars PROVE EnmaInv' /\ RunInv'
    OBVIOUS
  <2>1. CASE Compile
    BY <2>1, CompileKeepsInv, CompileKeepsRun
  <2>2. CASE Start
    BY <2>2, StartKeepsInv, StartKeepsRun
  <2>3. CASE Run
    BY <2>3, RunKeepsInv, RunKeepsRun
  <2>4. CASE UNCHANGED vars
    BY <2>4, StutterKeepsInv, StutterKeepsRun
  <2> QED  BY <2>1, <2>2, <2>3, <2>4 DEF Next, Exited
<1> QED  BY <1>1, <1>2, PTL DEF Spec

(* The frames as the machine finds them: from b down to main's.            *)
Link(b) == b >= 2 /\ IsIndex(vm.stack[b - 1], b - 2) /\ ReturnsBehindCall(vm.stack[b - 2])

Chain(b, n, B) ==
  /\ n \in Nat /\ B \in [Nat -> Nat] /\ B[0] = 0 /\ B[n] = b
  /\ \A k \in 1..n : Link(B[k]) /\ vm.stack[B[k] - 1].v = B[k - 1]

Chained(b) == \E n, B : Chain(b, n, B)

(* Being chained is what the recursion in FrameChainIntact asks.           *)
LEMMA ChainedIs ==
  ASSUME NEW b \in Nat
  PROVE  Chained(b) <=> b = 0 \/ (Link(b) /\ Chained(vm.stack[b - 1].v))
<1>1. ASSUME Chained(b), b # 0 PROVE Link(b) /\ Chained(vm.stack[b - 1].v)
  <2>1. PICK n, B : Chain(b, n, B)
    BY <1>1 DEF Chained
  <2>2. n \in Nat /\ n # 0
    BY <1>1, <2>1 DEF Chain
  <2>3. n - 1 \in Nat /\ n \in 1..n /\ 1..(n - 1) \subseteq 1..n
    BY <2>2
  <2>4. Link(b) /\ vm.stack[b - 1].v = B[n - 1]
    BY <2>1, <2>3 DEF Chain
  <2>5. Chain(B[n - 1], n - 1, B)
    BY <2>1, <2>3 DEF Chain
  <2> QED  BY <2>4, <2>5 DEF Chained
<1>2. Chained(0)
  <2>1. PICK B : B = [k \in Nat |-> 0]
    OBVIOUS
  <2>2. B \in [Nat -> Nat] /\ B[0] = 0
    BY <2>1
  <2> QED  BY <2>2 DEF Chained, Chain
<1>3. ASSUME Link(b), Chained(vm.stack[b - 1].v) PROVE Chained(b)
  <2>1. PICK v : v = vm.stack[b - 1].v
    OBVIOUS
  <2>2. PICK n, B : Chain(v, n, B)
    BY <1>3, <2>1 DEF Chained
  <2>3. /\ n \in Nat /\ B \in [Nat -> Nat] /\ B[0] = 0 /\ B[n] = v
        /\ \A k \in 1..n : Link(B[k]) /\ vm.stack[B[k] - 1].v = B[k - 1]
    BY <2>2 DEF Chain
  <2>4. PICK C : C = [B EXCEPT ![n + 1] = b]
    OBVIOUS
  <2>5. n + 1 \in Nat /\ 0 \in 0..n /\ n \in 0..n /\ \A k \in 0..n : k \in Nat /\ k # n + 1
    BY <2>3
  <2>6. C \in [Nat -> Nat] /\ C[n + 1] = b /\ \A k \in 0..n : C[k] = B[k]
    BY <2>3, <2>4, <2>5
  <2>7. ASSUME NEW k \in 1..(n + 1) PROVE Link(C[k]) /\ vm.stack[C[k] - 1].v = C[k - 1]
    <3>1. CASE k \in 1..n
      <4>1. k \in 0..n /\ k - 1 \in 0..n
        BY <2>3, <3>1
      <4> QED  BY <2>3, <2>6, <3>1, <4>1
    <3>2. CASE k = n + 1
      <4>1. k - 1 = n
        BY <2>3, <3>2
      <4> QED  BY <1>3, <2>1, <2>3, <2>5, <2>6, <3>2, <4>1
    <3> QED  BY <2>3, <3>1, <3>2
  <2>8. PICK m \in Nat : m = n + 1
    BY <2>5
  <2>9. C[0] = 0 /\ C[m] = b
    BY <2>3, <2>5, <2>6, <2>8
  <2>10. Chain(b, m, C)
    BY ONLY <2>6, <2>7, <2>8, <2>9 DEF Chain
  <2> QED  BY <2>10 DEF Chained
<1> QED  BY <1>1, <1>2, <1>3

(* The frames of the invariant are such a chain.                           *)
LEMMA FramesAreChained ==
  ASSUME EnmaInv, NEW H, Known(H), Framed(H, vm), Running(vm)
  PROVE  Chained(vm.bp) /\ vm.bp <= vm.sp /\ vm.bp \in 0..STACK_SIZE
<1>1. CompilerInv /\ ctl = <<>> /\ Live(vm)
  BY DEF EnmaInv, PhaseInv, MachineInv, Live, Running
<1>2. PICK n, B, A, K : Frames(H, vm, n, B, A, K) /\ Upright(H, vm, A[n])
  BY DEF Framed
<1>3. SoundCode(code)
  BY <1>1, CodeAtRunTime
<1>4. /\ n \in Nat /\ B \in [Nat -> Nat] /\ B[0] = 0 /\ B[n] = vm.bp
      /\ \A k \in Nat : B[k] \in Nat /\ A[k] \in Nat
      /\ \A k \in 1..n : Called(H, vm, B[k - 1], A[k - 1], B[k], A[k], K[k])
  BY <1>2, FramesFacts
<1>5. ASSUME NEW k \in 1..n PROVE Link(B[k]) /\ vm.stack[B[k] - 1].v = B[k - 1]
  <2>1. k \in Nat /\ k - 1 \in Nat
    BY <1>4
  <2>2. PICK b, b0, a, a0, o : b = B[k] /\ b0 = B[k - 1] /\ a = A[k] /\ a0 = A[k - 1] /\ o = K[k]
    OBVIOUS
  <2>3. b \in Nat /\ b0 \in Nat /\ a \in Nat
    BY ONLY <1>4, <2>1, <2>2
  <2>4. Called(H, vm, b0, a0, b, a, o)
    BY ONLY <1>4, <2>2
  <2>5. /\ o \in DOMAIN code.ins /\ code.ins[o].op = "CALL" /\ b0 + 2 + a <= b
        /\ vm.stack[b - 1] = Number(b0) /\ vm.stack[b - 2] = Number(o + 1 + INT_SIZE)
    BY <2>4 DEF Called
  <2>6. b >= 2 /\ b0 \in 0..(b - 2)
    BY ONLY <2>3, <2>5
  <2>7. o \in Nat /\ o + 1 + INT_SIZE \in 0..code.size /\ (o + 1 + INT_SIZE) - 1 - INT_SIZE = o
    <3>1. Bytes(code.ins[o].op) = 5
      BY <2>5 DEF Bytes, OneByte, INT_SIZE
    <3>2. o \in Nat /\ o + 5 \in Ends(code) /\ Ends(code) \subseteq 0..code.size
      BY <1>3, <2>5, <3>1 DEF SoundCode, Ends
    <3>3. o + 1 + INT_SIZE = o + 5 /\ (o + 1 + INT_SIZE) - 1 - INT_SIZE = o
      BY <3>2 DEF INT_SIZE
    <3> QED  BY <3>2, <3>3
  <2>8. IsIndex(vm.stack[b - 1], b - 2) /\ vm.stack[b - 1].v = b0
    BY <2>5, <2>6 DEF IsIndex, IsNumber, Number, Value
  <2>9. ReturnsBehindCall(vm.stack[b - 2])
    <3>1. vm.stack[b - 2].v = o + 1 + INT_SIZE /\ IsIndex(vm.stack[b - 2], code.size)
      BY <2>5, <2>7 DEF IsIndex, IsNumber, Number, Value
    <3> QED  BY <2>5, <2>7, <3>1 DEF ReturnsBehindCall
  <2> QED  BY <2>2, <2>6, <2>8, <2>9 DEF Link
<1>6. Chain(vm.bp, n, B)
  BY <1>4, <1>5 DEF Chain
<1>7. vm.sp >= vm.bp /\ vm.sp \in Int /\ vm.bp \in 0..STACK_SIZE
  BY <1>1, <1>2 DEF Upright, Live, Frame
<1>8. vm.bp <= vm.sp
  <2>1. vm.bp \in Int
    BY <1>7
  <2> QED  BY <1>7, <2>1
<1> QED  BY <1>6, <1>7, <1>8 DEF Chained

(* An instruction that does not leave the function leaves the callers'     *)
(* slots alone.                                                            *)
LEMMA StepLeavesCallers ==
  ASSUME CompilerInv, ScopeInv, ctl = <<>>, Live(vm), Execute, Running(vm'),
         NEW H, Known(H), Framed(H, vm),
         NEW n, NEW B, NEW A, NEW K, Frames(H, vm, n, B, A, K), Upright(H, vm, A[n]),
         vm.bp > 0, vm'.bp >= vm.bp,
         NEW i \in 0..(vm.bp - 3 - fns[CallOf(vm.bp)].argc)
  PROVE  vm'.stack[i] = vm.stack[i]
<1>a. n \in Nat /\ B[0] = 0 /\ B[n] = vm.bp
  BY FramesFacts
<1>b. \A k \in Nat : B[k] \in Nat /\ A[k] \in Nat
  BY FramesFacts
<1>1. \A k \in 1..n : Called(H, vm, B[k - 1], A[k - 1], B[k], A[k], K[k])
  BY FramesFacts
<1>2. vm.bp \in 0..STACK_SIZE /\ vm.sp \in Int /\ vm.sp >= vm.bp /\ STACK_SIZE \in Nat
  BY StackAssumption DEF Live, Frame, Upright
<1>3. n # 0 /\ n \in 1..n
  BY <1>a, <1>2
<1>4. PICK b0, a, a0, o : b0 = B[n - 1] /\ a = A[n] /\ a0 = A[n - 1] /\ o = K[n]
  OBVIOUS
<1>5. b0 \in Nat /\ a \in Nat
  <2>1. n - 1 \in Nat
    BY ONLY <1>a, <1>3
  <2> QED  BY ONLY <1>a, <1>b, <1>4, <2>1
<1>6. Called(H, vm, b0, a0, vm.bp, a, o)
  BY ONLY <1>a, <1>1, <1>3, <1>4
<1>7. /\ o \in DOMAIN code.ins /\ fns[code.ins[o].arg].argc = a
      /\ vm.stack[vm.bp - 2] = Number(o + 1 + INT_SIZE)
  BY <1>6 DEF Called
<1>8. fns[CallOf(vm.bp)].argc = a
  <2>1. SoundCode(code)
    BY CodeAtRunTime
  <2>2. (o + 1 + INT_SIZE) - 1 - INT_SIZE = o
    BY <1>7, <2>1 DEF SoundCode, INT_SIZE
  <2>3. vm.stack[vm.bp - 2].v = o + 1 + INT_SIZE
    BY <1>7 DEF Number, Value
  <2> QED  BY <1>7, <2>2, <2>3 DEF CallOf
<1>9. /\ i \in Slots /\ i < vm.bp /\ i < vm.sp
      /\ i \notin (vm.bp - 2 - a)..(vm.bp - 3)
  <2>1. i \in 0..(vm.bp - 3 - a)
    BY <1>8
  <2> QED  BY ONLY <1>2, <1>5, <2>1 DEF Slots
<1>10. PICK d : d = vm'
  OBVIOUS
<1>11. Holds(vm, d, i)
  <2>1. CASE OP_CALL
    <3>1. \A j \in Slots : j < vm.sp => Holds(vm, vm', j)
      BY <2>1, CallFrames
    <3> QED  BY ONLY <1>9, <1>10, <3>1
  <2>2. CASE OP_RETURN
    <3>1. vm'.bp < vm.bp
      BY <2>2, ReturnFrames
    <3>2. vm'.bp \in Int
      <4>1. Live(vm')
        BY ExecuteKeepsFrame
      <4> QED  BY <4>1 DEF Live, Frame
    <3> QED  BY <1>2, <3>1, <3>2
  <2>3. CASE ~OP_CALL /\ ~OP_RETURN
    <3>1. Instruction.op \notin {"CALL", "RETURN"}
      BY <2>3, OtherInstructions
    <3>2. Within(vm, d, a)
      <4>1. Inner(Instruction, A[n])
        BY <3>1, InnerWithin
      <4> QED  BY <1>4, <1>10, <4>1 DEF Inner
    <3> QED  BY <1>9, <3>2 DEF Within
  <2> QED  BY <2>1, <2>2, <2>3
<1> QED  BY <1>10, <1>11 DEF Holds

-----------------------------------------------------------------------------
(* Theorems *)

(* In a tame program control never leaves the instructions the compiler    *)
(* wrote (vm_execute of vm.c): no instruction of a body falls through into *)
(* nothing, and every call and return lands where an instruction begins.   *)
THEOREM ControlStaysInTheCode ==
  ASSUME Tame PROVE Spec => []FetchesInstructions
<1>1. EnmaInv /\ RunInv => FetchesInstructions
  <2> SUFFICES ASSUME EnmaInv, RunInv, Running(vm) PROVE vm.ip \in DOMAIN code.ins
    BY DEF FetchesInstructions
  <2>1. PICK H : Known(H) /\ Framed(H, vm)
    BY DEF RunInv
  <2>2. ctl = <<>>
    BY DEF EnmaInv, PhaseInv, Running
  <2> QED  BY <2>1, <2>2 DEF Known, Framed, Upright, Marked
<1> QED  BY <1>1, AlwaysRunInv, PTL

(* In a tame program the count of locals the compiler keeps in scope.c is  *)
(* the height of the run-time stack wherever a statement begins and in     *)
(* every place where a value is on it, however control arrived there.      *)
THEOREM CountIsTheHeight ==
  ASSUME Tame PROVE Spec => []HeightsAgree
<1>1. EnmaInv /\ RunInv => HeightsAgree
  <2> SUFFICES ASSUME EnmaInv, RunInv, Running(vm), vm.ip \in DOMAIN expect.heights
               PROVE  vm.sp - vm.bp = expect.heights[vm.ip]
    BY DEF HeightsAgree
  <2>1. PICK H : Known(H) /\ Framed(H, vm)
    BY DEF RunInv
  <2>2. H[vm.ip].h = expect.heights[vm.ip]
    BY <2>1 DEF Known, Met
  <2>3. PICK a : H[vm.ip] = At(vm.sp - vm.bp, a)
    BY <2>1 DEF Framed, Upright, Marked
  <2> QED  BY <2>2, <2>3, Levels
<1> QED  BY <1>1, AlwaysRunInv, PTL

(* In a tame program preamble and epilogue (vm.c) agree: from the running  *)
(* frame down to main's, each holds the address behind the call that made  *)
(* it and the place of the frame below, in any depth of recursion.         *)
THEOREM FramesAreLinked ==
  ASSUME Tame PROVE Spec => []FrameChainIntact
<1>1. EnmaInv /\ RunInv => FrameChainIntact
  <2> SUFFICES ASSUME EnmaInv, RunInv, Running(vm) PROVE FrameChainIntact
    BY DEF FrameChainIntact
  <2> DEFINE S == 0..STACK_SIZE
             Step(g, b) == \/ b = 0
                           \/ /\ b >= 2
                              /\ IsIndex(vm.stack[b - 1], b - 2)
                              /\ ReturnsBehindCall(vm.stack[b - 2])
                              /\ g[vm.stack[b - 1].v]
             IsIt(g) == g = [b \in S |-> Step(g, b)]
  <2>1. PICK H : Known(H) /\ Framed(H, vm)
    BY DEF RunInv
  <2>2. Chained(vm.bp) /\ vm.bp <= vm.sp /\ vm.bp \in S
    BY <2>1, FramesAreChained
  <2>3. S \subseteq Nat /\ STACK_SIZE \in Nat
    BY StackAssumption
  <2>4. ASSUME NEW b \in S, Link(b) PROVE vm.stack[b - 1].v \in S /\ vm.stack[b - 1].v < b
    BY <2>3, <2>4 DEF Link, IsIndex
  <2> DEFINE f == [b \in S |-> Chained(b)]
  <2>5. ASSUME NEW b \in S PROVE f[b] = Step(f, b)
    <3>1. Chained(b) <=> b = 0 \/ (Link(b) /\ Chained(vm.stack[b - 1].v))
      BY <2>3, ChainedIs
    <3>2. Link(b) => f[vm.stack[b - 1].v] = Chained(vm.stack[b - 1].v)
      BY <2>4
    <3>3. f[b] = Chained(b)
      OBVIOUS
    <3> HIDE DEF f, S
    <3>4. Chained(b) <=> Step(f, b)
      <4>1. CASE Link(b)
        BY <3>1, <3>2, <4>1 DEF Link
      <4>2. CASE ~Link(b)
        BY <3>1, <4>2 DEF Link
      <4> QED  BY <4>1, <4>2
    <3>5. f[b] \in BOOLEAN
      BY <3>3 DEF Chained
    <3>6. Step(f, b) \in BOOLEAN
      OBVIOUS
    <3> HIDE DEF Step
    <3> QED  BY <3>3, <3>4, <3>5, <3>6
  <2>6. IsIt(f)
    <3>1. f = [b \in S |-> f[b]]
      OBVIOUS
    <3> HIDE DEF f, S, Step
    <3> QED  BY <2>5, <3>1
  <2>7. PICK h : h = CHOOSE g : IsIt(g)
    OBVIOUS
  <2>8. IsIt(h)
    <3> HIDE DEF IsIt, f
    <3> QED  BY <2>6, <2>7
  <2>9. \A b \in S : h[b] = Step(h, b)
    BY <2>8
  <2>10. \A b \in S : Chained(b) => h[b]
    <3> DEFINE bad == {b \in S : Chained(b) /\ ~h[b]}
    <3> SUFFICES ASSUME bad # {} PROVE FALSE
      OBVIOUS
    <3>1. bad \subseteq Nat
      BY <2>3
    <3>2. PICK b \in bad : \A k \in bad : b <= k
      <4> HIDE DEF bad
      <4> QED  BY <3>1, LeastOne
    <3>3. b \in S /\ Chained(b) /\ ~h[b] /\ h[b] = Step(h, b) /\ b \in Nat
      BY <2>3, <2>9
    <3>4. b # 0
      BY <3>3
    <3>5. Link(b) /\ Chained(vm.stack[b - 1].v)
      BY <3>3, <3>4, ChainedIs
    <3>6. vm.stack[b - 1].v \in S /\ vm.stack[b - 1].v < b
      BY <2>4, <3>3, <3>5
    <3>7. ~h[vm.stack[b - 1].v]
      BY <3>3, <3>5 DEF Link
    <3>8. vm.stack[b - 1].v \in bad
      BY <3>5, <3>6, <3>7
    <3>9. vm.stack[b - 1].v \in Nat /\ b <= vm.stack[b - 1].v
      BY <2>3, <3>2, <3>6, <3>8
    <3> QED  BY <3>3, <3>6, <3>9
  <2>11. h[vm.bp]
    BY <2>2, <2>10
  <2> QED  BY <2>2, <2>7, <2>11 DEF FrameChainIntact
<1> QED  BY <1>1, AlwaysRunInv, PTL

(* In a tame program an instruction writes into the frame of the function  *)
(* it belongs to and into its arguments, never below: neither a callee's   *)
(* locals nor its call and return disturb what the caller will go on with. *)
THEOREM CallersAreUntouched ==
  ASSUME Tame PROVE Spec => CallersFramesUntouched
<1> DEFINE Action == Running(vm) /\ Running(vm') /\ vm.bp > 0 /\ vm'.bp >= vm.bp =>
                       \A i \in 0..(vm.bp - 3 - fns[CallOf(vm.bp)].argc) :
                         vm'.stack[i] = vm.stack[i]
<1>1. EnmaInv /\ RunInv /\ [Next]_vars => [Action]_vars
  <2> SUFFICES ASSUME EnmaInv, RunInv, [Next]_vars, ~UNCHANGED vars, Running(vm), Running(vm'),
                      vm.bp > 0, vm'.bp >= vm.bp,
                      NEW i \in 0..(vm.bp - 3 - fns[CallOf(vm.bp)].argc)
               PROVE  vm'.stack[i] = vm.stack[i]
    OBVIOUS
  <2>1. CASE Compile
    BY <2>1 DEF Compile
  <2>2. CASE Start
    BY <2>2 DEF Start, ExecuteMain, Running
  <2>3. CASE Run
    <3>1. PICK H : Known(H) /\ Framed(H, vm)
      BY DEF RunInv
    <3>2. Execute
      BY <2>3 DEF Run
    <3>3. CompilerInv /\ ScopeInv /\ ctl = <<>> /\ Live(vm)
      BY DEF EnmaInv, PhaseInv, MachineInv, Live, Running
    <3>4. PICK n, B, A, K : Frames(H, vm, n, B, A, K) /\ Upright(H, vm, A[n])
      BY <3>1 DEF Framed
    <3> QED  BY <3>1, <3>2, <3>3, <3>4, StepLeavesCallers
  <2> QED  BY <2>1, <2>2, <2>3 DEF Next, Exited
<1>2. EnmaInv /\ RunInv /\ [Next]_vars => [Action]_vars
  BY <1>1
<1> QED  BY <1>2, AlwaysRunInv, PTL DEF Spec, CallersFramesUntouched
=============================================================================
