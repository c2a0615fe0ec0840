-------------------------------- MODULE Scope --------------------------------
(***************************************************************************)
(* The compile-time scope of scope.c: the stack of local variables, the    *)
(* list of arguments of the function being compiled and the nesting depth. *)
(*                                                                         *)
(* The C module keeps one global `struct scope _scope`; every function     *)
(* here takes that structure as the record `s` and returns its new value,  *)
(* so that the parser (module Compiler), the virtual machine (module VM,   *)
(* which resolves names again at run time) and the stand-alone machine     *)
(* (module ScopeMachine) share one translation.                            *)
(*                                                                         *)
(* A sequence index is one more than the C array index.  The fields        *)
(* current_class, is_constructor and this_ belong to classes, which these  *)
(* modules do not cover: with current_class = NULL resolve_field returns   *)
(* false and declare_argument skips its field check.                       *)
(***************************************************************************)
EXTENDS Integers, Sequences

CONSTANTS LOCALS_COUNT,     \* capacity of _scope.locals
          ARGUMENTS_COUNT   \* capacity of _scope.arguments

ASSUME LimitsAssumption == /\ LOCALS_COUNT \in Nat \ {0}
                           /\ ARGUMENTS_COUNT \in Nat \ {0}

(* _scope as it is initialised: global scope, nothing declared. *)
GlobalScope == [locals |-> <<>>, args |-> <<>>, depth |-> 0]

(* The depth of a local that is declared but whose initialiser is still    *)
(* being compiled.                                                         *)
Undefined == -1

(* Seeded bug: the outermost block is not recognised. *)
IsGlobalScopeBelowZero(s) == s.depth < 0

IsGlobalScope(s) == s.depth = 0

BeginScope(s) == [s EXCEPT !.depth = @ + 1]

(* Seeded bug: end_scope compares with >= and drops one scope too many. *)
KeptShallower(s, d) ==
  CHOOSE k \in 0..Len(s.locals) :
    /\ k > 0 => s.locals[k].depth < d
    /\ \A j \in (k + 1)..Len(s.locals) : s.locals[j].depth >= d

(* How many locals survive the loop of end_scope: it drops locals from the *)
(* top while they are deeper than d and stops at the first that is not.    *)
Kept(s, d) ==
  CHOOSE k \in 0..Len(s.locals) :
    /\ k > 0 => s.locals[k].depth <= d
    /\ \A j \in (k + 1)..Len(s.locals) : s.locals[j].depth > d

(* The operand of the OP_POP/OP_POPN that end_scope emits. *)
PoppedBy(s) == Len(s.locals) - Kept(s, s.depth - 1)

(* Seeded bug: the arguments are not reset behind the function. *)
EndScopeKeepingArgs(s) ==
  [s EXCEPT !.locals = SubSeq(@, 1, Kept(s, s.depth - 1)), !.depth = @ - 1]

EndScope(s) ==
  LET d == s.depth - 1
  IN  [locals |-> SubSeq(s.locals, 1, Kept(s, d)),
       args   |-> IF d = 0 THEN <<>> ELSE s.args,
       depth  |-> d]

(* Seeded bug: only the topmost local is compared. *)
DeclaredOnTop(s, id) ==
  /\ s.locals # <<>>
  /\ s.locals[Len(s.locals)] = [id |-> id, depth |-> s.depth]

(* check_current_depth_local: the scan stops at the first local that is    *)
(* not of the current depth.                                               *)
DeclaredHere(s, id) ==
  \E i \in 1..Len(s.locals) :
    /\ s.locals[i].id = id
    /\ \A j \in i..Len(s.locals) : s.locals[j].depth = s.depth

(* Seeded bug: off by one at the limit. *)
LocalsOverfull(s) == Len(s.locals) > LOCALS_COUNT

LocalsFull(s) == Len(s.locals) >= LOCALS_COUNT

DeclareLocal(s, id) ==
  [s EXCEPT !.locals = Append(@, [id |-> id, depth |-> Undefined])]

(* declare_variable: a global has its place in the symbol table already. *)
DeclareVariable(s, id) ==
  IF IsGlobalScope(s) THEN s ELSE DeclareLocal(s, id)

(* Seeded bug: the local is given the depth of the enclosing scope. *)
DefineLocalOutside(s) == [s EXCEPT !.locals[Len(s.locals)].depth = s.depth - 1]

DefineLocal(s) == [s EXCEPT !.locals[Len(s.locals)].depth = s.depth]

(* find_argument: the first argument of that name, -1 if there is none. *)
FindArgument(s, id) ==
  IF \E i \in 1..Len(s.args) : s.args[i] = id
  THEN (CHOOSE i \in 1..Len(s.args) :
          s.args[i] = id /\ \A j \in 1..(i - 1) : s.args[j] # id) - 1
  ELSE -1

MayDeclareArgument(s, id) ==
  /\ FindArgument(s, id) = -1
  /\ Len(s.args) < ARGUMENTS_COUNT

DeclareArgument(s, id) == [s EXCEPT !.args = Append(@, id)]

(* Seeded bug: the locals are searched from the bottom. *)
BottomLocal(s, id) ==
  IF \E i \in 1..Len(s.locals) : s.locals[i].id = id
  THEN CHOOSE i \in 1..Len(s.locals) :
         /\ s.locals[i].id = id
         /\ \A j \in 1..(i - 1) : s.locals[j].id # id
  ELSE 0

(* The topmost local called id, 0 if there is none. *)
TopLocal(s, id) ==
  IF \E i \in 1..Len(s.locals) : s.locals[i].id = id
  THEN CHOOSE i \in 1..Len(s.locals) :
         /\ s.locals[i].id = id
         /\ \A j \in (i + 1)..Len(s.locals) : s.locals[j].id # id
  ELSE 0

(* resolve_local refuses the variable whose initialiser is being compiled. *)
IsBeingDefined(s, id) ==
  /\ FindArgument(s, id) = -1
  /\ TopLocal(s, id) > 0
  /\ s.locals[TopLocal(s, id)].depth = Undefined

(* Seeded bug: arguments are counted without the saved bp, so the first    *)
(* one is taken for the return address.                                    *)
ResolveLocalOneFrameWord(s, id) ==
  IF FindArgument(s, id) # -1
  THEN -FindArgument(s, id) - 2
  ELSE TopLocal(s, id) - 1

(* Seeded bug: arguments are taken to lie below one more word than do.     *)
ResolveLocalThreeFrameWords(s, id) ==
  IF FindArgument(s, id) # -1
  THEN -FindArgument(s, id) - 4
  ELSE TopLocal(s, id) - 1

(* resolve_local: index from vm.bp; arguments come first and lie below the *)
(* return address and the saved bp, locals start at bp; -1 if neither.     *)
ResolveLocal(s, id) ==
  IF FindArgument(s, id) # -1
  THEN -FindArgument(s, id) - 3
  ELSE TopLocal(s, id) - 1

(* perform_local_global_op: does an access to id compile to a local op? *)
IsLocalAccess(s, id) == ~IsGlobalScope(s) /\ ResolveLocal(s, id) # -1
=============================================================================
