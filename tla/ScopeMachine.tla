---------------------------- MODULE ScopeMachine ----------------------------
(***************************************************************************)
(* scope.c on its own: every sequence of calls the parser can make to it.  *)
(* One action is one call, so a variable definition is the two calls       *)
(* parse_var makes, declare_variable and, after the initialiser has been   *)
(* compiled, define_variable; lookups may come between them.               *)
(*                                                                         *)
(* A refused call is a compile error, which ends the program (exit(1)).    *)
(***************************************************************************)
EXTENDS Scope

CONSTANTS Ids,          \* identifiers of the program
          MAX_DEPTH     \* bound on the nesting, for model checking

ASSUME DepthAssumption == MAX_DEPTH \in Nat

VARIABLES scope,     \* _scope
          asked,     \* history: the name the last resolve_local was for
          answer,    \* what the last resolve_local returned
          refused,   \* compile_error_printf was called
          marks      \* history: locals_count when each open scope was opened

scopeVars == <<scope, asked, answer, refused, marks>>

(* A variable is declared and its initialiser is being compiled. *)
Defining == /\ scope.locals # <<>>
            /\ scope.locals[Len(scope.locals)].depth = Undefined

(* What `asked` holds before the first lookup: no identifier. *)
NoName == "none"

ASSUME NoNameAssumption == NoName \notin Ids

Init == /\ scope = GlobalScope
        /\ asked = NoName
        /\ answer = -1
        /\ refused = FALSE
        /\ marks = <<>>

Refuse == /\ refused' = TRUE
          /\ UNCHANGED <<scope, asked, answer, marks>>

Begin == /\ ~Defining
         /\ scope.depth < MAX_DEPTH
         /\ scope' = BeginScope(scope)
         /\ marks' = Append(marks, Len(scope.locals))
         /\ UNCHANGED <<asked, answer, refused>>

(* The parser closes only scopes it has opened, so the extraneous-brace    *)
(* error of end_scope is never met.                                        *)
End == /\ ~Defining
       /\ ~IsGlobalScope(scope)
       /\ scope' = EndScope(scope)
       /\ marks' = SubSeq(marks, 1, Len(marks) - 1)
       /\ UNCHANGED <<asked, answer, refused>>

Argument(id) == /\ ~Defining
                /\ ~IsGlobalScope(scope)
                /\ \/ /\ MayDeclareArgument(scope, id)
                      /\ scope' = DeclareArgument(scope, id)
                      /\ UNCHANGED <<asked, answer, refused, marks>>
                   \/ /\ ~MayDeclareArgument(scope, id)
                      /\ Refuse

Declare(id) == /\ ~Defining
               /\ ~IsGlobalScope(scope)
               /\ \/ /\ ~DeclaredHere(scope, id)
                     /\ ~LocalsFull(scope)
                     /\ scope' = DeclareVariable(scope, id)
                     /\ UNCHANGED <<asked, answer, refused, marks>>
                  \/ /\ DeclaredHere(scope, id) \/ LocalsFull(scope)
                     /\ Refuse

Define == /\ Defining
          /\ scope' = DefineLocal(scope)
          /\ UNCHANGED <<asked, answer, refused, marks>>

(* Names are resolved at compile time and again, in the global scope the   *)
(* parser ends in, by OP_GET_GLOBAL and OP_SET_GLOBAL at run time.         *)
Resolve(id) == \/ /\ ~IsBeingDefined(scope, id)
                  /\ asked' = id
                  /\ answer' = ResolveLocal(scope, id)
                  /\ UNCHANGED <<scope, refused, marks>>
               \/ /\ IsBeingDefined(scope, id)
                  /\ Refuse

Next == /\ ~refused
        /\ \/ Begin
           \/ End
           \/ Define
           \/ \E id \in Ids : Argument(id) \/ Declare(id) \/ Resolve(id)

Spec == Init /\ [][Next]_scopeVars

-----------------------------------------------------------------------------
(* Properties *)

LocalRecord == [id : Ids, depth : Int]

ScopeRecord == [locals : Seq(LocalRecord), args : Seq(Ids), depth : Nat]

TypeOK ==
  /\ scope \in ScopeRecord
  /\ answer \in Int
  /\ refused \in BOOLEAN
  /\ marks \in Seq(Nat)

(* Number of locals that are defined, the one being compiled left out. *)
DefinedCount == IF Defining THEN Len(scope.locals) - 1 ELSE Len(scope.locals)

(* The depths recorded in the array partition it at the marks: a defined   *)
(* local is deeper than scope d exactly when it was declared after scope   *)
(* d + 1 was opened (scope.c:73-82, 145-147).                              *)
DepthsFollowMarks ==
  /\ Len(marks) = scope.depth
  /\ \A d \in 1..Len(marks) : marks[d] \in 0..DefinedCount
  /\ \A i \in 1..DefinedCount : scope.locals[i].depth \in 1..scope.depth
  /\ \A i \in 1..DefinedCount, d \in 1..Len(marks) :
       scope.locals[i].depth >= d <=> i > marks[d]

(* Between functions nothing local is left over, neither locals nor        *)
(* arguments.  The virtual machine relies on it: it resolves every global  *)
(* name through resolve_local first (vm.c:494, 504), and a leftover would  *)
(* redirect a global access into the stack.                                *)
GlobalScopeIsEmpty ==
  IsGlobalScope(scope) => scope.locals = <<>> /\ scope.args = <<>>

(* The scope a local belongs to, also while it is being defined. *)
ScopeOf(i) == IF scope.locals[i].depth = Undefined THEN scope.depth
              ELSE scope.locals[i].depth

(* One scope never holds the same name twice, so the topmost local of a    *)
(* name is the innermost one (scope.c:129-135, 193-197).                   *)
NamesUniquePerScope ==
  \A i, j \in 1..Len(scope.locals) :
    /\ scope.locals[i].id = scope.locals[j].id
    /\ ScopeOf(i) = ScopeOf(j)
    => i = j

(* The fixed-size arrays of struct scope are never overrun.                *)
WithinLimits == /\ Len(scope.locals) <= LOCALS_COUNT
                /\ Len(scope.args) <= ARGUMENTS_COUNT

(* Closing a scope leaves exactly the locals that were there when it was   *)
(* opened, however many were declared and however many inner scopes were   *)
(* opened and closed in between: the OP_POPN operand counts them.          *)
ClosingRestoresLocals ==
  [][(scope'.depth = scope.depth - 1) =>
       scope'.locals = SubSeq(scope.locals, 1, marks[Len(marks)])]_scopeVars

(* scope.c implements block structure: the blocks are the segments of the  *)
(* locals array between the marks, and a variable enters its block when    *)
(* its initialiser has been compiled.                                      *)
BlockEnd(d) == IF d < Len(marks) THEN marks[d + 1] ELSE DefinedCount

Blocks == [d \in 1..Len(marks) |->
             [i \in 1..(BlockEnd(d) - marks[d]) |-> scope.locals[marks[d] + i].id]]

Lexical == INSTANCE LexicalScope WITH frames <- Blocks, params <- scope.args

ImplementsLexicalScope == Lexical!LexSpec
=============================================================================
