# A verification of the ENMA interpreter

ENMA 2.0 is an interpreter for a small dynamically typed language: a single-pass compiler emits bytecode while it
reads, and a stack machine executes it. This directory models the parts of it that carry its logic, checks them with
TLC on small instances and proves theorems about the scopes, the compiler and the machine, the scanner, the hash table,
the classes and the bytecode buffers with TLAPS. Line numbers refer to `src/`.

The program is one process with one thread. Nothing runs concurrently and nothing is persisted; every error ends the
process (`exit(1)`, utils.c). What is hard here is *agreement at a distance*: the compiler decides slots, pop counts,
jump distances, argument offsets and field offsets while it reads, and the machine trusts them later, in every
iteration of a loop, every activation of a function and every class that inherits. A test sees one program; the models
range over all small programs.

## 1. Inventory

| component | state it keeps | operations | what makes it correct |
|---|---|---|---|
| scopes (scope.c) | `_scope`: array of locals with depths, array of arguments, depth, class being compiled | begin/end scope, declare/define variable, declare argument, resolve | it is block structure: closing a scope removes exactly what was declared in it; names are unique per scope; nothing is left over between functions |
| parser (parser.c) | its own C call stack, with the offsets of jumps still to be patched | one function per construct, emitting as it reads | every construct leaves the run-time stack as high as the scope says; jumps stay inside the function |
| loops (cycler.c) | list of open loops, each with its start and its unpatched breaks and continues | open, break, continue, move the start, close and patch | every break and continue is patched once, to the right place |
| expressions (parser.c, ast.c, bytecode.c) | the tree of the expression being read | precedence parsing, code generation, evaluation at compile time | the tree is the one the precedences give; its code leaves one value; the compile-time value is the run-time value |
| bytecode buffers (bytecode.c) | code, data and line buffer with size and capacity | write byte/int/value, grow, patch | what is written is read back where it was written |
| machine (vm.c) | stack, `ip`, `sp`, `bp` | one case per opcode | names read the value of their variable; frames are intact; the stack is left only by its own checks |
| hash tables (hash_table.c) | entries, capacity, count | set, unset, check, find string, grow | a dictionary; every probe ends |
| classes (lang_types.c, parser.c, scope.c, vm.c) | tables of fields and methods, constructors, the class being compiled, instances | declare, inherit, construct, get/set field, call method | fields get distinct slots; an inherited method finds its fields; `this` is the receiver of the call |
| symbols (symtable.c) | table of identifiers with their values, table of strings | intern, set, get | one object per spelling |
| scanner (scanner.c), keyword trie (trie.c) | one token of put-back, a buffer of put-back characters, the line counter, the trie | next token, put back, look up | the tokens are the text, the line is right, every call returns |
| garbage collector (garbage_collector.c) | chain of all objects | add, clean up (`gc_collect` has no caller) | every object is freed once |
| natives, driver, utilities | none | output, predicates, `exit`, error messages | |

How they interact. `main` initialises symbols, scope and scanner and calls `vm_interpret`, which calls `parse_command`
until the input ends and then executes `main` of the program. The parser calls scope.c and cycler.c, which emit code
themselves (`OP_POP` for closed scopes, jumps for loops). The machine reads the bytecode, the symbol table and -
surprisingly - the compiler's `_scope`, because `OP_GET_GLOBAL` and `OP_SET_GLOBAL` call `resolve_local` again at run
time (vm.c:494, 504). The tables of hash_table.c hold symbols, strings, fields and methods.

The hazards list of PROJECT.json names the places where these agreements can break, each with the properties that
would notice.

## 2. Modules

    LexicalScope  <- ScopeMachine -> Scope <- Compiler -> Bytecode
                         ^                        ^           ^
                    ScopeProofs                  Enma  --->   VM -> Scope
                                               ^  ^  ^
                                         MCEnma   |  Methods <- MCMethods
                                              EnmaProofs
                                                  ^
                                   EnmaFrames -> EnmaHeights

    Dictionary <- HashTable <- MCHashTable      Objects <- Classes <- MCClasses      Chunk
                     ^                                        ^                        ^
              HashTableProofs                           ClassesProofs             ChunkProofs

    Trie <- Scanner <- MCScanner                Expressions <- MCExpressions
               ^
         ScannerProofs

**Scope** - `struct scope` as a record and each function of scope.c as an operator on it. It is shared by the
compiler, the machine and the stand-alone machine, so there is one translation. A sequence index is the C index + 1.

**ScopeMachine** - every sequence of calls the parser can make to scope.c, one action per call. `var x = e;` is two
calls, `Declare` and `Define`, and lookups may come between them, as they do while `e` is compiled. A compile error
sets `refused` and stops. `marks` and `asked` are history variables: how many locals there were when each open scope
was opened, and the name the last lookup was for.

**LexicalScope** - what scope.c promises: a stack of blocks, each a sequence of names. `ScopeMachine` implements it
(`ImplementsLexicalScope`): the blocks are the segments of the locals array between the marks.

**ScopeProofs**, **EnmaProofs**, **EnmaHeights**, **EnmaFrames**, **ScannerProofs**, **HashTableProofs**,
**ClassesProofs**, **ChunkProofs** - the theorems; see section 6.

**Bytecode** - code as a function from byte offsets to instructions (an opcode is 1 byte, an operand 4, so jump
arithmetic is kept byte for byte), values, function objects, symbol table.

**Compiler** - the parser as an action per piece of source: a construct's opening, a simple statement, a closing brace.
`ctl` is the C call stack of the recursive-descent parser, with the offsets its functions keep in local variables;
`cycles` is `cycler.root`. The input is the sequence of actions taken, so the behaviours are *all* programs of at most
`MAX_STMTS` statements of the chosen `Forms`. Two history variables carry the meaning of the source apart from scope.c:
`lex` is the list of declarations in force as a block-structured language has them, and `expect` notes for code offsets
the stack height and the values a read must find. Each declaration has its own tag, and the literals assigned to it
carry that tag, so a value read tells which variable it belongs to. A tag with a minus is any number the variable came
to by increments and decrements (`Stepped`). What the code refuses with an error ends the program: limits, names
declared twice, arguments in the wrong number.

**VM** - `interpret()`, one action per opcode, on the stack array with `ip`, `sp` and `bp`. The stack is never
cleared. `OP_POP`, `OP_POPN` and `OP_CLARGS` do not check, as in a release build; reading or writing outside the array is
the status `undefined`. The eight increments and decrements are two instructions, one for locals and one for globals:
each writes the changed number back where it was read, and pushes the old number or the new one.

**Enma** - composition: parse, then execute, then exit. Its properties relate the machine's state to `expect`.

**Methods** - extends Enma by class declarations: the bodies of methods and constructors go through the same scopes,
code generation and machine as functions do, and `classes`, `current` (`_scope.current_class`) and `heap` (the
instances) join the state. A name in a body is resolved as write_get_var and write_set_var do: field, then argument or
local, then global. Inside a body there are `print(id)`, `id = literal`, a call on `this`, `return` and locals; in
`main` `var id = A(...)`, `id.m(...)`, `print(id.f)` and `id.f = literal`. Classes of this module have no parents;
inheritance and the limit of the constructor table are the subject of Classes.

**Expressions** - one expression from its tokens to its value. The scanner delivers any token; `calls` is the C call
stack of `ast_bin_expr`, `ast_primary` and `ast_call`, so an action is what one of them does with one token or with the
tree it gets back. `Code` is parse_ast_bin_expr with bcchunk_parse_property; the machine's computing opcodes are
actions. `Eval` is ast_eval, on the same tree. Three globals stand for the kinds of value: a number, an instance, a
native function. Numbers are exact fractions, so rounding and infinities are not part of the model; strings are over
one letter, where length decides equality and order.

**Trie**, **Scanner** - scanner.c with a character per action, and the text chosen as it is read. The character classes
of the source have representatives (two or three digits and letters of ten and fifty-two); the case labels of the
switch are all there, of the escapes three. `toks` is a history variable of the tokens delivered with the places they
were read from. Interning is part of it: `objs` holds the objects of the two tables. The trie is a sequence of nodes,
built by `Add` from the keywords in their order.

**HashTable** - hash_table.c at the granularity of loop turns, with growing inside `table_set`; it implements
**Dictionary** (`ImplementsDictionary`). `table_unset` has no caller today; it is an operation of the module all the
same and is modelled, because tombstones are what the probes are written around.

**Chunk** - a buffer of bytecode.c byte by byte. Bytecode's offset-to-instruction function is a faithful abstraction
exactly as long as `FirstBlocksReadBack` applies: until a buffer outgrows its first 1024 bytes.

**Classes** - class declarations, inheritance, the constructor table and the field and method opcodes; instances
implement **Objects**, records of named fields (`ImplementsObjects`). What a method does is abstracted to the set of
fields its code was compiled for. The order in which `add_entries` meets an ancestor's fields is that of their hashes,
so any order is possible. `access` is a history variable: the instance and the field accessed last.

In each checked module the definitions marked *Seeded bug* are variants of the definition that follows them. They are
not used by any specification; each is the variant of the code that one property is known to reject.

## 3. Runs

Passing runs:

| run | question | bounds and why they are enough |
|---|---|---|
| scope | is the locals array with depths a stack of blocks? | 4 locals, 2 arguments, nesting 3, two names up to symmetry: both limits are reached, a name occurs in three scopes, inner scopes close before outer ones |
| blocks | do names in blocks and branches mean what they say? | 5 statements, 2 names, nesting 3: an outer and an inner variable of one name, and a read behind the inner block |
| loops | do back-patched jumps arrive, at the right height? | 5 statements, nesting 3: a loop in a loop, a block with a variable in a loop, a jump out of it, every combination of for clauses; 2 locals, so that a block's variable and that of a `for` are refused at the limit |
| calls | do frames stay apart? do calls reach their function? does the program end? | 2 functions of 0 to 2 arguments, 5 statements, a stack of 10 values: recursion until the stack is full, calls before and after the definition, stores to and increments of arguments; a third parameter has the name of the first and is refused; the limits of locals and arguments, 8 each, are out of reach |
| methods | does a name in a body mean its field, argument or global? is `this` the receiver? do calls leave the stack as the caller counted? | the classes take 5 pieces of source, main up to 3 more; 2 classes, 2 methods, two names that are field, argument, local and object in turn, 0 or 1 arguments, a stack of 14: a class with a field, a constructor and a method that calls the other one or itself until the stack is full |
| expressions | is the tree the one the precedences give? does its code leave one value? do the two evaluators agree? | every sequence of up to 6 of 20 tokens: an operator of each precedence (`*` is represented by `/`, the comparisons by `<=`), prefix operators with `++` for both steps, calls of a native with an argument, paths, two operators with parentheses. A list of two arguments is read as far as 6 tokens go, but no call with two is complete; strings are in the module and not in the run, which they make too long. Deadlock is checked |
| scanner | are the tokens the text? are lines counted? is a word one object? does every call return? | every text of up to 5 of 11 characters, each token put back or not; a word buffer of 3 characters, so that words are cut; ints of 5 bits, so that literals overflow; keywords of which one is inside the other |
| hash_table | is it a dictionary, and does every probe end? | 3 keys that collide, one with a negative hash, capacities 2, 4, 8: two growths, tombstones before and behind the key, a table as full as it gets |
| chunk | is what is written read back? | 5 writes, first block of 8 bytes: growth of each buffer happens, and is excluded by the property |
| classes | do fields and inherited methods keep their place? | 3 classes, 2 fields, 5 members or parents: two parents, a grandparent, a diamond, an override, a full constructor table. One instance: a second one exceeds the time of a run, so that an access leaves *other* instances alone rests on the theorem `InstancesAreRecords` |

`HeightsAgree` and `ReadsSeeTheirVariable` are the core of the runs of Enma. The first says that wherever control
arrives the stack holds exactly the live variables and the temporaries under way; the second that an access yields a
value stored for the variable the name lexically means; for an access to a name without a meaning
nothing is expected, because the name may be declared later or never, and a local initialised from it may hold what the
global of that name may hold. `ReadsSeeTheirMember` is the same for class bodies, with
`FieldsBelongToThis` saying which instance a field is taken from. The other properties of Enma (frames, jumps, calls,
leftovers) say why.

`ParsedAsTheTableSays` states the result of the parser by the table alone, without following the recursion: no operand
could have been given to an operator beside it that binds tighter. `EvaluatorsAgree` relates two programs: an
initialiser that ast_eval accepts has the value and the side effects the compiled expression has. The converse does not
hold and is not claimed; section 4 lists what ast_eval refuses.

`TokensAreTheText` describes the text between two tokens by a grammar of blanks and comments, and asks that no token
could have been longer. A block comment is described as the code ends it, at a slash behind an odd number of stars.

Runs that find a disagreement between the code and what it or its documents say, both reproduced with the built
interpreter:

| run | what happens |
|---|---|
| loop_variable | the locals of a `while` body are popped once, behind the loop, however often the body ran; a loop that never runs pops a value that is not there |
| method_locals | the receiver of a method is pushed twice and declared once, so a local of a method is read one slot below its value; `class A{meth m(){var x=5;println(x);}}` prints the instance |

The passing runs leave out the forms of source these two are about (`var_in_loop`, `local_in_method`), and those of the
next section that break the same properties, and say so in their `Forms`.

## 4. Disagreements without a run

Met while modelling, and reproduced with the interpreter where it says what it does. The model takes these steps unless
stated otherwise.

| where | what happens |
|---|---|
| cycler.c:57 | `break` and `continue` jump over the pops of the blocks they leave (form `jump_over_locals`) |
| scope.c:189 | a local with an argument's name is accepted, and every access goes to the argument (form `var_over_param`) |
| scope.c:213 | a local with a field's name is accepted, and every access goes to the field (form `local_over_field`) |
| vm.c:498 | a global that was assigned none is "undefined", against README.md:7 ("You can assign any value to variables in any time") |
| bytecode.c:79 | a buffer that grows takes its new capacity for its size; the index noted before the write is wrong, against bytecode.md:14 ("Constant value is an index in _data section for a number") |
| vm.c:302-333 | the prefix opcodes push the changed number and the postfix ones the old one; bytecode.md:29-36 has it the other way round |
| parser.c:407 | an expression as the first clause of `for` leaves its value on the stack (form `for_expr`) |
| lang_types.c:171, 178 | with 16 constructors of other argument counts a second one without arguments replaces the first, and `find_constructor` may read `constructors[16]` before anything was stored there (phase `undefined` of Classes) |
| scanner.c:169 | a block comment ended by an even number of stars and a slash goes on; one that never ends is read for ever |
| scanner.c:67 | a literal above the largest int wraps |
| parser.c:158-166 | prefix operators take one operand as ast_primary reads it, so `-a.b` and `not a.b` are `(-a).b` and `(not a).b`, which do not compile, and `not` binds tighter than grammar.md:77 has it |
| parser.c:130 | all binary operators group to the left, assignment too: `a = b = 3` is an error, against grammar.md:81 |
| parser.c:116 | `(` and `not` between operands make a node of the wrong kind (outcome `undefined`) |
| bytecode.c:366 | `a.b++ = 3` assigns to the field; `a.b++` alone is an error |
| bytecode.c:283 | `a.(b.c)` leaves two values; `f().x` takes its receiver from the caller's values (trees outside `PathsAreNames`) |
| vm.c:236 | `not` of a value that is no boolean reads a byte of it |
| ast.c:279-303 | in an initialiser only numbers compare, an assignment always fails, and a division by zero is infinite where the machine stops |
| scope.c:236 | `++`, `--` of a field's name in a class body go to a global of that name (not modelled in bodies) |

## 5. Fairness

`Enma` assumes weak fairness of `Start` and `Run`: the machine is a loop in one thread and executes as long as it can.
Nothing is assumed of `Compile`: input need not arrive, so `ProgramsHalt` starts when the program is parsed. The run
for it has no loops, which need not end; recursion without an end halts because the stack overflows.
`HashTable` assumes weak fairness of the turns of a call that has begun and none of its callers. `Scanner` likewise
assumes it of `Read`, the turns of a call of scanner_next_token, and not of the parser's calls; `getc` always answers,
with the end of the file at last. `HangsOnlyInBlockComment` is what remains of termination: one loop has no test for the
end. Methods and Expressions state no liveness.
Deadlock is checked in the runs of Enma, Methods, Expressions, Scanner and HashTable. ScopeMachine stops after a compile
error, Chunk and Classes when their bounds are used up, so their runs do not check it.

## 6. Theorems

ScopeProofs proves, for any set of names, any capacities of the two arrays and any nesting, for `ScopeMachine!Spec`:

* `TypeCorrect`, `DepthsTellScopes`, `NothingLocalAtGlobalScope`, `OneVariablePerNameAndScope`, `ArraysNeverOverrun` -
  the invariants of the scope run;
* `ClosingIsExact` - the action property `ClosingRestoresLocals`.

Assumptions: `LimitsAssumption` (both capacities are positive, scope.h) and `DepthAssumption`.

The argument. None of the invariants is inductive alone. `end_scope` decides by the *depth* stored in each local, and the
properties speak of *when* it was declared; `DepthsFollowMarks` ties the two together: a defined local is deeper
than scope d exactly if it lies above the mark set when scope d + 1 was opened. `IInv` is the conjunction of the five
invariants. The key lemma `KeptIsMark` derives from it that the loop of `end_scope` stops at the top mark - it is what
both `EndStep` and `ClosingIsExact` rest on. `FindArgumentIsIndex` and `TopLocalIsTopmost` show that the searches of
scope.c, which are `CHOOSE`s here, find what they describe; they use the well-foundedness of the naturals. The
proof has one lemma per action (`BeginStep` ... `StutterStep`).

Its second part proves the refinement, with `NoNameAssumption` (the value of `asked` before the first lookup is no name):

* `ScopeIsLexical` - `ImplementsLexicalScope`: every call to scope.c is a step of the nested blocks, or none.

The argument. By `IInv` the marks cut the array of locals into segments, and the blocks are these segments
(`BlocksAreSegments`). Concatenated, the blocks give back the array: `FlattenSeq` of the community modules is a recursive
function, so what it yields is derived from the least number of blocks for which it would yield something else. Hence a
position in the array is a position in the blocks, and the topmost local of a name in the array is the last
declaration in the innermost block that has one, which is what `ResolveLocal` must answer. `end_scope`, which pops by
depth, takes away the last segment.

EnmaProofs is about the interpreter from end to end, `Enma!Spec`, for *every* program: any number of statements, any
nesting, any names, any combination of `Forms`, those included that the runs leave out because they upset the stack.

* `RegistersStayInRange` - `TypeOK`: `ip` is an offset into the code, `sp` and `bp` stay below the end of the stack;
* `JumpsLandInTheirFunction` - `JumpsStayInFunction`: every jump of every branch, loop, `break` and `continue` has been
  patched when its function is closed, and lands on an instruction of that function;
* `NoLocalOutlivesParsing` - `GlobalsStayGlobal`: the scope the machine resolves globals in again is empty;
* `CallsReachTheirObject` - `CallsReachTheirFunction`, for programs in which no variable bears a function's name.
  The hypothesis is needed: `set_variable_value` would replace what such a name stands for, and compiled calls would
  still reach the object.

Assumptions: `LimitsAssumption`, `StackAssumption` (the stack has a slot) and `ProgramAssumption` (`main` is a name a
function can have, the parameter names are a sequence).

The argument. `EnmaInv` is the inductive invariant; TLC checked it on the instances of the runs, and on one with all
forms, before it was proved. Its parts:

* `SoundCode`: instructions lie one behind the other, so behind each one is another or the end of the code; operands
  the machine counts with are numbers, operands of calls are functions that exist.
* `JumpsLand`: a jump before the entry of the function being read (`Base`) lands on an instruction of its own function;
  behind it, a jump either lands in this function - perhaps at the end of the code, where the next instruction will
  be - or is *pending*. The pending jumps are those whose operands the activation records of the parser and the loops
  of cycler.c still hold (`Pending`), and nothing else is: this is what makes each patch hit a jump, and leaves none
  unpatched when the stack of the parser is empty.
* `LoopsMatch`: there are as many cycles as loops on the C stack, so `Tail(cycles)` belongs to the loop being closed.
* `ScopeInv`: the scope's depth is the height of the parser's stack; at depth 0 nothing is declared.
* `Symbols` and `CallsReach`: while reading, a function's name stands for an object of that name, so a definition
  fills in the object earlier calls were compiled for.
* `Frame`: the registers of the machine, for any contents of the stack: a return takes what the stack holds, and
  `IsIndex` says what the machine can do with it.

A statement that writes straight code is `Appends`, and preserves all of it (`StatementStep`); the constructs add one
lemma each for what they open, patch and close. `ParseKeepsReady` and `ParseKeepsScope` collect them, `ExecuteKeepsFrame`
goes through the opcodes.

The proof found one flaw of the model: two arms of `Push`, `Drop` and `OP_RETURN` overlapped. TLC takes the first arm
of a `CASE` that applies, but in TLA+ any of them may be meant; the arms are disjoint now. `perform_call` moves `bp`
only if both pushes succeed.

EnmaHeights and EnmaFrames prove what holds for *tame* programs, those without the forms of section 3 that upset the
stack: `break` and `continue` over locals of the blocks between (`jump_over_locals`), a declaration right in the body
of a loop, which shares the scope of its head (`var_in_loop`), and an expression as the first clause of a `for`
(`for_expr`), which leaves its value on the stack. Each of them makes `HeightsAgree` false, as TLC shows, so `Tame` is
the weakest hypothesis of its kind; number of statements, nesting, names and sizes are arbitrary.

* `ControlStaysInTheCode` - `FetchesInstructions`: ip is always the offset of an instruction;
* `CountIsTheHeight` - `HeightsAgree`: wherever a statement begins, the stack has the height scope.c counted;
* `FramesAreLinked` - `FrameChainIntact`: every frame holds the address behind its call and the bp of the frame below;
* `CallersAreUntouched` - `CallersFramesUntouched`: no instruction writes below the frame of its function.

The argument. While the compiler works there is a map H that gives every offset control can reach a *level*: `h` values
above bp and `a` arguments below it. H is `Steady`: what an instruction does to a level leads to the level of the
instruction behind it and of the one it jumps to, except the jumps still pending. It is not a variable of the model; the
invariant `LevelsInv` says that it exists, and every construct extends it (`Keeps`). Straight code carries a level from
its begin to its end (`Carries`); a construct that is opened notes in `RecordHeights` and `CycleHeights` which level the
jumps it will patch must find, and `Nested` says so of all that are open; the height is the number of locals of
the blocks around (`Stacked` ties scope.c's array and its depths to the blocks of the source). So at the closing brace
`PopLocals` takes away exactly what the block declared, and code reached by falling through, by `break` and by
`continue` finds the same height. `ParseKeepsLevels` collects the constructs.

At run time, `Frames` describes the stack as a chain of frames: each was made by a call of a function, its arguments
lie below its two words, and the caller's height at the call is what H says. `Upright` is the top one. An instruction
other than a call or a return stays inside its frame (`InnerStep`: it writes only at or above bp and into its arguments,
and goes on at the level H gives); a call adds a frame, a return takes one away and the word it returns to is the
one the call has put there (`CallFrames`, `ReturnFrames`). `RunInv` is inductive beside `EnmaInv`. The recursive function
in `FrameChainIntact` is unfolded by the least frame for which it would be false.

ScannerProofs proves, for texts of any length over any characters, any keywords and any sizes, for `Scanner!Spec`:

* `PutBackAlwaysFits` - the process never ends at the put-back buffer, of which one place is enough;
* `LinesAreAlwaysCounted` - `line_counter` is the line of the next character;
* `KeywordsAreFound` - after `tr_add` of the keywords, `tr_find` gives every word the type it has, and none to what is
  only the beginning of a keyword or longer than one. It is about the operators of Trie, not about `Spec`;
* `TokensAreAlwaysTheText` - `TokensAreTheText`: between two tokens lie blanks and comments only, a token is spelled as
  its type is and is the longest one there;
* `DataAlwaysFollowSpelling` - `DataFollowsSpelling`: equal names and equal strings, and no others, are one object; a
  number that fits an int is its value.

Assumptions: `ScannerAssumption`, `CharsAssumption` (the end of the file is no character) and `KeywordsAssumption`
(keywords are made of characters `tr_hash_char` has an index for).

The arguments. *Input*: the inductive invariant adds to the first two properties that the character in the buffer, if
there is one, is the last that was read (`BufferIsLast`): without it `_putback` of a newline could take back a line that
was never counted. Every action reads its characters by `Gets` or `LooksAt`, so the proof has one lemma for each of the
two, and the actions follow. *Folds*: `FoldLeft` of the community modules is a recursive function over the domain of
the sequence; one group of lemmas derives, by induction on a length, that it adds the elements one behind the other. The
trie, the value of a number and the meaning of a string follow from it. *The trie*: nodes are the ends of ways from the
root, ways to different nodes differ in a word, and adding a word leaves the ways there were. *Tokens*: `ScanInv` says at
each place inside the scanner what has been read since the token began (`LexInv`) and that between the token before
and that beginning there is nothing else (`GapInv`). After the end of the file nothing more is read (`EndOfInput`), so
the token of the end is the last (`EndOfTokens`); `ObjectsInv` and `TokensInv` are the properties themselves,
strengthened to all tokens and to any text that may follow. Each action has one lemma.

The proof found three things about the model: two arms of `IsLongest` overlapped, which TLC does not notice; `DigitValue`
could not be reasoned about as the position of a digit in a string; and that keywords consist of characters the
trie has indices for, which tr_add takes for granted, had to be said.

HashTableProofs proves, for any keys and values, any hashes, any first capacity above 1, any bound on the growth and any
sequence of calls, deletions included, for `HashTable!Spec`:

* `ThereIsAlwaysAnEmptyEntry` - `EveryProbeMeetsAnEmptyEntry`: half of the entries or more are empty, so `find_entry` and
  `table_find_string`, which have no other bound on their loops, come to one;
* `GrowingIsNeverNested` - `GrowingNeverNests`: `table_grow` calls `table_set`, which may call `table_grow`, and never
  does;
* `KeysStayReachable` - `KeysReachableAndUnique`: no empty entry lies between a key's hash and its place, and no key is in
  two places.

Assumption: `TableAssumption`. For the first two the inductive invariant is `OccupancyInv`. `count` is
half of the capacity or less in every state, but a write adds one to it, so the proof needs what makes room: for the
caller, the test at the top of `table_set` (`RoomInv`); for the moves, that the entries moved and the ones to be moved
fill a quarter of the new array together (`GrowthInv`). That quarter leaves room for the caller's own entry as well,
because a table that has grown has 4 places or more. Every write occupies one place more at most (`WritingOccupies`),
and then `count` goes up with it.

For the third it is `ReachInv` besides. What a probe has seen must be part of it: it passed no empty entry and not its key
(`ProbeInv`), so when it ends at an empty entry the key is nowhere, and the tombstone it would rather use is
within reach of the key (`AtInv`). While the table grows, a key still to be moved is not in the new array and once in
the old one (`MovesInv`).

Its second part proves

* `TableIsDictionary` - `ImplementsDictionary`: every call, at the turn of its loop that answers or changes something,
  is a step of a map from keys to values, and all other turns are none.

The map is what the two arrays hold. Its graph is described without `CHOOSE` (`MapGraph`), which is sound because a
key is in one entry of one of the arrays; then moving an entry changes nothing, and a write changes one key.

ClassesProofs proves, for any classes, fields, methods and depth of inheritance, for `Classes!Spec`:

* `SlotsStayNumbered` - `SlotsNumberTheFields`: the slots of a class number its fields from 0 without a gap;
* `HeirsHaveTheFields` - `MethodsFindTheirFields`: a field a method was compiled for is in every class that inherits it;
* `InstancesAreRecords` - `ImplementsObjects`: instances are records of named fields.

Assumption: `ClassesAssumption`. `add_entries` takes the ancestor's names in the order of their hashes, any order for the
model, and gives each the next slot. That the numbering goes on without a gap rests on counting: an injection into
a set of the same size is onto (`SlotsContinue`). Instances rely on their class being complete: nothing is
allocated while classes are parsed (`HeapInv`), so the length of `data` is the number of fields and a slot is one
field's.

ChunkProofs proves, for any widths, any first capacity and any number of writes and patches, for `Chunk!Spec`:

* `FirstBlocksAreReadBack` - `FirstBlocksReadBack`: until a buffer grows, what was written is read back.

Assumption: `ChunkAssumption`. The invariant adds that the bytes written are those below `size` (`Sound`), that the
entries lie one behind the other, so a patch of one leaves the others alone, and that there is one line number for each
byte of code (`Layout`).

Only model-checked, though in reach of the prover: `ReadsSeeTheirVariable` of Enma; `ReadsSeeTheirMember` and
`FieldsBelongToThis` of Methods.
Outside the reach of the prover, and left to TLC: liveness (`ProgramsHalt`, `CallsReturn`, `HangsOnlyInBlockComment`)
and ENABLED, and anything that needs recursive operators, what `Code` and `Eval` compute among it; Expressions has them
(`ParsedAsTheTableSays`, `CodeLeavesOneValue`, `EvaluatorsAgree`).

## 7. Not modelled, and the plan

Not modelled: the garbage collector - `gc_collect` has no caller, so objects live until `gc_cleanup` walks the chain at
exit; it takes no part in what programs do, and `mark_object` would end the process at the first class or instance. The
natives beyond their effect on the stack (input and output), option handling, disassembler, printing of trees, build
and test scripts. Syntax errors of statements and declarations are left out: `Parse` and `ParseMembers` take well-formed
constructs and model the semantic errors; Expressions takes any tokens. Increments and operators inside class bodies.

What is left for the prover: the values in the slots (`ReadsSeeTheirVariable`). The invariant would map every
instruction not only to its height but also to what each slot below it may hold, carry that through every construct as
EnmaHeights does with the height, relate `scope.locals` to the blocks of `lex` name by name, and give each frame of
EnmaFrames the claims of its caller; it is meant for tame programs with distinct
parameters and no variable named like one of them or like a function. Then `ReadsSeeTheirMember` and `FieldsBelongToThis` of Methods.
