------------------------------ MODULE Classes -------------------------------
(***************************************************************************)
(* Classes and instances: the class declarations of parser.c, the class    *)
(* objects of lang_types.c and the field and method opcodes of vm.c.       *)
(*                                                                         *)
(* A class keeps a table from field names to slots of the instance's data  *)
(* array.  Inheritance copies the tables: the fields of an ancestor get    *)
(* the next free slots of the heir, so the same field lies elsewhere in    *)
(* each class and every access looks its slot up by name.                  *)
(*                                                                         *)
(* The parser reads all declarations before anything runs.  What a method  *)
(* does is not modelled, but what its code takes for a field is: the names *)
(* that are fields when it is compiled (resolve_field).                    *)
(***************************************************************************)
EXTENDS Naturals, Sequences, FiniteSets

CONSTANTS ClassIds,            \* names of classes
          FieldIds,            \* names of fields
          MethodIds,           \* names of methods
          Argcs,               \* numbers of arguments
          Values,              \* what is stored in fields
          UNINIT,              \* VALUE_UNINIT
          CONSTRUCTORS_LIMIT,
          MAX_MEMBERS,         \* bound on the declarations in classes
          MAX_INSTANCES        \* bound on the instances made

ASSUME ClassesAssumption ==
  /\ Argcs \subseteq Nat
  /\ UNINIT \notin Values
  /\ CONSTRUCTORS_LIMIT \in Nat \ {0}

VARIABLES classes,   \* class name -> class object, once it is declared
          current,   \* the class being declared, or NoClass
          part,      \* "parents" or "members" of it
          phase,     \* "parsing", "running", "error", or "undefined"
          members,   \* number of declarations read
          heap,      \* the instances, in the order they were made
          access,    \* history: the instance and the field accessed last
          answer     \* the value the last instruction pushed

classVars == <<classes, current, part, phase, members, heap, access, answer>>

NoClass  == "none"
NoAccess == <<>>

(* Entries of constructors[]: a constructor, known by its argument count,  *)
(* NULL, or never written since the class was allocated.                   *)
Constructor(argc) == [kind |-> "constructor", argc |-> argc]
Null          == [kind |-> "null", argc |-> 0]
Uninitialised == [kind |-> "garbage", argc |-> 0]

(* mk_objclass: the loop leaves the slot of the default constructor alone. *)
NewClass == [fields  |-> [f \in {} |-> 0],
             methods |-> [m \in {} |-> Null],
             constructors |-> [i \in 0..CONSTRUCTORS_LIMIT |->
                                 IF i < CONSTRUCTORS_LIMIT THEN Null ELSE Uninitialised]]

Init == /\ classes = [c \in {} |-> NewClass]
        /\ current = NoClass
        /\ part = "parents"
        /\ phase = "parsing"
        /\ members = 0
        /\ heap = <<>>
        /\ access = NoAccess
        /\ answer = UNINIT

Error == /\ phase' = "error"
         /\ UNCHANGED <<classes, current, part, members, heap, access, answer>>

(* A declaration that succeeds if ok, and is an error otherwise. *)
Reads(ok, declaration) == /\ phase = "parsing"
                          /\ \/ ok /\ declaration /\ UNCHANGED <<phase, heap, access, answer>>
                             \/ ~ok /\ Error

MayDeclare == members < MAX_MEMBERS

Declared == members' = members + 1

(* class c : The symbol is set before the parents are read. *)
OpenClass(c) ==
  /\ current = NoClass
  /\ Reads(c \notin DOMAIN classes,
           /\ classes' = [k \in DOMAIN classes \union {c} |->
                            IF k = c THEN NewClass ELSE classes[k]]
           /\ current' = c
           /\ part' = "parents"
           /\ UNCHANGED members)

(* The count of the table of fields is the next slot. *)
FieldCount(cl) == Cardinality(DOMAIN cl.fields)

(* Seeded bug: inherited fields keep the slots they have in the ancestor. *)
SlottingsFromZero(cl, fs) ==
  {slot \in [fs -> 0..(Cardinality(fs) - 1)] :
     \A f, g \in fs : slot[f] = slot[g] => f = g}

(* The slots that fields added to a class may get, whatever their order.   *)
Slottings(cl, fs) ==
  {slot \in [fs -> FieldCount(cl)..(FieldCount(cl) + Cardinality(fs) - 1)] :
     \A f, g \in fs : slot[f] = slot[g] => f = g}

Extended(f, g) == [x \in DOMAIN f \union DOMAIN g |->
                     IF x \in DOMAIN g THEN g[x] ELSE f[x]]

(* Seeded bug: what table_set answers for the fields is not looked at. *)
AddAncestorMerging(c) ==
  /\ current # NoClass
  /\ part = "parents"
  /\ MayDeclare
  /\ LET cl == classes[current]
     IN  Reads(/\ c \in DOMAIN classes
               /\ DOMAIN classes[c].methods \intersect DOMAIN cl.methods = {},
               /\ \E slots \in Slottings(cl, DOMAIN classes[c].fields) :
                    classes' = [classes EXCEPT ![current] =
                      [cl EXCEPT !.fields = Extended(@, slots),
                                 !.methods = Extended(@, classes[c].methods)]]
               /\ Declared
               /\ UNCHANGED <<current, part>>)

(* Seeded bug: add_entries copies the methods only. *)
AddAncestorMethods(c) ==
  /\ current # NoClass
  /\ part = "parents"
  /\ MayDeclare
  /\ Reads(/\ c \in DOMAIN classes
           /\ DOMAIN classes[c].methods \intersect DOMAIN classes[current].methods = {},
           /\ classes' = [classes EXCEPT ![current].methods =
                            Extended(@, classes[c].methods)]
           /\ Declared
           /\ UNCHANGED <<current, part>>)

(* add_entries: the ancestor's entries come in the order of their hashes,  *)
(* which is any order here.                                                *)
AddAncestor(c) ==
  /\ current # NoClass
  /\ part = "parents"
  /\ MayDeclare
  /\ LET cl == classes[current]
     IN  Reads(/\ c \in DOMAIN classes
               /\ DOMAIN classes[c].fields \intersect DOMAIN cl.fields = {}
               /\ DOMAIN classes[c].methods \intersect DOMAIN cl.methods = {},
               /\ \E slots \in Slottings(cl, DOMAIN classes[c].fields) :
                    classes' = [classes EXCEPT ![current] =
                      [cl EXCEPT !.fields = Extended(@, slots),
                                 !.methods = Extended(@, classes[c].methods)]]
               /\ Declared
               /\ UNCHANGED <<current, part>>)

(* { *)
OpenMembers == /\ current # NoClass
               /\ part = "parents"
               /\ phase = "parsing"
               /\ part' = "members"
               /\ UNCHANGED <<classes, current, phase, members, heap, access, answer>>

InMembers == current # NoClass /\ part = "members"

(* field f; *)
Field(f) ==
  /\ InMembers
  /\ MayDeclare
  /\ Reads(f \notin DOMAIN classes[current].fields,
           /\ classes' = [classes EXCEPT ![current].fields =
                            Extended(@, [g \in {f} |-> FieldCount(classes[current])])]
           /\ Declared
           /\ UNCHANGED <<current, part>>)

(* meth m(...) override?  A method knows the fields declared before it. *)
Method(m, argc, isOverride) ==
  /\ InMembers
  /\ MayDeclare
  /\ LET cl == classes[current]
         method == [argc |-> argc, uses |-> DOMAIN cl.fields]
     IN  Reads(m \notin DOMAIN cl.methods \/ isOverride,
               /\ classes' = [classes EXCEPT ![current].methods =
                                Extended(@, [k \in {m} |-> method])]
               /\ Declared
               /\ UNCHANGED <<current, part>>)

(* set_constructor: the first free slot below the limit, or the slot of    *)
(* the default constructor, which the search does not look at.             *)
FreeSlot(cl) ==
  CHOOSE i \in 0..CONSTRUCTORS_LIMIT :
    /\ i < CONSTRUCTORS_LIMIT => cl.constructors[i] = Null
    /\ \A j \in 0..(i - 1) : cl.constructors[j] # Null

MaySetConstructor(cl, argc) ==
  /\ \A j \in 0..(FreeSlot(cl) - 1) : cl.constructors[j] # Constructor(argc)
  /\ FreeSlot(cl) < CONSTRUCTORS_LIMIT \/ argc = 0

SetConstructor(cl, argc) ==
  [cl EXCEPT !.constructors[FreeSlot(cl)] = Constructor(argc)]

(* C(...) {...}  The constructor is set when its body has been read. *)
DeclareConstructor(argc) ==
  /\ InMembers
  /\ MayDeclare
  /\ Reads(MaySetConstructor(classes[current], argc),
           /\ classes' = [classes EXCEPT ![current] = SetConstructor(@, argc)]
           /\ Declared
           /\ UNCHANGED <<current, part>>)

(* find_constructor goes through the slots up to the first NULL.           *)
Searched(cl) == {i \in 0..CONSTRUCTORS_LIMIT : \A j \in 0..i : cl.constructors[j] # Null}

HasConstructor(cl, argc) ==
  \E i \in Searched(cl) : cl.constructors[i] = Constructor(argc)

(* The search comes to the slot nobody wrote before it finds what it seeks. *)
SearchesGarbage(cl, argc) ==
  /\ ~HasConstructor(cl, argc)
  /\ \E i \in Searched(cl) : cl.constructors[i] = Uninitialised

(* A call C(...) is compiled, in a method or a function: only a constructor *)
(* the class has already may be called.                                    *)
CallConstructor(c, argc) ==
  /\ phase = "parsing"
  /\ ~HasConstructor(classes[c], argc)
  /\ \/ Error
     \/ /\ SearchesGarbage(classes[c], argc)
        /\ phase' = "undefined"
        /\ UNCHANGED <<classes, current, part, members, heap, access, answer>>

(* }  add_def_constructor.  Where the search reads the slot nobody wrote,  *)
(* the allocator may have left a null pointer there or anything else.      *)
CloseClass ==
  /\ InMembers
  /\ phase = "parsing"
  /\ LET cl == classes[current]
     IN  \/ /\ classes' = IF HasConstructor(cl, 0) THEN classes
                          ELSE [classes EXCEPT ![current] = SetConstructor(cl, 0)]
            /\ current' = NoClass
            /\ UNCHANGED phase
         \/ /\ SearchesGarbage(cl, 0)
            /\ phase' = "undefined"
            /\ UNCHANGED <<classes, current>>
  /\ UNCHANGED <<part, members, heap, access, answer>>

-----------------------------------------------------------------------------
(* Instructions *)

StartProgram == /\ phase = "parsing"
                /\ current = NoClass
                /\ phase' = "running"
                /\ UNCHANGED <<classes, current, part, members, heap, access, answer>>

RunTimeError == Error

(* A constructor call that was compiled: OP_CALL, then OP_INSTANCE.        *)
Construct(c, argc) ==
  /\ phase = "running"
  /\ Len(heap) < MAX_INSTANCES
  /\ HasConstructor(classes[c], argc)
  /\ heap' = Append(heap, [impl |-> c,
                           data |-> [i \in 0..(FieldCount(classes[c]) - 1) |-> UNINIT]])
  /\ answer' = UNINIT
  /\ UNCHANGED <<classes, current, part, phase, members, access>>

(* What table_check finds in impl->fields. *)
FieldsOf(inst) == classes[heap[inst].impl].fields

OP_SET_FIELD(inst, f, value) ==
  /\ phase = "running"
  /\ \/ /\ f \in DOMAIN FieldsOf(inst)
        /\ access' = <<inst, f>>
        /\ heap' = [heap EXCEPT ![inst].data[FieldsOf(inst)[f]] = value]
        /\ answer' = value
        /\ UNCHANGED <<classes, current, part, phase, members>>
     \/ /\ f \notin DOMAIN FieldsOf(inst)
        /\ RunTimeError

OP_GET_FIELD(inst, f) ==
  /\ phase = "running"
  /\ \/ /\ f \in DOMAIN FieldsOf(inst)
        /\ access' = <<inst, f>>
        /\ answer' = heap[inst].data[FieldsOf(inst)[f]]
        /\ UNCHANGED <<classes, current, part, phase, members, heap>>
     \/ /\ f \notin DOMAIN FieldsOf(inst)
        /\ RunTimeError

(* A method call that reads the field f of `this`: OP_METHOD, then the     *)
(* OP_GET_FIELD of the method's code.                                      *)
OP_METHOD(inst, m, argc, f) ==
  /\ phase = "running"
  /\ LET methods == classes[heap[inst].impl].methods
     IN  \/ /\ m \in DOMAIN methods
            /\ methods[m].argc = argc
            /\ f \in methods[m].uses
            /\ OP_GET_FIELD(inst, f)
         \/ /\ m \notin DOMAIN methods
            /\ RunTimeError
         \/ /\ m \in DOMAIN methods
            /\ methods[m].argc # argc
            /\ RunTimeError

Next ==
  \/ \E c \in ClassIds : OpenClass(c) \/ AddAncestor(c)
  \/ OpenMembers
  \/ \E f \in FieldIds : Field(f)
  \/ \E m \in MethodIds, argc \in Argcs, isOverride \in BOOLEAN :
       Method(m, argc, isOverride)
  \/ \E argc \in Argcs : DeclareConstructor(argc)
  \/ \E c \in DOMAIN classes, argc \in Argcs : CallConstructor(c, argc)
  \/ CloseClass
  \/ StartProgram
  \/ \E c \in DOMAIN classes, argc \in Argcs : Construct(c, argc)
  \/ \E inst \in DOMAIN heap, f \in FieldIds :
       \/ \E value \in Values : OP_SET_FIELD(inst, f, value)
       \/ OP_GET_FIELD(inst, f)
       \/ \E m \in MethodIds, argc \in Argcs : OP_METHOD(inst, m, argc, f)

Spec == Init /\ [][Next]_classVars

-----------------------------------------------------------------------------
(* Properties *)

(* The slots of a class, own and inherited from however many ancestors,    *)
(* number its fields from 0 without a gap: data[] has a place for each and *)
(* no two share one (lang_types.c:23-33, 101-106, parser.c:686).           *)
SlotsNumberTheFields ==
  \A c \in DOMAIN classes :
    {classes[c].fields[f] : f \in DOMAIN classes[c].fields}
      = 0..(FieldCount(classes[c]) - 1)

(* An inherited method finds every field its code was compiled for in the  *)
(* heir, at whatever slot: no method call fails inside the method for a    *)
(* field of `this`.                                                        *)
MethodsFindTheirFields ==
  \A c \in DOMAIN classes : \A m \in DOMAIN classes[c].methods :
    classes[c].methods[m].uses \subseteq DOMAIN classes[c].fields

(* Instances behave as records of named fields: storing in a field changes *)
(* that field of that instance and no other, also for inherited fields.    *)
Objs == INSTANCE Objects
          WITH objects <- [i \in DOMAIN heap |->
                             [f \in DOMAIN FieldsOf(i) |-> heap[i].data[FieldsOf(i)[f]]]]

ImplementsObjects == Objs!ObjectsSpec
=============================================================================
