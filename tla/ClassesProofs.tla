---------------------------- MODULE ClassesProofs ----------------------------
(***************************************************************************)
(* Proofs about classes and instances, for any number of classes, fields   *)
(* and methods and any depth of inheritance: the slots of a class number   *)
(* its fields without a gap, an inherited method finds the fields it was   *)
(* compiled for, and instances are records of named fields.                *)
(***************************************************************************)
EXTENDS Classes, FunctionTheorems, FiniteSetTheorems, SequenceTheorems, TLAPS

Contents == Values \union {UNINIT}

(* A table of fields: no two names share a slot, and no slot is unused.    *)
Numbering(fields) ==
  /\ fields \in [DOMAIN fields -> Nat]
  /\ DOMAIN fields \subseteq FieldIds
  /\ IsFiniteSet(DOMAIN fields)
  /\ \A f, g \in DOMAIN fields : fields[f] = fields[g] => f = g
  /\ {fields[f] : f \in DOMAIN fields} = 0..(Cardinality(DOMAIN fields) - 1)

GoodClass(cl) ==
  /\ cl = [fields |-> cl.fields, methods |-> cl.methods,
           constructors |-> cl.constructors]
  /\ Numbering(cl.fields)
  /\ \A m \in DOMAIN cl.methods : cl.methods[m].uses \subseteq DOMAIN cl.fields

ClassesInv == /\ DOMAIN classes \subseteq ClassIds
              /\ classes = [c \in DOMAIN classes |-> classes[c]]
              /\ \A c \in DOMAIN classes : GoodClass(classes[c])
              /\ current = NoClass \/ current \in DOMAIN classes

(* An instance has a place for each slot of its class, which is complete:  *)
(* nothing is allocated before the last class is parsed.                   *)
Instances == UNION {[impl : ClassIds, data : [0..(n - 1) -> Contents]] : n \in Nat}

HeapInv ==
  /\ heap \in Seq(Instances)
  /\ phase = "parsing" => heap = <<>>
  /\ \A i \in DOMAIN heap :
       /\ heap[i].impl \in DOMAIN classes
       /\ heap[i].data \in [0..(FieldCount(classes[heap[i].impl]) - 1) -> Contents]

ObjectsInv == ClassesInv /\ HeapInv

-----------------------------------------------------------------------------
(* Adding fields to a table *)

(* The slots that table_set gives to new names continue the numbering:     *)
(* however many names, and in whatever order they are added.               *)
LEMMA SlotsContinue ==
  ASSUME NEW cl, Numbering(cl.fields),
         NEW fs \in SUBSET FieldIds, IsFiniteSet(fs),
         fs \intersect DOMAIN cl.fields = {},
         NEW slots \in Slottings(cl, fs)
  PROVE  /\ Numbering(Extended(cl.fields, slots))
         /\ DOMAIN Extended(cl.fields, slots) = DOMAIN cl.fields \union fs
<1> DEFINE n == FieldCount(cl)
           k == Cardinality(fs)
           old == cl.fields
           all == Extended(old, slots)
<1>1. n \in Nat /\ k \in Nat /\ n = Cardinality(DOMAIN old)
  BY FS_CardinalityType DEF Numbering, FieldCount
<1>2. /\ slots \in [fs -> n..(n + k - 1)]
      /\ \A f, g \in fs : slots[f] = slots[g] => f = g
  BY DEF Slottings
<1>3. slots \in Injection(fs, n..(n + k - 1))
  BY <1>2 DEF Injection, IsInjective
<1>4. IsFiniteSet(n..(n + k - 1)) /\ Cardinality(n..(n + k - 1)) = k
  <2> DEFINE last == n + k - 1
  <2>1. n \in Int /\ last \in Int
    BY <1>1
  <2> HIDE DEF n, last
  <2>2. /\ IsFiniteSet(n..last)
        /\ Cardinality(n..last) = IF n > last THEN 0 ELSE last - n + 1
    BY <2>1, FS_Interval
  <2> USE DEF last
  <2> QED  BY <1>1, <2>2
<1>5. slots \in Surjection(fs, n..(n + k - 1))
  BY <1>3, <1>4, FS_Injection
<1>6. \A s \in n..(n + k - 1) : \E f \in fs : slots[f] = s
  BY <1>5 DEF Surjection
<1>7. DOMAIN all = DOMAIN old \union fs
  BY <1>2 DEF Extended
<1>8. \A f \in DOMAIN old : all[f] = old[f]
  BY <1>2 DEF Extended
<1>9. \A f \in fs : all[f] = slots[f]
  BY <1>2 DEF Extended
<1>10. \A f \in DOMAIN old : old[f] \in 0..(n - 1)
  BY <1>1 DEF Numbering
<1>11. IsFiniteSet(DOMAIN all) /\ Cardinality(DOMAIN all) = n + k
  <2>1. DOMAIN old \intersect fs = {}
    OBVIOUS
  <2>2. IsFiniteSet(DOMAIN old)
    BY DEF Numbering
  <2>3. /\ IsFiniteSet(DOMAIN old \union fs)
        /\ Cardinality(DOMAIN old \union fs) =
             Cardinality(DOMAIN old) + Cardinality(fs)
               - Cardinality(DOMAIN old \intersect fs)
    BY <2>2, FS_Union
  <2>4. Cardinality(DOMAIN old \intersect fs) = 0
    BY <2>1, FS_EmptySet
  <2> QED  BY <1>1, <1>7, <2>3, <2>4
<1>12. all \in [DOMAIN all -> Nat]
  <2>1. all = [x \in DOMAIN all |-> all[x]]
    BY DEF Extended
  <2>2. \A x \in DOMAIN all : all[x] \in Nat
    BY <1>1, <1>2, <1>7, <1>8, <1>9, <1>10
  <2> QED  BY <2>1, <2>2
<1>13. \A f, g \in DOMAIN all : all[f] = all[g] => f = g
  <2> SUFFICES ASSUME NEW f \in DOMAIN all, NEW g \in DOMAIN all, all[f] = all[g]
               PROVE  f = g
    OBVIOUS
  <2>1. CASE f \in DOMAIN old /\ g \in DOMAIN old
    BY <2>1, <1>8 DEF Numbering
  <2>2. CASE f \in fs /\ g \in fs
    BY <2>2, <1>2, <1>9
  <2>3. CASE f \in DOMAIN old /\ g \in fs
    <3>1. all[f] \in 0..(n - 1) /\ all[g] \in n..(n + k - 1)
      BY <2>3, <1>2, <1>8, <1>9, <1>10
    <3> QED  BY <3>1, <1>1
  <2>4. CASE f \in fs /\ g \in DOMAIN old
    <3>1. all[g] \in 0..(n - 1) /\ all[f] \in n..(n + k - 1)
      BY <2>4, <1>2, <1>8, <1>9, <1>10
    <3> QED  BY <3>1, <1>1
  <2> QED  BY <1>7, <2>1, <2>2, <2>3, <2>4
<1>14. {all[f] : f \in DOMAIN all} = 0..(n + k - 1)
  <2>1. \A f \in DOMAIN all : all[f] \in 0..(n + k - 1)
    BY <1>1, <1>2, <1>7, <1>8, <1>9, <1>10
  <2>2. ASSUME NEW s \in 0..(n + k - 1)
        PROVE  \E f \in DOMAIN all : all[f] = s
    <3>1. CASE s < n
      <4>1. s \in {old[f] : f \in DOMAIN old}
        BY <3>1, <1>1 DEF Numbering
      <4> QED  BY <4>1, <1>7, <1>8
    <3>2. CASE s >= n
      BY <3>2, <1>1, <1>6, <1>7, <1>9
    <3> QED  BY <3>1, <3>2, <1>1
  <2> QED  BY <2>1, <2>2
<1> QED
  <2>1. DOMAIN all \subseteq FieldIds
    BY <1>7 DEF Numbering
  <2>2. {all[f] : f \in DOMAIN all} = 0..(Cardinality(DOMAIN all) - 1)
    <3>1. 0..(n + k - 1) = 0..(Cardinality(DOMAIN all) - 1)
      <4> HIDE DEF all, n, k
      <4> QED  BY <1>1, <1>11
    <3> QED  BY <3>1, <1>14
  <2>3. Numbering(all)
    <3> HIDE DEF all
    <3> QED  BY <2>1, <2>2, <1>11, <1>12, <1>13 DEF Numbering
  <2> QED  BY <2>3, <1>7

(* The slots of a single new field: the count of the table.                *)
LEMMA OneMoreSlot ==
  ASSUME NEW cl, Numbering(cl.fields), NEW f \in FieldIds
  PROVE  [g \in {f} |-> FieldCount(cl)] \in Slottings(cl, {f})
<1>1. FieldCount(cl) \in Nat
  BY FS_CardinalityType DEF Numbering, FieldCount
<1>2. Cardinality({f}) = 1
  BY FS_Singleton
<1> QED  BY <1>1, <1>2 DEF Slottings

(* Declaring a class, extending one and numbering its fields keep it good. *)
LEMMA NewClassIsGood == GoodClass(NewClass)
<1>1. /\ NewClass.fields = [f \in {} |-> 0]
      /\ NewClass.methods = [m \in {} |-> Null]
      /\ NewClass = [fields |-> NewClass.fields, methods |-> NewClass.methods,
                     constructors |-> NewClass.constructors]
  BY DEF NewClass
<1>2. DOMAIN NewClass.fields = {} /\ DOMAIN NewClass.methods = {}
  BY <1>1
<1>3. IsFiniteSet({}) /\ Cardinality({}) = 0
  BY FS_EmptySet
<1>4. 0..(0 - 1) = {}
  OBVIOUS
<1>5. Numbering(NewClass.fields)
  <2>1. NewClass.fields \in [{} -> Nat]
    BY <1>1
  <2>2. {NewClass.fields[f] : f \in DOMAIN NewClass.fields} = {}
    BY <1>2
  <2> QED  BY <1>2, <1>3, <1>4, <2>1, <2>2 DEF Numbering
<1> QED  BY <1>1, <1>2, <1>5 DEF GoodClass

(* A class stays good when fields are numbered behind its own and methods  *)
(* that use them are added.                                                *)
LEMMA ExtendedIsGood ==
  ASSUME NEW cl, GoodClass(cl),
         NEW fs \in SUBSET FieldIds, IsFiniteSet(fs),
         fs \intersect DOMAIN cl.fields = {},
         NEW slots \in Slottings(cl, fs),
         NEW methods,
         \A m \in DOMAIN methods : methods[m].uses \subseteq fs
  PROVE  GoodClass([cl EXCEPT !.fields = Extended(@, slots),
                              !.methods = Extended(@, methods)])
<1> DEFINE new == [cl EXCEPT !.fields = Extended(@, slots),
                             !.methods = Extended(@, methods)]
<1>1. /\ Numbering(Extended(cl.fields, slots))
      /\ DOMAIN Extended(cl.fields, slots) = DOMAIN cl.fields \union fs
  BY SlotsContinue DEF GoodClass
<1>2. new = [fields |-> Extended(cl.fields, slots),
             methods |-> Extended(cl.methods, methods),
             constructors |-> cl.constructors]
  <2> DEFINE F == Extended(cl.fields, slots)
             M == Extended(cl.methods, methods)
  <2>1. cl = [fields |-> cl.fields, methods |-> cl.methods,
              constructors |-> cl.constructors]
    BY DEF GoodClass
  <2>2. new = [cl EXCEPT !.fields = F, !.methods = M]
    <3>1. [cl EXCEPT !.fields = F].methods = cl.methods
      <4> HIDE DEF F, M
      <4> QED  BY <2>1
    <3> QED  BY <3>1
  <2> HIDE DEF F, M, new
  <2>3. new = [fields |-> F, methods |-> M, constructors |-> cl.constructors]
    BY <2>1, <2>2
  <2> QED  BY <2>3 DEF F, M
<1>3. /\ new.fields = Extended(cl.fields, slots)
      /\ new.methods = Extended(cl.methods, methods)
      /\ new.constructors = cl.constructors
  BY <1>2
<1>4. ASSUME NEW m \in DOMAIN Extended(cl.methods, methods)
      PROVE  Extended(cl.methods, methods)[m].uses \subseteq DOMAIN cl.fields \union fs
  <2>1. CASE m \in DOMAIN methods
    <3>1. Extended(cl.methods, methods)[m] = methods[m]
      BY <2>1 DEF Extended
    <3> QED  BY <2>1, <3>1
  <2>2. CASE m \notin DOMAIN methods
    <3>1. m \in DOMAIN cl.methods /\ Extended(cl.methods, methods)[m] = cl.methods[m]
      BY <2>2 DEF Extended
    <3> QED  BY <3>1 DEF GoodClass
  <2> QED  BY <2>1, <2>2
<1> HIDE DEF new
<1>5. \A m \in DOMAIN new.methods : new.methods[m].uses \subseteq DOMAIN new.fields
  BY <1>1, <1>3, <1>4
<1>6. new = [fields |-> new.fields, methods |-> new.methods,
             constructors |-> new.constructors]
  BY <1>2, <1>3
<1>7. GoodClass(new)
  BY <1>1, <1>3, <1>5, <1>6 DEF GoodClass
<1> QED  BY <1>7 DEF new

(* A method of the class itself uses fields that the class has already.    *)
LEMMA MethodIsGood ==
  ASSUME NEW cl, GoodClass(cl), NEW m, NEW argc
  PROVE  GoodClass([cl EXCEPT !.methods =
           Extended(@, [k \in {m} |-> [argc |-> argc, uses |-> DOMAIN cl.fields]])])
<1> DEFINE methods == [k \in {m} |-> [argc |-> argc, uses |-> DOMAIN cl.fields]]
           new == [cl EXCEPT !.methods = Extended(@, methods)]
<1>1. new = [fields |-> cl.fields, methods |-> Extended(cl.methods, methods),
             constructors |-> cl.constructors]
  BY DEF GoodClass
<1>2. /\ new.fields = cl.fields
      /\ new.methods = Extended(cl.methods, methods)
      /\ new.constructors = cl.constructors
  BY <1>1
<1>3. ASSUME NEW k \in DOMAIN Extended(cl.methods, methods)
      PROVE  Extended(cl.methods, methods)[k].uses \subseteq DOMAIN cl.fields
  <2>1. CASE k \in DOMAIN methods
    BY <2>1 DEF Extended
  <2>2. CASE k \notin DOMAIN methods
    <3>1. k \in DOMAIN cl.methods /\ Extended(cl.methods, methods)[k] = cl.methods[k]
      BY <2>2 DEF Extended
    <3> QED  BY <3>1 DEF GoodClass
  <2> QED  BY <2>1, <2>2
<1> HIDE DEF new, methods
<1>4. \A k \in DOMAIN new.methods : new.methods[k].uses \subseteq DOMAIN new.fields
  BY <1>2, <1>3
<1>5. new = [fields |-> new.fields, methods |-> new.methods,
             constructors |-> new.constructors]
  BY <1>1, <1>2
<1>6. GoodClass(new)
  BY <1>2, <1>4, <1>5 DEF GoodClass
<1> QED  BY <1>6 DEF new, methods

(* A new field takes the next slot.                                        *)
LEMMA FieldIsGood ==
  ASSUME NEW cl, GoodClass(cl), NEW f \in FieldIds, f \notin DOMAIN cl.fields
  PROVE  GoodClass([cl EXCEPT !.fields =
           Extended(@, [g \in {f} |-> FieldCount(cl)])])
<1> DEFINE slot == [g \in {f} |-> FieldCount(cl)]
           new == [cl EXCEPT !.fields = Extended(@, slot)]
<1>1. IsFiniteSet({f})
  BY FS_Singleton
<1>2. slot \in Slottings(cl, {f})
  BY OneMoreSlot DEF GoodClass
<1>3. /\ Numbering(Extended(cl.fields, slot))
      /\ DOMAIN Extended(cl.fields, slot) = DOMAIN cl.fields \union {f}
  <2>1. {f} \in SUBSET FieldIds /\ {f} \intersect DOMAIN cl.fields = {}
    OBVIOUS
  <2>2. Numbering(cl.fields)
    BY DEF GoodClass
  <2> HIDE DEF slot
  <2> QED  BY <1>1, <1>2, <2>1, <2>2, SlotsContinue
<1>4. new = [fields |-> Extended(cl.fields, slot), methods |-> cl.methods,
             constructors |-> cl.constructors]
  BY DEF GoodClass
<1>5. /\ new.fields = Extended(cl.fields, slot)
      /\ new.methods = cl.methods
      /\ new.constructors = cl.constructors
  BY <1>4
<1> HIDE DEF new, slot
<1>6. \A m \in DOMAIN new.methods : new.methods[m].uses \subseteq DOMAIN new.fields
  BY <1>3, <1>5 DEF GoodClass
<1>7. new = [fields |-> new.fields, methods |-> new.methods,
             constructors |-> new.constructors]
  BY <1>4, <1>5
<1>8. GoodClass(new)
  BY <1>3, <1>5, <1>6, <1>7 DEF GoodClass
<1> QED  BY <1>8 DEF new, slot

(* The constructors are beside the point.                                  *)
LEMMA ConstructorIsGood ==
  ASSUME NEW cl, GoodClass(cl), NEW argc
  PROVE  GoodClass(SetConstructor(cl, argc))
<1> DEFINE new == SetConstructor(cl, argc)
<1>1. /\ new.fields = cl.fields
      /\ new.methods = cl.methods
      /\ new = [fields |-> new.fields, methods |-> new.methods,
                constructors |-> new.constructors]
  BY DEF GoodClass, SetConstructor
<1> HIDE DEF new
<1>2. GoodClass(new)
  BY <1>1 DEF GoodClass
<1> QED  BY <1>2 DEF new

-----------------------------------------------------------------------------
(* Every class is good in every state *)

(* A step that gives one class a good value, declared before or not.       *)
LEMMA OneClassChanges ==
  ASSUME ClassesInv, NEW c \in DOMAIN classes, NEW cl, GoodClass(cl),
         classes' = [classes EXCEPT ![c] = cl],
         current' = current \/ current' = NoClass
  PROVE  ClassesInv'
<1>1. /\ DOMAIN classes' = DOMAIN classes
      /\ \A k \in DOMAIN classes : classes'[k] = IF k = c THEN cl ELSE classes[k]
      /\ classes' = [k \in DOMAIN classes' |-> classes'[k]]
  BY DEF ClassesInv
<1>2. \A k \in DOMAIN classes' : GoodClass(classes'[k])
  BY <1>1 DEF ClassesInv
<1>3. current' = NoClass \/ current' \in DOMAIN classes'
  BY <1>1 DEF ClassesInv
<1> QED  BY <1>1, <1>2, <1>3 DEF ClassesInv

(* There are no classes at first.                                          *)
LEMMA ClassesInvInit == Init => ClassesInv
<1> SUFFICES ASSUME Init PROVE ClassesInv
  OBVIOUS
<1>1. classes = [c \in {} |-> NewClass] /\ current = NoClass
  BY DEF Init
<1> QED  BY <1>1 DEF ClassesInv

(* Every operation leaves the classes good.                                *)
LEMMA ClassesInvIsKept == ClassesInv /\ [Next]_classVars => ClassesInv'
<1> SUFFICES ASSUME ClassesInv, [Next]_classVars PROVE ClassesInv'
  OBVIOUS
<1>0. CASE UNCHANGED <<classes, current>>
  BY <1>0 DEF ClassesInv
<1>1. ASSUME NEW c \in ClassIds, OpenClass(c) PROVE ClassesInv'
  <2>1. CASE Error
    BY <2>1, <1>0 DEF Error
  <2>2. CASE c \notin DOMAIN classes /\ ~Error
    <3>1. /\ classes' = [k \in DOMAIN classes \union {c} |->
                           IF k = c THEN NewClass ELSE classes[k]]
          /\ current' = c
      BY <1>1, <2>2 DEF OpenClass, Reads
    <3>2. /\ DOMAIN classes' = DOMAIN classes \union {c}
          /\ \A k \in DOMAIN classes' :
               classes'[k] = IF k = c THEN NewClass ELSE classes[k]
          /\ classes' = [k \in DOMAIN classes' |-> classes'[k]]
      BY <3>1
    <3>3. \A k \in DOMAIN classes' : GoodClass(classes'[k])
      BY <3>2, NewClassIsGood DEF ClassesInv
    <3> QED  BY <3>1, <3>2, <3>3 DEF ClassesInv
  <2> QED  BY <1>1, <2>1, <2>2 DEF OpenClass, Reads
<1>2. ASSUME NEW c \in ClassIds, AddAncestor(c) PROVE ClassesInv'
  <2>1. CASE Error
    BY <2>1, <1>0 DEF Error
  <2>2. CASE ~Error
    <3> DEFINE cl == classes[current]
               fs == DOMAIN classes[c].fields
               methods == classes[c].methods
    <3>1. /\ current \in DOMAIN classes
          /\ c \in DOMAIN classes
          /\ fs \intersect DOMAIN cl.fields = {}
          /\ current' = current
      BY <1>2, <2>2 DEF AddAncestor, Reads, ClassesInv
    <3>2. PICK slots \in Slottings(cl, fs) :
            classes' = [classes EXCEPT ![current] =
                          [cl EXCEPT !.fields = Extended(@, slots),
                                     !.methods = Extended(@, methods)]]
      BY <1>2, <2>2 DEF AddAncestor, Reads
    <3>3. /\ GoodClass(cl)
          /\ fs \in SUBSET FieldIds
          /\ IsFiniteSet(fs)
          /\ \A m \in DOMAIN methods : methods[m].uses \subseteq fs
      BY <3>1 DEF ClassesInv, GoodClass, Numbering
    <3> DEFINE new == [cl EXCEPT !.fields = Extended(@, slots),
                                 !.methods = Extended(@, methods)]
    <3>4. GoodClass(new)
      <4> HIDE DEF cl, fs, methods
      <4> QED  BY <3>1, <3>2, <3>3, ExtendedIsGood
    <3>5. classes' = [classes EXCEPT ![current] = new]
      BY <3>2
    <3> HIDE DEF new
    <3> QED  BY <3>1, <3>4, <3>5, OneClassChanges
  <2> QED  BY <2>1, <2>2
<1>3. ASSUME NEW f \in FieldIds, Field(f) PROVE ClassesInv'
  <2>1. CASE Error
    BY <2>1, <1>0 DEF Error
  <2>2. CASE ~Error
    <3> DEFINE cl == classes[current]
               new == [cl EXCEPT !.fields = Extended(@, [g \in {f} |-> FieldCount(cl)])]
    <3>1. /\ current \in DOMAIN classes
          /\ f \notin DOMAIN cl.fields
          /\ current' = current
          /\ classes' = [classes EXCEPT ![current].fields =
                           Extended(@, [g \in {f} |-> FieldCount(cl)])]
      BY <1>3, <2>2 DEF Field, InMembers, Reads, ClassesInv
    <3>2. GoodClass(cl)
      BY <3>1 DEF ClassesInv
    <3>3. GoodClass(new)
      <4> HIDE DEF cl
      <4> QED  BY <3>1, <3>2, FieldIsGood
    <3>4. classes' = [classes EXCEPT ![current] = new]
      BY <3>1
    <3> HIDE DEF new
    <3> QED  BY <3>1, <3>3, <3>4, OneClassChanges
  <2> QED  BY <2>1, <2>2
<1>4. ASSUME NEW m \in MethodIds, NEW argc \in Argcs, NEW isOverride \in BOOLEAN,
             Method(m, argc, isOverride)
      PROVE  ClassesInv'
  <2>1. CASE Error
    BY <2>1, <1>0 DEF Error
  <2>2. CASE ~Error
    <3> DEFINE cl == classes[current]
               method == [argc |-> argc, uses |-> DOMAIN cl.fields]
               new == [cl EXCEPT !.methods = Extended(@, [k \in {m} |-> method])]
    <3>1. /\ current \in DOMAIN classes
          /\ current' = current
          /\ classes' = [classes EXCEPT ![current].methods =
                           Extended(@, [k \in {m} |-> method])]
      BY <1>4, <2>2 DEF Method, InMembers, Reads, ClassesInv
    <3>2. GoodClass(cl)
      BY <3>1 DEF ClassesInv
    <3>3. GoodClass(new)
      <4> HIDE DEF cl
      <4> QED  BY <3>2, MethodIsGood
    <3>4. classes' = [classes EXCEPT ![current] = new]
      BY <3>1
    <3> HIDE DEF new
    <3> QED  BY <3>1, <3>3, <3>4, OneClassChanges
  <2> QED  BY <2>1, <2>2
<1>5. ASSUME NEW argc \in Argcs, DeclareConstructor(argc) PROVE ClassesInv'
  <2>1. CASE Error
    BY <2>1, <1>0 DEF Error
  <2>2. CASE ~Error
    <3>1. /\ current \in DOMAIN classes
          /\ current' = current
          /\ classes' = [classes EXCEPT ![current] =
                           SetConstructor(classes[current], argc)]
      BY <1>5, <2>2 DEF DeclareConstructor, InMembers, Reads, ClassesInv
    <3>2. GoodClass(SetConstructor(classes[current], argc))
      BY <3>1, ConstructorIsGood DEF ClassesInv
    <3> QED  BY <3>1, <3>2, OneClassChanges
  <2> QED  BY <2>1, <2>2
<1>6. CASE CloseClass
  <2>1. /\ current \in DOMAIN classes
        /\ \/ classes' = classes
           \/ classes' = [classes EXCEPT ![current] = SetConstructor(classes[current], 0)]
        /\ current' = current \/ current' = NoClass
    BY <1>6 DEF CloseClass, InMembers, ClassesInv
  <2>2. CASE classes' = classes
    BY <2>1, <2>2 DEF ClassesInv
  <2>3. CASE classes' = [classes EXCEPT ![current] = SetConstructor(classes[current], 0)]
    <3>1. GoodClass(SetConstructor(classes[current], 0))
      BY <2>1, ConstructorIsGood DEF ClassesInv
    <3> QED  BY <2>1, <2>3, <3>1, OneClassChanges
  <2> QED  BY <2>1, <2>2, <2>3
<1>7. ASSUME NEW inst \in DOMAIN heap, NEW f \in FieldIds,
             \/ \E value \in Values : OP_SET_FIELD(inst, f, value)
             \/ OP_GET_FIELD(inst, f)
             \/ \E m \in MethodIds, argc \in Argcs : OP_METHOD(inst, m, argc, f)
      PROVE  ClassesInv'
  BY <1>0, <1>7 DEF OP_SET_FIELD, OP_GET_FIELD, OP_METHOD, RunTimeError, Error
<1>8. CASE OpenMembers
  BY <1>0, <1>8 DEF OpenMembers
<1>9. ASSUME NEW c \in DOMAIN classes, NEW argc \in Argcs,
             CallConstructor(c, argc) \/ Construct(c, argc)
      PROVE  ClassesInv'
  BY <1>0, <1>9 DEF CallConstructor, Construct, Error
<1>10. CASE StartProgram
  BY <1>0, <1>10 DEF StartProgram
<1>11. CASE UNCHANGED classVars
  BY <1>0, <1>11 DEF classVars
<1> QED
  BY <1>1, <1>2, <1>3, <1>4, <1>5, <1>6, <1>7, <1>8, <1>9, <1>10, <1>11 DEF Next

(* The classes are good in every reachable state.                          *)
LEMMA AlwaysClassesInv == Spec => []ClassesInv
BY ClassesInvInit, ClassesInvIsKept, PTL DEF Spec

(* Whatever is inherited from whom and in whatever order the ancestor's    *)
(* entries are copied, the slots of a class number its fields from 0       *)
(* without a gap (lang_types.c:23-33, parser.c:686).                       *)
THEOREM SlotsStayNumbered == Spec => []SlotsNumberTheFields
<1>1. ClassesInv => SlotsNumberTheFields
  BY DEF ClassesInv, GoodClass, Numbering, SlotsNumberTheFields, FieldCount
<1> QED  BY <1>1, AlwaysClassesInv, PTL

(* A method finds the fields its code was compiled for in every heir of    *)
(* its class.                                                              *)
THEOREM HeirsHaveTheFields == Spec => []MethodsFindTheirFields
<1>1. ClassesInv => MethodsFindTheirFields
  BY DEF ClassesInv, GoodClass, MethodsFindTheirFields
<1> QED  BY <1>1, AlwaysClassesInv, PTL

-----------------------------------------------------------------------------
(* Instances *)

(* There are no instances at first.                                        *)
LEMMA HeapInvInit == Init => HeapInv
BY DEF Init, HeapInv

(* Only parsing changes the classes, and then there are no instances.      *)
LEMMA HeapInvStays ==
  ASSUME HeapInv, heap' = heap,
         phase' = "parsing" => phase = "parsing",
         phase = "parsing" \/ classes' = classes
  PROVE  HeapInv'
<1>1. CASE phase = "parsing"
  BY <1>1 DEF HeapInv
<1>2. CASE classes' = classes
  BY <1>2 DEF HeapInv, FieldCount
<1> QED  BY <1>1, <1>2

(* Every instance keeps as many values as its class has fields.            *)
LEMMA HeapInvIsKept == ObjectsInv /\ [Next]_classVars => HeapInv'
<1> SUFFICES ASSUME ObjectsInv, [Next]_classVars PROVE HeapInv'
  OBVIOUS
<1>0. ClassesInv /\ HeapInv
  BY DEF ObjectsInv
<1>1. ASSUME Error PROVE HeapInv'
  BY <1>0, <1>1, HeapInvStays DEF Error
<1>2. ASSUME NEW c \in ClassIds, OpenClass(c) \/ AddAncestor(c) PROVE HeapInv'
  BY <1>0, <1>1, <1>2, HeapInvStays DEF OpenClass, AddAncestor, Reads
<1>3. ASSUME NEW f \in FieldIds, Field(f) PROVE HeapInv'
  BY <1>0, <1>1, <1>3, HeapInvStays DEF Field, Reads
<1>4. ASSUME NEW m \in MethodIds, NEW argc \in Argcs, NEW isOverride \in BOOLEAN,
             Method(m, argc, isOverride)
      PROVE  HeapInv'
  BY <1>0, <1>1, <1>4, HeapInvStays DEF Method, Reads
<1>5. ASSUME NEW argc \in Argcs, DeclareConstructor(argc) PROVE HeapInv'
  BY <1>0, <1>1, <1>5, HeapInvStays DEF DeclareConstructor, Reads
<1>6. CASE CloseClass
  BY <1>0, <1>6, HeapInvStays DEF CloseClass
<1>7. CASE OpenMembers
  BY <1>0, <1>7, HeapInvStays DEF OpenMembers
<1>8. CASE StartProgram
  BY <1>0, <1>8, HeapInvStays DEF StartProgram
<1>9. ASSUME NEW c \in DOMAIN classes, NEW argc \in Argcs, CallConstructor(c, argc)
      PROVE  HeapInv'
  BY <1>0, <1>1, <1>9, HeapInvStays DEF CallConstructor
<1>10. ASSUME NEW c \in DOMAIN classes, NEW argc \in Argcs, Construct(c, argc)
       PROVE  HeapInv'
  <2> DEFINE n == FieldCount(classes[c])
             data == [i \in 0..(n - 1) |-> UNINIT]
             inst == [impl |-> c, data |-> data]
  <2>1. heap' = Append(heap, inst) /\ classes' = classes /\ phase' = "running"
    BY <1>10 DEF Construct
  <2>2. n \in Nat
    BY <1>0, FS_CardinalityType DEF ClassesInv, GoodClass, Numbering, FieldCount
  <2>3. data \in [0..(n - 1) -> Contents]
    BY DEF Contents
  <2>4. inst.impl = c /\ inst.data = data
    OBVIOUS
  <2>5. inst \in Instances
    <3>1. inst \in [impl : ClassIds, data : [0..(n - 1) -> Contents]]
      BY <1>0, <2>3 DEF ClassesInv
    <3> QED  BY <2>2, <3>1 DEF Instances
  <2> HIDE DEF inst
  <2>6. heap \in Seq(Instances)
    BY <1>0 DEF HeapInv
  <2>7. /\ heap' \in Seq(Instances)
        /\ Len(heap') = Len(heap) + 1
        /\ \A i \in 1..Len(heap) : heap'[i] = heap[i]
        /\ heap'[Len(heap) + 1] = inst
    BY <2>1, <2>5, <2>6, AppendProperties
  <2>8. ASSUME NEW i \in DOMAIN heap'
        PROVE  /\ heap'[i].impl \in DOMAIN classes
               /\ heap'[i].data \in [0..(FieldCount(classes[heap'[i].impl]) - 1) -> Contents]
    <3>1. i \in 1..(Len(heap) + 1)
      BY <2>6, <2>7
    <3>2. CASE i \in 1..Len(heap)
      <4>1. i \in DOMAIN heap /\ heap'[i] = heap[i]
        BY <2>6, <2>7, <3>2
      <4> QED  BY <1>0, <4>1 DEF HeapInv
    <3>3. CASE i = Len(heap) + 1
      <4>1. heap'[i] = inst
        BY <2>7, <3>3
      <4> QED  BY <2>3, <2>4, <4>1
    <3> QED  BY <2>6, <3>1, <3>2, <3>3
  <2> QED  BY <2>1, <2>7, <2>8 DEF HeapInv, FieldCount
<1>11. ASSUME NEW i \in DOMAIN heap, NEW f \in FieldIds, NEW value \in Values,
              OP_SET_FIELD(i, f, value)
       PROVE  HeapInv'
  <2>1. CASE Error
    BY <1>1, <2>1
  <2>2. CASE ~Error
    <3> DEFINE slot == FieldsOf(i)[f]
    <3>1. /\ f \in DOMAIN FieldsOf(i)
          /\ heap' = [heap EXCEPT ![i].data[slot] = value]
          /\ phase = "running" /\ phase' = phase /\ classes' = classes
      BY <1>11, <2>2 DEF OP_SET_FIELD, RunTimeError
    <3>2. heap \in Seq(Instances)
      BY <1>0 DEF HeapInv
    <3>3. /\ heap[i].impl \in DOMAIN classes
          /\ heap[i].data \in [0..(FieldCount(classes[heap[i].impl]) - 1) -> Contents]
          /\ heap[i] = [impl |-> heap[i].impl, data |-> heap[i].data]
      BY <1>0, <3>2 DEF HeapInv, Instances
    <3> DEFINE n == FieldCount(classes[heap[i].impl])
               data == [heap[i].data EXCEPT ![slot] = value]
               inst == [heap[i] EXCEPT !.data = data]
    <3>4. n \in Nat
      BY <1>0, <3>3, FS_CardinalityType DEF ClassesInv, GoodClass, Numbering, FieldCount
    <3>5. heap' = [heap EXCEPT ![i] = inst]
      BY <3>1
    <3>6. data \in [0..(n - 1) -> Contents]
      <4> HIDE DEF n, slot
      <4>1. value \in Contents
        BY DEF Contents
      <4> QED  BY <3>3, <4>1 DEF n
    <3>7. inst = [impl |-> heap[i].impl, data |-> data]
      <4> HIDE DEF data
      <4> QED  BY <3>3
    <3>8. inst.impl = heap[i].impl /\ inst.data = data
      <4> HIDE DEF data, inst
      <4> QED  BY <3>7
    <3>9. inst \in Instances
      <4>1. heap[i].impl \in ClassIds
        BY <1>0, <3>3 DEF ClassesInv
      <4>2. inst \in [impl : ClassIds, data : [0..(n - 1) -> Contents]]
        <5> HIDE DEF data, inst, n
        <5> QED  BY <3>6, <3>7, <4>1
      <4> HIDE DEF inst, n
      <4> QED  BY <3>4, <4>2 DEF Instances
    <3> HIDE DEF inst, data
    <3>10. /\ heap' \in Seq(Instances)
           /\ DOMAIN heap' = DOMAIN heap
           /\ \A j \in DOMAIN heap : heap'[j] = IF j = i THEN inst ELSE heap[j]
      BY <3>2, <3>5, <3>9
    <3>11. ASSUME NEW j \in DOMAIN heap'
           PROVE  /\ heap'[j].impl \in DOMAIN classes
                  /\ heap'[j].data \in
                       [0..(FieldCount(classes[heap'[j].impl]) - 1) -> Contents]
      <4>1. CASE j = i
        BY <3>3, <3>6, <3>8, <3>10, <4>1
      <4>2. CASE j # i
        BY <1>0, <3>10, <4>2 DEF HeapInv
      <4> QED  BY <4>1, <4>2
    <3> QED  BY <3>1, <3>10, <3>11 DEF HeapInv, FieldCount
  <2> QED  BY <2>1, <2>2
<1>12. ASSUME NEW i \in DOMAIN heap, NEW f \in FieldIds,
              OP_GET_FIELD(i, f) \/ \E m \in MethodIds, argc \in Argcs : OP_METHOD(i, m, argc, f)
       PROVE  HeapInv'
  BY <1>0, <1>1, <1>12, HeapInvStays DEF OP_GET_FIELD, OP_METHOD, RunTimeError
<1>13. CASE UNCHANGED classVars
  BY <1>0, <1>13, HeapInvStays DEF classVars
<1> QED
  BY <1>2, <1>3, <1>4, <1>5, <1>6, <1>7, <1>8, <1>9, <1>10, <1>11, <1>12, <1>13 DEF Next

(* Classes and instances agree in every reachable state.                   *)
LEMMA AlwaysObjectsInv == Spec => []ObjectsInv
<1>1. Init => ObjectsInv
  BY ClassesInvInit, HeapInvInit DEF ObjectsInv
<1>2. ObjectsInv /\ [Next]_classVars => ObjectsInv'
  BY ClassesInvIsKept, HeapInvIsKept DEF ObjectsInv
<1> QED  BY <1>1, <1>2, PTL DEF Spec

-----------------------------------------------------------------------------
(* Instances implement records of named fields *)

Record(i) == [f \in DOMAIN FieldsOf(i) |-> heap[i].data[FieldsOf(i)[f]]]

(* The refinement mapping of the model's ImplementsObjects.                *)
TheObjects == [i \in DOMAIN heap |-> Record(i)]

Records == UNION {[fs -> Contents] : fs \in SUBSET FieldIds}

(* Every slot the table of fields answers is a place of the instance.      *)
LEMMA SlotsArePlaces ==
  ASSUME ObjectsInv, NEW i \in DOMAIN heap
  PROVE  /\ DOMAIN FieldsOf(i) \in SUBSET FieldIds
         /\ \A f \in DOMAIN FieldsOf(i) : FieldsOf(i)[f] \in DOMAIN heap[i].data
         /\ \A f, g \in DOMAIN FieldsOf(i) : FieldsOf(i)[f] = FieldsOf(i)[g] => f = g
         /\ heap[i].data \in [DOMAIN heap[i].data -> Contents]
<1> DEFINE cl == classes[heap[i].impl]
<1>1. /\ heap[i].impl \in DOMAIN classes
      /\ heap[i].data \in [0..(FieldCount(cl) - 1) -> Contents]
  BY DEF ObjectsInv, HeapInv
<1>2. Numbering(cl.fields)
  BY <1>1 DEF ObjectsInv, ClassesInv, GoodClass
<1>3. \A f \in DOMAIN cl.fields : cl.fields[f] \in 0..(FieldCount(cl) - 1)
  BY <1>2 DEF Numbering, FieldCount
<1> QED  BY <1>1, <1>2, <1>3 DEF FieldsOf, Numbering

(* The instances, read through the slots of their classes, are a sequence  *)
(* of records.                                                             *)
LEMMA TheObjectsAreRecords ==
  ASSUME ObjectsInv
  PROVE  /\ TheObjects \in Seq(Records)
         /\ Len(TheObjects) = Len(heap)
         /\ DOMAIN TheObjects = DOMAIN heap
         /\ DOMAIN heap = 1..Len(heap) /\ Len(heap) \in Nat
<1>1. Len(heap) \in Nat /\ DOMAIN heap = 1..Len(heap)
  BY DEF ObjectsInv, HeapInv
<1>2. ASSUME NEW i \in DOMAIN heap PROVE Record(i) \in Records
  <2>1. Record(i) \in [DOMAIN FieldsOf(i) -> Contents]
    BY SlotsArePlaces DEF Record
  <2> QED  BY <2>1, SlotsArePlaces DEF Records
<1>3. TheObjects \in [1..Len(heap) -> Records]
  BY <1>1, <1>2 DEF TheObjects
<1> QED  BY <1>1, <1>3

(* Steps of the parser and errors leave every instance alone.              *)
LEMMA ObjectsUntouched ==
  ASSUME ObjectsInv, UNCHANGED <<heap, access, answer>>,
         phase = "parsing" \/ classes' = classes
  PROVE  UNCHANGED <<TheObjects, access, answer>>
<1>1. CASE phase = "parsing"
  <2>1. heap = <<>> /\ heap' = <<>>
    BY <1>1 DEF ObjectsInv, HeapInv
  <2> QED  BY <2>1 DEF TheObjects
<1>2. CASE classes' = classes
  BY <1>2 DEF TheObjects, Record, FieldsOf
<1> QED  BY <1>1, <1>2

(* mk_objinstance makes a record whose fields are all unset.               *)
LEMMA ConstructIsNew ==
  ASSUME ObjectsInv, ObjectsInv', NEW c \in DOMAIN classes, NEW argc \in Argcs,
         Construct(c, argc)
  PROVE  Objs!New
<1> DEFINE fields == classes[c].fields
           fs == DOMAIN fields
           blank == [f \in fs |-> UNINIT]
           n == FieldCount(classes[c])
           inst == [impl |-> c, data |-> [i \in 0..(n - 1) |-> UNINIT]]
<1>1. /\ heap' = Append(heap, inst) /\ classes' = classes
      /\ answer' = UNINIT /\ access' = access
  BY DEF Construct
<1>2. Numbering(fields) /\ n = Cardinality(fs)
  BY DEF ObjectsInv, ClassesInv, GoodClass, FieldCount
<1>3. fs \in SUBSET FieldIds /\ \A f \in fs : fields[f] \in 0..(n - 1)
  BY <1>2 DEF Numbering
<1>4. heap \in Seq(Instances) /\ heap' \in Seq(Instances)
  BY DEF ObjectsInv, HeapInv
<1>5. /\ Len(heap') = Len(heap) + 1
      /\ DOMAIN heap' = 1..(Len(heap) + 1)
      /\ \A i \in 1..Len(heap) : heap'[i] = heap[i]
      /\ heap'[Len(heap) + 1] = inst
  <2> HIDE DEF inst
  <2> QED  BY <1>1, <1>4
<1>6. /\ TheObjects \in Seq(Records) /\ TheObjects' \in Seq(Records)
      /\ Len(TheObjects) = Len(heap) /\ Len(TheObjects') = Len(heap')
      /\ DOMAIN heap = 1..Len(heap) /\ Len(heap) \in Nat
  <2>1. ObjectsInv => TheObjects \in Seq(Records) /\ Len(TheObjects) = Len(heap)
    BY TheObjectsAreRecords
  <2>2. (ObjectsInv => TheObjects \in Seq(Records) /\ Len(TheObjects) = Len(heap))'
    BY TheObjectsAreRecords, PTL
  <2> QED  BY <2>1, <2>2, TheObjectsAreRecords
<1>7. blank \in Records
  <2>1. blank \in [fs -> Contents]
    BY DEF Contents
  <2> QED  BY <2>1, <1>3 DEF Records
<1>8. ASSUME NEW i \in 1..Len(heap) PROVE TheObjects'[i] = TheObjects[i]
  <2>1. heap'[i] = heap[i] /\ i \in DOMAIN heap /\ i \in DOMAIN heap'
    BY <1>5, <1>6
  <2> QED  BY <2>1, <1>1 DEF TheObjects, Record, FieldsOf
<1>9. TheObjects'[Len(heap) + 1] = blank
  <2> DEFINE k == Len(heap) + 1
  <2>1. k \in DOMAIN heap' /\ heap'[k] = inst
    BY <1>5, <1>6
  <2>2. heap'[k].impl = c /\ heap'[k].data = [i \in 0..(n - 1) |-> UNINIT]
    <3> HIDE DEF k, n
    <3> QED  BY <2>1
  <2>3. TheObjects'[k] = [f \in DOMAIN classes'[heap'[k].impl].fields |->
                            heap'[k].data[classes'[heap'[k].impl].fields[f]]]
    <3> HIDE DEF k, inst, n
    <3> QED  BY <2>1 DEF TheObjects, Record, FieldsOf
  <2>4. TheObjects'[k] = [f \in fs |-> heap'[k].data[fields[f]]]
    <3> HIDE DEF k, n
    <3> QED  BY <2>2, <2>3, <1>1
  <2>5. \A f \in fs : heap'[k].data[fields[f]] = UNINIT
    <3> HIDE DEF k, n, fields
    <3> QED  BY <2>2, <1>3
  <2> HIDE DEF k
  <2>6. TheObjects'[k] = blank
    BY <2>4, <2>5
  <2> QED  BY <2>6 DEF k
<1>10. TheObjects' = Append(TheObjects, blank)
  <2> HIDE DEF blank
  <2>1. /\ Append(TheObjects, blank) \in Seq(Records)
        /\ Len(Append(TheObjects, blank)) = Len(heap) + 1
        /\ \A i \in 1..Len(heap) : Append(TheObjects, blank)[i] = TheObjects[i]
        /\ Append(TheObjects, blank)[Len(heap) + 1] = blank
    BY <1>6, <1>7, AppendProperties
  <2>2. \A i \in 1..(Len(heap) + 1) : TheObjects'[i] = Append(TheObjects, blank)[i]
    BY <1>6, <1>8, <1>9, <2>1
  <2> QED  BY <1>5, <1>6, <2>1, <2>2, SeqEqual
<1> QED
  BY <1>1, <1>3, <1>10 DEF Objs!New, TheObjects, Record

(* Storing in a slot changes that field of that record, and no other.      *)
LEMMA SetIsSetField ==
  ASSUME ObjectsInv, NEW i \in DOMAIN heap, NEW f \in FieldIds, NEW value \in Values,
         OP_SET_FIELD(i, f, value), ~RunTimeError
  PROVE  Objs!SetField(i, f, value)
<1> DEFINE slot == FieldsOf(i)[f]
<1>1. /\ f \in DOMAIN FieldsOf(i)
      /\ heap' = [heap EXCEPT ![i].data[slot] = value]
      /\ classes' = classes /\ access' = <<i, f>> /\ answer' = value
  BY DEF OP_SET_FIELD
<1>2. heap \in Seq(Instances) /\ DOMAIN heap' = DOMAIN heap
  BY <1>1 DEF ObjectsInv, HeapInv
<1>3. heap[i] = [impl |-> heap[i].impl, data |-> heap[i].data]
  BY <1>2 DEF Instances
<1>4. /\ heap'[i].impl = heap[i].impl
      /\ heap'[i].data = [heap[i].data EXCEPT ![slot] = value]
      /\ \A j \in DOMAIN heap : j # i => heap'[j] = heap[j]
  <2> DEFINE data == [heap[i].data EXCEPT ![slot] = value]
  <2>1. heap' = [heap EXCEPT ![i] = [heap[i] EXCEPT !.data = data]]
    BY <1>1
  <2> HIDE DEF data
  <2>2. heap'[i] = [heap[i] EXCEPT !.data = data]
    BY <2>1, <1>2
  <2>3. heap'[i].impl = heap[i].impl /\ heap'[i].data = data
    BY <2>2, <1>3
  <2>4. \A j \in DOMAIN heap : j # i => heap'[j] = heap[j]
    BY <2>1, <1>2
  <2> QED  BY <2>3, <2>4 DEF data
<1>5. FieldsOf(i)' = FieldsOf(i)
  BY <1>1, <1>4 DEF FieldsOf
<1>6. \A g \in DOMAIN FieldsOf(i) :
        heap'[i].data[FieldsOf(i)[g]] = IF g = f THEN value ELSE heap[i].data[FieldsOf(i)[g]]
  BY <1>1, <1>4, SlotsArePlaces
<1>7. Record(i)' = [Record(i) EXCEPT ![f] = value]
  BY <1>1, <1>5, <1>6 DEF Record
<1>8. ASSUME NEW j \in DOMAIN heap, j # i PROVE Record(j)' = Record(j)
  BY <1>1, <1>4, <1>8 DEF Record, FieldsOf
<1>9. TheObjects' = [TheObjects EXCEPT ![i][f] = value]
  <2>1. TheObjects' = [j \in DOMAIN heap |-> Record(j)']
    BY <1>2 DEF TheObjects
  <2>2. [TheObjects EXCEPT ![i][f] = value]
          = [j \in DOMAIN heap |-> IF j = i THEN [Record(j) EXCEPT ![f] = value] ELSE Record(j)]
    BY DEF TheObjects
  <2> QED  BY <2>1, <2>2, <1>7, <1>8
<1>10. f \in DOMAIN TheObjects[i]
  BY <1>1 DEF TheObjects, Record
<1> QED  BY <1>1, <1>9, <1>10 DEF Objs!SetField, TheObjects, Record

(* Reading a slot yields that field of that record.                        *)
LEMMA GetIsGetField ==
  ASSUME NEW i \in DOMAIN heap, NEW f \in FieldIds, OP_GET_FIELD(i, f), ~RunTimeError
  PROVE  Objs!GetField(i, f)
<1>1. /\ f \in DOMAIN FieldsOf(i)
      /\ UNCHANGED <<heap, classes>>
      /\ access' = <<i, f>> /\ answer' = heap[i].data[FieldsOf(i)[f]]
  BY DEF OP_GET_FIELD
<1>2. f \in DOMAIN TheObjects[i] /\ answer' = TheObjects[i][f]
  BY <1>1 DEF TheObjects, Record
<1>3. TheObjects' = TheObjects
  BY <1>1 DEF TheObjects, Record, FieldsOf
<1> QED  BY <1>1, <1>2, <1>3 DEF Objs!GetField, TheObjects, Record

(* Every operation is a step of the records, or none.                      *)
LEMMA ObjectsStep ==
  ASSUME ObjectsInv, ObjectsInv', [Next]_classVars
  PROVE  [Objs!ObjectsNext]_Objs!objectVars
<1>0. ASSUME UNCHANGED <<TheObjects, access, answer>>
      PROVE  UNCHANGED Objs!objectVars
  BY <1>0 DEF Objs!objectVars, TheObjects, Record
<1>1. ASSUME Error PROVE UNCHANGED <<TheObjects, access, answer>>
  BY <1>1, ObjectsUntouched DEF Error
<1>2. ASSUME NEW c \in ClassIds, OpenClass(c) \/ AddAncestor(c)
      PROVE  UNCHANGED <<TheObjects, access, answer>>
  BY <1>1, <1>2, ObjectsUntouched DEF OpenClass, AddAncestor, Reads
<1>3. ASSUME NEW f \in FieldIds, Field(f)
      PROVE  UNCHANGED <<TheObjects, access, answer>>
  BY <1>1, <1>3, ObjectsUntouched DEF Field, Reads
<1>4. ASSUME NEW m \in MethodIds, NEW argc \in Argcs, NEW isOverride \in BOOLEAN,
             Method(m, argc, isOverride)
      PROVE  UNCHANGED <<TheObjects, access, answer>>
  BY <1>1, <1>4, ObjectsUntouched DEF Method, Reads
<1>5. ASSUME NEW argc \in Argcs, DeclareConstructor(argc)
      PROVE  UNCHANGED <<TheObjects, access, answer>>
  BY <1>1, <1>5, ObjectsUntouched DEF DeclareConstructor, Reads
<1>6. CASE CloseClass \/ OpenMembers \/ StartProgram
  <2>1. UNCHANGED <<TheObjects, access, answer>>
    BY <1>6, ObjectsUntouched DEF CloseClass, OpenMembers, StartProgram
  <2> QED  BY <1>0, <2>1
<1>7. ASSUME NEW c \in DOMAIN classes, NEW argc \in Argcs, CallConstructor(c, argc)
      PROVE  UNCHANGED <<TheObjects, access, answer>>
  BY <1>1, <1>7, ObjectsUntouched DEF CallConstructor
<1>8. ASSUME NEW c \in DOMAIN classes, NEW argc \in Argcs, Construct(c, argc)
      PROVE  Objs!ObjectsNext
  BY <1>8, ConstructIsNew DEF Objs!ObjectsNext
<1>9. ASSUME NEW i \in DOMAIN heap
      PROVE  i \in DOMAIN TheObjects
  BY <1>9 DEF TheObjects
<1>10. ASSUME NEW i \in DOMAIN heap, NEW f \in FieldIds, NEW value \in Values,
              OP_SET_FIELD(i, f, value)
       PROVE  [Objs!ObjectsNext]_Objs!objectVars
  <2>1. CASE RunTimeError
    BY <1>0, <1>1, <2>1 DEF RunTimeError
  <2>2. CASE ~RunTimeError
    <3>1. Objs!SetField(i, f, value)
      BY <1>10, <2>2, SetIsSetField
    <3> QED  BY <1>9, <3>1 DEF Objs!ObjectsNext, TheObjects, Record
  <2> QED  BY <2>1, <2>2
<1>11. ASSUME NEW i \in DOMAIN heap, NEW f \in FieldIds,
              OP_GET_FIELD(i, f) \/ \E m \in MethodIds, argc \in Argcs : OP_METHOD(i, m, argc, f)
       PROVE  [Objs!ObjectsNext]_Objs!objectVars
  <2>1. CASE RunTimeError
    BY <1>0, <1>1, <2>1 DEF RunTimeError
  <2>2. CASE ~RunTimeError
    <3>1. OP_GET_FIELD(i, f)
      BY <1>11, <2>2 DEF OP_METHOD
    <3>2. Objs!GetField(i, f)
      BY <3>1, <2>2, GetIsGetField
    <3> QED  BY <1>9, <3>2 DEF Objs!ObjectsNext, TheObjects, Record
  <2> QED  BY <2>1, <2>2
<1>12. CASE UNCHANGED classVars
  <2>1. UNCHANGED <<TheObjects, access, answer>>
    BY <1>12 DEF classVars, TheObjects, Record, FieldsOf
  <2> QED  BY <1>0, <2>1
<1> QED
  BY <1>0, <1>2, <1>3, <1>4, <1>5, <1>6, <1>7, <1>8, <1>10, <1>11, <1>12 DEF Next

(* Instances of classes, with their data arrays and the slots looked up by *)
(* name in tables the class inherited, behave as records of named fields:  *)
(* vm.c:447-480 against what the language means by a field.                *)
THEOREM InstancesAreRecords == Spec => ImplementsObjects
<1>1. Init => Objs!ObjectsInit
  BY DEF Init, Objs!ObjectsInit
<1>2. ObjectsInv /\ ObjectsInv' /\ [Next]_classVars => [Objs!ObjectsNext]_Objs!objectVars
  BY ObjectsStep
<1> QED
  BY <1>1, <1>2, AlwaysObjectsInv, PTL DEF Spec, ImplementsObjects, Objs!ObjectsSpec

=============================================================================
