---------------------------- MODULE ScopeProofs ----------------------------
(***************************************************************************)
(* Proofs about scope.c for any set of identifiers, any array capacities   *)
(* and any nesting: the invariants of ScopeMachine, that closing a scope   *)
(* restores the locals that were there when it was opened, and that the    *)
(* flat array implements nested blocks.                                    *)
(***************************************************************************)
EXTENDS ScopeMachine, SequenceTheorems, WellFoundedInduction, TLAPS

(* The inductive invariant is the conjunction of the checked ones: the     *)
(* depths are tied to the marks, which ties what EndScope drops to what    *)
(* was declared since the scope was opened.                                *)
IInv == /\ TypeOK
        /\ DepthsFollowMarks
        /\ GlobalScopeIsEmpty
        /\ NamesUniquePerScope
        /\ WithinLimits

(* The loop of end_scope stops exactly at the mark of the scope it closes. *)
LEMMA KeptIsMark ==
  ASSUME TypeOK, DepthsFollowMarks, ~Defining, ~IsGlobalScope(scope)
  PROVE  /\ Kept(scope, scope.depth - 1) = marks[Len(marks)]
         /\ marks[Len(marks)] \in 0..Len(scope.locals)
         /\ Len(marks) \in Nat \ {0}
         /\ Len(marks) = scope.depth
<1> DEFINE n == Len(scope.locals)
           d == scope.depth - 1
           m == marks[Len(marks)]
           Stops(k) == /\ k > 0 => scope.locals[k].depth <= d
                       /\ \A j \in (k + 1)..n : scope.locals[j].depth > d
<1>1. /\ n \in Nat
      /\ scope.depth \in Nat \ {0}
      /\ Len(marks) = scope.depth
      /\ DefinedCount = n
  BY DEF TypeOK, ScopeRecord, DepthsFollowMarks, IsGlobalScope, DefinedCount
<1>2. m \in 0..n
  BY <1>1 DEF DepthsFollowMarks
<1>3. \A i \in 1..n : /\ scope.locals[i].depth \in Int
                      /\ scope.locals[i].depth >= scope.depth <=> i > m
  BY <1>1, SMTT(40) DEF TypeOK, ScopeRecord, DepthsFollowMarks, LocalRecord
<1> HIDE DEF n, m
<1>4. Stops(m)
  BY <1>1, <1>2, <1>3
<1>5. \A k \in 0..n : Stops(k) => k = m
  <2> SUFFICES ASSUME NEW k \in 0..n, Stops(k), k # m PROVE FALSE
    OBVIOUS
  <2>1. CASE k > m
    BY <2>1, <1>1, <1>2, <1>3
  <2>2. CASE k < m
    <3>1. m \in (k + 1)..n /\ m \in 1..n
      BY <2>2, <1>1, <1>2
    <3>2. scope.locals[m].depth > d
      BY <3>1
    <3> QED BY <3>1, <3>2, <1>1, <1>3
  <2> QED BY <2>1, <2>2, <1>2
<1>6. (CHOOSE k \in 0..n : Stops(k)) = m
  BY <1>2, <1>4, <1>5
<1>7. Kept(scope, d) = m
  BY <1>6 DEF Kept, n
<1> QED BY <1>1, <1>2, <1>7 DEF n, m

(* A set of naturals that is not empty has a least element: what the       *)
(* searches of find_argument and resolve_local need to stop at.            *)
LEMMA LeastElement ==
  ASSUME NEW S, S \subseteq Nat, S # {}
  PROVE  \E m \in S : \A k \in S : m <= k
<1>1. PICK m \in S : \A k \in S : ~(<<k, m>> \in OpToRel(<, Nat))
  BY NatLessThanWellFounded, WFMin
<1>2. ASSUME NEW k \in S PROVE m <= k
  <2>1. k \in Nat /\ m \in Nat
    OBVIOUS
  <2>2. <<k, m>> \in OpToRel(<, Nat) <=> <<k, m>> \in Nat \X Nat /\ k < m
    BY DEF OpToRel
  <2>3. ~(k < m)
    BY <1>1, <2>1, <2>2, Zenon
  <2> QED BY <2>1, <2>3
<1> QED BY <1>2

(* find_argument returns the index of the first argument of that name.     *)
LEMMA FindArgumentIsIndex ==
  ASSUME TypeOK, NEW id
  PROVE  /\ FindArgument(scope, id) \in -1..(Len(scope.args) - 1)
         /\ FindArgument(scope, id) # -1 =>
              scope.args[FindArgument(scope, id) + 1] = id
         /\ FindArgument(scope, id) = -1 =>
              \A i \in 1..Len(scope.args) : scope.args[i] # id
<1> DEFINE n == Len(scope.args)
           S == {i \in 1..n : scope.args[i] = id}
           First(i) == scope.args[i] = id /\ \A j \in 1..(i - 1) : scope.args[j] # id
<1>1. n \in Nat
  BY DEF TypeOK, ScopeRecord
<1>2. CASE S = {}
  BY <1>1, <1>2 DEF FindArgument
<1>3. CASE S # {}
  <2>0. S \subseteq Nat
    BY <1>1
  <2>1. PICK m \in S : \A k \in S : m <= k
    <3> HIDE DEF S
    <3> QED BY <2>0, <1>3, LeastElement
  <2>2. m \in 1..n /\ First(m)
    BY <1>1, <2>1
  <2>3. PICK c : c = CHOOSE i \in 1..n : First(i)
    OBVIOUS
  <2>4. c \in 1..n /\ First(c)
    BY <2>2, <2>3
  <2>5. FindArgument(scope, id) = c - 1
    BY <2>2, <2>3 DEF FindArgument
  <2> QED BY <1>1, <2>4, <2>5
<1> QED BY <1>2, <1>3

(* The local that resolve_local finds is the topmost of its name.          *)
LEMMA TopLocalIsTopmost ==
  ASSUME TypeOK, NEW id
  PROVE  /\ TopLocal(scope, id) \in 0..Len(scope.locals)
         /\ TopLocal(scope, id) > 0 =>
              /\ scope.locals[TopLocal(scope, id)].id = id
              /\ \A j \in (TopLocal(scope, id) + 1)..Len(scope.locals) :
                   scope.locals[j].id # id
         /\ TopLocal(scope, id) = 0 =>
              \A i \in 1..Len(scope.locals) : scope.locals[i].id # id
<1> DEFINE n == Len(scope.locals)
           S == {n - i : i \in {k \in 1..n : scope.locals[k].id = id}}
           Top(i) == /\ scope.locals[i].id = id
                     /\ \A j \in (i + 1)..n : scope.locals[j].id # id
<1>1. n \in Nat
  BY DEF TypeOK, ScopeRecord
<1>2. CASE \A i \in 1..n : scope.locals[i].id # id
  BY <1>1, <1>2 DEF TopLocal
<1>3. CASE \E i \in 1..n : scope.locals[i].id = id
  <2>1. S \subseteq Nat /\ S # {}
    <3>1. ASSUME NEW k \in 1..n PROVE n - k \in Nat
      BY <1>1
    <3>2. PICK i \in 1..n : scope.locals[i].id = id
      BY <1>3
    <3>3. n - i \in S
      BY <3>2
    <3> QED BY <3>1, <3>3
  <2>2. PICK m \in S : \A k \in S : m <= k
    <3> HIDE DEF S
    <3> QED BY <2>1, LeastElement
  <2>3. n - m \in 1..n /\ Top(n - m)
    <3>1. PICK i \in 1..n : scope.locals[i].id = id /\ m = n - i
      BY <2>2
    <3>2. ASSUME NEW j \in (i + 1)..n, scope.locals[j].id = id PROVE FALSE
      <4>1. j \in 1..n
        BY <1>1, <3>1
      <4>2. n - j \in S
        BY <3>2, <4>1
      <4>3. m <= n - j
        BY <2>2, <4>2
      <4> HIDE DEF S
      <4> QED BY <1>1, <3>1, <4>3
    <3>3. n - m = i
      BY <1>1, <3>1
    <3> QED BY <3>1, <3>2, <3>3
  <2>4. PICK c : c = CHOOSE i \in 1..n : Top(i)
    OBVIOUS
  <2>5. c \in 1..n /\ Top(c)
    BY <2>3, <2>4
  <2>6. TopLocal(scope, id) = c
    BY <1>3, <2>4 DEF TopLocal
  <2> QED BY <1>1, <2>5, <2>6
<1> QED BY <1>2, <1>3

(* With no definition in progress every local has a depth of an open       *)
(* scope.                                                                  *)
LEMMA AllDefined ==
  ASSUME TypeOK, DepthsFollowMarks, ~Defining
  PROVE  /\ DefinedCount = Len(scope.locals)
         /\ Len(scope.locals) \in Nat
         /\ \A i \in 1..Len(scope.locals) :
              /\ scope.locals[i] \in LocalRecord
              /\ scope.locals[i].depth \in 1..scope.depth
              /\ ScopeOf(i) = scope.locals[i].depth
<1>1. DefinedCount = Len(scope.locals) /\ Len(scope.locals) \in Nat
  BY DEF DefinedCount, TypeOK, ScopeRecord
<1>2. ASSUME NEW i \in 1..Len(scope.locals)
      PROVE  /\ scope.locals[i] \in LocalRecord
             /\ scope.locals[i].depth \in 1..scope.depth
             /\ ScopeOf(i) = scope.locals[i].depth
  <2>1. scope.locals[i] \in LocalRecord
    BY DEF TypeOK, ScopeRecord
  <2>2. scope.locals[i].depth \in 1..scope.depth
    BY <1>1 DEF DepthsFollowMarks
  <2> QED BY <2>1, <2>2 DEF ScopeOf, Undefined, TypeOK, ScopeRecord
<1> QED BY <1>1, <1>2

(* begin_scope keeps the invariant: the new scope has no locals yet.       *)
LEMMA BeginStep == ASSUME IInv, Begin PROVE IInv'
<1> USE DEF IInv
<1> DEFINE n == Len(scope.locals)
<1>1. /\ scope' = [scope EXCEPT !.depth = scope.depth + 1]
      /\ marks' = Append(marks, n)
      /\ UNCHANGED <<answer, refused>>
      /\ ~Defining
  BY DEF Begin, BeginScope
<1>2. /\ scope'.locals = scope.locals
      /\ scope'.args = scope.args
      /\ scope'.depth = scope.depth + 1
      /\ scope.depth \in Nat
      /\ n \in Nat
  BY <1>1 DEF TypeOK, ScopeRecord
<1>3. TypeOK'
  <2>1. scope' \in ScopeRecord
    BY <1>1, <1>2, SMTT(40) DEF TypeOK, ScopeRecord
  <2>2. marks' \in Seq(Nat)
    BY <1>1, <1>2, AppendProperties DEF TypeOK
  <2> QED BY <1>1, <2>1, <2>2 DEF TypeOK
<1>4. ~Defining' /\ DefinedCount' = n
  BY <1>1, <1>2 DEF Defining, DefinedCount
<1>5. DepthsFollowMarks'
  <2>1. Len(marks') = scope.depth + 1 /\ marks'[Len(marks')] = n
    BY <1>1, <1>2 DEF TypeOK, ScopeRecord, DepthsFollowMarks
  <2>2. \A d \in 1..Len(marks) : marks'[d] = marks[d] /\ marks[d] \in 0..n
    BY <1>1, AllDefined DEF TypeOK, ScopeRecord, DepthsFollowMarks
  <2>3. \A i \in 1..n : scope'.locals[i].depth \in 1..scope.depth
    BY <1>1, <1>2, AllDefined
  <2>4. \A i \in 1..n, d \in 1..Len(marks) :
          scope'.locals[i].depth >= d <=> i > marks'[d]
    BY <1>1, <1>2, <2>2, AllDefined, SMTT(40) DEF DepthsFollowMarks
  <2>5. Len(marks) = scope.depth
    BY DEF DepthsFollowMarks
  <2> QED BY <1>2, <1>4, <2>1, <2>2, <2>3, <2>4, <2>5, SMTT(40) DEF DepthsFollowMarks
<1>6. GlobalScopeIsEmpty'
  BY <1>2 DEF GlobalScopeIsEmpty, IsGlobalScope
<1>7. NamesUniquePerScope'
  <2>1. \A i \in 1..n : ScopeOf(i)' = ScopeOf(i)
    BY <1>1, <1>2, AllDefined DEF ScopeOf, Undefined
  <2> QED BY <1>2, <2>1 DEF NamesUniquePerScope
<1>8. WithinLimits'
  BY <1>2 DEF WithinLimits
<1> QED BY <1>3, <1>5, <1>6, <1>7, <1>8

(* end_scope keeps the invariant: what stays are the locals of the scopes  *)
(* still open, none at all in the global scope.                            *)
LEMMA EndStep == ASSUME IInv, End PROVE IInv'
<1> USE DEF IInv
<1> DEFINE n == Len(scope.locals)
           m == marks[Len(marks)]
           d0 == scope.depth - 1
<1>1. ~Defining /\ ~IsGlobalScope(scope) /\ UNCHANGED <<answer, refused>>
  BY DEF End
<1>2. /\ Kept(scope, d0) = m
      /\ m \in 0..n
      /\ Len(marks) \in Nat \ {0}
      /\ Len(marks) = scope.depth
  BY <1>1, KeptIsMark
<1>3. /\ scope'.locals = SubSeq(scope.locals, 1, m)
      /\ scope'.args = IF d0 = 0 THEN <<>> ELSE scope.args
      /\ scope'.depth = d0
      /\ scope' = [locals |-> scope'.locals, args |-> scope'.args, depth |-> d0]
      /\ marks' = SubSeq(marks, 1, d0)
  BY <1>2 DEF End, EndScope
<1>4. /\ scope.locals \in Seq(LocalRecord) /\ scope.args \in Seq(Ids)
      /\ marks \in Seq(Nat) /\ n \in Nat
  BY DEF TypeOK, ScopeRecord
<1>5. /\ Len(scope'.locals) = m
      /\ \A i \in 1..m : scope'.locals[i] = scope.locals[i]
      /\ scope'.locals \in Seq(LocalRecord)
  <2>1. \A i \in 1..m : scope.locals[i] \in LocalRecord
    BY <1>2, <1>4
  <2>2. m \in Int /\ (1 <= m \/ m = 0)
    BY <1>2
  <2> HIDE DEF m
  <2>3. /\ SubSeq(scope.locals, 1, m) \in Seq(LocalRecord)
        /\ Len(SubSeq(scope.locals, 1, m)) = m
        /\ \A i \in 1..m : SubSeq(scope.locals, 1, m)[i] = scope.locals[i]
    <3>1. /\ SubSeq(scope.locals, 1, m) \in Seq(LocalRecord)
          /\ Len(SubSeq(scope.locals, 1, m)) = IF 1 <= m THEN m - 1 + 1 ELSE 0
          /\ \A i \in 1..(m - 1 + 1) :
               SubSeq(scope.locals, 1, m)[i] = scope.locals[1 + i - 1]
      BY <2>1, <2>2, SubSeqProperties
    <3> QED BY <3>1, <2>2
  <2> QED BY <2>3, <1>3
<1>6. /\ Len(marks') = d0
      /\ \A d \in 1..d0 : marks'[d] = marks[d]
      /\ marks' \in Seq(Nat)
  BY <1>2, <1>3, <1>4, SubSeqProperties, SMTT(40)
<1>7. scope'.args \in Seq(Ids)
  BY <1>3, <1>4
<1>8. TypeOK'
  <2>1. d0 \in Nat
    BY <1>2
  <2>2. scope' \in ScopeRecord
    BY <2>1, <1>3, <1>5, <1>7 DEF ScopeRecord
  <2> QED BY <1>1, <1>6, <2>2 DEF TypeOK
<1>9. \A i \in 1..m : /\ scope'.locals[i].depth \in 1..d0
                      /\ ScopeOf(i)' = scope.locals[i].depth
                      /\ ScopeOf(i) = scope.locals[i].depth
  <2> SUFFICES ASSUME NEW i \in 1..m
               PROVE  /\ scope'.locals[i].depth \in 1..d0
                      /\ ScopeOf(i)' = scope.locals[i].depth
                      /\ ScopeOf(i) = scope.locals[i].depth
    OBVIOUS
  <2>1. /\ scope.locals[i].depth \in 1..scope.depth
        /\ ScopeOf(i) = scope.locals[i].depth
    BY <1>1, <1>2, AllDefined
  <2>2. ~(scope.locals[i].depth >= scope.depth)
    BY <1>1, <1>2, AllDefined, SMTT(40) DEF DepthsFollowMarks
  <2>3. scope.depth \in Nat /\ scope'.locals[i] = scope.locals[i]
    BY <1>5 DEF TypeOK, ScopeRecord
  <2>4. scope.locals[i].depth \in 1..d0
    BY <2>1, <2>2, <2>3
  <2>5. scope'.locals[i].depth # Undefined
    BY <2>3, <2>4 DEF Undefined
  <2> QED BY <2>1, <2>3, <2>4, <2>5 DEF ScopeOf
<1>10. ~Defining' /\ DefinedCount' = m
  BY <1>2, <1>5, <1>9 DEF Defining, DefinedCount, Undefined
<1>11. DepthsFollowMarks'
  <2>1. \A d \in 1..d0 : marks[d] \in 0..m
    <3> SUFFICES ASSUME NEW d \in 1..d0 PROVE marks[d] <= m /\ marks[d] \in Nat
      BY <1>2
    <3>1. marks[d] \in 0..n
      BY <1>1, <1>2, AllDefined, SMTT(40) DEF DepthsFollowMarks
    <3>2. ASSUME marks[d] > m PROVE FALSE
      <4>1. marks[d] \in 1..n
        BY <3>1, <3>2, <1>2
      <4>2. scope.locals[marks[d]].depth >= scope.depth
        BY <4>1, <3>2, <1>1, <1>2, AllDefined, SMTT(40) DEF DepthsFollowMarks
      <4>3. ~(scope.locals[marks[d]].depth >= d)
        BY <4>1, <1>1, <1>2, AllDefined, SMTT(40) DEF DepthsFollowMarks
      <4>4. scope.locals[marks[d]].depth \in Int
        BY <4>1, <1>1, AllDefined
      <4> QED BY <4>2, <4>3, <4>4, <1>2
    <3> QED BY <3>1, <3>2, <1>2
  <2>2. ASSUME NEW i \in 1..m, NEW d \in 1..d0
        PROVE  scope'.locals[i].depth >= d <=> i > marks'[d]
    <3>1. i \in 1..DefinedCount /\ d \in 1..Len(marks)
      BY <1>1, <1>2, AllDefined
    <3>2. scope.locals[i].depth >= d <=> i > marks[d]
      BY <3>1 DEF DepthsFollowMarks
    <3> QED BY <3>2, <1>5, <1>6
  <2> QED BY <1>3, <1>6, <1>9, <1>10, <2>1, <2>2 DEF DepthsFollowMarks
<1>12. GlobalScopeIsEmpty'
  <2> SUFFICES ASSUME d0 = 0 PROVE scope'.locals = <<>> /\ scope'.args = <<>>
    BY <1>3 DEF GlobalScopeIsEmpty, IsGlobalScope
  <2>1. m = 0
    <3> SUFFICES ASSUME m \in 1..n PROVE FALSE
      BY <1>2
    <3>1. scope.locals[m].depth \in 1..scope.depth
      BY <1>1, AllDefined
    <3>2. ~(scope.locals[m].depth >= scope.depth)
      BY <1>1, <1>2, AllDefined, SMTT(40) DEF DepthsFollowMarks
    <3> QED BY <3>1, <3>2, <1>2
  <2> QED BY <1>3, <1>4, <1>5, <2>1
<1>13. NamesUniquePerScope'
  <2> SUFFICES ASSUME NEW i \in 1..m, NEW j \in 1..m,
                      scope'.locals[i].id = scope'.locals[j].id,
                      ScopeOf(i)' = ScopeOf(j)'
               PROVE  i = j
    BY <1>5 DEF NamesUniquePerScope
  <2>1. scope.locals[i].id = scope.locals[j].id
    BY <1>5
  <2>2. ScopeOf(i) = ScopeOf(j)
    BY <1>9
  <2> QED BY <2>1, <2>2, <1>2, SMTT(40) DEF NamesUniquePerScope
<1>14. WithinLimits'
  <2>1. Len(scope'.args) <= Len(scope.args)
    BY <1>3, <1>4
  <2> QED BY <1>2, <1>4, <1>5, <2>1, LimitsAssumption, SMTT(40) DEF WithinLimits
<1> QED BY <1>8, <1>11, <1>12, <1>13, <1>14

(* define_variable keeps the invariant: the local gets the current depth.  *)
LEMMA DefineStep == ASSUME IInv, Define PROVE IInv'
<1> USE DEF IInv
<1> DEFINE n == Len(scope.locals)
<1>1. /\ scope' = [scope EXCEPT !.locals[n].depth = scope.depth]
      /\ UNCHANGED <<answer, refused, marks>>
      /\ Defining
  BY DEF Define, DefineLocal
<1>2. /\ n \in Nat \ {0}
      /\ DefinedCount = n - 1
      /\ scope.depth \in Nat \ {0}
      /\ scope.locals \in Seq(LocalRecord)
  BY <1>1 DEF Defining, DefinedCount, TypeOK, ScopeRecord, GlobalScopeIsEmpty, IsGlobalScope
<1>3. /\ scope'.args = scope.args
      /\ scope'.depth = scope.depth
      /\ scope'.locals = [scope.locals EXCEPT ![n].depth = scope.depth]
  BY <1>1 DEF TypeOK, ScopeRecord
<1>4. /\ Len(scope'.locals) = n
      /\ \A i \in 1..n : /\ scope'.locals[i].id = scope.locals[i].id
                         /\ scope'.locals[i] \in LocalRecord
      /\ \A i \in 1..(n - 1) : scope'.locals[i] = scope.locals[i]
      /\ scope'.locals[n].depth = scope.depth
      /\ scope'.locals \in Seq(LocalRecord)
  <2>1. /\ n \in 1..n
        /\ scope.locals[n] \in LocalRecord
        /\ [scope.locals[n] EXCEPT !.depth = scope.depth] \in LocalRecord
        /\ [scope.locals[n] EXCEPT !.depth = scope.depth].id = scope.locals[n].id
        /\ [scope.locals[n] EXCEPT !.depth = scope.depth].depth = scope.depth
    <3>1. n \in 1..n /\ scope.locals[n] \in LocalRecord
      BY <1>2
    <3> QED BY <3>1, <1>2 DEF LocalRecord
  <2> DEFINE e == [scope.locals[n] EXCEPT !.depth = scope.depth]
  <2>2. scope'.locals = [scope.locals EXCEPT ![n] = e]
    BY <1>3
  <2>3. \A i \in 1..n : scope.locals[i] \in LocalRecord
    BY <1>2
  <2> HIDE DEF e
  <2>4. /\ scope'.locals \in Seq(LocalRecord)
        /\ Len(scope'.locals) = n
        /\ \A i \in 1..n : scope'.locals[i] = IF i = n THEN e ELSE scope.locals[i]
    BY <2>1, <2>2, <1>2, ExceptSeq DEF e
  <2>5. e \in LocalRecord /\ e.id = scope.locals[n].id /\ e.depth = scope.depth
    BY <2>1 DEF e
  <2>6. \A i \in 1..n : /\ scope'.locals[i].id = scope.locals[i].id
                         /\ scope'.locals[i] \in LocalRecord
    BY <2>3, <2>4, <2>5
  <2>7. \A i \in 1..(n - 1) : scope'.locals[i] = scope.locals[i]
    BY <2>4, <1>2
  <2>8. scope'.locals[n].depth = scope.depth
    BY <2>1, <2>4, <2>5
  <2> QED BY <2>4, <2>6, <2>7, <2>8
<1>5. TypeOK'
  BY <1>1, <1>3, <1>4 DEF TypeOK, ScopeRecord
<1>6. ~Defining' /\ DefinedCount' = n
  BY <1>2, <1>4 DEF Defining, DefinedCount, Undefined
<1>7. DepthsFollowMarks'
  <2>1. \A d \in 1..Len(marks) : marks[d] \in 0..(n - 1)
    BY <1>2 DEF DepthsFollowMarks
  <2>2. \A i \in 1..n : scope'.locals[i].depth \in 1..scope.depth
    BY <1>2, <1>4 DEF DepthsFollowMarks
  <2>3. \A i \in 1..n, d \in 1..Len(marks) :
          scope'.locals[i].depth >= d <=> i > marks[d]
    <3> SUFFICES ASSUME NEW i \in 1..n, NEW d \in 1..Len(marks)
                 PROVE  scope'.locals[i].depth >= d <=> i > marks[d]
      OBVIOUS
    <3>1. CASE i = n
      BY <3>1, <1>2, <1>4, <2>1 DEF DepthsFollowMarks
    <3>2. CASE i # n
      BY <3>2, <1>2, <1>4, SMTT(40) DEF DepthsFollowMarks
    <3> QED BY <3>1, <3>2
  <2>4. Len(marks) = scope.depth
    BY DEF DepthsFollowMarks
  <2> QED BY <1>1, <1>2, <1>3, <1>6, <2>1, <2>2, <2>3, <2>4 DEF DepthsFollowMarks
<1>8. GlobalScopeIsEmpty'
  BY <1>2, <1>3 DEF GlobalScopeIsEmpty, IsGlobalScope
<1>9. NamesUniquePerScope'
  <2>1. \A i \in 1..n : ScopeOf(i)' = ScopeOf(i)
    <3> SUFFICES ASSUME NEW i \in 1..n PROVE ScopeOf(i)' = ScopeOf(i)
      OBVIOUS
    <3>1. CASE i = n
      <4>1. ScopeOf(i) = scope.depth
        BY <3>1, <1>1 DEF ScopeOf, Defining
      <4>2. ScopeOf(i)' = scope.depth
        BY <3>1, <1>3, <1>4 DEF ScopeOf
      <4> QED BY <4>1, <4>2
    <3>2. CASE i # n
      BY <3>2, <1>2, <1>3, <1>4 DEF ScopeOf
    <3> QED BY <3>1, <3>2
  <2> QED BY <1>4, <2>1 DEF NamesUniquePerScope
<1>10. WithinLimits'
  BY <1>3, <1>4 DEF WithinLimits
<1> QED BY <1>5, <1>7, <1>8, <1>9, <1>10

(* A refusal changes nothing but the flag. *)
LEMMA RefuseStep == ASSUME IInv, Refuse PROVE IInv'
BY DEF IInv, Refuse, TypeOK, DepthsFollowMarks, GlobalScopeIsEmpty,
       NamesUniquePerScope, WithinLimits, Defining, DefinedCount, ScopeOf,
       IsGlobalScope

(* declare_argument keeps the invariant, refused or not.                   *)
LEMMA ArgumentStep ==
  ASSUME IInv, NEW id \in Ids, Argument(id) PROVE IInv'
<1>1. CASE Refuse
  BY <1>1, RefuseStep
<1>2. CASE ~Refuse
  <2>1. /\ MayDeclareArgument(scope, id)
        /\ scope' = [scope EXCEPT !.args = Append(scope.args, id)]
        /\ UNCHANGED <<answer, refused, marks>>
        /\ scope.depth # 0
    BY <1>2 DEF Argument, DeclareArgument, IsGlobalScope
  <2>2. /\ scope'.locals = scope.locals
        /\ scope'.depth = scope.depth
        /\ scope'.args = Append(scope.args, id)
        /\ scope.args \in Seq(Ids)
    BY <2>1 DEF IInv, TypeOK, ScopeRecord
  <2>3. TypeOK'
    <3>1. scope'.args \in Seq(Ids)
      BY <2>2, AppendProperties
    <3>2. scope' = [scope EXCEPT !.args = scope'.args]
      BY <2>1, <2>2
    <3>3. scope' \in ScopeRecord
      BY <3>1, <3>2 DEF IInv, TypeOK, ScopeRecord
    <3> QED BY <2>1, <3>3 DEF IInv, TypeOK
  <2>4. Defining' = Defining /\ DefinedCount' = DefinedCount
    BY <2>2 DEF Defining, DefinedCount
  <2>5. DepthsFollowMarks'
    BY <2>1, <2>2, <2>4 DEF IInv, DepthsFollowMarks
  <2>6. GlobalScopeIsEmpty' /\ NamesUniquePerScope'
    BY <2>1, <2>2 DEF IInv, GlobalScopeIsEmpty, NamesUniquePerScope, ScopeOf,
                     IsGlobalScope
  <2>7. WithinLimits'
    BY <2>1, <2>2, LimitsAssumption DEF IInv, WithinLimits, MayDeclareArgument
  <2> QED BY <2>3, <2>5, <2>6, <2>7 DEF IInv
<1> QED BY <1>1, <1>2

(* declare_variable keeps the invariant: a new local has a name its scope  *)
(* does not have, and a place in the array.                                *)
LEMMA DeclareStep ==
  ASSUME IInv, NEW id \in Ids, Declare(id) PROVE IInv'
<1> DEFINE n == Len(scope.locals)
           new == [id |-> id, depth |-> Undefined]
<1>1. CASE Refuse
  BY <1>1, RefuseStep
<1>2. CASE ~Refuse
  <2> USE DEF IInv
  <2>1. /\ ~Defining
        /\ scope.depth # 0
        /\ ~DeclaredHere(scope, id)
        /\ ~LocalsFull(scope)
        /\ scope' = [scope EXCEPT !.locals = Append(scope.locals, new)]
        /\ UNCHANGED <<answer, refused, marks>>
    BY <1>2 DEF Declare, DeclareVariable, DeclareLocal, IsGlobalScope
  <2>2. /\ scope'.locals = Append(scope.locals, new)
        /\ scope'.depth = scope.depth
        /\ scope'.args = scope.args
        /\ scope.locals \in Seq(LocalRecord)
        /\ new \in LocalRecord
        /\ n \in Nat
        /\ scope.depth \in Nat \ {0}
    BY <2>1 DEF TypeOK, ScopeRecord, LocalRecord, Undefined
  <2>3. /\ Len(scope'.locals) = n + 1
        /\ \A i \in 1..n : scope'.locals[i] = scope.locals[i]
        /\ scope'.locals[n + 1] = new
        /\ scope'.locals \in Seq(LocalRecord)
    BY <2>2
  <2>4. TypeOK'
    BY <2>1, <2>2, <2>3 DEF TypeOK, ScopeRecord
  <2>5. DefinedCount' = n
    BY <2>2, <2>3 DEF Defining, DefinedCount, Undefined
  <2>6. DefinedCount = n
    BY <2>1, AllDefined
  <2>7. DepthsFollowMarks'
    BY <2>1, <2>2, <2>3, <2>5, <2>6 DEF DepthsFollowMarks
  <2>8. GlobalScopeIsEmpty'
    BY <2>2 DEF GlobalScopeIsEmpty, IsGlobalScope
  <2>9. NamesUniquePerScope'
    <3>1. \A i \in 1..n : ScopeOf(i)' = ScopeOf(i) /\ ScopeOf(i) = scope.locals[i].depth
      BY <2>1, <2>2, <2>3, AllDefined DEF ScopeOf, Undefined
    <3>2. ASSUME NEW i \in 1..(n + 1), i = n + 1 PROVE ScopeOf(i)' = scope.depth
      <4>1. scope'.locals[i].depth = Undefined
        BY <3>2, <2>3
      <4> QED BY <2>2, <4>1 DEF ScopeOf
    <3>3. ASSUME NEW i \in 1..n, scope.locals[i].id = id,
                 scope.locals[i].depth = scope.depth
          PROVE  FALSE
      <4>1. \A j \in i..n : scope.locals[j].depth = scope.depth
        <5> SUFFICES ASSUME NEW j \in i..n
                     PROVE  scope.locals[j].depth = scope.depth
          OBVIOUS
        <5>1. i > marks[scope.depth]
          BY <3>3, <2>2, <2>6 DEF DepthsFollowMarks
        <5>2. marks[scope.depth] \in Nat
          BY <2>2, <2>6 DEF DepthsFollowMarks
        <5>3. scope.locals[j].depth >= scope.depth
          <6>1. j \in 1..DefinedCount /\ scope.depth \in 1..Len(marks)
            BY <2>2, <2>6 DEF DepthsFollowMarks
          <6>2. j > marks[scope.depth]
            BY <5>1, <5>2, <2>2
          <6> QED BY <6>1, <6>2 DEF DepthsFollowMarks
        <5>4. scope.locals[j].depth \in 1..scope.depth
          BY <2>1, <2>2, AllDefined
        <5> QED BY <5>3, <5>4, <2>2
      <4> QED BY <4>1, <3>3, <2>1 DEF DeclaredHere
    <3> SUFFICES ASSUME NEW i \in 1..(n + 1), NEW j \in 1..(n + 1),
                        scope'.locals[i].id = scope'.locals[j].id,
                        ScopeOf(i)' = ScopeOf(j)'
                 PROVE  i = j
      BY <2>3 DEF NamesUniquePerScope
    <3>4. CASE i \in 1..n /\ j \in 1..n
      <4>1. /\ scope.locals[i].id = scope.locals[j].id
            /\ ScopeOf(i) = ScopeOf(j)
        BY <3>4, <3>1, <2>3
      <4> QED BY <3>4, <4>1 DEF NamesUniquePerScope
    <3>5. CASE i = n + 1 /\ j \in 1..n
      <4>1. scope.locals[j].id = id
        BY <3>5, <2>3
      <4>2. scope.locals[j].depth = scope.depth
        BY <3>5, <3>1, <3>2
      <4> QED BY <3>5, <4>1, <4>2, <3>3
    <3>6. CASE j = n + 1 /\ i \in 1..n
      <4>1. scope.locals[i].id = id
        BY <3>6, <2>3
      <4>2. scope.locals[i].depth = scope.depth
        BY <3>6, <3>1, <3>2
      <4> QED BY <3>6, <4>1, <4>2, <3>3
    <3> QED BY <3>4, <3>5, <3>6, <2>2
  <2>10. WithinLimits'
    BY <2>1, <2>2, <2>3, LimitsAssumption DEF WithinLimits, LocalsFull
  <2> QED BY <2>4, <2>7, <2>8, <2>9, <2>10
<1> QED BY <1>1, <1>2

(* resolve_local changes nothing but the answer, which is an index.        *)
LEMMA ResolveStep ==
  ASSUME IInv, NEW id \in Ids, Resolve(id) PROVE IInv'
<1>1. CASE Refuse
  BY <1>1, RefuseStep
<1>2. CASE ~Refuse
  <2>1. answer' = ResolveLocal(scope, id) /\ UNCHANGED <<scope, refused, marks>>
    BY <1>2 DEF Resolve
  <2>2. ResolveLocal(scope, id) \in Int
    <3>1. FindArgument(scope, id) \in Int
      <4>1. Len(scope.args) \in Nat
        BY DEF IInv, TypeOK, ScopeRecord
      <4> QED BY <4>1, FindArgumentIsIndex DEF IInv
    <3>2. TopLocal(scope, id) \in Int
      BY TopLocalIsTopmost DEF IInv
    <3> QED BY <3>1, <3>2 DEF ResolveLocal
  <2> QED BY <2>1, <2>2
        DEF IInv, TypeOK, DepthsFollowMarks, GlobalScopeIsEmpty,
            NamesUniquePerScope, WithinLimits, Defining, DefinedCount, ScopeOf,
            IsGlobalScope
<1> QED BY <1>1, <1>2

(* The invariant depends on the variables of the scope only.               *)
LEMMA StutterStep == ASSUME IInv, UNCHANGED scopeVars PROVE IInv'
<1>1. /\ scope' = scope /\ asked' = asked /\ answer' = answer
      /\ refused' = refused /\ marks' = marks
  BY DEF scopeVars
<1>2. /\ Defining' = Defining /\ DefinedCount' = DefinedCount
      /\ \A i : ScopeOf(i)' = ScopeOf(i)
  BY <1>1 DEF Defining, DefinedCount, ScopeOf
<1>3. TypeOK'
  BY <1>1 DEF IInv, TypeOK
<1>4. DepthsFollowMarks'
  BY <1>1, <1>2 DEF IInv, DepthsFollowMarks
<1>5. GlobalScopeIsEmpty' /\ WithinLimits'
  BY <1>1 DEF IInv, GlobalScopeIsEmpty, WithinLimits, IsGlobalScope
<1>6. NamesUniquePerScope'
  BY <1>1, <1>2 DEF IInv, NamesUniquePerScope
<1> QED  BY <1>3, <1>4, <1>5, <1>6 DEF IInv

(* Every reachable state of scope.c satisfies the inductive invariant. *)
THEOREM Invariance == Spec => []IInv
<1>1. Init => IInv
  <2> SUFFICES ASSUME Init PROVE IInv
    OBVIOUS
  <2> USE DEF Init
  <2>1. TypeOK
    <3>1. <<>> \in Seq(LocalRecord) /\ <<>> \in Seq(Ids) /\ <<>> \in Seq(Nat)
      OBVIOUS
    <3>2. GlobalScope \in ScopeRecord
      BY <3>1 DEF ScopeRecord, GlobalScope
    <3>3. scope \in ScopeRecord
      BY <3>2
    <3>4. answer \in Int /\ marks \in Seq(Nat)
      BY <3>1
    <3>5. refused \in BOOLEAN
      BY Zenon
    <3> QED BY <3>3, <3>4, <3>5 DEF TypeOK
  <2>2. ~Defining /\ DefinedCount = 0
    BY DEF Defining, DefinedCount, GlobalScope
  <2>3. DepthsFollowMarks
    BY <2>2 DEF DepthsFollowMarks, GlobalScope
  <2>4. GlobalScopeIsEmpty /\ NamesUniquePerScope
    BY DEF GlobalScopeIsEmpty, NamesUniquePerScope, GlobalScope
  <2>5. WithinLimits
    BY LimitsAssumption DEF WithinLimits, GlobalScope
  <2> QED BY <2>1, <2>3, <2>4, <2>5 DEF IInv
<1>2. IInv /\ [Next]_scopeVars => IInv'
  <2> SUFFICES ASSUME IInv, [Next]_scopeVars PROVE IInv'
    OBVIOUS
  <2> USE DEF IInv
  <2>1. CASE Begin
    BY <2>1, BeginStep
  <2>2. CASE End
    BY <2>2, EndStep
  <2>3. CASE Define
    BY <2>3, DefineStep
  <2>4. ASSUME NEW id \in Ids, Argument(id) PROVE IInv'
    BY <2>4, ArgumentStep
  <2>5. ASSUME NEW id \in Ids, Declare(id) PROVE IInv'
    BY <2>5, DeclareStep
  <2>6. ASSUME NEW id \in Ids, Resolve(id) PROVE IInv'
    BY <2>6, ResolveStep
  <2>7. CASE UNCHANGED scopeVars
    BY <2>7, StutterStep
  <2> QED BY <2>1, <2>2, <2>3, <2>4, <2>5, <2>6, <2>7 DEF Next
<1> QED BY <1>1, <1>2, PTL DEF Spec

(* The scope structure keeps its shape. *)
THEOREM TypeCorrect == Spec => []TypeOK
<1>1. IInv => TypeOK
  BY DEF IInv
<1> QED BY <1>1, Invariance, PTL

(* No local and no argument outlives its function, for any program: the    *)
(* name resolution the virtual machine performs at run time (vm.c:494,     *)
(* 504) can only answer "global".                                          *)
THEOREM NothingLocalAtGlobalScope == Spec => []GlobalScopeIsEmpty
<1>1. IInv => GlobalScopeIsEmpty
  BY DEF IInv
<1> QED BY <1>1, Invariance, PTL

(* The depths kept in the locals array say which locals belong to which    *)
(* open scope, for any nesting: the fact every other one rests on.         *)
THEOREM DepthsTellScopes == Spec => []DepthsFollowMarks
<1>1. IInv => DepthsFollowMarks
  BY DEF IInv
<1> QED BY <1>1, Invariance, PTL

(* A scope never declares a name twice. *)
THEOREM OneVariablePerNameAndScope == Spec => []NamesUniquePerScope
<1>1. IInv => NamesUniquePerScope
  BY DEF IInv
<1> QED BY <1>1, Invariance, PTL

(* The locals and arguments arrays of struct scope are never overrun. *)
THEOREM ArraysNeverOverrun == Spec => []WithinLimits
<1>1. IInv => WithinLimits
  BY DEF IInv
<1> QED BY <1>1, Invariance, PTL

(* end_scope drops the locals declared since the matching begin_scope and  *)
(* no other, for any nesting and any number of locals.                     *)
THEOREM ClosingIsExact == Spec => ClosingRestoresLocals
<1> DEFINE A == scope'.depth = scope.depth - 1 =>
                  scope'.locals = SubSeq(scope.locals, 1, marks[Len(marks)])
<1>1. IInv /\ [Next]_scopeVars => [A]_scopeVars
  <2> SUFFICES ASSUME IInv, Next PROVE A
    OBVIOUS
  <2>1. CASE End
    <3>1. Kept(scope, scope.depth - 1) = marks[Len(marks)]
      BY <2>1, KeptIsMark DEF IInv, End
    <3> QED BY <2>1, <3>1 DEF End, EndScope
  <2>2. CASE ~End
    <3>1. scope.depth \in Nat
      BY DEF IInv, TypeOK, ScopeRecord
    <3>2. scope'.depth = scope.depth \/ scope'.depth = scope.depth + 1
      <4>1. CASE Begin
        BY <4>1 DEF Begin, BeginScope, IInv, TypeOK, ScopeRecord
      <4>2. CASE Define
        BY <4>2 DEF Define, DefineLocal, IInv, TypeOK, ScopeRecord
      <4>3. ASSUME NEW id \in Ids, Argument(id) PROVE scope'.depth = scope.depth
        BY <4>3 DEF Argument, DeclareArgument, Refuse, IInv, TypeOK, ScopeRecord
      <4>4. ASSUME NEW id \in Ids, Declare(id) PROVE scope'.depth = scope.depth
        BY <4>4 DEF Declare, DeclareVariable, DeclareLocal, Refuse, IInv, TypeOK,
                    ScopeRecord
      <4>5. ASSUME NEW id \in Ids, Resolve(id) PROVE scope'.depth = scope.depth
        BY <4>5 DEF Resolve, Refuse
      <4> QED BY <2>2, <4>1, <4>2, <4>3, <4>4, <4>5 DEF Next
    <3> QED BY <3>1, <3>2
  <2> QED BY <2>1, <2>2
<1> QED BY <1>1, Invariance, PTL DEF Spec, ClosingRestoresLocals

-----------------------------------------------------------------------------
(* scope.c implements block structure: the flat array of locals with its   *)
(* depths, which end_scope pops and resolve_local searches from the top,   *)
(* answers every lookup as the nested blocks of LexicalScope do.           *)

(* The n sequences seqs are the segments of ids between successive ends.   *)
Segments(S, ids, n, ends, seqs) ==
  /\ n \in Nat
  /\ ids \in Seq(S)
  /\ ends \in [0..n -> 0..Len(ids)]
  /\ ends[0] = 0
  /\ \A d \in 1..n : ends[d - 1] <= ends[d]
  /\ seqs \in Seq(Seq(S))
  /\ Len(seqs) = n
  /\ \A d \in 1..n :
       seqs[d] = [i \in 1..(ends[d] - ends[d - 1]) |-> ids[ends[d - 1] + i]]

(* Concatenated, the segments are the sequence up to the last end.         *)
LEMMA FlattenedSegments ==
  ASSUME NEW S, NEW ids, NEW n, NEW ends, NEW seqs, Segments(S, ids, n, ends, seqs)
  PROVE  Len(Lexical!FlattenSeq(seqs)) = ends[n]
<1>0. /\ n \in Nat
      /\ ids \in Seq(S)
      /\ ends \in [0..n -> 0..Len(ids)]
      /\ ends[0] = 0
      /\ \A d \in 1..n : ends[d - 1] <= ends[d]
      /\ seqs \in Seq(Seq(S))
      /\ Len(seqs) = n
      /\ \A d \in 1..n :
           seqs[d] = [i \in 1..(ends[d] - ends[d - 1]) |-> ids[ends[d - 1] + i]]
  BY DEF Segments
<1> USE <1>0
<1> DEFINE UpTo(k) == [i \in 1..k |-> ids[i]]
           Body(g) == [i \in 1..n |-> IF i = 1 THEN seqs[i] ELSE g[i - 1] \o seqs[i]]
           all == [d \in 1..n |-> UpTo(ends[d])]
<1>1. Len(ids) \in Nat /\ \A i \in 1..Len(ids) : ids[i] \in S
  OBVIOUS
<1>2. ASSUME NEW k \in 0..Len(ids) PROVE UpTo(k) \in Seq(S) /\ Len(UpTo(k)) = k
  BY <1>1, <1>2
<1>3. ASSUME NEW d \in 1..n PROVE UpTo(ends[d - 1]) \o seqs[d] = UpTo(ends[d])
  <2> DEFINE a == ends[d - 1]
             b == ends[d]
  <2>1. a \in 0..Len(ids) /\ b \in 0..Len(ids) /\ a <= b
    BY <1>3
  <2>2. seqs[d] = [i \in 1..(b - a) |-> ids[a + i]] /\ seqs[d] \in Seq(S)
    BY <1>3
  <2> HIDE DEF a, b
  <2>3. Len(seqs[d]) = b - a
    BY <2>1, <2>2, <1>1
  <2> HIDE DEF UpTo
  <2>4. /\ UpTo(a) \in Seq(S) /\ Len(UpTo(a)) = a
        /\ UpTo(b) \in Seq(S) /\ Len(UpTo(b)) = b
    BY <2>1, <1>2
  <2>5. /\ UpTo(a) \o seqs[d] \in Seq(S)
        /\ Len(UpTo(a) \o seqs[d]) = b
        /\ \A i \in 1..b : (UpTo(a) \o seqs[d])[i] =
                             IF i <= a THEN UpTo(a)[i] ELSE seqs[d][i - a]
    <3>1. /\ UpTo(a) \o seqs[d] \in Seq(S)
          /\ Len(UpTo(a) \o seqs[d]) = Len(UpTo(a)) + Len(seqs[d])
          /\ \A i \in 1..(Len(UpTo(a)) + Len(seqs[d])) :
               (UpTo(a) \o seqs[d])[i] = IF i <= Len(UpTo(a)) THEN UpTo(a)[i]
                                         ELSE seqs[d][i - Len(UpTo(a))]
      <4>1. UpTo(a) \in Seq(S) /\ seqs[d] \in Seq(S)
        BY <2>2, <2>4
      <4> QED  BY ONLY <4>1, ConcatProperties
    <3>2. Len(UpTo(a)) + Len(seqs[d]) = b
      BY <2>1, <2>3, <2>4, <1>1
    <3> QED  BY <3>1, <3>2, <2>4
  <2>6. ASSUME NEW i \in 1..b PROVE (UpTo(a) \o seqs[d])[i] = UpTo(b)[i]
    <3>1. UpTo(b)[i] = ids[i]
      BY DEF UpTo
    <3>2. CASE i <= a
      <4>1. UpTo(a)[i] = ids[i]
        BY <3>2, <2>1, <1>1 DEF UpTo
      <4> QED  BY <3>1, <3>2, <4>1, <2>5
    <3>3. CASE ~(i <= a)
      <4>1. i - a \in 1..(b - a) /\ a + (i - a) = i
        BY <3>3, <2>1, <1>1
      <4>2. seqs[d][i - a] = ids[i]
        BY <4>1, <2>2
      <4> QED  BY <3>1, <3>3, <4>2, <2>5
    <3> QED  BY <3>2, <3>3
  <2>7. UpTo(a) \o seqs[d] = UpTo(b)
    BY <2>4, <2>5, <2>6, SeqEqual
  <2> QED  BY <2>7 DEF a, b
<1>4. CASE n = 0
  <2>1. seqs = <<>>
    BY <1>4
  <2>2. Lexical!FlattenSeq(seqs) = seqs
    BY <1>4 DEF Lexical!FlattenSeq
  <2> QED  BY <1>4, <2>1, <2>2
<1>5. CASE n # 0
  <2>1. seqs[1] = UpTo(ends[1])
    <3>1. UpTo(ends[0]) \o seqs[1] = UpTo(ends[1])
      <4>1. 1 \in 1..n /\ 1 - 1 = 0
        BY <1>5
      <4> HIDE DEF UpTo
      <4> QED  BY <4>1, <1>3
    <3>2. UpTo(ends[0]) = <<>>
      <4>1. UpTo(0) \in Seq(S) /\ Len(UpTo(0)) = 0
        BY <1>1, <1>2
      <4> HIDE DEF UpTo
      <4> QED  BY <4>1
    <3>3. seqs[1] \in Seq(S)
      BY <1>5
    <3> QED  BY <3>1, <3>2, <3>3, ConcatEmptySeq
  <2>2. all = Body(all)
    <3>1. ASSUME NEW i \in 1..n
          PROVE  all[i] = IF i = 1 THEN seqs[i] ELSE all[i - 1] \o seqs[i]
      <4> HIDE DEF UpTo
      <4>1. CASE i = 1
        BY <4>1, <2>1
      <4>2. CASE i # 1
        <5>1. i - 1 \in 1..n
          BY <4>2
        <5>2. all[i - 1] = UpTo(ends[i - 1])
          BY <5>1
        <5> QED  BY <4>2, <5>2, <1>3
      <4> QED  BY <4>1, <4>2
    <3> QED  BY <3>1
  <2>3. ASSUME NEW g, g = Body(g) PROVE g[n] = UpTo(ends[n])
    <3> DEFINE bad == {i \in 1..n : g[i] # UpTo(ends[i])}
    <3>1. \A i \in 1..n : g[i] = IF i = 1 THEN seqs[i] ELSE g[i - 1] \o seqs[i]
      BY <2>3
    <3>2. bad = {}
      <4> SUFFICES ASSUME bad # {} PROVE FALSE
        OBVIOUS
      <4>1. bad \subseteq Nat
        OBVIOUS
      <4>2. PICK m \in bad : \A k \in bad : m <= k
        <5> HIDE DEF bad
        <5> QED  BY <4>1, LeastElement
      <4> HIDE DEF UpTo
      <4>3. m \in 1..n /\ g[m] # UpTo(ends[m])
        OBVIOUS
      <4>4. m # 1
        BY <4>3, <3>1, <2>1
      <4>5. m - 1 \in 1..n /\ m - 1 \notin bad
        BY <4>2, <4>3, <4>4
      <4>6. g[m - 1] = UpTo(ends[m - 1])
        BY <4>5
      <4>7. g[m] = g[m - 1] \o seqs[m]
        BY <3>1, <4>3, <4>4
      <4> QED  BY <1>3, <4>3, <4>6, <4>7
    <3>3. n \in 1..n
      BY <1>5
    <3>4. n \notin bad
      <4> HIDE DEF bad
      <4> QED  BY <3>2
    <3> HIDE DEF UpTo
    <3> QED  BY <3>3, <3>4
  <2>4. PICK h : h = CHOOSE g : g = Body(g)
    OBVIOUS
  <2>5. h = Body(h)
    <3> HIDE DEF all, Body
    <3> QED  BY <2>2, <2>4
  <2>6. Lexical!FlattenSeq(seqs) = h[n]
    BY <1>5, <2>4 DEF Lexical!FlattenSeq
  <2> HIDE DEF UpTo, Body
  <2>7. h[n] = UpTo(ends[n])
    BY <2>3, <2>5
  <2>8. ends[n] \in 0..Len(ids)
    OBVIOUS
  <2> QED  BY <1>2, <2>6, <2>7, <2>8
<1> QED  BY <1>4, <1>5

-----------------------------------------------------------------------------
(* The blocks of the locals array *)

(* The identifiers of the locals, from the bottom of the array.            *)
Names == [i \in 1..Len(scope.locals) |-> scope.locals[i].id]

(* The marks cut the defined locals into successive segments.              *)
LEMMA MarksCutTheLocals ==
  ASSUME IInv
  PROVE  /\ Len(marks) \in Nat
         /\ Len(marks) = scope.depth
         /\ DefinedCount \in 0..Len(scope.locals)
         /\ Len(scope.locals) \in Nat
         /\ Names \in Seq(Ids) /\ Len(Names) = Len(scope.locals)
         /\ Len(marks) # 0 => marks[1] = 0
         /\ \A d \in 1..Len(marks) : /\ marks[d] \in 0..DefinedCount
                                     /\ BlockEnd(d) \in 0..DefinedCount
                                     /\ marks[d] <= BlockEnd(d)
         /\ \A d \in 1..Len(marks) : d < Len(marks) => BlockEnd(d) = marks[d + 1]
<1> DEFINE n == Len(marks)
<1>1. /\ n \in Nat /\ n = scope.depth /\ marks \in Seq(Nat)
      /\ scope.locals \in Seq(LocalRecord) /\ Len(scope.locals) \in Nat
  BY DEF IInv, TypeOK, ScopeRecord, DepthsFollowMarks
<1>2. DefinedCount \in 0..Len(scope.locals)
  BY <1>1 DEF DefinedCount, Defining
<1>3. \A d \in 1..n : marks[d] \in 0..DefinedCount
  BY DEF IInv, DepthsFollowMarks
<1>4. Names \in Seq(Ids) /\ Len(Names) = Len(scope.locals)
  <2> DEFINE k == Len(scope.locals)
  <2>1. ASSUME NEW i \in 1..k PROVE scope.locals[i].id \in Ids
    <3>1. scope.locals[i] \in LocalRecord
      BY <1>1
    <3> QED  BY <3>1 DEF LocalRecord
  <2>2. Names \in [1..k -> Ids]
    BY <2>1 DEF Names
  <2>3. k \in Nat
    BY <1>1
  <2> HIDE DEF k
  <2>4. Names \in Seq(Ids) /\ Len(Names) = k
    BY <2>2, <2>3
  <2> QED  BY <2>4 DEF k
<1>5. \A i \in 1..DefinedCount : /\ scope.locals[i].depth \in 1..scope.depth
                                 /\ \A d \in 1..n : scope.locals[i].depth >= d <=> i > marks[d]
  BY DEF IInv, DepthsFollowMarks
<1>6. ASSUME n # 0 PROVE marks[1] = 0
  <2>1. 1 \in 1..n
    BY <1>1, <1>6
  <2>2. SUFFICES ASSUME marks[1] # 0 PROVE FALSE
    OBVIOUS
  <2> DEFINE i == marks[1]
  <2>3. i \in 1..DefinedCount
    BY <1>2, <1>3, <2>1, <2>2
  <2>4. scope.locals[i].depth >= 1
    <3> HIDE DEF i
    <3> QED  BY <1>1, <1>5, <2>3
  <2>5. i > marks[1]
    BY <1>5, <2>1, <2>3, <2>4
  <2> QED  BY <2>3, <2>5, <1>2
<1>7. ASSUME NEW d \in 1..n, d < n PROVE marks[d] <= marks[d + 1]
  <2>1. d + 1 \in 1..n
    BY <1>1, <1>7
  <2> DEFINE i == marks[d]
  <2>2. SUFFICES ASSUME marks[d + 1] < i PROVE FALSE
    BY <1>2, <1>3, <2>1
  <2>3. i \in 1..DefinedCount
    BY <1>2, <1>3, <2>1, <2>2
  <2>4. scope.locals[i].depth >= d + 1
    BY <1>5, <2>1, <2>2, <2>3
  <2>5. scope.locals[i].depth \in Nat
    <3> HIDE DEF i
    <3> QED  BY <1>1, <1>5, <2>3
  <2>6. scope.locals[i].depth >= d
    <3> HIDE DEF i
    <3> QED  BY <2>4, <2>5
  <2>7. i > marks[d]
    BY <1>5, <2>3, <2>6
  <2> QED  BY <2>3, <2>7, <1>2
<1>8. ASSUME NEW d \in 1..n
      PROVE  /\ BlockEnd(d) \in 0..DefinedCount
             /\ marks[d] <= BlockEnd(d)
             /\ d < n => BlockEnd(d) = marks[d + 1]
  <2>1. CASE d < n
    <3>1. d + 1 \in 1..n /\ BlockEnd(d) = marks[d + 1]
      BY <1>1, <2>1 DEF BlockEnd
    <3> QED  BY <3>1, <1>3, <1>7, <2>1
  <2>2. CASE ~(d < n)
    BY <1>2, <1>3, <2>2 DEF BlockEnd
  <2> QED  BY <2>1, <2>2
<1> QED  BY <1>1, <1>2, <1>3, <1>4, <1>6, <1>8

(* Blocks is a sequence of sequences of names, one for each open scope.    *)
LEMMA BlocksAreSegments ==
  ASSUME IInv
  PROVE  /\ Blocks \in Seq(Seq(Ids))
         /\ Len(Blocks) = Len(marks)
         /\ \A d \in 1..Len(marks) :
              /\ Blocks[d] \in Seq(Ids)
              /\ Len(Blocks[d]) = BlockEnd(d) - marks[d]
              /\ \A i \in 1..(BlockEnd(d) - marks[d]) :
                   Blocks[d][i] = scope.locals[marks[d] + i].id
              /\ Blocks[d] = [i \in 1..(BlockEnd(d) - marks[d]) |-> Names[marks[d] + i]]
<1> DEFINE n == Len(marks)
<1>1. ASSUME NEW d \in 1..n
      PROVE  /\ Blocks[d] = [i \in 1..(BlockEnd(d) - marks[d]) |-> Names[marks[d] + i]]
             /\ Blocks[d] \in Seq(Ids)
             /\ Len(Blocks[d]) = BlockEnd(d) - marks[d]
             /\ \A i \in 1..(BlockEnd(d) - marks[d]) :
                  Blocks[d][i] = scope.locals[marks[d] + i].id
  <2> DEFINE k == BlockEnd(d) - marks[d]
  <2>1. /\ k \in Nat /\ marks[d] \in Nat /\ DefinedCount \in 0..Len(scope.locals)
        /\ marks[d] + k <= Len(scope.locals) /\ Len(scope.locals) \in Nat
    BY MarksCutTheLocals
  <2>2. Blocks[d] = [i \in 1..k |-> scope.locals[marks[d] + i].id]
    BY DEF Blocks
  <2> HIDE DEF k
  <2>3. \A i \in 1..k : marks[d] + i \in 1..Len(scope.locals)
    BY <2>1
  <2>4. \A i \in 1..k : scope.locals[marks[d] + i].id = Names[marks[d] + i]
    BY <2>3 DEF Names
  <2>5. Names \in [1..Len(scope.locals) -> Ids]
    BY MarksCutTheLocals
  <2>6. Blocks[d] \in [1..k -> Ids]
    BY <2>2, <2>3, <2>4, <2>5
  <2>7. Blocks[d] \in Seq(Ids) /\ Len(Blocks[d]) = k
    BY <2>1, <2>6
  <2>8. Blocks[d] = [i \in 1..k |-> Names[marks[d] + i]]
    BY <2>2, <2>4
  <2> QED  BY <2>2, <2>7, <2>8 DEF k
<1>2. n \in Nat /\ Blocks = [d \in 1..n |-> Blocks[d]]
  BY MarksCutTheLocals DEF Blocks
<1>3. Blocks \in [1..n -> Seq(Ids)]
  BY <1>1, <1>2
<1> QED  BY <1>1, <1>2, <1>3

(* The variables of the enclosing blocks come first: the slot of the first *)
(* variable of a block is the mark of its scope.                           *)
LEMMA SlotsOfOuterBlocks ==
  ASSUME IInv, NEW f \in 1..Len(marks)
  PROVE  Len(Lexical!FlattenSeq(SubSeq(Blocks, 1, f - 1))) = marks[f]
<1> DEFINE k == f - 1
           ends == [d \in 0..k |-> IF d = 0 THEN 0 ELSE BlockEnd(d)]
           outer == SubSeq(Blocks, 1, k)
<1>1. Len(marks) \in Nat /\ k \in Nat /\ k < Len(marks)
  BY MarksCutTheLocals
<1>2. Blocks \in Seq(Seq(Ids)) /\ Len(Blocks) = Len(marks)
  BY BlocksAreSegments
<1>3. /\ outer \in Seq(Seq(Ids))
      /\ Len(outer) = k
      /\ \A d \in 1..k : outer[d] = Blocks[d]
  <2>1. \A i \in 1..k : Blocks[i] \in Seq(Ids)
    BY <1>1, <1>2
  <2>2. 1 \in Int /\ k \in Int
    BY <1>1
  <2> HIDE DEF k
  <2>3. /\ SubSeq(Blocks, 1, k) \in Seq(Seq(Ids))
        /\ Len(SubSeq(Blocks, 1, k)) = IF 1 <= k THEN k - 1 + 1 ELSE 0
        /\ \A i \in 1..(k - 1 + 1) : SubSeq(Blocks, 1, k)[i] = Blocks[1 + i - 1]
    BY <2>1, <2>2, SubSeqProperties
  <2>4. \A d \in 1..k : 1 + d - 1 = d
    OBVIOUS
  <2> QED  BY <1>1, <2>3, <2>4
<1>4. /\ Names \in Seq(Ids) /\ Len(Names) = Len(scope.locals)
      /\ DefinedCount \in 0..Len(scope.locals) /\ Len(scope.locals) \in Nat
      /\ \A d \in 1..k : /\ BlockEnd(d) \in 0..DefinedCount
                         /\ BlockEnd(d) = marks[d + 1]
                         /\ marks[d] <= BlockEnd(d)
      /\ marks[1] = 0
  BY <1>1, MarksCutTheLocals
<1>5. \A d \in 0..k : ends[d] = marks[d + 1]
  BY <1>1, <1>4
<1>6. ends \in [0..k -> 0..Len(Names)]
  BY <1>1, <1>4
<1>7. \A d \in 1..k : ends[d - 1] = marks[d] /\ ends[d] = BlockEnd(d)
  <2>1. \A d \in 1..k : d - 1 \in 0..k /\ (d - 1) + 1 = d /\ d \in 0..k
    BY <1>1
  <2> HIDE DEF ends
  <2> QED  BY <1>4, <1>5, <2>1
<1>8. ends[0] = 0 /\ ends[k] = marks[f]
  BY <1>1, <1>4, <1>5
<1>9. \A d \in 1..k :
        outer[d] = [i \in 1..(ends[d] - ends[d - 1]) |-> Names[ends[d - 1] + i]]
  <2> HIDE DEF ends, outer, k
  <2> SUFFICES ASSUME NEW d \in 1..k
               PROVE  outer[d] = [i \in 1..(ends[d] - ends[d - 1]) |-> Names[ends[d - 1] + i]]
    OBVIOUS
  <2>1. d \in 1..Len(marks)
    BY <1>1
  <2>2. Blocks[d] = [i \in 1..(BlockEnd(d) - marks[d]) |-> Names[marks[d] + i]]
    BY <2>1, BlocksAreSegments
  <2> QED  BY <1>3, <1>7, <2>2
<1>10. \A d \in 1..k : ends[d - 1] <= ends[d]
  BY <1>4, <1>7
<1> HIDE DEF ends, outer, k
<1>11. Len(Lexical!FlattenSeq(outer)) = ends[k]
  <2>1. Segments(Ids, Names, k, ends, outer)
    BY <1>1, <1>3, <1>4, <1>6, <1>8, <1>9, <1>10 DEF Segments
  <2> QED  BY <2>1, FlattenedSegments, Zenon
<1> QED  BY <1>8, <1>11 DEF outer, k

-----------------------------------------------------------------------------
(* Lookups *)

(* The block a defined local lies in is the scope of its depth.            *)
LEMMA LocalLiesInBlock ==
  ASSUME IInv, NEW t \in 1..DefinedCount
  PROVE  LET f == scope.locals[t].depth
         IN  /\ f \in 1..Len(marks)
             /\ t - marks[f] \in 1..Len(Blocks[f])
             /\ Blocks[f][t - marks[f]] = scope.locals[t].id
             /\ t \in Nat
<1> DEFINE f == scope.locals[t].depth
           n == Len(marks)
<1>1. /\ n \in Nat /\ n = scope.depth
      /\ DefinedCount \in 0..Len(scope.locals) /\ Len(scope.locals) \in Nat
      /\ \A d \in 1..n : marks[d] \in 0..DefinedCount /\ BlockEnd(d) \in 0..DefinedCount
      /\ \A d \in 1..n : d < n => BlockEnd(d) = marks[d + 1]
  BY MarksCutTheLocals
<1>2. f \in 1..n /\ \A d \in 1..n : f >= d <=> t > marks[d]
  BY <1>1 DEF IInv, DepthsFollowMarks
<1> HIDE DEF f
<1>3. t > marks[f]
  BY <1>1, <1>2
<1>4. t <= BlockEnd(f)
  <2>1. CASE f < n
    <3>1. f + 1 \in 1..n /\ ~(f >= f + 1)
      BY <1>1, <1>2, <2>1
    <3>2. ~(t > marks[f + 1])
      BY <1>2, <3>1
    <3> QED  BY <1>1, <1>2, <2>1, <3>1, <3>2
  <2>2. CASE ~(f < n)
    <3>1. BlockEnd(f) = DefinedCount
      BY <2>2 DEF BlockEnd
    <3> QED  BY <1>1, <3>1
  <2> QED  BY <2>1, <2>2
<1>5. t - marks[f] \in 1..(BlockEnd(f) - marks[f]) /\ marks[f] + (t - marks[f]) = t
  BY <1>1, <1>2, <1>3, <1>4
<1>6. /\ Len(Blocks[f]) = BlockEnd(f) - marks[f]
      /\ \A i \in 1..(BlockEnd(f) - marks[f]) :
           Blocks[f][i] = scope.locals[marks[f] + i].id
  BY <1>2, BlocksAreSegments
<1>7. /\ f \in 1..n /\ t \in Nat
      /\ t - marks[f] \in 1..Len(Blocks[f])
      /\ Blocks[f][t - marks[f]] = scope.locals[t].id
  <2>1. t - marks[f] \in 1..Len(Blocks[f])
    BY <1>5, <1>6
  <2>2. Blocks[f][t - marks[f]] = scope.locals[marks[f] + (t - marks[f])].id
    BY <1>5, <1>6
  <2> QED  BY <1>1, <1>2, <1>5, <2>1, <2>2, SMTT(40)
<1> QED  BY <1>7 DEF f

(* A name some block declares is the name of a defined local of that depth. *)
LEMMA BlockNamesAreLocals ==
  ASSUME IInv, NEW f \in 1..Len(marks), NEW i \in 1..Len(Blocks[f])
  PROVE  /\ marks[f] + i \in 1..DefinedCount
         /\ Blocks[f][i] = scope.locals[marks[f] + i].id
         /\ scope.locals[marks[f] + i].depth >= f
<1>1. /\ DefinedCount \in 0..Len(scope.locals) /\ Len(scope.locals) \in Nat
      /\ marks[f] \in 0..DefinedCount /\ BlockEnd(f) \in 0..DefinedCount
      /\ marks[f] <= BlockEnd(f)
  BY MarksCutTheLocals
<1>2. /\ Len(Blocks[f]) = BlockEnd(f) - marks[f]
      /\ \A j \in 1..(BlockEnd(f) - marks[f]) :
           Blocks[f][j] = scope.locals[marks[f] + j].id
  BY BlocksAreSegments
<1>3. marks[f] + i \in 1..DefinedCount /\ marks[f] + i > marks[f]
  BY <1>1, <1>2
<1> QED  BY <1>2, <1>3 DEF IInv, DepthsFollowMarks

(* The topmost local of a name, once it is defined, is the variable of the *)
(* innermost block that declares the name, at the slot of that variable.   *)
LEMMA TopmostIsInnermost ==
  ASSUME IInv, NEW id, NEW t \in 1..DefinedCount, scope.locals[t].id = id,
         \A j \in (t + 1)..Len(scope.locals) : scope.locals[j].id # id
  PROVE  t - 1 \in Lexical!VariableSlots(id)
<1> DEFINE f == scope.locals[t].depth
           i == t - marks[f]
           n == Len(marks)
<1>1. /\ f \in 1..n /\ i \in 1..Len(Blocks[f])
      /\ Blocks[f][i] = id /\ t \in Nat
  BY LocalLiesInBlock
<1>2. /\ n \in Nat /\ Len(Blocks) = n
      /\ \A d \in 1..n : marks[d] \in 0..DefinedCount
      /\ DefinedCount \in 0..Len(scope.locals) /\ Len(scope.locals) \in Nat
  BY MarksCutTheLocals, BlocksAreSegments
<1>3. f \in Lexical!Holding(id)
  <2>1. Lexical!Contains(Blocks[f], id)
    BY <1>1 DEF Lexical!Contains
  <2> QED  BY <1>1, <1>2, <2>1 DEF Lexical!Holding
<1>4. ASSUME NEW g \in Lexical!Holding(id) PROVE g <= f
  <2>1. g \in 1..n /\ \E k \in 1..Len(Blocks[g]) : Blocks[g][k] = id
    BY <1>2 DEF Lexical!Holding, Lexical!Contains
  <2>2. PICK k \in 1..Len(Blocks[g]) : Blocks[g][k] = id
    BY <2>1
  <2> DEFINE j == marks[g] + k
  <2>3. /\ j \in 1..DefinedCount /\ scope.locals[j].id = id
    BY <2>1, <2>2, BlockNamesAreLocals
  <2>4. k >= 1 /\ k \in Int
    BY <2>1, <1>2, BlocksAreSegments, MarksCutTheLocals
  <2>5. t >= j
    <3> HIDE DEF j
    <3> QED  BY <1>1, <1>2, <2>3
  <2>6. t > marks[g]
    BY <1>1, <1>2, <2>1, <2>4, <2>5
  <2>7. f >= g
    <3>1. scope.locals[t].depth >= g <=> t > marks[g]
      BY <2>1 DEF IInv, DepthsFollowMarks
    <3> QED  BY <2>6, <3>1
  <2> QED  BY <1>1, <1>2, <2>1, <2>7
<1>5. f \in Lexical!Innermost(id)
  BY <1>3, <1>4 DEF Lexical!Innermost
<1>6. Len(Lexical!FlattenSeq(SubSeq(Blocks, 1, f - 1))) + i - 1 = t - 1
  <2>1. Len(Lexical!FlattenSeq(SubSeq(Blocks, 1, f - 1))) = marks[f]
    BY <1>1, SlotsOfOuterBlocks
  <2>2. marks[f] + i - 1 = t - 1
    BY <1>1, <1>2, SMTT(40)
  <2> QED  BY <2>1, <2>2
<1>7. t - 1 \in {Len(Lexical!FlattenSeq(SubSeq(Blocks, 1, f - 1))) + k - 1 :
                   k \in {j \in 1..Len(Blocks[f]) : Blocks[f][j] = id}}
  BY <1>1, <1>6
<1> HIDE DEF f
<1> QED  BY <1>5, <1>7 DEF Lexical!VariableSlots

(* A name no local has is declared in no block.                            *)
LEMMA UndeclaredHasNoSlot ==
  ASSUME IInv, NEW id, \A j \in 1..Len(scope.locals) : scope.locals[j].id # id
  PROVE  Lexical!VariableSlots(id) = {}
<1>1. ASSUME NEW f \in 1..Len(marks), NEW i \in 1..Len(Blocks[f]) PROVE Blocks[f][i] # id
  <2>1. marks[f] + i \in 1..DefinedCount /\ Blocks[f][i] = scope.locals[marks[f] + i].id
    BY BlockNamesAreLocals
  <2>2. DefinedCount \in 0..Len(scope.locals) /\ Len(scope.locals) \in Nat
    BY MarksCutTheLocals
  <2> QED  BY <2>1, <2>2
<1>2. Lexical!Holding(id) = {}
  BY <1>1, BlocksAreSegments DEF Lexical!Holding, Lexical!Contains
<1> QED  BY <1>2 DEF Lexical!VariableSlots, Lexical!Innermost

(* resolve_local answers what the nested blocks answer.                    *)
LEMMA ResolveIsLookup ==
  ASSUME IInv, NEW id \in Ids, Resolve(id), ~Refuse
  PROVE  Lexical!Lookup(id)
<1> DEFINE arg == FindArgument(scope, id)
           t == TopLocal(scope, id)
<1>1. /\ ~IsBeingDefined(scope, id)
      /\ asked' = id
      /\ answer' = ResolveLocal(scope, id)
      /\ UNCHANGED <<scope, refused, marks>>
  BY DEF Resolve
<1>2. Blocks' = Blocks /\ scope'.args = scope.args
  BY <1>1 DEF Blocks, BlockEnd, DefinedCount, Defining
<1>3. Len(scope.args) \in Nat /\ Len(scope.locals) \in Nat /\ TypeOK
  BY DEF IInv, TypeOK, ScopeRecord
<1>4. CASE arg # -1
  <2>1. arg \in 0..(Len(scope.args) - 1) /\ scope.args[arg + 1] = id
    BY <1>3, <1>4, FindArgumentIsIndex
  <2>2. answer' = -arg - 3
    BY <1>1, <1>4 DEF ResolveLocal
  <2> HIDE DEF arg
  <2>3. arg + 1 \in 1..Len(scope.args) /\ -(arg + 1) - 2 = -arg - 3
    BY <1>3, <2>1
  <2>4. answer' \in Lexical!ParamSlots(id)
    BY <2>1, <2>2, <2>3 DEF Lexical!ParamSlots
  <2>5. answer' \in Lexical!Visible(id)
    BY <2>4 DEF Lexical!Visible
  <2> QED  BY <1>1, <1>2, <2>5 DEF Lexical!Lookup
<1>5. CASE arg = -1 /\ t = 0
  <2>1. answer' = -1
    BY <1>1, <1>5 DEF ResolveLocal
  <2>2. \A j \in 1..Len(scope.locals) : scope.locals[j].id # id
    BY <1>3, <1>5, TopLocalIsTopmost
  <2>3. \A j \in 1..Len(scope.args) : scope.args[j] # id
    BY <1>3, <1>5, FindArgumentIsIndex
  <2>4. Lexical!VariableSlots(id) = {}
    BY <2>2, UndeclaredHasNoSlot
  <2>5. Lexical!ParamSlots(id) = {}
    BY <2>3 DEF Lexical!ParamSlots
  <2>6. Lexical!Visible(id) = {}
    BY <2>4, <2>5 DEF Lexical!Visible
  <2> QED  BY <1>1, <1>2, <2>1, <2>6 DEF Lexical!Lookup, Lexical!NoSlot
<1>6. CASE arg = -1 /\ t # 0
  <2>1. /\ t \in 1..Len(scope.locals) /\ t > 0
        /\ scope.locals[t].id = id
        /\ \A j \in (t + 1)..Len(scope.locals) : scope.locals[j].id # id
    BY <1>3, <1>6, TopLocalIsTopmost
  <2>2. scope.locals[t].depth # Undefined
    BY <1>1, <1>6, <2>1 DEF IsBeingDefined
  <2> HIDE DEF t
  <2>3. t \in 1..DefinedCount
    BY <1>3, <2>1, <2>2 DEF DefinedCount, Defining
  <2>4. t - 1 \in Lexical!VariableSlots(id)
    BY <2>1, <2>3, TopmostIsInnermost
  <2>5. answer' = t - 1
    BY <1>1, <1>6 DEF ResolveLocal, t
  <2>6. answer' \in Lexical!Visible(id)
    BY <2>4, <2>5 DEF Lexical!Visible
  <2> QED  BY <1>1, <1>2, <2>6 DEF Lexical!Lookup
<1> QED  BY <1>4, <1>5, <1>6

-----------------------------------------------------------------------------
(* Calls that change the scope *)

Segment(locals, a, b) == [i \in 1..(b - a) |-> locals[a + i].id]

(* A block is what lies between two marks.                                 *)
LEMMA BlockIsSegment ==
  \A d \in 1..Len(marks) : Blocks[d] = Segment(scope.locals, marks[d], BlockEnd(d))
BY DEF Blocks, Segment

(* A segment depends on the identifiers in it only.                        *)
LEMMA SameSegment ==
  ASSUME NEW one, NEW other, NEW a \in Nat, NEW b \in Nat,
         \A i \in (a + 1)..b : one[i].id = other[i].id
  PROVE  Segment(one, a, b) = Segment(other, a, b)
<1>1. \A i \in 1..(b - a) : a + i \in (a + 1)..b
  OBVIOUS
<1> QED  BY <1>1 DEF Segment

(* The parts of earlier lemmas that are needed in the next state too.      *)
LEMMA BlocksInvariant ==
  IInv => Blocks \in Seq(Seq(Ids)) /\ Len(Blocks) = Len(marks)
BY BlocksAreSegments

(* Every block ends among the locals that are defined.                     *)
LEMMA EndsInvariant ==
  IInv => \A d \in 1..Len(marks) : BlockEnd(d) \in 0..DefinedCount
BY MarksCutTheLocals

(* begin_scope opens an empty block.                                       *)
LEMMA BeginIsOpen == ASSUME IInv, IInv', Begin PROVE Lexical!Open
<1> DEFINE n == Len(marks)
           k == Len(scope.locals)
<1>1. /\ ~Defining
      /\ scope' = [scope EXCEPT !.depth = scope.depth + 1]
      /\ marks' = Append(marks, k)
      /\ UNCHANGED <<asked, answer, refused>>
  BY DEF Begin, BeginScope
<1>2. /\ scope'.locals = scope.locals /\ scope'.args = scope.args
      /\ n \in Nat /\ k \in Nat /\ marks \in Seq(Nat)
  BY <1>1 DEF IInv, TypeOK, ScopeRecord
<1>3. DefinedCount = k /\ DefinedCount' = k
  BY <1>1, <1>2 DEF DefinedCount, Defining
<1>4. /\ Len(marks') = n + 1
      /\ \A d \in 1..n : marks'[d] = marks[d]
      /\ marks'[n + 1] = k
  BY <1>1, <1>2
<1>5. \A d \in 1..n : BlockEnd(d)' = BlockEnd(d)
  <2> SUFFICES ASSUME NEW d \in 1..n PROVE BlockEnd(d)' = BlockEnd(d)
    OBVIOUS
  <2>1. BlockEnd(d)' = IF d < n + 1 THEN marks'[d + 1] ELSE DefinedCount'
    BY <1>4 DEF BlockEnd
  <2>2. CASE d < n
    <3>1. d + 1 \in 1..n /\ d < n + 1
      BY <1>2, <2>2
    <3> QED  BY <2>1, <2>2, <3>1, <1>4 DEF BlockEnd
  <2>3. CASE d = n
    <3>1. d < n + 1 /\ ~(d < n)
      BY <1>2, <2>3
    <3> QED  BY <2>1, <2>3, <3>1, <1>3, <1>4 DEF BlockEnd
  <2> QED  BY <1>2, <2>2, <2>3
<1>6. (\A d \in 1..Len(marks) : Blocks[d] = Segment(scope.locals, marks[d], BlockEnd(d)))'
  BY BlockIsSegment, PTL
<1>7. \A d \in 1..n : Blocks'[d] = Blocks[d]
  <2>1. \A d \in 1..n : d \in 1..(n + 1)
    BY <1>2
  <2> QED  BY <1>2, <1>4, <1>5, <1>6, <2>1, BlockIsSegment
<1>7a. Blocks'[n + 1] = <<>>
  <2>1. PICK e : e = n + 1
    OBVIOUS
  <2>2. BlockEnd(e)' = k /\ e \in 1..Len(marks') /\ marks'[e] = k
    BY <1>2, <1>3, <1>4, <2>1 DEF BlockEnd
  <2>3. Blocks'[e] = Segment(scope'.locals, k, k)
    BY <1>6, <2>2
  <2>4. 1..(k - k) = {}
    BY <1>2
  <2> QED  BY <2>1, <2>3, <2>4 DEF Segment
<1>8. /\ Blocks \in Seq(Seq(Ids)) /\ Len(Blocks) = n
      /\ Blocks' \in Seq(Seq(Ids)) /\ Len(Blocks') = n + 1
  <2>1. IInv => Blocks \in Seq(Seq(Ids)) /\ Len(Blocks) = Len(marks)
    BY BlocksInvariant
  <2>2. (IInv => Blocks \in Seq(Seq(Ids)) /\ Len(Blocks) = Len(marks))'
    BY BlocksInvariant, PTL
  <2> QED  BY <2>1, <2>2, <1>4
<1>9. Blocks' = Append(Blocks, <<>>)
  <2>1. <<>> \in Seq(Ids)
    OBVIOUS
  <2>2. /\ Append(Blocks, <<>>) \in Seq(Seq(Ids))
        /\ Len(Append(Blocks, <<>>)) = n + 1
        /\ \A d \in 1..n : Append(Blocks, <<>>)[d] = Blocks[d]
        /\ Append(Blocks, <<>>)[n + 1] = <<>>
    BY <2>1, <1>8, AppendProperties
  <2>3. \A d \in 1..(n + 1) : Blocks'[d] = Append(Blocks, <<>>)[d]
    BY <1>2, <1>7, <1>7a, <2>2
  <2> QED  BY <1>8, <2>2, <2>3, SeqEqual
<1> QED  BY <1>1, <1>2, <1>9 DEF Lexical!Open

(* end_scope forgets the innermost block and, behind the function, the     *)
(* parameters.                                                             *)
LEMMA EndIsClose == ASSUME IInv, IInv', End PROVE Lexical!Close
<1> DEFINE n == Len(marks)
           m == marks[Len(marks)]
           k == n - 1
<1>1. ~Defining /\ ~IsGlobalScope(scope) /\ UNCHANGED <<asked, answer, refused>>
  BY DEF End
<1>2. /\ Kept(scope, scope.depth - 1) = m
      /\ m \in 0..Len(scope.locals)
      /\ n \in Nat \ {0} /\ n = scope.depth
      /\ marks \in Seq(Nat) /\ Len(scope.locals) \in Nat
  BY <1>1, KeptIsMark DEF IInv, TypeOK, ScopeRecord
<1>3. /\ scope'.locals = SubSeq(scope.locals, 1, m)
      /\ scope'.args = IF k = 0 THEN <<>> ELSE scope.args
      /\ marks' = SubSeq(marks, 1, k)
  BY <1>2 DEF End, EndScope
<1>4. k \in Nat /\ k < n /\ k + 1 = n
  BY <1>2
<1>5. /\ Len(marks') = k
      /\ \A d \in 1..k : marks'[d] = marks[d]
  BY <1>2, <1>3, <1>4
<1> HIDE DEF k
<1>6. /\ Len(scope'.locals) = m
      /\ \A i \in 1..m : scope'.locals[i] = scope.locals[i]
  <2>1. scope.locals \in Seq(LocalRecord)
    BY DEF IInv, TypeOK, ScopeRecord
  <2>2. m \in Nat
    BY <1>2
  <2> HIDE DEF m
  <2>3. \A i \in 1..m : 1 + i - 1 = i
    OBVIOUS
  <2> QED  BY <1>2, <1>3, <2>1, <2>2, <2>3
<1>7. ~Defining' /\ DefinedCount' = m
  <2>1. ASSUME m # 0 PROVE scope'.locals[m].depth # Undefined
    <3>1. m \in 1..DefinedCount /\ m \in 1..m
      BY <1>1, <1>2, <2>1, AllDefined DEF IInv
    <3>2. scope.locals[m].depth \in 1..scope.depth
      BY <3>1 DEF IInv, DepthsFollowMarks
    <3>3. scope'.locals[m] = scope.locals[m]
      BY <1>6, <3>1
    <3> QED  BY <1>2, <3>2, <3>3 DEF Undefined
  <2>2. ~Defining'
    BY <1>6, <2>1 DEF Defining
  <2> QED  BY <1>6, <2>2 DEF DefinedCount
<1>e. (IInv => \A d \in 1..Len(marks) : BlockEnd(d) \in 0..DefinedCount)'
  BY EndsInvariant, PTL
<1>b. (\A d \in 1..Len(marks) : Blocks[d] = Segment(scope.locals, marks[d], BlockEnd(d)))'
  BY BlockIsSegment, PTL
<1>8. \A d \in 1..k : BlockEnd(d)' = BlockEnd(d) /\ BlockEnd(d) <= m
  <2> SUFFICES ASSUME NEW d \in 1..k PROVE BlockEnd(d)' = BlockEnd(d) /\ BlockEnd(d) <= m
    OBVIOUS
  <2>1. d < n /\ d \in 1..n /\ d + 1 \in 1..n
    BY <1>4
  <2>2. BlockEnd(d) = marks[d + 1]
    BY <2>1 DEF BlockEnd
  <2>3. CASE d < k
    <3>1. d + 1 \in 1..k
      BY <1>4, <2>3
    <3>2. BlockEnd(d)' = marks'[d + 1]
      BY <1>5, <2>3 DEF BlockEnd
    <3>3. BlockEnd(d)' \in 0..m
      BY <1>5, <1>7, <1>e
    <3> QED  BY <1>2, <1>5, <2>2, <3>1, <3>2, <3>3
  <2>4. CASE d = k
    <3>1. BlockEnd(d)' = m
      BY <1>4, <1>5, <1>7, <2>4 DEF BlockEnd
    <3> QED  BY <1>2, <1>4, <2>2, <2>4, <3>1
  <2> QED  BY <1>4, <2>3, <2>4
<1>9. \A d \in 1..k : Blocks'[d] = Blocks[d]
  <2> SUFFICES ASSUME NEW d \in 1..k PROVE Blocks'[d] = Blocks[d]
    OBVIOUS
  <2>1. d \in 1..n
    BY <1>4
  <2>2. marks[d] \in Nat /\ BlockEnd(d) \in Nat
    <3>1. DefinedCount \in 0..Len(scope.locals) /\ Len(scope.locals) \in Nat
      BY MarksCutTheLocals
    <3>2. marks[d] \in 0..DefinedCount /\ BlockEnd(d) \in 0..DefinedCount
      BY <2>1, MarksCutTheLocals
    <3> QED  BY <3>1, <3>2
  <2>3. \A i \in (marks[d] + 1)..BlockEnd(d) : scope'.locals[i].id = scope.locals[i].id
    <3>1. \A i \in (marks[d] + 1)..BlockEnd(d) : i \in 1..m
      BY <1>2, <1>8, <2>2, SMTT(40)
    <3> QED  BY <1>6, <3>1
  <2>4. Segment(scope'.locals, marks[d], BlockEnd(d)) = Segment(scope.locals, marks[d], BlockEnd(d))
    BY <2>2, <2>3, SameSegment
  <2> QED  BY <1>5, <1>8, <1>b, <2>1, <2>4, BlockIsSegment
<1>10. /\ Blocks \in Seq(Seq(Ids)) /\ Len(Blocks) = n
       /\ Blocks' \in Seq(Seq(Ids)) /\ Len(Blocks') = k
  <2>1. IInv => Blocks \in Seq(Seq(Ids)) /\ Len(Blocks) = Len(marks)
    BY BlocksInvariant
  <2>2. (IInv => Blocks \in Seq(Seq(Ids)) /\ Len(Blocks) = Len(marks))'
    BY BlocksInvariant, PTL
  <2> QED  BY <2>1, <2>2, <1>5
<1>11. Blocks' = Lexical!Front(Blocks)
  <2> DEFINE front == SubSeq(Blocks, 1, k)
  <2>1. \A d \in 1..k : Blocks[d] \in Seq(Ids) /\ 1 + d - 1 = d
    BY <1>4, <1>10
  <2>2. /\ front \in Seq(Seq(Ids))
        /\ Len(front) = k
        /\ \A d \in 1..k : front[d] = Blocks[d]
    <3> HIDE DEF k
    <3> QED  BY <1>4, <2>1, SubSeqProperties
  <2> HIDE DEF front
  <2>3. Blocks' = front
    BY <1>9, <1>10, <2>2, SeqEqual
  <2>4. Len(Blocks) - 1 = k
    BY <1>4, <1>10
  <2> QED  BY <2>3, <2>4 DEF Lexical!Front, front
<1>12. Blocks # <<>> /\ (Len(Blocks) = 1 <=> k = 0)
  BY <1>2, <1>4, <1>10
<1> QED  BY <1>1, <1>3, <1>11, <1>12 DEF Lexical!Close

(* declare_argument appends a parameter the function does not have yet.    *)
LEMMA ArgumentIsParam ==
  ASSUME IInv, NEW id \in Ids, Argument(id), ~Refuse
  PROVE  Lexical!Param(id)
<1>1. /\ MayDeclareArgument(scope, id)
      /\ scope' = [scope EXCEPT !.args = Append(scope.args, id)]
      /\ UNCHANGED <<asked, answer, refused, marks>>
      /\ scope.depth # 0
  BY DEF Argument, DeclareArgument, IsGlobalScope
<1>2. /\ scope'.locals = scope.locals
      /\ scope'.args = Append(scope.args, id)
  BY <1>1 DEF IInv, TypeOK, ScopeRecord
<1>3. Blocks' = Blocks
  BY <1>1, <1>2 DEF Blocks, BlockEnd, DefinedCount, Defining
<1>4. Blocks # <<>>
  <2>1. Len(Blocks) = scope.depth
    BY BlocksAreSegments, MarksCutTheLocals
  <2> QED  BY <1>1, <2>1
<1>5. ~Lexical!Contains(scope.args, id)
  BY <1>1, FindArgumentIsIndex DEF IInv, MayDeclareArgument, Lexical!Contains
<1> QED  BY <1>1, <1>2, <1>3, <1>4, <1>5 DEF Lexical!Param

(* declare_variable alone changes no block: the variable does not count    *)
(* until its initialiser is compiled.                                      *)
LEMMA DeclareIsStutter ==
  ASSUME IInv, NEW id \in Ids, Declare(id), ~Refuse
  PROVE  UNCHANGED <<Blocks, scope.args, asked, answer, refused>>
<1> DEFINE n == Len(scope.locals)
           new == [id |-> id, depth |-> Undefined]
<1>1. /\ ~Defining
      /\ scope' = [scope EXCEPT !.locals = Append(scope.locals, new)]
      /\ UNCHANGED <<asked, answer, refused, marks>>
  BY DEF Declare, DeclareVariable, DeclareLocal, IsGlobalScope
<1>2. /\ scope'.locals = Append(scope.locals, new)
      /\ scope'.args = scope.args
      /\ scope.locals \in Seq(LocalRecord) /\ n \in Nat /\ new \in LocalRecord
  BY <1>1 DEF IInv, TypeOK, ScopeRecord, LocalRecord, Undefined
<1>3. /\ Len(scope'.locals) = n + 1
      /\ \A i \in 1..n : scope'.locals[i] = scope.locals[i]
      /\ scope'.locals[n + 1] = new
  BY <1>2
<1>4. DefinedCount = n /\ DefinedCount' = n
  <2>1. DefinedCount = n
    BY <1>1 DEF DefinedCount
  <2>2. scope'.locals # <<>> /\ scope'.locals[Len(scope'.locals)].depth = Undefined
    BY <1>2, <1>3
  <2>3. DefinedCount' = (n + 1) - 1
    BY <1>3, <2>2 DEF DefinedCount, Defining
  <2> QED  BY <1>2, <2>1, <2>3
<1>5. \A d \in 1..Len(marks) : BlockEnd(d)' = BlockEnd(d)
  BY <1>1, <1>4 DEF BlockEnd
<1>6. \A d \in 1..Len(marks) :
        Segment(scope'.locals, marks[d], BlockEnd(d)) = Segment(scope.locals, marks[d], BlockEnd(d))
  <2> SUFFICES ASSUME NEW d \in 1..Len(marks)
               PROVE  Segment(scope'.locals, marks[d], BlockEnd(d))
                        = Segment(scope.locals, marks[d], BlockEnd(d))
    OBVIOUS
  <2>1. marks[d] \in 0..n /\ BlockEnd(d) \in 0..n
    BY <1>4, MarksCutTheLocals
  <2>2. \A i \in (marks[d] + 1)..BlockEnd(d) : i \in 1..n
    BY <1>2, <2>1
  <2>3. \A i \in (marks[d] + 1)..BlockEnd(d) : scope'.locals[i].id = scope.locals[i].id
    <3> HIDE DEF n, new
    <3> QED  BY <1>3, <2>2
  <2>4. marks[d] \in Nat /\ BlockEnd(d) \in Nat
    BY <1>2, <2>1
  <2> QED  BY <2>3, <2>4, SameSegment
<1>7. Blocks' = Blocks
  <2>1. (\A d \in 1..Len(marks) : Blocks[d] = Segment(scope.locals, marks[d], BlockEnd(d)))'
    BY BlockIsSegment, PTL
  <2>2. \A d \in 1..Len(marks) : Blocks'[d] = Blocks[d]
    BY <1>1, <1>5, <1>6, <2>1, BlockIsSegment
  <2>3. /\ Blocks = [d \in 1..Len(marks) |-> Blocks[d]]
        /\ Blocks' = [d \in 1..Len(marks) |-> Blocks'[d]]
    BY <1>1 DEF Blocks
  <2> QED  BY <2>2, <2>3
<1> QED  BY <1>1, <1>2, <1>7

(* define_variable adds the variable to the innermost block.               *)
LEMMA DefineIsVariable ==
  ASSUME IInv, IInv', Define
  PROVE  \E id \in Ids : Lexical!Variable(id)
<1> DEFINE n == Len(scope.locals)
           top == Len(marks)
           id == scope.locals[n].id
<1>1. /\ scope' = [scope EXCEPT !.locals[n].depth = scope.depth]
      /\ UNCHANGED <<asked, answer, refused, marks>>
      /\ Defining
  BY DEF Define, DefineLocal
<1>2. /\ n \in Nat \ {0} /\ DefinedCount = n - 1
      /\ scope.depth \in Nat \ {0} /\ top = scope.depth
      /\ scope.locals \in Seq(LocalRecord)
  BY <1>1 DEF Defining, DefinedCount, IInv, TypeOK, ScopeRecord, GlobalScopeIsEmpty,
              IsGlobalScope, DepthsFollowMarks
<1>3. /\ scope'.locals = [scope.locals EXCEPT ![n].depth = scope.depth]
      /\ scope'.args = scope.args
  BY <1>1 DEF IInv, TypeOK, ScopeRecord
<1>4. id \in Ids
  <2>1. scope.locals[n] \in LocalRecord
    BY <1>2
  <2> QED  BY <2>1 DEF LocalRecord
<1>5. /\ Len(scope'.locals) = n
      /\ \A i \in 1..n : scope'.locals[i].id = scope.locals[i].id
      /\ scope'.locals[n].depth = scope.depth
  <2> DEFINE e == [scope.locals[n] EXCEPT !.depth = scope.depth]
  <2>1. e.id = scope.locals[n].id /\ e.depth = scope.depth
    <3>1. n \in 1..n /\ scope.locals[n] \in LocalRecord
      BY <1>2
    <3> QED  BY <3>1 DEF LocalRecord
  <2>2. scope'.locals = [scope.locals EXCEPT ![n] = e]
    BY <1>3
  <2> HIDE DEF e
  <2>3. \A i \in 1..n : scope'.locals[i] = IF i = n THEN e ELSE scope.locals[i]
    BY <1>2, <2>2
  <2>4. Len(scope'.locals) = n
    BY <1>2, <2>2
  <2> QED  BY <1>2, <2>1, <2>3, <2>4
<1>6. DefinedCount' = n
  <2>1. ~Defining'
    BY <1>2, <1>5 DEF Defining, Undefined
  <2> QED  BY <1>5, <2>1 DEF DefinedCount
<1>7. /\ top \in Nat \ {0}
      /\ \A d \in 1..top : d # top => d < top
      /\ \A d \in 1..top : marks[d] \in 0..(n - 1) /\ BlockEnd(d) \in 0..(n - 1)
      /\ BlockEnd(top) = n - 1
  <2>1. BlockEnd(top) = n - 1
    BY <1>2 DEF BlockEnd
  <2> QED  BY <1>2, <2>1, MarksCutTheLocals
<1>8. (\A d \in 1..Len(marks) : Blocks[d] = Segment(scope.locals, marks[d], BlockEnd(d)))'
  BY BlockIsSegment, PTL
<1>9. ASSUME NEW d \in 1..top, d # top PROVE Blocks'[d] = Blocks[d]
  <2>1. BlockEnd(d)' = BlockEnd(d)
    BY <1>1, <1>7, <1>9 DEF BlockEnd
  <2>2. \A i \in (marks[d] + 1)..BlockEnd(d) : scope'.locals[i].id = scope.locals[i].id
    <3>1. \A i \in (marks[d] + 1)..BlockEnd(d) : i \in 1..n
      BY <1>2, <1>7
    <3> HIDE DEF n
    <3> QED  BY <1>5, <3>1
  <2>3. marks[d] \in Nat /\ BlockEnd(d) \in Nat
    BY <1>2, <1>7
  <2>4. Segment(scope'.locals, marks[d], BlockEnd(d)) = Segment(scope.locals, marks[d], BlockEnd(d))
    BY <2>2, <2>3, SameSegment
  <2> QED  BY <1>1, <1>8, <2>1, <2>4, BlockIsSegment
<1>10. Blocks'[top] = Append(Blocks[top], id)
  <2> DEFINE m == marks[top]
             k == (n - 1) - m
  <2>1. PICK d : d = top
    OBVIOUS
  <2>2. BlockEnd(d)' = n
    BY <1>1, <1>6, <2>1 DEF BlockEnd
  <2>3. Blocks'[d] = Segment(scope'.locals, m, n)
    <3>1. marks' = marks /\ d \in 1..Len(marks)
      BY <1>1, <1>7, <2>1
    <3>2. Blocks'[d] = Segment(scope'.locals, marks'[d], BlockEnd(d)')
      <4> HIDE DEF n, top
      <4> QED  BY <1>8, <3>1
    <3> QED  BY <2>1, <2>2, <3>1, <3>2
  <2>4. m \in 0..(n - 1) /\ k \in Nat /\ m + (k + 1) = n /\ n - m = k + 1
    <3>1. top \in 1..top
      BY <1>7
    <3>2. m \in 0..(n - 1)
      <4> HIDE DEF n, top
      <4> QED  BY <1>7, <3>1
    <3> HIDE DEF m, n
    <3> QED  BY <1>2, <3>2
  <2>5. /\ Blocks[top] \in Seq(Ids) /\ Len(Blocks[top]) = k
        /\ \A i \in 1..k : Blocks[top][i] = scope.locals[m + i].id
    <3>1. top \in 1..Len(marks)
      BY <1>7
    <3>2. BlockEnd(top) - marks[top] = k
      BY <1>7
    <3> HIDE DEF k, top
    <3> QED  BY <3>1, <3>2, BlocksAreSegments
  <2>6. Blocks'[top] = [i \in 1..(k + 1) |-> scope'.locals[m + i].id]
    <3> HIDE DEF k, m, n
    <3> QED  BY <2>1, <2>3, <2>4 DEF Segment
  <2>7. /\ Append(Blocks[top], id) \in Seq(Ids)
        /\ Len(Append(Blocks[top], id)) = k + 1
        /\ \A i \in 1..k : Append(Blocks[top], id)[i] = Blocks[top][i]
        /\ Append(Blocks[top], id)[k + 1] = id
    <3> HIDE DEF k, id, top
    <3> QED  BY <1>4, <2>5, AppendProperties
  <2>8. ASSUME NEW i \in 1..(k + 1)
        PROVE  scope'.locals[m + i].id = Append(Blocks[top], id)[i]
    <3>0. m + i \in 1..n
      <4> HIDE DEF k, m, n
      <4> QED  BY <1>2, <2>4
    <3>1. scope'.locals[m + i].id = scope.locals[m + i].id
      <4> HIDE DEF m, n
      <4> QED  BY <1>5, <3>0
    <3>2. CASE i \in 1..k
      BY <2>5, <2>7, <3>1, <3>2
    <3>3. CASE i = k + 1
      <4>1. m + i = n
        BY <2>4, <3>3
      <4> HIDE DEF m, n, k, top
      <4> QED  BY <2>7, <3>1, <3>3, <4>1
    <3>4. i \in 1..k \/ i = k + 1
      <4> HIDE DEF k
      <4> QED  BY <2>4
    <3> QED  BY <3>2, <3>3, <3>4
  <2>9. Append(Blocks[top], id) = [i \in 1..(k + 1) |-> Append(Blocks[top], id)[i]]
    <3> HIDE DEF k, id, top
    <3> QED  BY <2>7, <2>4
  <2> HIDE DEF k, id, top, m
  <2> QED  BY <2>6, <2>8, <2>9
<1>11. /\ Blocks \in Seq(Seq(Ids)) /\ Len(Blocks) = top
       /\ Blocks' \in Seq(Seq(Ids)) /\ Len(Blocks') = top
  <2>1. IInv => Blocks \in Seq(Seq(Ids)) /\ Len(Blocks) = Len(marks)
    BY BlocksInvariant
  <2>2. (IInv => Blocks \in Seq(Seq(Ids)) /\ Len(Blocks) = Len(marks))'
    BY BlocksInvariant, PTL
  <2> QED  BY <2>1, <2>2, <1>1
<1>12. Blocks' = [Blocks EXCEPT ![Len(Blocks)] = Append(@, id)]
  <2> DEFINE new == [Blocks EXCEPT ![top] = Append(Blocks[top], id)]
  <2>1. top \in 1..Len(Blocks) /\ Append(Blocks[top], id) \in Seq(Ids)
    <3>1. Blocks[top] \in Seq(Ids)
      BY <1>7, BlocksAreSegments
    <3> HIDE DEF id
    <3> QED  BY <1>4, <1>7, <1>11, <3>1
  <2>2. /\ new \in Seq(Seq(Ids)) /\ Len(new) = Len(Blocks)
        /\ \A d \in 1..Len(Blocks) :
             new[d] = IF d = top THEN Append(Blocks[top], id) ELSE Blocks[d]
    <3> HIDE DEF id, top
    <3> QED  BY <1>11, <2>1, ExceptSeq
  <2> HIDE DEF new, id, top
  <2>3. \A d \in 1..Len(Blocks') : Blocks'[d] = new[d]
    BY <1>9, <1>10, <1>11, <2>2
  <2>4. Blocks' = new
    BY <1>11, <2>2, <2>3, SeqEqual
  <2> QED  BY <1>11, <2>4 DEF new
<1>13. ~Lexical!Contains(Lexical!Last(Blocks), id)
  <2> SUFFICES ASSUME NEW i \in 1..Len(Blocks[top]), Blocks[top][i] = id PROVE FALSE
    BY <1>11 DEF Lexical!Contains, Lexical!Last
  <2> DEFINE j == marks[top] + i
  <2>1. /\ j \in 1..DefinedCount /\ scope.locals[j].id = id
        /\ scope.locals[j].depth >= top
    BY <1>7, BlockNamesAreLocals
  <2>2. scope.locals[j].depth \in 1..scope.depth
    <3> HIDE DEF j
    <3> QED  BY <2>1 DEF IInv, DepthsFollowMarks
  <2> HIDE DEF j
  <2>3. j \in 1..n /\ j # n
    BY <1>2, <2>1
  <2>4. ScopeOf(j) = scope.depth
    BY <1>2, <2>1, <2>2 DEF ScopeOf, Undefined
  <2>5. ScopeOf(n) = scope.depth
    BY <1>1 DEF ScopeOf, Defining
  <2>6. n \in 1..n
    BY <1>2
  <2> QED  BY <2>1, <2>3, <2>4, <2>5, <2>6 DEF IInv, NamesUniquePerScope
<1>14. Blocks # <<>>
  BY <1>7, <1>11
<1>15. Lexical!Variable(id)
  <2> HIDE DEF id
  <2> QED  BY <1>1, <1>3, <1>12, <1>13, <1>14 DEF Lexical!Variable
<1> QED  BY <1>4, <1>15

-----------------------------------------------------------------------------
(* Every call is a step of the nested blocks, or none *)

(* Every call is a step of the nested blocks, or none.                     *)
LEMMA LexicalStep ==
  ASSUME IInv, IInv', [Next]_scopeVars
  PROVE  [Lexical!Next]_Lexical!lexVars
<1>1. ASSUME Refuse, ~refused PROVE Lexical!Next
  <2>1. Blocks' = Blocks /\ scope'.args = scope.args
    BY <1>1 DEF Refuse, Blocks, BlockEnd, DefinedCount, Defining
  <2> QED  BY <1>1, <2>1 DEF Refuse, Lexical!Refuse, Lexical!Next
<1>2. CASE Begin /\ ~refused
  BY <1>2, BeginIsOpen DEF Lexical!Next
<1>3. CASE End /\ ~refused
  BY <1>3, EndIsClose DEF Lexical!Next
<1>4. CASE Define /\ ~refused
  BY <1>4, DefineIsVariable DEF Lexical!Next
<1>5. ASSUME NEW id \in Ids, Argument(id), ~refused PROVE Lexical!Next
  BY <1>1, <1>5, ArgumentIsParam DEF Lexical!Next
<1>6. ASSUME NEW id \in Ids, Declare(id), ~refused PROVE [Lexical!Next]_Lexical!lexVars
  BY <1>1, <1>6, DeclareIsStutter DEF Lexical!lexVars
<1>7. ASSUME NEW id \in Ids, Resolve(id), ~refused PROVE Lexical!Next
  BY <1>1, <1>7, ResolveIsLookup DEF Lexical!Next
<1>8. CASE UNCHANGED scopeVars
  BY <1>8 DEF scopeVars, Lexical!lexVars, Blocks, BlockEnd, DefinedCount, Defining
<1> QED  BY <1>2, <1>3, <1>4, <1>5, <1>6, <1>7, <1>8 DEF Next

(* The array of locals, popped from the top and searched from the top,     *)
(* answers every lookup as nested blocks would: the slot of the variable   *)
(* of the innermost block that declares the name, for any nesting, any     *)
(* shadowing and any order of the calls (scope.c:63-90, 125-215).          *)
THEOREM ScopeIsLexical == Spec => ImplementsLexicalScope
<1>1. Init => Lexical!Init
  <2> SUFFICES ASSUME Init PROVE Lexical!Init
    OBVIOUS
  <2>1. marks = <<>> /\ scope.args = <<>> /\ asked = NoName /\ answer = -1 /\ refused = FALSE
    BY DEF Init, GlobalScope
  <2>2. Blocks = <<>>
    BY <2>1 DEF Blocks
  <2> QED  BY <2>1, <2>2, NoNameAssumption DEF Lexical!Init, Lexical!NoSlot
<1>2. IInv /\ IInv' /\ [Next]_scopeVars => [Lexical!Next]_Lexical!lexVars
  BY LexicalStep
<1> QED
  BY <1>1, <1>2, Invariance, PTL DEF Spec, ImplementsLexicalScope, Lexical!LexSpec
=============================================================================
