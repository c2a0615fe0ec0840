---------------------------- MODULE EnmaHeights -----------------------------
(***************************************************************************)
(* What the compiler keeps about the run-time stack, for every tame        *)
(* program: every instruction that can be reached has one level, the       *)
(* number of values above bp and of arguments below it, whatever way leads *)
(* there, and where a statement begins it is the count of locals of        *)
(* scope.c.                                                                *)
(***************************************************************************)
EXTENDS EnmaProofs

(* The forms whose code keeps the heights: no clause of a for loop leaves  *)
(* a value, no local is declared in the scope of a loop itself, and no     *)
(* jump leaves a block that has locals.  HeightsAgree fails with each of   *)
(* the three, and FrameChainIntact with var_in_loop, in code and model.    *)
Tame == Forms \cap {"jump_over_locals", "var_in_loop", "for_expr"} = {}

-----------------------------------------------------------------------------
(* Sequences of sequences *)

(* The sequences seqs up to the i-th, one behind the other: what FlattenSeq *)
(* computes on its way.                                                     *)
IsFlattening(seqs, m, g) ==
  g = [i \in 1..m |-> IF i = 1 THEN seqs[i] ELSE g[i - 1] \o seqs[i]]

(* There is such a function for every sequence.                            *)
LEMMA FlatteningExists ==
  ASSUME NEW seqs, NEW n \in Nat
  PROVE  \E g : IsFlattening(seqs, n, g)
<1> DEFINE bad == {m \in 0..n : ~\E g : IsFlattening(seqs, m, g)}
<1>1. bad = {}
  <2> SUFFICES ASSUME bad # {} PROVE FALSE
    OBVIOUS
  <2>1. bad \subseteq Nat
    OBVIOUS
  <2>2. PICK m \in bad : \A k \in bad : m <= k
    <3> HIDE DEF bad
    <3> QED  BY <2>1, LeastOne
  <2>3. m \in 0..n /\ ~\E g : IsFlattening(seqs, m, g)
    OBVIOUS
  <2>4. m # 0
    <3>1. ASSUME m = 0 PROVE IsFlattening(seqs, m, <<>>)
      <4>1. 1..m = {}
        BY <3>1
      <4> QED  BY <4>1 DEF IsFlattening
    <3> QED  BY <2>3, <3>1
  <2>5. m - 1 \in 0..n /\ m - 1 \notin bad
    <3> HIDE DEF bad
    <3>1. m - 1 \in 0..n /\ ~(m <= m - 1)
      BY <2>3, <2>4
    <3> QED  BY <2>2, <3>1
  <2>6. PICK f : IsFlattening(seqs, m - 1, f)
    BY <2>5
  <2> DEFINE g == [i \in 1..m |-> IF i = m THEN (IF m = 1 THEN seqs[1] ELSE f[m - 1] \o seqs[m])
                                  ELSE f[i]]
  <2>7. ASSUME NEW i \in 1..m
        PROVE  g[i] = IF i = 1 THEN seqs[i] ELSE g[i - 1] \o seqs[i]
    <3>1. CASE i = m
      <4>1. i # 1 => i - 1 \in 1..m /\ i - 1 # m
        BY <2>3, <2>4
      <4> QED  BY <3>1, <4>1
    <3>2. CASE i # m
      <4>1. i \in 1..(m - 1) /\ (i # 1 => i - 1 \in 1..m /\ i - 1 # m)
        BY <3>2, <2>3, <2>4
      <4>2. f[i] = IF i = 1 THEN seqs[i] ELSE f[i - 1] \o seqs[i]
        BY <2>6, <4>1 DEF IsFlattening
      <4> QED  BY <3>2, <4>1, <4>2
    <3> QED  BY <3>1, <3>2
  <2>8. IsFlattening(seqs, m, g)
    <3>1. g = [i \in 1..m |-> g[i]]
      OBVIOUS
    <3> HIDE DEF g
    <3> QED  BY <3>1, <2>7 DEF IsFlattening
  <2> QED  BY <2>3, <2>8
<1>2. n \notin bad
  <2> HIDE DEF bad
  <2> QED  BY <1>1
<1> QED  BY <1>2

(* It is one and the same for sequences with the same beginning.           *)
LEMMA FlatteningUnique ==
  ASSUME NEW s, NEW t, NEW n \in Nat, NEW m \in 0..n, NEW g, NEW h,
         IsFlattening(s, n, g), IsFlattening(t, m, h),
         \A i \in 1..m : s[i] = t[i]
  PROVE  \A i \in 1..m : g[i] = h[i]
<1> DEFINE bad == {i \in 1..m : g[i] # h[i]}
<1>1. bad = {}
  <2> SUFFICES ASSUME bad # {} PROVE FALSE
    OBVIOUS
  <2>1. bad \subseteq Nat
    OBVIOUS
  <2>2. PICK i \in bad : \A k \in bad : i <= k
    <3> HIDE DEF bad
    <3> QED  BY <2>1, LeastOne
  <2>3. i \in 1..m /\ i \in 1..n /\ g[i] # h[i]
    OBVIOUS
  <2>4. /\ g[i] = IF i = 1 THEN s[i] ELSE g[i - 1] \o s[i]
        /\ h[i] = IF i = 1 THEN t[i] ELSE h[i - 1] \o t[i]
    BY <2>3 DEF IsFlattening
  <2>5. i # 1
    BY <2>3, <2>4
  <2>6. i - 1 \in 1..m /\ ~(i <= i - 1)
    BY <2>3, <2>5
  <2>7. i - 1 \notin bad
    <3> HIDE DEF bad
    <3> QED  BY <2>2, <2>6
  <2>8. g[i - 1] = h[i - 1]
    BY <2>6, <2>7
  <2> QED  BY <2>3, <2>4, <2>5, <2>8
<1> QED  BY <1>1

(* FlattenSeq is what such a function yields last.                         *)
LEMMA FlattenIs ==
  ASSUME NEW seqs, Len(seqs) \in Nat, Len(seqs) # 0, NEW g, IsFlattening(seqs, Len(seqs), g)
  PROVE  FlattenSeq(seqs) = g[Len(seqs)]
<1> DEFINE n == Len(seqs)
<1>1. PICK h : h = CHOOSE f : IsFlattening(seqs, n, f)
  OBVIOUS
<1>2. IsFlattening(seqs, n, h)
  BY <1>1
<1>3. FlattenSeq(seqs) = h[n]
  BY <1>1 DEF FlattenSeq, IsFlattening
<1>4. n \in 0..n /\ n \in 1..n
  OBVIOUS
<1> HIDE DEF n
<1>5. h[n] = g[n]
  BY <1>2, <1>4, FlatteningUnique DEF n
<1> QED  BY <1>3, <1>5 DEF n

(* One sequence more is put behind what the others give.                   *)
LEMMA FlattenMore ==
  ASSUME NEW seqs, NEW t, NEW n \in Nat, n # 0, n # 1, Len(seqs) = n, Len(t) = n - 1,
         \A i \in 1..(n - 1) : seqs[i] = t[i]
  PROVE  FlattenSeq(seqs) = FlattenSeq(t) \o seqs[n]
<1>1. n - 1 \in Nat /\ n - 1 # 0 /\ n - 1 \in 0..n /\ n - 1 \in 1..(n - 1) /\ n \in 1..n
  OBVIOUS
<1>2. PICK g : IsFlattening(seqs, n, g)
  BY FlatteningExists
<1>3. PICK h : IsFlattening(t, n - 1, h)
  BY <1>1, FlatteningExists
<1>4. FlattenSeq(seqs) = g[n] /\ FlattenSeq(t) = h[n - 1]
  BY <1>1, <1>2, <1>3, FlattenIs
<1>5. g[n] = g[n - 1] \o seqs[n]
  BY <1>1, <1>2 DEF IsFlattening
<1>6. \A i \in 1..(n - 1) : g[i] = h[i]
  <2>1. PICK k : k = n - 1
    OBVIOUS
  <2>2. k \in 0..n /\ IsFlattening(t, k, h) /\ \A i \in 1..k : seqs[i] = t[i]
    BY <1>1, <1>3, <2>1
  <2>3. \A i \in 1..k : g[i] = h[i]
    BY ONLY n \in Nat, <1>2, <2>2, FlatteningUnique
  <2> QED  BY <2>1, <2>3
<1> QED  BY <1>1, <1>4, <1>5, <1>6

(* The last sequence is put behind what the others give.                   *)
LEMMA FlattenLast ==
  ASSUME NEW S, NEW seqs \in Seq(Seq(S)), seqs # <<>>
  PROVE  FlattenSeq(seqs) = FlattenSeq(SubSeq(seqs, 1, Len(seqs) - 1)) \o seqs[Len(seqs)]
<1> DEFINE n == Len(seqs)
           t == SubSeq(seqs, 1, n - 1)
<1>1. n \in Nat /\ n # 0
  OBVIOUS
<1>2. Len(t) = n - 1 /\ \A i \in 1..(n - 1) : seqs[i] = t[i]
  <2>1. \A i \in 1..(n - 1) : seqs[i] \in Seq(S)
    BY <1>1
  <2> HIDE DEF n
  <2>2. n - 1 \in Int /\ 1 \in Int /\ (1 <= n - 1 => (n - 1) - 1 + 1 = n - 1) /\ (~(1 <= n - 1) => n - 1 = 0)
    BY <1>1
  <2>3. /\ Len(t) = IF 1 <= n - 1 THEN (n - 1) - 1 + 1 ELSE 0
        /\ \A i \in 1..((n - 1) - 1 + 1) : t[i] = seqs[1 + i - 1]
    BY <2>1, <2>2, SubSeqProperties
  <2> QED  BY <1>1, <2>2, <2>3 DEF n
<1>3. seqs[n] \in Seq(S)
  BY <1>1
<1> HIDE DEF t, n
<1>4. PICK g : IsFlattening(seqs, n, g)
  BY <1>1, FlatteningExists
<1>5. FlattenSeq(seqs) = g[n]
  BY <1>1, <1>4, FlattenIs DEF n
<1>6. g[n] = IF n = 1 THEN seqs[n] ELSE g[n - 1] \o seqs[n]
  <2>1. n \in 1..n
    BY <1>1
  <2> QED  BY <1>4, <2>1 DEF IsFlattening
<1>7. CASE n = 1
  <2>1. Len(t) = 0 /\ t = <<>>
    <3>1. t \in Seq(Seq(S))
      BY <1>7 DEF t, n
    <3> QED  BY <1>2, <1>7, <3>1
  <2>2. FlattenSeq(t) = <<>>
    BY <2>1 DEF FlattenSeq
  <2>3. <<>> \o seqs[n] = seqs[n]
    BY <1>3, ConcatEmptySeq
  <2> QED  BY <1>5, <1>6, <1>7, <2>2, <2>3 DEF t, n
<1>8. CASE n # 1
  BY <1>1, <1>2, <1>8, FlattenMore DEF n, t
<1> QED  BY <1>7, <1>8

(* How many elements the first d of the sequences have together.           *)
Below(seqs, d) == Len(FlattenSeq(SubSeq(seqs, 1, d)))

(* The first sequences of the first sequences.                             *)
LEMMA FirstOfFirst ==
  ASSUME NEW S, NEW s \in Seq(S), NEW d \in 0..Len(s), NEW e \in 0..d
  PROVE  /\ SubSeq(s, 1, d) \in Seq(S) /\ Len(SubSeq(s, 1, d)) = d
         /\ \A i \in 1..d : SubSeq(s, 1, d)[i] = s[i]
         /\ SubSeq(SubSeq(s, 1, d), 1, e) = SubSeq(s, 1, e)
<1>1. Len(s) \in Nat /\ d \in Nat /\ e \in Nat
  OBVIOUS
<1>2. ASSUME NEW c \in 0..Len(s)
      PROVE  /\ SubSeq(s, 1, c) \in Seq(S) /\ Len(SubSeq(s, 1, c)) = c
             /\ \A i \in 1..c : SubSeq(s, 1, c)[i] = s[i]
  <2>1. \A i \in 1..c : s[i] \in S
    BY <1>1
  <2>2. c \in Int /\ 1 \in Int /\ c - 1 + 1 = c /\ (~(1 <= c) => c = 0) /\ \A i \in 1..c : 1 + i - 1 = i
    BY <1>1
  <2>3. /\ SubSeq(s, 1, c) \in Seq(S)
        /\ Len(SubSeq(s, 1, c)) = IF 1 <= c THEN c - 1 + 1 ELSE 0
        /\ \A i \in 1..(c - 1 + 1) : SubSeq(s, 1, c)[i] = s[1 + i - 1]
    BY ONLY <2>1, <2>2, SubSeqProperties
  <2> QED  BY <2>2, <2>3
<1> DEFINE t == SubSeq(s, 1, d)
<1>3. t \in Seq(S) /\ Len(t) = d /\ \A i \in 1..d : t[i] = s[i]
  BY <1>2
<1> HIDE DEF t
<1>4. /\ SubSeq(t, 1, e) \in Seq(S) /\ Len(SubSeq(t, 1, e)) = e
      /\ \A i \in 1..e : SubSeq(t, 1, e)[i] = t[i]
  <2>1. \A i \in 1..e : t[i] \in S
    BY <1>1, <1>3
  <2>2. e \in Int /\ 1 \in Int /\ e - 1 + 1 = e /\ (~(1 <= e) => e = 0) /\ \A i \in 1..e : 1 + i - 1 = i
    BY <1>1
  <2>3. /\ SubSeq(t, 1, e) \in Seq(S)
        /\ Len(SubSeq(t, 1, e)) = IF 1 <= e THEN e - 1 + 1 ELSE 0
        /\ \A i \in 1..(e - 1 + 1) : SubSeq(t, 1, e)[i] = t[1 + i - 1]
    BY ONLY <2>1, <2>2, SubSeqProperties
  <2> QED  BY <2>2, <2>3
<1>5. e \in 0..Len(s) /\ \A i \in 1..e : i \in 1..d
  BY <1>1
<1>6. SubSeq(t, 1, e) = SubSeq(s, 1, e)
  BY <1>2, <1>3, <1>4, <1>5, SeqEqual
<1> QED  BY <1>3, <1>6 DEF t

(* Elements are counted sequence by sequence.                              *)
LEMMA BelowCounts ==
  ASSUME NEW S, NEW seqs \in Seq(Seq(S))
  PROVE  /\ FlattenSeq(seqs) \in Seq(S)
         /\ Below(seqs, 0) = 0 /\ Below(seqs, Len(seqs)) = Len(FlattenSeq(seqs))
         /\ \A d \in 0..Len(seqs) : Below(seqs, d) \in Nat
         /\ \A d \in 1..Len(seqs) : Below(seqs, d) = Below(seqs, d - 1) + Len(seqs[d])
<1> DEFINE n == Len(seqs)
           First(d) == SubSeq(seqs, 1, d)
<1>1. n \in Nat
  OBVIOUS
<1>2. \A d \in 0..n : First(d) \in Seq(Seq(S)) /\ Len(First(d)) = d
                      /\ \A i \in 1..d : First(d)[i] = seqs[i]
  BY FirstOfFirst
<1>3. First(0) = <<>> /\ FlattenSeq(First(0)) = <<>>
  <2>1. First(0) \in Seq(Seq(S)) /\ Len(First(0)) = 0
    BY <1>1, <1>2
  <2> HIDE DEF First
  <2>2. First(0) = <<>>
    BY <2>1
  <2> QED  BY <2>1, <2>2 DEF FlattenSeq
<1>4. First(n) = seqs
  BY SubSeqFull
<1>5. ASSUME NEW d \in 1..n PROVE FlattenSeq(First(d)) = FlattenSeq(First(d - 1)) \o seqs[d]
  <2>1. d \in 0..n /\ d - 1 \in 0..d /\ d \in 1..d /\ d # 0
    BY <1>1
  <2>2. First(d) # <<>>
    BY <1>2, <2>1
  <2>3. SubSeq(First(d), 1, d - 1) = First(d - 1)
    BY <2>1, FirstOfFirst
  <2>4. First(d) \in Seq(Seq(S)) /\ Len(First(d)) = d /\ First(d)[d] = seqs[d]
    BY <1>2, <2>1
  <2> HIDE DEF First
  <2> QED  BY <2>2, <2>3, <2>4, FlattenLast
<1> DEFINE bad == {d \in 0..n : FlattenSeq(First(d)) \notin Seq(S)}
<1>6. bad = {}
  <2> SUFFICES ASSUME bad # {} PROVE FALSE
    OBVIOUS
  <2>1. bad \subseteq Nat
    BY <1>1
  <2>2. PICK d \in bad : \A k \in bad : d <= k
    <3> HIDE DEF bad
    <3> QED  BY <2>1, LeastOne
  <2> HIDE DEF First
  <2>3. d \in 0..n /\ FlattenSeq(First(d)) \notin Seq(S)
    OBVIOUS
  <2>4. d # 0
    <3>1. <<>> \in Seq(S)
      OBVIOUS
    <3> QED  BY <1>3, <2>3, <3>1
  <2>5. d \in 1..n /\ d - 1 \in 0..n /\ ~(d <= d - 1)
    BY <1>1, <2>3, <2>4
  <2>6. d - 1 \notin bad
    <3> HIDE DEF bad
    <3> QED  BY <2>2, <2>5
  <2>7. FlattenSeq(First(d - 1)) \in Seq(S) /\ seqs[d] \in Seq(S)
    BY <2>5, <2>6
  <2> QED  BY <1>5, <2>3, <2>5, <2>7, ConcatProperties
<1> HIDE DEF First
<1>7. \A d \in 0..n : FlattenSeq(First(d)) \in Seq(S)
  BY <1>6
<1>8. \A d \in 0..n : Len(FlattenSeq(First(d))) \in Nat
  BY <1>7, LenProperties
<1>9. ASSUME NEW d \in 1..n
      PROVE  Len(FlattenSeq(First(d))) = Len(FlattenSeq(First(d - 1))) + Len(seqs[d])
  <2>1. d - 1 \in 0..n /\ seqs[d] \in Seq(S)
    BY <1>1
  <2> QED  BY <1>5, <1>7, <2>1, ConcatProperties
<1>10. n \in 0..n
  BY <1>1
<1> HIDE DEF n
<1>11. FlattenSeq(seqs) \in Seq(S)
  BY <1>4, <1>7, <1>10
<1> QED  BY <1>3, <1>4, <1>8, <1>9, <1>11 DEF Below, First, n

(* It depends on those sequences alone.                                    *)
LEMMA BelowAgrees ==
  ASSUME NEW S, NEW s \in Seq(Seq(S)), NEW t \in Seq(Seq(S)), NEW n \in Nat,
         n <= Len(s), n <= Len(t), \A i \in 1..n : s[i] = t[i]
  PROVE  \A d \in 0..n : Below(s, d) = Below(t, d)
<1> TAKE d \in 0..n
<1>1. d \in 0..Len(s) /\ d \in 0..Len(t) /\ d \in 0..d /\ \A i \in 1..d : i \in 1..n
  OBVIOUS
<1>2. /\ SubSeq(s, 1, d) \in Seq(Seq(S)) /\ Len(SubSeq(s, 1, d)) = d
      /\ \A i \in 1..d : SubSeq(s, 1, d)[i] = s[i]
  BY <1>1, FirstOfFirst
<1>3. /\ SubSeq(t, 1, d) \in Seq(Seq(S)) /\ Len(SubSeq(t, 1, d)) = d
      /\ \A i \in 1..d : SubSeq(t, 1, d)[i] = t[i]
  BY <1>1, FirstOfFirst
<1>4. SubSeq(s, 1, d) = SubSeq(t, 1, d)
  BY <1>1, <1>2, <1>3, SeqEqual
<1> QED  BY <1>4 DEF Below

(* The elements of the sequences behind the first k of them.               *)
LEMMA FlattenRest ==
  ASSUME NEW S, NEW seqs \in Seq(Seq(S)), NEW k \in 0..Len(seqs)
  PROVE  Len(FlattenSeq(SubSeq(seqs, k + 1, Len(seqs)))) = Below(seqs, Len(seqs)) - Below(seqs, k)
<1> DEFINE n == Len(seqs)
           rest == SubSeq(seqs, k + 1, n)
           m == n - k
<1>1. n \in Nat /\ k \in Nat /\ m \in Nat /\ k + m = n
  OBVIOUS
<1>2. rest \in Seq(Seq(S)) /\ Len(rest) = m /\ \A i \in 1..m : rest[i] = seqs[k + i]
  <2>1. \A i \in (k + 1)..n : seqs[i] \in Seq(S)
    BY <1>1
  <2>2. k + 1 \in Int /\ n \in Int /\ n - (k + 1) + 1 = m /\ (~(k + 1 <= n) => m = 0)
    <3> HIDE DEF n
    <3>1. k + 1 \in Int /\ n - (k + 1) + 1 = n - k /\ (~(k + 1 <= n) => n - k = 0)
      BY <1>1
    <3> QED  BY <1>1, <3>1 DEF m
  <2>3. /\ rest \in Seq(Seq(S))
        /\ Len(rest) = IF k + 1 <= n THEN n - (k + 1) + 1 ELSE 0
        /\ \A i \in 1..(n - (k + 1) + 1) : rest[i] = seqs[k + 1 + i - 1]
    <3> HIDE DEF n
    <3> QED  BY ONLY <2>1, <2>2, SubSeqProperties
  <2>4. \A i \in 1..m : k + 1 + i - 1 = k + i
    BY <1>1
  <2> HIDE DEF m, n, rest
  <2>5. Len(rest) = m
    BY <2>2, <2>3
  <2>6. \A i \in 1..m : rest[i] = seqs[k + i]
    BY <2>2, <2>3, <2>4
  <2> QED  BY <2>3, <2>5, <2>6
<1> HIDE DEF rest, m
<1>3. /\ \A d \in 0..n : Below(seqs, d) \in Nat
      /\ \A d \in 1..n : Below(seqs, d) = Below(seqs, d - 1) + Len(seqs[d])
  BY BelowCounts
<1>4. /\ Below(rest, 0) = 0 /\ Below(rest, m) = Len(FlattenSeq(rest))
      /\ \A d \in 0..m : Below(rest, d) \in Nat
      /\ \A d \in 1..m : Below(rest, d) = Below(rest, d - 1) + Len(rest[d])
  BY <1>2, BelowCounts
<1> HIDE DEF n
<1> DEFINE bad == {d \in 0..m : Below(seqs, k + d) # Below(seqs, k) + Below(rest, d)}
<1>5. bad = {}
  <2> SUFFICES ASSUME bad # {} PROVE FALSE
    OBVIOUS
  <2>1. bad \subseteq Nat
    BY <1>1
  <2>2. PICK d \in bad : \A e \in bad : d <= e
    <3> HIDE DEF bad
    <3> QED  BY <2>1, LeastOne
  <2>3. d \in 0..m /\ Below(seqs, k + d) # Below(seqs, k) + Below(rest, d)
    OBVIOUS
  <2>4. d # 0
    <3>1. k + 0 = k /\ k \in 0..n /\ Below(seqs, k) \in Nat
      BY <1>1, <1>3
    <3>2. Below(seqs, k) + 0 = Below(seqs, k)
      BY <3>1
    <3> QED  BY <1>4, <2>3, <3>1, <3>2
  <2>5. /\ d \in 1..m /\ d - 1 \in 0..m /\ ~(d <= d - 1) /\ k + d \in 1..n /\ (k + d) - 1 = k + (d - 1)
        /\ k + (d - 1) \in 0..n /\ k \in 0..n
    BY <1>1, <2>3, <2>4
  <2>6. d - 1 \notin bad
    <3> HIDE DEF bad
    <3> QED  BY <2>2, <2>5
  <2>7. Below(seqs, k + (d - 1)) = Below(seqs, k) + Below(rest, d - 1)
    BY <2>5, <2>6
  <2>8. Below(seqs, k + d) = Below(seqs, k + (d - 1)) + Len(rest[d])
    BY <1>2, <1>3, <2>5
  <2>9. Below(rest, d) = Below(rest, d - 1) + Len(rest[d])
    BY <1>4, <2>5
  <2>10. /\ Below(seqs, k) \in Nat /\ Below(rest, d - 1) \in Nat /\ Below(rest, d) \in Nat
    BY <1>3, <1>4, <2>5, <2>3
  <2>11. Len(rest[d]) \in Nat
    BY <1>2, <2>5
  <2>12. \A a, b, c, x, y \in Nat : x = a + b /\ y = x + c => y = a + (b + c)
    OBVIOUS
  <2>13. Below(seqs, k + (d - 1)) \in Nat /\ Below(seqs, k + d) \in Nat
    BY <1>3, <2>5
  <2>14. Below(seqs, k + d) = Below(seqs, k) + (Below(rest, d - 1) + Len(rest[d]))
    BY ONLY <2>7, <2>8, <2>10, <2>11, <2>12, <2>13, SMTT(40)
  <2> QED  BY ONLY <2>3, <2>9, <2>14
<1>6. m \in 0..m
  BY <1>1
<1>7. Below(seqs, n) = Below(seqs, k) + Below(rest, m)
  <2>1. m \notin bad
    <3> HIDE DEF bad
    <3> QED  BY <1>5
  <2> QED  BY <1>1, <1>6, <2>1
<1>8. Below(rest, m) \in Nat /\ Below(seqs, k) \in Nat
  BY <1>1, <1>3, <1>4, <1>6
<1>9. Below(rest, m) = Below(seqs, n) - Below(seqs, k)
  BY <1>7, <1>8
<1> QED  BY <1>4, <1>9 DEF n, rest

-----------------------------------------------------------------------------
(* Levels: what an instruction needs, and leaves *)

(* What the stack looks like where an instruction begins: h values from bp *)
(* to sp, and the a arguments of the function below.                       *)
Level == [h : Nat, a : Nat]

At(h, a) == [h |-> h, a |-> a]

Pushes == {"NUMBER", "BOOLEAN", "NONE", "GET_GLOBAL", "GET_LOCAL", "INCR_GLOBAL", "INCR_LOCAL",
           "CALL"}

Drops == {"POP", "FJUMP", "RETURN"}

(* How much higher the stack is behind an instruction                      *)
Rise(x) == IF x.op \in Pushes THEN 1
           ELSE IF x.op \in Drops THEN -1
           ELSE IF x.op \in {"POPN", "CLARGS"} THEN -x.arg ELSE 0

After(x, l) == At(l.h + Rise(x), l.a)

(* The slots SET_LOCAL may write: the arguments, and the values below the  *)
(* one it stores                                                           *)
Writable(l) == ((-2 - l.a)..(-3)) \union (0..(l.h - 2))

(* The slots INCR_LOCAL may write, with nothing on top of them             *)
Steppable(l) == ((-2 - l.a)..(-3)) \union (0..(l.h - 1))

(* An instruction takes no more than the function has put there.           *)
Fits(x, l) ==
  /\ x.op \in Drops \union {"SET_LOCAL", "SET_GLOBAL", "NATIVE_CALL"} => 1 <= l.h
  /\ x.op = "POPN"      => x.arg <= l.h
  /\ x.op = "CLARGS"    => x.arg < l.h
  /\ x.op = "CALL"      => fns[x.arg].argc <= l.h
  /\ x.op = "SET_LOCAL" => x.arg \in Writable(l)
  /\ x.op = "INCR_LOCAL" => x.arg \in Steppable(l)

Behind(c, o) == o + Bytes(c.ins[o].op)

Leads(c, H, o) == Behind(c, o) \in DOMAIN H /\ H[Behind(c, o)] = After(c.ins[o], H[o])

Lands(c, H, o) == Landing(c, o) \in DOMAIN H /\ H[Landing(c, o)] = H[Behind(c, o)]

(* H gives the offsets control can reach a level, the same one along every *)
(* way there: from one instruction to the next and over every jump but the *)
(* pending ones.                                                           *)
Steady(c, H, pending) ==
  /\ DOMAIN H \subseteq Ends(c)
  /\ \A o \in DOMAIN H : H[o] \in Level
  /\ \A o \in DOMAIN H \cap DOMAIN c.ins :
       /\ Fits(c.ins[o], H[o])
       /\ c.ins[o].op # "RETURN" => Leads(c, H, o)
       /\ c.ins[o].op \in Jumps /\ o + 1 \notin pending => Lands(c, H, o)

(* And code to be written next finds the level l.                          *)
Arrives(c, H, pending, l) ==
  /\ Steady(c, H, pending)
  /\ c.size \in DOMAIN H /\ H[c.size] = l

(* G gives the offsets of H the same levels.                               *)
Keeps(H, G) == \A o \in DOMAIN H : o \in DOMAIN G /\ G[o] = H[o]

(* What is written from c to d goes from the level l to the level m.       *)
Raises(c, l, d, m) ==
  \A H, pending : Arrives(c, H, pending, l) =>
    \E G : Keeps(H, G) /\ Arrives(d, G, pending, m)

(* Nothing written                                                         *)
LEMMA RaisesNothing == \A c, l : Raises(c, l, c, l)
BY DEF Raises, Keeps

(* One write behind another                                                *)
LEMMA RaisesBehind ==
  ASSUME NEW c, NEW l, NEW d, NEW m, NEW e, NEW n, Raises(c, l, d, m), Raises(d, m, e, n)
  PROVE  Raises(c, l, e, n)
<1> SUFFICES ASSUME NEW H, NEW pending, Arrives(c, H, pending, l)
             PROVE  \E G : Keeps(H, G) /\ Arrives(e, G, pending, n)
  BY DEF Raises
<1>1. PICK F : Keeps(H, F) /\ Arrives(d, F, pending, m)
  BY DEF Raises
<1>2. PICK G : Keeps(F, G) /\ Arrives(e, G, pending, n)
  BY <1>1 DEF Raises
<1>3. Keeps(H, G)
  BY <1>1, <1>2 DEF Keeps
<1> QED  BY <1>2, <1>3

(* One instruction more: it must fit the level, and the one behind it has  *)
(* the level it leaves - any level, behind a return.                       *)
LEMMA InstructionArrives ==
  ASSUME NEW c, SoundCode(c), NEW op, NEW arg, Checked([op |-> op, arg |-> arg]),
         NEW d, d = AddInstruction(c, op, arg, Bytes(op)),
         NEW H, NEW pending, NEW l, Arrives(c, H, pending, l),
         Fits([op |-> op, arg |-> arg], l),
         NEW m \in Level, op # "RETURN" => m = After([op |-> op, arg |-> arg], l),
         NEW left, pending \subseteq left, op \in Jumps => c.size + 1 \in left
  PROVE  \E G : Keeps(H, G) /\ Arrives(d, G, left, m)
<1> DEFINE x == [op |-> op, arg |-> arg]
           G == [o \in DOMAIN H \union {d.size} |-> IF o = d.size THEN m ELSE H[o]]
<1>0. x.op = op
  OBVIOUS
<1> HIDE DEF x
<1>1. /\ Grows(c, d) /\ d.size = c.size + Bytes(op)
      /\ DOMAIN d.ins = DOMAIN c.ins \union {c.size} /\ d.ins[c.size] = x
  BY InstructionAdded DEF x
<1>2. c.size \in Nat /\ DOMAIN c.ins \subseteq 0..(c.size - 1) /\ Bytes(op) \in {1, 5}
  BY DEF SoundCode, Bytes, INT_SIZE
<1>3. c.size < d.size /\ c.size \notin DOMAIN c.ins /\ d.size \in Nat
  BY <1>1, <1>2
<1>4. DOMAIN H \subseteq Ends(c) /\ c.size \in DOMAIN H /\ H[c.size] = l
  BY DEF Arrives, Steady
<1>5. \A o \in DOMAIN H : o # d.size
  BY <1>2, <1>3, <1>4 DEF Ends
<1>6. /\ DOMAIN G = DOMAIN H \union {d.size} /\ G[d.size] = m
      /\ \A o \in DOMAIN H : G[o] = H[o]
  BY <1>5
<1> HIDE DEF G
<1>7. Keeps(H, G)
  BY <1>6 DEF Keeps
<1>8. \A o \in DOMAIN c.ins : o \in DOMAIN d.ins /\ d.ins[o] = c.ins[o]
  BY <1>1 DEF Grows
<1>9. DOMAIN G \subseteq Ends(d)
  BY <1>1, <1>4, <1>6 DEF Ends
<1>10. \A o \in DOMAIN G : G[o] \in Level
  BY <1>6 DEF Arrives, Steady
<1>11. ASSUME NEW o \in DOMAIN G \cap DOMAIN d.ins
       PROVE  /\ Fits(d.ins[o], G[o])
              /\ d.ins[o].op # "RETURN" => Leads(d, G, o)
              /\ d.ins[o].op \in Jumps /\ o + 1 \notin left => Lands(d, G, o)
  <2>1. o # d.size
    BY <1>1, <1>2, <1>3
  <2>2. o \in DOMAIN H /\ G[o] = H[o]
    BY <1>6, <2>1
  <2>3. CASE o = c.size
    <3>1. d.ins[o] = x /\ G[o] = l /\ Behind(d, o) = d.size /\ x.op = op
      BY <1>0, <1>1, <1>4, <2>2, <2>3 DEF Behind
    <3>2. op # "RETURN" => Leads(d, G, o)
      BY <1>6, <3>1 DEF Leads, x
    <3>3. Fits(d.ins[o], G[o])
      BY <3>1 DEF x
    <3> QED  BY <2>3, <3>1, <3>2, <3>3
  <2>4. CASE o \in DOMAIN c.ins
    <3>1. d.ins[o] = c.ins[o] /\ Behind(d, o) = Behind(c, o) /\ Landing(d, o) = Landing(c, o)
      BY <1>8, <2>4 DEF Behind, Landing
    <3>2. /\ Fits(c.ins[o], H[o])
          /\ c.ins[o].op # "RETURN" => Leads(c, H, o)
          /\ c.ins[o].op \in Jumps /\ o + 1 \notin pending => Lands(c, H, o)
      BY <2>2, <2>4 DEF Arrives, Steady
    <3>3. Leads(c, H, o) => Leads(d, G, o)
      BY <1>6, <2>2, <3>1 DEF Leads
    <3>4. c.ins[o].op \in Jumps => c.ins[o].op # "RETURN"
      BY DEF Jumps
    <3>5. Leads(c, H, o) /\ Lands(c, H, o) => Lands(d, G, o)
      BY <1>6, <2>2, <3>1 DEF Leads, Lands
    <3> QED  BY <2>2, <3>1, <3>2, <3>3, <3>4, <3>5
  <2> QED  BY <1>1, <2>3, <2>4
<1>12. Arrives(d, G, left, m)
  BY <1>6, <1>9, <1>10, <1>11 DEF Arrives, Steady
<1> QED  BY <1>7, <1>12

(* So an instruction that is no jump raises the level as it does.          *)
LEMMA InstructionRaises ==
  ASSUME NEW c, SoundCode(c), NEW op, NEW arg, Checked([op |-> op, arg |-> arg]),
         op \notin Jumps, NEW l, Fits([op |-> op, arg |-> arg], l),
         NEW m \in Level, op # "RETURN" => m = After([op |-> op, arg |-> arg], l)
  PROVE  Raises(c, l, AddInstruction(c, op, arg, Bytes(op)), m)
<1> SUFFICES ASSUME NEW H, NEW pending, Arrives(c, H, pending, l)
             PROVE  \E G : Keeps(H, G)
                           /\ Arrives(AddInstruction(c, op, arg, Bytes(op)), G, pending, m)
  BY DEF Raises
<1> QED  BY InstructionArrives

-----------------------------------------------------------------------------
(* Expressions *)

(* Code is written from c to d, which goes from the level l to the level m. *)
Carries(c, l, d, m) == Appends(c, d) /\ Raises(c, l, d, m)

(* Nothing, and one write behind another                                   *)
LEMMA CarriesNothing == ASSUME NEW c, SoundCode(c), NEW l PROVE Carries(c, l, c, l)
BY AppendsNothing, RaisesNothing DEF Carries

(* What is written behind code that carries carries as well.               *)
LEMMA CarriesBehind ==
  ASSUME NEW c, SoundCode(c), NEW l, NEW d, NEW m, NEW e, NEW n,
         Carries(c, l, d, m), Carries(d, m, e, n)
  PROVE  Carries(c, l, e, n)
BY AppendsBehind, RaisesBehind DEF Carries

(* So sound code stays sound.                                              *)
LEMMA CarriedIsSound ==
  ASSUME NEW c, NEW l, NEW d, NEW m, Carries(c, l, d, m) PROVE SoundCode(d)
BY DEF Carries, Appends, Grows

(* An instruction of one byte                                              *)
LEMMA OpCarries ==
  ASSUME NEW c, SoundCode(c), NEW op \in OneByte, NEW l, NEW m \in Level,
         Fits([op |-> op, arg |-> NoOperand], l),
         op # "RETURN" => m = After([op |-> op, arg |-> NoOperand], l)
  PROVE  Carries(c, l, WriteOp(c, op), m)
<1>1. WriteOp(c, op) = AddInstruction(c, op, NoOperand, Bytes(op))
  BY DEF WriteOp, Bytes
<1>2. Checked([op |-> op, arg |-> NoOperand]) /\ op \notin Jumps
  BY DEF Checked, OneByte, Jumps
<1>3. Appends(c, WriteOp(c, op))
  BY WriteOpAppends
<1>4. Raises(c, l, WriteOp(c, op), m)
  BY <1>1, <1>2, InstructionRaises
<1> QED  BY <1>3, <1>4 DEF Carries

(* An instruction with an operand                                          *)
LEMMA ConstantCarries ==
  ASSUME NEW c, SoundCode(c), NEW op, op \notin OneByte, NEW arg, NEW l, NEW m \in Level,
         Checked([op |-> op, arg |-> arg]), Plain([op |-> op, arg |-> arg]),
         Fits([op |-> op, arg |-> arg], l), m = After([op |-> op, arg |-> arg], l)
  PROVE  Carries(c, l, WriteConstant(c, op, arg), m)
<1>1. WriteConstant(c, op, arg) = AddInstruction(c, op, arg, Bytes(op))
  BY DEF WriteConstant, Bytes
<1>2. op \notin Jumps
  BY DEF Plain
<1>3. Appends(c, WriteConstant(c, op, arg))
  BY WriteConstantAppends
<1>4. Raises(c, l, WriteConstant(c, op, arg), m)
  BY <1>1, <1>2, InstructionRaises
<1> QED  BY <1>3, <1>4 DEF Carries

(* A level is what it is made of.                                          *)
LEMMA Levels ==
  /\ \A h, a \in Nat : At(h, a) \in Level
  /\ \A h, a : At(h, a).h = h /\ At(h, a).a = a
  /\ \A l \in Level : l = At(l.h, l.a) /\ l.h \in Nat /\ l.a \in Nat
BY DEF At, Level

(* Instructions that push one value and touch nothing else                 *)
LEMMA PushCarries ==
  ASSUME NEW c, SoundCode(c), NEW op \in Pushes, op \notin OneByte,
         op \notin {"CALL", "INCR_LOCAL", "INCR_GLOBAL"}, NEW arg,
         NEW h \in Nat, NEW a \in Nat
  PROVE  Carries(c, At(h, a), WriteConstant(c, op, arg), At(h + 1, a))
<1> DEFINE x == [op |-> op, arg |-> arg]
<1>1. Checked(x) /\ Plain(x)
  BY DEF Checked, Plain, Pushes, Jumps
<1>2. Fits(x, At(h, a))
  BY DEF Fits, Pushes, Drops
<1>3. After(x, At(h, a)) = At(h + 1, a)
  BY Levels DEF After, Rise
<1>4. At(h + 1, a) \in Level
  BY Levels
<1> HIDE DEF x
<1> QED  BY <1>1, <1>2, <1>3, <1>4, ConstantCarries DEF x

(* A number is pushed.                                                     *)
LEMMA NumberCarries ==
  ASSUME NEW c, SoundCode(c), NEW n, NEW h \in Nat, NEW a \in Nat
  PROVE  Carries(c, At(h, a), WriteNumber(c, n), At(h + 1, a))
BY PushCarries DEF WriteNumber, Pushes, OneByte

(* A function without a value returns none.                                *)
LEMMA NoneCarries ==
  ASSUME NEW c, SoundCode(c), NEW h \in Nat, NEW a \in Nat
  PROVE  Carries(c, At(h, a), WriteOp(c, "NONE"), At(h + 1, a))
<1> DEFINE x == [op |-> "NONE", arg |-> NoOperand]
<1>1. Fits(x, At(h, a))
  BY DEF Fits, Drops
<1>2. After(x, At(h, a)) = At(h + 1, a)
  BY Levels DEF After, Rise, Pushes
<1>3. At(h + 1, a) \in Level
  BY Levels
<1> QED  BY <1>1, <1>2, <1>3, OpCarries DEF OneByte

(* A value is popped.                                                      *)
LEMMA PopCarries ==
  ASSUME NEW c, SoundCode(c), NEW h \in Nat, NEW a \in Nat
  PROVE  Carries(c, At(h + 1, a), WriteOp(c, "POP"), At(h, a))
<1> DEFINE x == [op |-> "POP", arg |-> NoOperand]
<1>1. Fits(x, At(h + 1, a))
  BY Levels DEF Fits, Drops
<1>2. After(x, At(h + 1, a)) = At(h, a)
  <2>1. h + 1 + (-1) = h
    OBVIOUS
  <2> QED  BY <2>1, Levels DEF After, Rise, Pushes, Drops
<1>3. At(h, a) \in Level
  BY Levels
<1> QED  BY <1>1, <1>2, <1>3, OpCarries DEF OneByte

(* Behind a return the level is what one will have it to be.               *)
LEMMA ReturnCarries ==
  ASSUME NEW c, SoundCode(c), NEW h \in Nat, NEW a \in Nat, NEW m \in Level
  PROVE  Carries(c, At(h + 1, a), WriteOp(c, "RETURN"), m)
<1> DEFINE x == [op |-> "RETURN", arg |-> NoOperand]
<1>1. Fits(x, At(h + 1, a))
  BY Levels DEF Fits, Drops
<1> QED  BY <1>1, OpCarries DEF OneByte

(* Several values are popped, or none.                                     *)
LEMMA PopLocalsCarries ==
  ASSUME NEW c, SoundCode(c), NEW n \in Nat, NEW h \in Nat, NEW a \in Nat
  PROVE  Carries(c, At(h + n, a), PopLocals(c, n), At(h, a))
<1>1. CASE n = 0
  <2>1. h + n = h
    BY <1>1
  <2> QED  BY <1>1, <2>1, CarriesNothing DEF PopLocals
<1>2. CASE n = 1
  BY <1>2, PopCarries DEF PopLocals
<1>3. CASE n # 0 /\ n # 1
  <2> DEFINE x == [op |-> "POPN", arg |-> n]
  <2>1. Checked(x) /\ Plain(x)
    BY DEF Checked, Plain, Jumps
  <2>2. Fits(x, At(h + n, a))
    BY Levels DEF Fits, Drops
  <2>3. After(x, At(h + n, a)) = At(h, a)
    <3>1. h + n + (-n) = h
      OBVIOUS
    <3> QED  BY <3>1, Levels DEF After, Rise, Pushes, Drops
  <2>4. At(h, a) \in Level
    BY Levels
  <2>5. Carries(c, At(h + n, a), WriteConstant(c, "POPN", n), At(h, a))
    BY <2>1, <2>2, <2>3, <2>4, ConstantCarries DEF OneByte
  <2> QED  BY <1>3, <2>5 DEF PopLocals
<1> QED  BY <1>1, <1>2, <1>3

(* The arguments go from under the result.                                 *)
LEMMA ClearArgsCarries ==
  ASSUME NEW c, SoundCode(c), NEW n \in Nat, NEW h \in Nat, NEW a \in Nat
  PROVE  Carries(c, At(h + n + 1, a), ClearArgs(c, n), At(h + 1, a))
<1>1. CASE n = 0
  <2>1. h + n + 1 = h + 1
    BY <1>1
  <2> QED  BY <1>1, <2>1, CarriesNothing DEF ClearArgs
<1>2. CASE n # 0
  <2> DEFINE x == [op |-> "CLARGS", arg |-> n]
  <2>1. Checked(x) /\ Plain(x)
    BY DEF Checked, Plain, Jumps
  <2>2. Fits(x, At(h + n + 1, a))
    BY Levels DEF Fits, Drops
  <2>3. After(x, At(h + n + 1, a)) = At(h + 1, a)
    <3>1. h + n + 1 + (-n) = h + 1
      OBVIOUS
    <3> QED  BY <3>1, Levels DEF After, Rise, Pushes, Drops
  <2>4. At(h + 1, a) \in Level
    BY Levels
  <2>5. Carries(c, At(h + n + 1, a), WriteConstant(c, "CLARGS", n), At(h + 1, a))
    BY <2>1, <2>2, <2>3, <2>4, ConstantCarries DEF OneByte
  <2> QED  BY <1>2, <2>5 DEF ClearArgs
<1> QED  BY <1>1, <1>2

(* Where the topmost local and the first argument of a name are            *)
LEMMA ResolvedWhere ==
  ASSUME NEW s, NEW id, Len(s.locals) \in Nat, Len(s.args) \in Nat
  PROVE  ResolveLocal(s, id) \in ((-2 - Len(s.args))..(-3)) \union ((-1)..(Len(s.locals) - 1))
<1>1. FindArgument(s, id) = -1 \/ FindArgument(s, id) \in 0..(Len(s.args) - 1)
  <2> DEFINE Hit(i) == s.args[i] = id
             First(i) == Hit(i) /\ \A j \in 1..(i - 1) : ~Hit(j)
  <2>1. CASE \E i \in 1..Len(s.args) : Hit(i)
    <3> DEFINE hits == {i \in 1..Len(s.args) : Hit(i)}
    <3>1. hits \subseteq Nat /\ hits # {}
      BY <2>1
    <3>2. PICK m \in hits : \A k \in hits : m <= k
      <4> HIDE DEF hits
      <4> QED  BY <3>1, LeastOne
    <3>3. m \in 1..Len(s.args) /\ First(m)
      BY <3>2
    <3>4. PICK i : i = CHOOSE j \in 1..Len(s.args) : First(j)
      OBVIOUS
    <3>5. i \in 1..Len(s.args)
      <4> HIDE DEF First
      <4> QED  BY <3>3, <3>4
    <3>6. FindArgument(s, id) = i - 1
      BY <2>1, <3>4 DEF FindArgument
    <3> QED  BY <3>5, <3>6
  <2>2. CASE ~\E i \in 1..Len(s.args) : Hit(i)
    BY <2>2 DEF FindArgument
  <2> QED  BY <2>1, <2>2
<1>2. TopLocal(s, id) \in 0..Len(s.locals)
  <2> DEFINE n == Len(s.locals)
             Hit(i) == s.locals[i].id = id
             Last1(i) == Hit(i) /\ \A j \in (i + 1)..n : ~Hit(j)
  <2>1. CASE \E i \in 1..n : Hit(i)
    <3> DEFINE hits == {k \in 0..n : Hit(n - k) /\ n - k \in 1..n}
    <3>0. hits \subseteq Nat
      OBVIOUS
    <3>1. hits # {}
      <4> HIDE DEF Hit
      <4>1. PICK i \in 1..n : Hit(i)
        BY <2>1
      <4>2. n - i \in 0..n /\ n - (n - i) = i
        OBVIOUS
      <4> DEFINE q == n - i
      <4>3. q \in 0..n /\ Hit(n - q) /\ n - q \in 1..n
        BY <4>1, <4>2, Zenon
      <4> HIDE DEF q, n, hits
      <4>4. q \in hits
        BY <4>3 DEF hits, Hit
      <4> QED  BY <4>4
    <3>2. PICK m \in hits : \A k \in hits : m <= k
      <4> HIDE DEF hits
      <4> QED  BY <3>0, <3>1, LeastOne
    <3>3. n - m \in 1..n /\ Hit(n - m)
      OBVIOUS
    <3>4. ASSUME NEW j \in ((n - m) + 1)..n, Hit(j) PROVE FALSE
      <4>1. m \in 0..n /\ n \in Nat
        OBVIOUS
      <4> HIDE DEF n, hits
      <4>2. n - j \in 0..n /\ n - (n - j) = j /\ j \in 1..n /\ ~(m <= n - j)
        BY <4>1, <3>3
      <4>3. n - j \in hits
        BY <3>4, <4>2 DEF hits
      <4> QED  BY <3>2, <4>2, <4>3
    <3>5. n - m \in 1..n /\ Last1(n - m)
      BY <3>3, <3>4
    <3>6. PICK i : i = CHOOSE j \in 1..n : Last1(j)
      OBVIOUS
    <3>7. i \in 1..n
      <4> HIDE DEF Last1
      <4> QED  BY <3>5, <3>6
    <3>8. TopLocal(s, id) = i
      BY <2>1, <3>6 DEF TopLocal
    <3> QED  BY <3>7, <3>8
  <2>2. CASE ~\E i \in 1..n : Hit(i)
    BY <2>2 DEF TopLocal
  <2> QED  BY <2>1, <2>2
<1> QED  BY <1>1, <1>2, SMTT(40) DEF ResolveLocal

(* What a read of a variable may be compiled to                            *)
LEMMA AccessCarries ==
  ASSUME NEW c, SoundCode(c), NEW s, NEW id \in VarIds, NEW h \in Nat, NEW a \in Nat
  PROVE  Carries(c, At(h, a), WriteGetVar(c, s, id), At(h + 1, a))
BY PushCarries DEF WriteGetVar, WriteAccess, Pushes, OneByte

(* A variable is changed in a slot of the function's own, and its value is *)
(* pushed.                                                                 *)
LEMMA StepCarries ==
  ASSUME NEW c, SoundCode(c), NEW s, NEW id \in VarIds, NEW h \in Nat,
         Len(s.locals) \in 0..h, Len(s.args) \in Nat
  PROVE  Carries(c, At(h, Len(s.args)), WriteIncrVar(c, s, id), At(h + 1, Len(s.args)))
<1> DEFINE a == Len(s.args)
           l == At(h, a)
           m == At(h + 1, a)
           idx == ResolveLocal(s, id)
           x == [op |-> "INCR_LOCAL", arg |-> idx]
           y == [op |-> "INCR_GLOBAL", arg |-> id]
<1>1. l.h = h /\ l.a = a /\ m \in Level
  BY Levels
<1>2. idx \in ((-2 - a)..(-3)) \union ((-1)..(Len(s.locals) - 1))
  BY ResolvedWhere
<1>3. \A z : z.op \in {"INCR_LOCAL", "INCR_GLOBAL"} => After(z, l) = m
  BY Levels DEF After, Rise, Pushes
<1> HIDE DEF l, m, idx, a
<1>4. Carries(c, l, WriteConstant(c, "INCR_GLOBAL", id), m)
  <2>1. Checked(y) /\ Plain(y)
    BY DEF Checked, Plain, Jumps
  <2>2. Fits(y, l)
    BY DEF Fits, Drops
  <2> QED  BY <1>1, <1>3, <2>1, <2>2, ConstantCarries DEF OneByte
<1>5. ASSUME idx # -1 PROVE Carries(c, l, WriteConstant(c, "INCR_LOCAL", idx), m)
  <2>1. Checked(x) /\ Plain(x)
    BY DEF Checked, Plain, Jumps
  <2>2. idx \in Steppable(l)
    <3>1. a \in Nat /\ Len(s.locals) \in Nat /\ Len(s.locals) - 1 <= h - 1
      BY DEF a
    <3>2. idx \in 0..(h - 1) \/ idx \in (-2 - a)..(-3)
      BY <1>2, <1>5, <3>1
    <3> QED  BY <1>1, <3>2 DEF Steppable
  <2>3. Fits(x, l)
    BY <2>2 DEF Fits, Drops
  <2> QED  BY <1>1, <1>3, <2>1, <2>3, ConstantCarries DEF OneByte
<1>6. Carries(c, l, WriteIncrVar(c, s, id), m)
  BY <1>4, <1>5 DEF WriteIncrVar, WriteAccess, IsLocalAccess, idx
<1> QED  BY <1>6 DEF l, m, a

(* A variable is stored to a slot of the function's own.                   *)
LEMMA StoreCarries ==
  ASSUME NEW c, SoundCode(c), NEW s, NEW id \in VarIds, NEW h \in Nat,
         Len(s.locals) \in 0..h, Len(s.args) \in Nat
  PROVE  Carries(c, At(h + 1, Len(s.args)), WriteSetVar(c, s, id), At(h + 1, Len(s.args)))
<1> DEFINE a == Len(s.args)
           l == At(h + 1, a)
           idx == ResolveLocal(s, id)
           x == [op |-> "SET_LOCAL", arg |-> idx]
           y == [op |-> "SET_GLOBAL", arg |-> id]
<1>1. l \in Level /\ l.h = h + 1 /\ l.a = a
  BY Levels
<1>2. idx \in ((-2 - a)..(-3)) \union ((-1)..(Len(s.locals) - 1))
  BY ResolvedWhere
<1> HIDE DEF l, idx, a
<1>3. Carries(c, l, WriteConstant(c, "SET_GLOBAL", id), l)
  <2>1. Checked(y) /\ Plain(y)
    BY DEF Checked, Plain, Jumps
  <2>2. Fits(y, l)
    BY <1>1 DEF Fits, Drops
  <2>3. After(y, l) = l
    <3>1. l.h + 0 = l.h /\ l = At(l.h, l.a)
      BY <1>1, Levels
    <3> QED  BY <3>1 DEF After, Rise, Pushes, Drops
  <2> QED  BY <1>1, <2>1, <2>2, <2>3, ConstantCarries DEF OneByte
<1>4. ASSUME idx # -1 PROVE Carries(c, l, WriteConstant(c, "SET_LOCAL", idx), l)
  <2>1. Checked(x) /\ Plain(x)
    BY DEF Checked, Plain, Jumps
  <2>2. idx \in Writable(l)
    <3>1. l.h - 2 = h - 1 /\ l.h = h + 1 /\ l.a = a /\ a \in Nat
      BY <1>1 DEF a
    <3>2. Len(s.locals) \in Nat /\ Len(s.locals) - 1 <= h - 1
      OBVIOUS
    <3>3. idx \in 0..(h - 1) \/ idx \in (-2 - a)..(-3)
      BY <1>2, <1>4, <3>1, <3>2
    <3> QED  BY <3>1, <3>3 DEF Writable
  <2>3. Fits(x, l)
    BY <1>1, <2>2 DEF Fits, Drops
  <2>4. After(x, l) = l
    <3>1. l.h + 0 = l.h /\ l = At(l.h, l.a)
      BY <1>1, Levels
    <3> QED  BY <3>1 DEF After, Rise, Pushes, Drops
  <2> QED  BY <1>1, <2>1, <2>3, <2>4, ConstantCarries DEF OneByte
<1>5. Carries(c, l, WriteSetVar(c, s, id), l)
  BY <1>3, <1>4 DEF WriteSetVar, WriteAccess, IsLocalAccess, idx
<1> QED  BY <1>5 DEF l, a

(* A variable is assigned a number.                                        *)
LEMMA AssignmentCarries ==
  ASSUME NEW c, SoundCode(c), NEW s, NEW id \in VarIds, NEW h \in Nat,
         Len(s.locals) \in 0..h, Len(s.args) \in Nat
  PROVE  Carries(c, At(h, Len(s.args)), WriteAssignment(c, s, id), At(h + 1, Len(s.args)))
<1> DEFINE d == WriteNumber(c, TagOf(id))
           a == Len(s.args)
<1>1. Carries(c, At(h, a), d, At(h + 1, a))
  BY NumberCarries
<1>2. SoundCode(d)
  BY <1>1, CarriedIsSound
<1> HIDE DEF d
<1>3. Carries(d, At(h + 1, a), WriteSetVar(d, s, id), At(h + 1, a))
  BY <1>2, StoreCarries
<1>4. Carries(c, At(h, a), WriteSetVar(d, s, id), At(h + 1, a))
  BY <1>1, <1>3, CarriesBehind
<1> QED  BY <1>4 DEF WriteAssignment, d

(* A native puts its answer in place of the arguments.                     *)
LEMMA NativeCallCarries ==
  ASSUME NEW c, SoundCode(c), NEW name, NEW n \in Nat, NEW h \in Nat, NEW a \in Nat
  PROVE  Carries(c, At(h + n, a), WriteNativeCall(c, name, n), At(h + 1, a))
<1> DEFINE d == WriteNumber(c, n)
           e == WriteConstant(d, "NATIVE_CALL", name)
           l == At(h + n, a)
           m == At(h + n + 1, a)
           x == [op |-> "NATIVE_CALL", arg |-> name]
<1>1. Carries(c, l, d, m) /\ SoundCode(d)
  BY NumberCarries, CarriedIsSound
<1> HIDE DEF d
<1>2. Carries(d, m, e, m) /\ SoundCode(e)
  <2>1. Checked(x) /\ Plain(x)
    BY DEF Checked, Plain, Jumps
  <2>2. m \in Level /\ m.h = h + n + 1 /\ m = At(m.h, m.a) /\ m.h + 0 = m.h
    BY Levels
  <2> HIDE DEF m
  <2>3. Fits(x, m)
    BY <2>2 DEF Fits, Drops
  <2>4. After(x, m) = m
    BY <2>2 DEF After, Rise, Pushes, Drops
  <2>5. Carries(d, m, e, m)
    BY <1>1, <2>1, <2>2, <2>3, <2>4, ConstantCarries DEF OneByte
  <2> QED  BY <2>5, CarriedIsSound
<1> HIDE DEF e
<1>3. Carries(e, m, ClearArgs(e, n), At(h + 1, a))
  BY <1>2, ClearArgsCarries
<1>4. Carries(c, l, e, m)
  BY <1>1, <1>2, CarriesBehind
<1>5. Carries(c, l, ClearArgs(e, n), At(h + 1, a))
  BY <1>3, <1>4, CarriesBehind
<1> QED  BY <1>5 DEF WriteNativeCall, d, e

(* The condition of a branch or a loop is one value.                       *)
LEMMA ConditionCarries ==
  ASSUME NEW c, SoundCode(c), NEW h \in Nat, NEW a \in Nat
  PROVE  Carries(c, At(h, a), WriteCondition(c), At(h + 1, a))
<1>1. h + 0 = h
  OBVIOUS
<1> QED  BY <1>1, NativeCallCarries DEF WriteCondition

(* One value is pushed for each argument.                                  *)
LEMMA ArgumentsCarry ==
  ASSUME NEW c, SoundCode(c), NEW values, NEW n \in Nat, n = Len(values),
         NEW h \in Nat, NEW a \in Nat
  PROVE  Carries(c, At(h, a), WriteArguments(c, values), At(h + n, a))
<1>1. PICK f : ArgumentLoop(c, values, n, f)
  BY ArgumentsWritten
<1> DEFINE bad == {k \in 0..n : ~Carries(c, At(h, a), f[k], At(h + k, a))}
<1>2. bad = {}
  <2> SUFFICES ASSUME bad # {} PROVE FALSE
    OBVIOUS
  <2>1. bad \subseteq Nat
    OBVIOUS
  <2>2. PICK m \in bad : \A k \in bad : m <= k
    <3> HIDE DEF bad
    <3> QED  BY <2>1, LeastOne
  <2>3. m \in 0..n /\ ~Carries(c, At(h, a), f[m], At(h + m, a))
    OBVIOUS
  <2>4. m # 0
    <3>1. h + 0 = h
      OBVIOUS
    <3>2. f[0] = c
      BY <1>1 DEF ArgumentLoop
    <3> QED  BY <2>3, <3>1, <3>2, CarriesNothing
  <2>5. m - 1 \in 0..n /\ ~(m <= m - 1) /\ m \in 1..n /\ h + (m - 1) \in Nat /\ h + (m - 1) + 1 = h + m
    BY <2>3, <2>4
  <2>6. m - 1 \notin bad
    <3> HIDE DEF bad
    <3> QED  BY <2>2, <2>5
  <2>7. Carries(c, At(h, a), f[m - 1], At(h + (m - 1), a))
    BY <2>5, <2>6
  <2> HIDE DEF bad
  <2>8. SoundCode(f[m - 1])
    BY <2>7, CarriedIsSound
  <2>9. f[m] = WriteNumber(f[m - 1], values[n - m + 1])
    BY <1>1, <2>5 DEF ArgumentLoop
  <2> DEFINE g == h + (m - 1)
  <2>10. g \in Nat /\ g + 1 = h + m
    BY <2>5
  <2> HIDE DEF g
  <2>11. Carries(f[m - 1], At(g, a), f[m], At(h + m, a))
    BY <2>8, <2>9, <2>10, NumberCarries
  <2>12. Carries(c, At(h, a), f[m - 1], At(g, a))
    BY <2>7 DEF g
  <2> QED  BY <2>3, <2>11, <2>12, CarriesBehind
<1>3. n \in 0..n /\ n \notin bad
  <2> HIDE DEF bad
  <2> QED  BY <1>2
<1> QED  BY <1>1, <1>3 DEF ArgumentLoop

(* A call pushes the arguments, which its result replaces.                 *)
LEMMA CallCarries ==
  ASSUME NEW c, SoundCode(c), Symbols, FunctionsOk, NEW f \in FuncIds,
         NEW argc, Callable(f, argc), NEW h \in Nat, NEW a \in Nat
  PROVE  Carries(c, At(h, a), WriteCall(c, f, argc), At(h + 1, a))
<1> DEFINE i == symtable[f].v
           values == [k \in 1..argc |-> ParamTag(i, k)]
           d == WriteArguments(c, values)
           e == WriteConstant(d, "CALL", i)
           l == At(h + argc, a)
           m == At(h + argc + 1, a)
           x == [op |-> "CALL", arg |-> i]
<1>1. i \in DOMAIN fns /\ Reaches(i)
  BY DEF Symbols, Function, Value, Reaches, Callable
<1>2. fns[i].argc = argc /\ argc \in Nat
  <2>1. fns[i] \in FunctionObject
    BY <1>1 DEF FunctionsOk
  <2> QED  BY <2>1 DEF Callable, FunctionObject
<1>3. Len(values) = argc
  BY <1>2
<1> HIDE DEF values, i
<1>4. Carries(c, At(h, a), d, l) /\ SoundCode(d)
  BY <1>2, <1>3, ArgumentsCarry, CarriedIsSound
<1> HIDE DEF d
<1>5. Carries(d, l, e, m) /\ SoundCode(e)
  <2>1. Checked(x) /\ Plain(x)
    BY <1>1 DEF Checked, Plain, Jumps
  <2>2. h + argc \in Nat
    BY <1>2
  <2>3. l \in Level /\ l.h = h + argc /\ l.a = a /\ m \in Level
    BY <2>2, Levels
  <2>4. Fits(x, l)
    <3>1. argc <= h + argc
      BY <1>2
    <3> QED  BY <1>2, <2>3, <3>1 DEF Fits, Drops
  <2>5. After(x, l) = m
    BY <2>3 DEF After, Rise, Pushes
  <2> HIDE DEF l, m
  <2>6. Carries(d, l, e, m)
    BY <1>4, <2>1, <2>3, <2>4, <2>5, ConstantCarries DEF OneByte
  <2> QED  BY <2>6, CarriedIsSound
<1> HIDE DEF e
<1>6. Carries(e, m, ClearArgs(e, argc), At(h + 1, a))
  BY <1>2, <1>5, ClearArgsCarries
<1> HIDE DEF l, m
<1>7. Carries(c, At(h, a), e, m)
  BY <1>4, <1>5, CarriesBehind
<1>8. Carries(c, At(h, a), ClearArgs(e, argc), At(h + 1, a))
  BY <1>6, <1>7, CarriesBehind
<1> QED  BY <1>8 DEF WriteCall, d, e, i, values

-----------------------------------------------------------------------------
(* The constructs under way *)

(* The constructs and the cycles, counted from the outermost *)
Out(s, p) == s[Len(s) + 1 - p]

(* Counted from the outermost, a new element is the last.                  *)
LEMMA OutPushed ==
  ASSUME NEW S, NEW s \in Seq(S), NEW e \in S
  PROVE  /\ Len(<<e>> \o s) = Len(s) + 1
         /\ Out(<<e>> \o s, Len(s) + 1) = e
         /\ \A p \in 1..Len(s) : Out(<<e>> \o s, p) = Out(s, p)
<1> DEFINE n == Len(s)
           t == <<e>> \o s
<1>1. n \in Nat /\ Len(t) = n + 1 /\ t[1] = e /\ \A i \in 1..n : t[i + 1] = s[i]
  BY Pushing
<1> HIDE DEF n, t
<1>2. Out(t, n + 1) = e
  <2>1. (n + 1) + 1 - (n + 1) = 1
    BY <1>1
  <2> QED  BY <1>1, <2>1 DEF Out
<1>3. ASSUME NEW p \in 1..n PROVE Out(t, p) = s[n + 1 - p]
  <2> DEFINE i == n + 1 - p
  <2>1. i \in 1..n /\ (n + 1) + 1 - p = i + 1
    BY <1>1
  <2> HIDE DEF i
  <2>2. Out(t, p) = s[i]
    BY <1>1, <2>1 DEF Out
  <2> QED  BY <2>2 DEF i
<1> QED  BY <1>1, <1>2, <1>3 DEF Out, n, t

(* And the others stay where they are when it goes.                        *)
LEMMA OutPopped ==
  ASSUME NEW S, NEW s \in Seq(S), s # <<>>
  PROVE  /\ Len(s) \in Nat /\ Len(s) >= 1 /\ Len(Tail(s)) = Len(s) - 1
         /\ Out(s, Len(s)) = Head(s)
         /\ \A p \in 1..(Len(s) - 1) : Out(Tail(s), p) = Out(s, p)
<1> DEFINE n == Len(s)
           t == Tail(s)
<1>1. n \in Nat /\ n >= 1 /\ Len(t) = n - 1 /\ Head(s) = s[1] /\ \A i \in 1..(n - 1) : t[i] = s[i + 1]
  BY Popping
<1> HIDE DEF n, t
<1>2. Out(s, n) = Head(s)
  <2>1. n + 1 - n = 1
    BY <1>1
  <2> QED  BY <1>1, <2>1 DEF Out, n
<1>3. ASSUME NEW p \in 1..(n - 1) PROVE Out(t, p) = s[n + 1 - p]
  <2> DEFINE i == (n - 1) + 1 - p
  <2>1. i \in 1..(n - 1) /\ n + 1 - p = i + 1
    BY <1>1
  <2>2. Out(t, p) = t[i]
    BY <1>1 DEF Out
  <2> HIDE DEF i
  <2> QED  BY <1>1, <2>1, <2>2
<1> QED  BY <1>1, <1>2, <1>3 DEF Out, n, t

(* v tells which construct each cycle is the loop of.                      *)
Loops(ct, cy, v) ==
  /\ v \in [1..Len(cy) -> 1..Len(ct)]
  /\ \A q \in 1..Len(cy), r \in 1..Len(cy) : q < r => v[q] < v[r]
  /\ \A p \in 1..Len(ct) : Out(ct, p).kind \in Looping <=> \E q \in 1..Len(cy) : v[q] = p

Marked(H, o, l) == o \in DOMAIN H /\ H[o] = l

(* Behind the jump of a branch the stack is as below the construct; behind *)
(* the one that leaves a loop, and where the loop starts over, as inside.  *)
RecordHeights(H, r, below, inside) ==
  /\ r.kind \in {"if", "else"} => Marked(H, r.off + INT_SIZE, below)
  /\ r.kind \in Looping => Marked(H, r.off + INT_SIZE, inside) /\ Marked(H, r.start, inside)

(* So it is behind a break and a continue, and where they lead.            *)
CycleHeights(H, cycle, kind, inside) ==
  /\ \A info \in cycle.infos : Marked(H, info.off + INT_SIZE, inside)
  /\ kind = "while" => Marked(H, cycle.start, inside)

LoopHeights(H, ct, cy, b, a, v) ==
  \A q \in 1..Len(cy) : CycleHeights(H, Out(cy, q), Out(ct, v[q]).kind, At(b[v[q]], a))

(* b[p] counts the locals in the blocks of the p outermost constructs.     *)
Nested(H, ct, cy, b, a) ==
  /\ \A p \in 1..Len(ct) : RecordHeights(H, Out(ct, p), At(b[p - 1], a), At(b[p], a))
  /\ \E v : Loops(ct, cy, v) /\ LoopHeights(H, ct, cy, b, a, v)

(* Longer code                                                             *)
LEMMA MarkedKeeps == ASSUME NEW H, NEW G, Keeps(H, G) PROVE \A o, l : Marked(H, o, l) => Marked(G, o, l)
BY DEF Keeps, Marked

(* What is known of the constructs under way, more levels do not change.   *)
LEMMA NestedKeeps ==
  ASSUME NEW H, NEW G, Keeps(H, G), NEW ct, NEW cy, NEW b, NEW a, Nested(H, ct, cy, b, a)
  PROVE  Nested(G, ct, cy, b, a)
<1>1. \A o, l : Marked(H, o, l) => Marked(G, o, l)
  BY MarkedKeeps
<1>2. \A r, below, inside : RecordHeights(H, r, below, inside) => RecordHeights(G, r, below, inside)
  BY <1>1 DEF RecordHeights
<1>3. \A cycle, kind, inside : CycleHeights(H, cycle, kind, inside) => CycleHeights(G, cycle, kind, inside)
  BY <1>1 DEF CycleHeights
<1>4. PICK v : Loops(ct, cy, v) /\ LoopHeights(H, ct, cy, b, a, v)
  BY DEF Nested
<1>5. LoopHeights(G, ct, cy, b, a, v)
  BY <1>3, <1>4 DEF LoopHeights
<1>6. \A p \in 1..Len(ct) : RecordHeights(G, Out(ct, p), At(b[p - 1], a), At(b[p], a))
  BY <1>2 DEF Nested
<1> QED  BY <1>4, <1>5, <1>6 DEF Nested

(* One more local in the innermost block, which is no loop's               *)
LEMMA NestedAlike ==
  ASSUME NEW H, NEW ct, Len(ct) \in Nat, NEW cy, NEW b, NEW a, Nested(H, ct, cy, b, a), NEW e,
         \A p \in 0..Len(ct) : e[p] = b[p] \/ (p = Len(ct) /\ p # 0 /\ Out(ct, p).kind \notin Looping)
  PROVE  Nested(H, ct, cy, e, a)
<1>1. PICK v : Loops(ct, cy, v) /\ LoopHeights(H, ct, cy, b, a, v)
  BY DEF Nested
<1>2. ASSUME NEW p \in 1..Len(ct)
      PROVE  RecordHeights(H, Out(ct, p), At(e[p - 1], a), At(e[p], a))
  <2>1. RecordHeights(H, Out(ct, p), At(b[p - 1], a), At(b[p], a))
    BY DEF Nested
  <2>2. p - 1 \in 0..Len(ct) /\ p - 1 # Len(ct) /\ p \in 0..Len(ct)
    OBVIOUS
  <2>3. e[p - 1] = b[p - 1]
    BY <2>2
  <2>4. Out(ct, p).kind \in Looping => e[p] = b[p]
    BY <2>2
  <2> QED  BY <2>1, <2>3, <2>4 DEF RecordHeights
<1>3. ASSUME NEW q \in 1..Len(cy) PROVE e[v[q]] = b[v[q]]
  <2>1. v[q] \in 1..Len(ct) /\ Out(ct, v[q]).kind \in Looping
    BY <1>1 DEF Loops
  <2>2. v[q] \in 0..Len(ct)
    BY <2>1
  <2> QED  BY <2>1, <2>2
<1>4. LoopHeights(H, ct, cy, e, a, v)
  BY <1>1, <1>3 DEF LoopHeights
<1> QED  BY <1>1, <1>2, <1>4 DEF Nested

(* A construct is opened.                                                  *)
LEMMA NestedPushed ==
  ASSUME NEW H, NEW ct \in Seq(Record), NEW cy \in Seq(CycleHead), NEW b, NEW a,
         Nested(H, ct, cy, b, a), NEW r \in Record,
         RecordHeights(H, r, At(b[Len(ct)], a), At(b[Len(ct) + 1], a)),
         NEW cy2,
         \/ r.kind \notin Looping /\ cy2 = cy
         \/ /\ r.kind \in Looping
            /\ \E h \in CycleHead : /\ cy2 = <<h>> \o cy
                                    /\ CycleHeights(H, h, r.kind, At(b[Len(ct) + 1], a))
  PROVE  Nested(H, <<r>> \o ct, cy2, b, a)
<1> DEFINE n == Len(ct)
           k == Len(cy)
           t == <<r>> \o ct
<1>1. /\ n \in Nat /\ k \in Nat /\ Len(t) = n + 1 /\ Out(t, n + 1) = r
      /\ \A p \in 1..n : Out(t, p) = Out(ct, p)
  BY OutPushed
<1>2. PICK v : Loops(ct, cy, v) /\ LoopHeights(H, ct, cy, b, a, v)
  BY DEF Nested
<1>3. /\ v \in [1..k -> 1..n]
      /\ \A q \in 1..k, s \in 1..k : q < s => v[q] < v[s]
      /\ \A p \in 1..n : Out(ct, p).kind \in Looping <=> \E q \in 1..k : v[q] = p
  BY <1>2 DEF Loops
<1>4. \A p \in 1..n : RecordHeights(H, Out(ct, p), At(b[p - 1], a), At(b[p], a))
  BY DEF Nested
<1>a. RecordHeights(H, r, At(b[n], a), At(b[n + 1], a))
  OBVIOUS
<1>b. /\ r.kind \notin Looping => cy2 = cy
      /\ r.kind \in Looping => \E h \in CycleHead : /\ cy2 = <<h>> \o cy
                                    /\ CycleHeights(H, h, r.kind, At(b[n + 1], a))
  OBVIOUS
<1>c. \A q \in 1..k : CycleHeights(H, Out(cy, q), Out(ct, v[q]).kind, At(b[v[q]], a))
  BY <1>2 DEF LoopHeights
<1>d. k = Len(cy)
  OBVIOUS
<1> HIDE DEF n, t, k
<1>5. ASSUME NEW p \in 1..(n + 1)
      PROVE  RecordHeights(H, Out(t, p), At(b[p - 1], a), At(b[p], a))
  <2>1. CASE p = n + 1
    <3>1. p - 1 = n
      BY <1>1, <2>1
    <3> QED  BY <1>1, <1>a, <2>1, <3>1
  <2>2. CASE p \in 1..n
    BY <1>1, <1>4, <2>2
  <2> QED  BY <1>1, <2>1, <2>2
<1>6. CASE r.kind \notin Looping
  <2>1. cy2 = cy
    BY <1>6, <1>b
  <2>2. v \in [1..k -> 1..(n + 1)] /\ \A q \in 1..k : v[q] \in 1..n
    BY <1>1, <1>3
  <2>3. \A p \in 1..(n + 1) : Out(t, p).kind \in Looping <=> \E q \in 1..k : v[q] = p
    <3> TAKE p \in 1..(n + 1)
    <3>1. CASE p = n + 1
      <4>1. p \notin 1..n
        BY <1>1, <3>1
      <4> QED  BY <1>1, <1>6, <2>2, <3>1, <4>1
    <3>2. CASE p \in 1..n
      BY <1>1, <1>3, <3>2
    <3> QED  BY <1>1, <3>1, <3>2
  <2>4. Loops(t, cy2, v)
    BY <1>1, <1>3, <1>d, <2>1, <2>2, <2>3 DEF Loops
  <2>5. LoopHeights(H, t, cy2, b, a, v)
    BY <1>1, <1>c, <1>d, <2>1, <2>2 DEF LoopHeights
  <2> QED  BY <1>1, <1>5, <2>4, <2>5 DEF Nested, t
<1>7. CASE r.kind \in Looping
  <2>1. PICK h \in CycleHead : cy2 = <<h>> \o cy /\ CycleHeights(H, h, r.kind, At(b[n + 1], a))
    BY <1>7, <1>b
  <2>2. Len(cy2) = k + 1 /\ Out(cy2, k + 1) = h /\ \A q \in 1..k : Out(cy2, q) = Out(cy, q)
    BY <1>d, <2>1, OutPushed
  <2> DEFINE w == [q \in 1..(k + 1) |-> IF q = k + 1 THEN n + 1 ELSE v[q]]
  <2>3. /\ w \in [1..(k + 1) -> 1..(n + 1)] /\ w[k + 1] = n + 1
        /\ \A q \in 1..k : w[q] = v[q] /\ w[q] \in 1..n
    BY <1>1, <1>3
  <2> HIDE DEF w
  <2>4. \A q \in 1..(k + 1), s \in 1..(k + 1) : q < s => w[q] < w[s]
    <3> TAKE q \in 1..(k + 1), s \in 1..(k + 1)
    <3> SUFFICES ASSUME q < s PROVE w[q] < w[s]
      OBVIOUS
    <3>1. q \in 1..k
      BY <1>1
    <3>2. CASE s = k + 1
      BY <1>1, <2>3, <3>1, <3>2
    <3>3. CASE s \in 1..k
      BY <1>3, <2>3, <3>1, <3>3
    <3> QED  BY <1>1, <3>2, <3>3
  <2>5. \A p \in 1..(n + 1) : Out(t, p).kind \in Looping <=> \E q \in 1..(k + 1) : w[q] = p
    <3> TAKE p \in 1..(n + 1)
    <3>1. CASE p = n + 1
      <4>1. k + 1 \in 1..(k + 1)
        BY <1>1
      <4> QED  BY <1>1, <1>7, <2>3, <3>1, <4>1
    <3>2. CASE p \in 1..n
      <4>1. \A q \in 1..(k + 1) : w[q] = p <=> q \in 1..k /\ v[q] = p
        <5> TAKE q \in 1..(k + 1)
        <5>1. q = k + 1 \/ q \in 1..k
          BY <1>1
        <5>2. q = k + 1 => w[q] # p /\ q \notin 1..k
          BY <1>1, <2>3, <3>2
        <5> QED  BY <2>3, <5>1, <5>2
      <4>2. \A q \in 1..k : q \in 1..(k + 1)
        BY <1>1
      <4> QED  BY <1>1, <1>3, <3>2, <4>1, <4>2
    <3> QED  BY <1>1, <3>1, <3>2
  <2>6. Loops(t, cy2, w)
    BY <1>1, <2>2, <2>3, <2>4, <2>5 DEF Loops
  <2>7. ASSUME NEW q \in 1..(k + 1)
        PROVE  CycleHeights(H, Out(cy2, q), Out(t, w[q]).kind, At(b[w[q]], a))
    <3>1. CASE q = k + 1
      BY <1>1, <2>1, <2>2, <2>3, <3>1
    <3>2. CASE q \in 1..k
      <4>1. Out(cy2, q) = Out(cy, q) /\ w[q] = v[q] /\ Out(t, w[q]) = Out(ct, v[q])
        BY <1>1, <2>2, <2>3, <3>2
      <4> QED  BY <1>c, <3>2, <4>1
    <3> QED  BY <1>1, <3>1, <3>2
  <2>8. LoopHeights(H, t, cy2, b, a, w)
    BY <2>2, <2>7 DEF LoopHeights
  <2> QED  BY <1>1, <1>5, <2>6, <2>8 DEF Nested, t
<1> QED  BY <1>6, <1>7

(* The innermost loop is the last one.                                     *)
LEMMA InnermostLoop ==
  ASSUME NEW ct \in Seq(Record), NEW cy \in Seq(CycleHead), NEW v, Loops(ct, cy, v)
  PROVE  /\ ct # <<>> /\ Head(ct).kind \in Looping => cy # <<>> /\ v[Len(cy)] = Len(ct)
         /\ ct # <<>> /\ Head(ct).kind \notin Looping => \A q \in 1..Len(cy) : v[q] \in 1..(Len(ct) - 1)
<1> DEFINE n == Len(ct)
           k == Len(cy)
<1>1. /\ v \in [1..k -> 1..n]
      /\ \A q \in 1..k, s \in 1..k : q < s => v[q] < v[s]
      /\ \A p \in 1..n : Out(ct, p).kind \in Looping <=> \E q \in 1..k : v[q] = p
  BY DEF Loops
<1>2. k \in Nat /\ n \in Nat /\ (ct # <<>> => n >= 1 /\ Out(ct, n) = Head(ct))
  BY OutPopped
<1>3. k # 0 => cy # <<>>
  OBVIOUS
<1> HIDE DEF n, k
<1>4. ASSUME ct # <<>>, Head(ct).kind \in Looping PROVE cy # <<>> /\ v[k] = n
  <2>1. n \in 1..n
    BY <1>2, <1>4
  <2>2. PICK q \in 1..k : v[q] = n
    BY <1>1, <1>2, <1>4, <2>1
  <2>3. k \in 1..k /\ k # 0
    BY <1>2
  <2>4. v[k] \in 1..n
    BY <1>1, <2>3
  <2>5. ~(q < k)
    <3> SUFFICES ASSUME q < k PROVE FALSE
      OBVIOUS
    <3>1. v[q] < v[k]
      BY <1>1, <2>3
    <3> QED  BY <1>2, <2>2, <2>4, <3>1
  <2>6. q = k
    BY <1>2, <2>5
  <2> QED  BY <1>3, <2>2, <2>3, <2>6
<1>5. ASSUME ct # <<>>, Head(ct).kind \notin Looping, NEW q \in 1..k PROVE v[q] \in 1..(n - 1)
  <2>1. n \in 1..n /\ v[q] \in 1..n
    BY <1>1, <1>2, <1>5
  <2>2. v[q] # n
    BY <1>1, <1>2, <1>5, <2>1
  <2> QED  BY <1>2, <2>1, <2>2
<1> QED  BY <1>4, <1>5 DEF n, k

(* A construct is closed.                                                  *)
LEMMA NestedPopped ==
  ASSUME NEW H, NEW ct \in Seq(Record), NEW cy \in Seq(CycleHead), NEW b, NEW a,
         Nested(H, ct, cy, b, a), ct # <<>>
  PROVE  /\ RecordHeights(H, Head(ct), At(b[Len(ct) - 1], a), At(b[Len(ct)], a))
         /\ Head(ct).kind \notin Looping => Nested(H, Tail(ct), cy, b, a)
         /\ Head(ct).kind \in Looping =>
              /\ Nested(H, Tail(ct), Tail(cy), b, a)
              /\ CycleHeights(H, Head(cy), Head(ct).kind, At(b[Len(ct)], a))
<1> DEFINE n == Len(ct)
           k == Len(cy)
           t == Tail(ct)
<1>1. /\ n \in Nat /\ n >= 1 /\ k \in Nat /\ Len(t) = n - 1 /\ Out(ct, n) = Head(ct)
      /\ \A p \in 1..(n - 1) : Out(t, p) = Out(ct, p)
  BY OutPopped
<1>2. PICK v : Loops(ct, cy, v) /\ LoopHeights(H, ct, cy, b, a, v)
  BY DEF Nested
<1>3. /\ v \in [1..k -> 1..n]
      /\ \A q \in 1..k, s \in 1..k : q < s => v[q] < v[s]
      /\ \A p \in 1..n : Out(ct, p).kind \in Looping <=> \E q \in 1..k : v[q] = p
  BY <1>2 DEF Loops
<1>4. \A p \in 1..n : RecordHeights(H, Out(ct, p), At(b[p - 1], a), At(b[p], a))
  BY DEF Nested
<1>c. \A q \in 1..k : CycleHeights(H, Out(cy, q), Out(ct, v[q]).kind, At(b[v[q]], a))
  BY <1>2 DEF LoopHeights
<1>d. k = Len(cy)
  OBVIOUS
<1>5. /\ Head(ct).kind \in Looping => cy # <<>> /\ v[k] = n
      /\ Head(ct).kind \notin Looping => \A q \in 1..k : v[q] \in 1..(n - 1)
  BY <1>2, InnermostLoop
<1>f. n = Len(ct)
  OBVIOUS
<1> HIDE DEF n, k, t
<1>6. RecordHeights(H, Head(ct), At(b[n - 1], a), At(b[n], a))
  <2>1. n \in 1..n
    BY <1>1
  <2> QED  BY <1>1, <1>4, <2>1
<1>7. \A p \in 1..(n - 1) : RecordHeights(H, Out(t, p), At(b[p - 1], a), At(b[p], a))
  <2> TAKE p \in 1..(n - 1)
  <2>1. p \in 1..n
    BY <1>1
  <2> QED  BY <1>1, <1>4, <2>1
<1>8. CASE Head(ct).kind \notin Looping
  <2>1. v \in [1..k -> 1..(n - 1)]
    BY <1>3, <1>5, <1>8
  <2>2. \A p \in 1..(n - 1) : Out(t, p).kind \in Looping <=> \E q \in 1..k : v[q] = p
    <3> TAKE p \in 1..(n - 1)
    <3>1. p \in 1..n
      BY <1>1
    <3> QED  BY <1>1, <1>3, <3>1
  <2>3. Loops(t, cy, v)
    BY <1>1, <1>3, <1>d, <2>1, <2>2 DEF Loops
  <2>4. LoopHeights(H, t, cy, b, a, v)
    BY <1>1, <1>c, <1>d, <2>1 DEF LoopHeights
  <2>5. Nested(H, t, cy, b, a)
    BY <1>1, <1>7, <2>3, <2>4 DEF Nested
  <2> QED  BY <1>6, <1>8, <2>5 DEF n, t
<1>9. CASE Head(ct).kind \in Looping
  <2>1. cy # <<>> /\ v[k] = n
    BY <1>5, <1>9
  <2> DEFINE cy2 == Tail(cy)
             w == [q \in 1..(k - 1) |-> v[q]]
  <2>2. /\ k >= 1 /\ Len(cy2) = k - 1 /\ Out(cy, k) = Head(cy)
        /\ \A q \in 1..(k - 1) : Out(cy2, q) = Out(cy, q)
    BY <1>d, <2>1, OutPopped
  <2>3. \A q \in 1..(k - 1) : q \in 1..k /\ k \in 1..k /\ q < k
    BY <1>1, <2>2
  <2>4. \A q \in 1..(k - 1) : v[q] \in 1..(n - 1)
    <3> TAKE q \in 1..(k - 1)
    <3>1. v[q] < v[k] /\ v[q] \in 1..n
      BY <1>3, <2>3
    <3> QED  BY <1>1, <2>1, <3>1
  <2>5. w \in [1..(k - 1) -> 1..(n - 1)] /\ \A q \in 1..(k - 1) : w[q] = v[q]
    BY <2>4
  <2> HIDE DEF w
  <2>6. \A q \in 1..(k - 1), s \in 1..(k - 1) : q < s => w[q] < w[s]
    BY <1>3, <2>3, <2>5
  <2>7. \A p \in 1..(n - 1) : Out(t, p).kind \in Looping <=> \E q \in 1..(k - 1) : w[q] = p
    <3> TAKE p \in 1..(n - 1)
    <3>1. p \in 1..n /\ p # n
      BY <1>1
    <3>2. \A q \in 1..k : v[q] = p => q \in 1..(k - 1)
      <4> TAKE q \in 1..k
      <4>1. q # k => q \in 1..(k - 1)
        BY <1>1
      <4> QED  BY <2>1, <3>1, <4>1
    <3> QED  BY <1>1, <1>3, <2>3, <2>5, <3>1, <3>2
  <2>8. Loops(t, cy2, w)
    BY <1>1, <2>2, <2>5, <2>6, <2>7 DEF Loops
  <2>9. LoopHeights(H, t, cy2, b, a, w)
    <3>1. ASSUME NEW q \in 1..(k - 1)
          PROVE  CycleHeights(H, Out(cy2, q), Out(t, w[q]).kind, At(b[w[q]], a))
      <4>1. Out(cy2, q) = Out(cy, q) /\ w[q] = v[q] /\ Out(t, w[q]) = Out(ct, v[q])
        BY <1>1, <2>2, <2>4, <2>5
      <4> QED  BY <1>c, <2>3, <4>1
    <3> QED  BY <2>2, <3>1 DEF LoopHeights
  <2>10. Nested(H, t, cy2, b, a)
    BY <1>1, <1>7, <2>8, <2>9 DEF Nested
  <2>11. CycleHeights(H, Head(cy), Head(ct).kind, At(b[n], a))
    <3>1. k \in 1..k
      BY <1>1, <2>2
    <3> QED  BY <1>1, <1>c, <2>1, <2>2, <3>1
  <2> QED  BY <1>6, <1>9, <2>10, <2>11 DEF n, t
<1> QED  BY <1>8, <1>9

(* The construct LocalsInsideLoop looks for                                *)
IsInnermost(ct, d) == /\ ct[d].kind \in Looping
                      /\ \A e \in 1..(d - 1) : ct[e].kind \notin Looping

(* Around a break or a continue there is a loop, so there is an innermost. *)
LEMMA InnermostFound ==
  ASSUME NEW ct \in Seq(Record), NEW cy \in Seq(CycleHead), cy # <<>>, NEW v, Loops(ct, cy, v),
         NEW d, d = CHOOSE e \in 1..Len(ct) : IsInnermost(ct, e)
  PROVE  d \in 1..Len(ct) /\ v[Len(cy)] = Len(ct) + 1 - d
<1> DEFINE n == Len(ct)
           k == Len(cy)
<1>1. /\ v \in [1..k -> 1..n]
      /\ \A q \in 1..k, s \in 1..k : q < s => v[q] < v[s]
      /\ \A p \in 1..n : Out(ct, p).kind \in Looping <=> \E q \in 1..k : v[q] = p
  BY DEF Loops
<1>2. k \in Nat /\ k >= 1 /\ n \in Nat
  BY OutPopped
<1>d. \A p : Out(ct, p) = ct[n + 1 - p]
  BY DEF Out
<1>e. d = CHOOSE e \in 1..n : IsInnermost(ct, e)
  OBVIOUS
<1> HIDE DEF n, k
<1>3. k \in 1..k /\ v[k] \in 1..n
  BY <1>1, <1>2
<1> DEFINE c == n + 1 - v[k]
<1>4. c \in 1..n /\ n + 1 - c = v[k]
  BY <1>2, <1>3
<1>5. ct[c].kind \in Looping
  BY <1>1, <1>3, <1>d
<1> HIDE DEF c
<1>6. \A e \in 1..n : ct[e].kind \in Looping => c <= e
  <2> TAKE e \in 1..n
  <2> SUFFICES ASSUME ct[e].kind \in Looping PROVE c <= e
    OBVIOUS
  <2> DEFINE p == n + 1 - e
  <2>1. p \in 1..n /\ n + 1 - p = e
    BY <1>2
  <2> HIDE DEF p
  <2>2. Out(ct, p).kind \in Looping
    BY <1>d, <2>1
  <2>3. PICK q \in 1..k : v[q] = p
    BY <1>1, <2>1, <2>2
  <2>4. q = k \/ q < k
    BY <1>2
  <2>5. q < k => v[q] < v[k]
    BY <1>1, <1>3
  <2>6. p <= v[k]
    BY <1>3, <2>1, <2>3, <2>4, <2>5
  <2>7. n + 1 - v[k] <= n + 1 - p
    BY <1>2, <1>3, <2>1, <2>6
  <2> QED  BY <1>4, <2>1, <2>7 DEF c
<1>7. IsInnermost(ct, c)
  <2>1. \A e \in 1..(c - 1) : e \in 1..n /\ ~(c <= e)
    BY <1>2, <1>4
  <2> QED  BY <1>5, <1>6, <2>1 DEF IsInnermost
<1>8. d \in 1..n /\ IsInnermost(ct, d)
  BY <1>4, <1>7, <1>e
<1>9. d = c
  <2>1. c <= d
    BY <1>6, <1>8 DEF IsInnermost
  <2>2. ~(c < d)
    <3> SUFFICES ASSUME c < d PROVE FALSE
      OBVIOUS
    <3>1. c \in 1..(d - 1)
      BY <1>4, <1>8
    <3> QED  BY <1>5, <1>8, <3>1 DEF IsInnermost
  <2> QED  BY <1>4, <1>8, <2>1, <2>2
<1> QED  BY <1>4, <1>8, <1>9 DEF n, k

(* A break or continue is noted; it is as high as the loop's body.         *)
LEMMA NestedNoted ==
  ASSUME NEW H, NEW ct \in Seq(Record), NEW cy \in Seq(CycleHead), cy # <<>>, NEW b, NEW a,
         Nested(H, ct, cy, b, a), NEW info \in [type : {"break", "continue"}, off : Nat],
         NEW d, d = CHOOSE e \in 1..Len(ct) : IsInnermost(ct, e),
         Marked(H, info.off + INT_SIZE, At(b[Len(ct) + 1 - d], a))
  PROVE  Nested(H, ct, InfoAdded(cy, info), b, a)
<1> DEFINE k == Len(cy)
           new == InfoAdded(cy, info)
<1>1. PICK v : Loops(ct, cy, v) /\ LoopHeights(H, ct, cy, b, a, v)
  BY DEF Nested
<1>2. v[k] = Len(ct) + 1 - d
  BY <1>1, InnermostFound
<1>3. k \in Nat /\ k >= 1 /\ DOMAIN cy = 1..k /\ cy[1] \in CycleHead
  BY Popping
<1>4. cy[1] = [start |-> cy[1].start, infos |-> cy[1].infos]
  BY <1>3 DEF CycleHead
<1> DEFINE h == [cy[1] EXCEPT !.infos = @ \union {info}]
<1>5. h.start = cy[1].start /\ h.infos = cy[1].infos \union {info}
  BY <1>4
<1>6. new = [cy EXCEPT ![1] = h]
  BY DEF InfoAdded
<1> HIDE DEF h
<1>7. new[1] = h /\ \A j \in 2..k : new[j] = cy[j]
  BY <1>3, <1>6
<1>8. Len(new) = k
  BY InfoNoted
<1> HIDE DEF new
<1>9. Out(new, k) = h /\ Out(cy, k) = cy[1] /\ \A q \in 1..(k - 1) : Out(new, q) = Out(cy, q)
  <2>1. k + 1 - k = 1 /\ \A q \in 1..(k - 1) : k + 1 - q \in 2..k
    BY <1>3
  <2> QED  BY <1>7, <1>8, <2>1 DEF Out
<1>10. ASSUME NEW q \in 1..k
       PROVE  CycleHeights(H, Out(new, q), Out(ct, v[q]).kind, At(b[v[q]], a))
  <2>0. CycleHeights(H, Out(cy, q), Out(ct, v[q]).kind, At(b[v[q]], a))
    BY <1>1 DEF LoopHeights
  <2>1. CASE q = k
    <3>1. Marked(H, info.off + INT_SIZE, At(b[v[q]], a))
      BY <1>2, <2>1
    <3> QED  BY <1>5, <1>9, <2>0, <2>1, <3>1 DEF CycleHeights
  <2>2. CASE q # k
    <3>0. \A j \in Nat : \A i \in 1..j : i # j => i \in 1..(j - 1)
      OBVIOUS
    <3>1. q \in 1..(k - 1)
      BY <1>3, <2>2, <3>0
    <3> QED  BY <1>9, <2>0, <3>1
  <2> QED  BY <2>1, <2>2
<1>11. LoopHeights(H, ct, new, b, a, v)
  BY <1>8, <1>10 DEF LoopHeights
<1>12. Loops(ct, new, v)
  BY <1>1, <1>8 DEF Loops
<1>13. \A p \in 1..Len(ct) : RecordHeights(H, Out(ct, p), At(b[p - 1], a), At(b[p], a))
  BY DEF Nested
<1>14. Nested(H, ct, new, b, a)
  BY <1>11, <1>12, <1>13 DEF Nested
<1> QED  BY <1>14 DEF new

-----------------------------------------------------------------------------
(* Jumps patched and written back *)

(* The levels stay good when operands of jumps change, and the jumps that  *)
(* are no longer pending land.                                             *)
LEMMA SteadyPatched ==
  ASSUME NEW c, NEW H, NEW pending, Steady(c, H, pending), NEW d, NEW left,
         d.size = c.size, DOMAIN d.ins = DOMAIN c.ins,
         \A o \in DOMAIN c.ins : /\ d.ins[o].op = c.ins[o].op
                                 /\ d.ins[o] = c.ins[o] \/ c.ins[o].op \in Jumps,
         \A o \in DOMAIN H \cap DOMAIN c.ins :
           c.ins[o].op \in Jumps /\ o + 1 \notin left =>
             \/ d.ins[o] = c.ins[o] /\ o + 1 \notin pending
             \/ Lands(d, H, o)
  PROVE  Steady(d, H, left)
<1>1. DOMAIN H \subseteq Ends(d)
  BY DEF Steady, Ends
<1>2. ASSUME NEW o \in DOMAIN H \cap DOMAIN c.ins
      PROVE  /\ Fits(d.ins[o], H[o])
             /\ d.ins[o].op # "RETURN" => Leads(d, H, o)
             /\ d.ins[o].op \in Jumps /\ o + 1 \notin left => Lands(d, H, o)
  <2>1. /\ Fits(c.ins[o], H[o]) /\ H[o] \in Level
        /\ c.ins[o].op # "RETURN" => Leads(c, H, o)
        /\ c.ins[o].op \in Jumps /\ o + 1 \notin pending => Lands(c, H, o)
    BY DEF Steady
  <2>2. d.ins[o].op = c.ins[o].op /\ Behind(d, o) = Behind(c, o)
    BY DEF Behind
  <2>3. CASE d.ins[o] = c.ins[o]
    <3>1. Landing(d, o) = Landing(c, o)
      BY <2>3 DEF Landing
    <3> QED  BY <2>1, <2>2, <2>3, <3>1 DEF Leads, Lands
  <2>4. CASE d.ins[o] # c.ins[o]
    <3>1. c.ins[o].op \in Jumps
      BY <2>4
    <3>2. Fits(d.ins[o], H[o])
      BY <2>1, <2>2, <3>1 DEF Fits, Jumps, Drops
    <3>3. After(d.ins[o], H[o]) = After(c.ins[o], H[o])
      <4>1. Rise(d.ins[o]) = Rise(c.ins[o])
        BY <2>2, <3>1 DEF Rise, Jumps
      <4> QED  BY <4>1 DEF After
    <3>4. d.ins[o].op # "RETURN" => Leads(d, H, o)
      BY <2>1, <2>2, <3>3 DEF Leads
    <3> QED  BY <2>4, <3>1, <3>2, <3>4
  <2> QED  BY <2>3, <2>4
<1> QED  BY <1>1, <1>2 DEF Steady

(* A jump back to where the stack was the same.                            *)
LEMMA JumpBackArrives ==
  ASSUME NEW c, SoundCode(c), NEW H, NEW pending, NEW l \in Level, Arrives(c, H, pending, l),
         NEW target \in Nat, Marked(H, target, l)
  PROVE  \E G : Keeps(H, G) /\ Arrives(WriteJumpBack(c, target), G, pending, l)
<1> DEFINE arg == target - (OperandOffset(c) + INT_SIZE)
           x == [op |-> "JUMP", arg |-> arg]
           d == WriteJumpBack(c, target)
           more == pending \union {c.size + 1}
<1>1. /\ arg \in Int /\ c.size \in Nat /\ c.size + 1 + INT_SIZE + arg = target
  BY DEF SoundCode, OperandOffset, INT_SIZE
<1>2. d = AddInstruction(c, "JUMP", arg, Bytes("JUMP"))
  BY DEF WriteJumpBack, WriteConstant, Bytes, OneByte
<1>3. Checked(x) /\ "JUMP" \in Jumps
  BY <1>1 DEF Checked, Jumps
<1>4. l = At(l.h, l.a) /\ l.h + 0 = l.h
  BY Levels
<1>5. Fits(x, l) /\ After(x, l) = l
  <2>1. Fits(x, l)
    BY DEF Fits, Drops
  <2>2. Rise(x) = 0
    BY DEF Rise, Pushes, Drops
  <2>3. After(x, l) = l
    BY <1>4, <2>2 DEF After
  <2> QED  BY <2>1, <2>3
<1>6. /\ d.size = c.size + Bytes("JUMP") /\ d.ins[c.size] = x
  BY <1>2, <1>3, InstructionAdded
<1>7. x.op = "JUMP" /\ x.arg = arg
  OBVIOUS
<1>8. \E G : Keeps(H, G) /\ Arrives(d, G, more, l)
  <2> HIDE DEF d, arg
  <2>1. Checked([op |-> "JUMP", arg |-> arg]) /\ Fits([op |-> "JUMP", arg |-> arg], l)
        /\ l = After([op |-> "JUMP", arg |-> arg], l)
    BY <1>3, <1>5
  <2>2. pending \subseteq more /\ c.size + 1 \in more
    OBVIOUS
  <2> HIDE DEF more
  <2> QED  BY <1>2, <1>3, <2>1, <2>2, InstructionArrives
<1> HIDE DEF x, d, arg
<1>9. PICK G : Keeps(H, G) /\ Arrives(d, G, more, l)
  BY <1>8
<1>10. Marked(G, target, l)
  BY <1>9, MarkedKeeps
<1>11. Lands(d, G, c.size)
  <2>1. Landing(d, c.size) = target
    BY <1>1, <1>6, <1>7 DEF Landing
  <2>2. Behind(d, c.size) = d.size
    BY <1>6, <1>7 DEF Behind
  <2> QED  BY <1>9, <1>10, <2>1, <2>2 DEF Lands, Marked, Arrives
<1>12. Steady(d, G, pending)
  <2>1. ASSUME NEW o \in DOMAIN G \cap DOMAIN d.ins, o + 1 \notin pending
        PROVE  o + 1 \notin more \/ Lands(d, G, o)
    <3>1. CASE o + 1 \in more
      <4>1. o \in Int
        <5>1. DOMAIN d.ins \subseteq 0..(d.size - 1)
          BY <1>2, <1>3, InstructionAdded DEF Grows, SoundCode, x
        <5> QED  BY <5>1
      <4>2. o = c.size
        BY <1>1, <2>1, <3>1, <4>1
      <4> QED  BY <1>11, <4>2
    <3> QED  BY <3>1
  <2>2. Steady(d, G, more)
    BY <1>9 DEF Arrives
  <2> HIDE DEF more
  <2> QED  BY <2>1, <2>2, SteadyPatched
<1>13. Arrives(d, G, pending, l)
  BY <1>9, <1>12 DEF Arrives
<1> QED  BY <1>9, <1>13 DEF d

(* What patching a jump does to the code                                   *)
LEMMA PatchedIs ==
  ASSUME NEW c, SoundCode(c), NEW off \in Nat, off - 1 \in DOMAIN c.ins, c.ins[off - 1].op \in Jumps,
         NEW d, d = PatchToHere(c, off)
  PROVE  /\ d.size = c.size /\ DOMAIN d.ins = DOMAIN c.ins
         /\ \A o \in DOMAIN c.ins : /\ d.ins[o].op = c.ins[o].op
                                    /\ o # off - 1 => d.ins[o] = c.ins[o]
         /\ Landing(d, off - 1) = c.size
         /\ Behind(d, off - 1) = off + INT_SIZE
<1> DEFINE num == c.size - off - INT_SIZE
<1>1. c.size \in Nat /\ c = [ins |-> c.ins, size |-> c.size]
  BY DEF SoundCode
<1>2. num \in Int /\ (off - 1) + 1 + INT_SIZE + num = c.size /\ (off - 1) + (1 + INT_SIZE) = off + INT_SIZE
  BY <1>1 DEF INT_SIZE
<1>3. d = [c EXCEPT !.ins[off - 1].arg = num]
  BY DEF PatchToHere, RewriteConstant
<1> HIDE DEF num
<1>4. /\ d.size = c.size /\ DOMAIN d.ins = DOMAIN c.ins
      /\ \A o \in DOMAIN c.ins : o # off - 1 => d.ins[o] = c.ins[o]
      /\ d.ins[off - 1] = [c.ins[off - 1] EXCEPT !.arg = num]
  <2> DEFINE f == [c.ins EXCEPT ![off - 1].arg = num]
  <2>1. d = [ins |-> f, size |-> c.size]
    <3>1. d = [c EXCEPT !.ins = f]
      BY <1>3
    <3> HIDE DEF f
    <3> QED  BY <1>1, <3>1
  <2>2. d.ins = f /\ d.size = c.size
    <3> HIDE DEF f
    <3> QED  BY <2>1
  <2>3. /\ DOMAIN f = DOMAIN c.ins
        /\ \A o \in DOMAIN c.ins : o # off - 1 => f[o] = c.ins[o]
        /\ f[off - 1] = [c.ins[off - 1] EXCEPT !.arg = num]
    BY <1>1
  <2> HIDE DEF f
  <2> QED  BY <2>2, <2>3
<1>5. d.ins[off - 1] = [op |-> c.ins[off - 1].op, arg |-> num]
  <2>1. c.ins[off - 1] = [op |-> c.ins[off - 1].op, arg |-> c.ins[off - 1].arg]
    BY DEF SoundCode, Checked
  <2> QED  BY <1>4, <2>1
<1>6. d.ins[off - 1].op = c.ins[off - 1].op /\ d.ins[off - 1].arg = num
  BY <1>5
<1>7. Landing(d, off - 1) = c.size
  BY <1>2, <1>6 DEF Landing
<1>8. Behind(d, off - 1) = off + INT_SIZE
  <2>1. c.ins[off - 1].op \notin OneByte
    BY DEF Jumps, OneByte
  <2> QED  BY <1>2, <1>6, <2>1 DEF Behind, Bytes
<1> QED  BY <1>4, <1>6, <1>7, <1>8

(* UPDATE_JUMP_LENGTH where the stack is as behind the jump.               *)
LEMMA PatchArrives ==
  ASSUME NEW c, SoundCode(c), NEW H, NEW pending, NEW l, Arrives(c, H, pending, l),
         NEW off \in Nat, off - 1 \in DOMAIN c.ins, c.ins[off - 1].op \in Jumps,
         Marked(H, off + INT_SIZE, l), NEW left, pending \ {off} \subseteq left
  PROVE  Arrives(PatchToHere(c, off), H, left, l)
<1> DEFINE d == PatchToHere(c, off)
<1>1. /\ d.size = c.size /\ DOMAIN d.ins = DOMAIN c.ins
      /\ \A o \in DOMAIN c.ins : /\ d.ins[o].op = c.ins[o].op
                                 /\ o # off - 1 => d.ins[o] = c.ins[o]
      /\ Landing(d, off - 1) = c.size
      /\ Behind(d, off - 1) = off + INT_SIZE
  BY PatchedIs
<1> HIDE DEF d
<1>2. Steady(c, H, pending) /\ Marked(H, c.size, l)
  BY DEF Arrives, Marked
<1>3. Lands(d, H, off - 1)
  BY <1>1, <1>2 DEF Lands, Marked
<1>4. \A o \in DOMAIN c.ins : o + 1 \notin left /\ o # off - 1 => o + 1 \notin pending
  <2>1. \A o \in DOMAIN c.ins : o # off - 1 => o + 1 # off
    BY DEF SoundCode
  <2> QED  BY <2>1
<1>5. \A o \in DOMAIN H \cap DOMAIN c.ins :
        c.ins[o].op \in Jumps /\ o + 1 \notin left =>
          \/ d.ins[o] = c.ins[o] /\ o + 1 \notin pending
          \/ Lands(d, H, o)
  BY <1>1, <1>3, <1>4
<1>6. Steady(d, H, left)
  BY <1>1, <1>2, <1>5, SteadyPatched
<1> QED  BY <1>1, <1>2, <1>6 DEF Arrives, Marked, d

(* free_cycle_head, where the stack is as behind each break and continue.  *)
LEMMA CycleArrives ==
  ASSUME NEW c, SoundCode(c), NEW H, NEW pending, NEW l, Arrives(c, H, pending, l),
         NEW head \in CycleHead, Marked(H, head.start, l),
         \A info \in head.infos : /\ info.off - 1 \in DOMAIN c.ins
                                  /\ c.ins[info.off - 1].op \in Jumps
                                  /\ Marked(H, info.off + INT_SIZE, l),
         NEW left, \A p \in pending : p \in left \/ \E info \in head.infos : info.off = p
  PROVE  Arrives(PatchCycle(c, head), H, left, l)
<1> DEFINE d == PatchCycle(c, head)
           Of(o) == \E info \in head.infos : info.off = o + 1
           info(o) == CHOOSE i \in head.infos : i.off = o + 1
           num(o) == IF info(o).type = "break" THEN c.size - info(o).off - INT_SIZE
                     ELSE head.start - (info(o).off + INT_SIZE)
           f == [o \in DOMAIN c.ins |->
                   IF Of(o) THEN [c.ins[o] EXCEPT !.arg = num(o)] ELSE c.ins[o]]
<1>1. /\ c.size \in Nat /\ c = [ins |-> c.ins, size |-> c.size] /\ head.start \in Nat
      /\ DOMAIN c.ins \subseteq Nat
  BY DEF SoundCode, CycleHead
<1>2. d = [ins |-> f, size |-> c.size]
  <2>1. d = [c EXCEPT !.ins = f]
    BY DEF PatchCycle
  <2> HIDE DEF f, d
  <2> QED  BY <1>1, <2>1
<1>3. d.size = c.size /\ d.ins = f /\ DOMAIN d.ins = DOMAIN c.ins
  <2>1. DOMAIN f = DOMAIN c.ins
    OBVIOUS
  <2> HIDE DEF f, d
  <2> QED  BY <1>2, <2>1
<1>4. ASSUME NEW o \in DOMAIN c.ins, Of(o)
      PROVE  /\ d.ins[o].op = c.ins[o].op
             /\ Landing(d, o) = c.size \/ Landing(d, o) = head.start
             /\ c.ins[o].op \in Jumps /\ Marked(H, Behind(d, o), l)
  <2>1. info(o) \in head.infos /\ info(o).off = o + 1
    BY <1>4
  <2>2. o \in Nat
    BY <1>1
  <2>3. (o + 1) - 1 = o /\ (o + 1) + INT_SIZE = o + (1 + INT_SIZE)
    BY <2>2 DEF INT_SIZE
  <2>4. num(o) \in {c.size - (o + 1) - INT_SIZE, head.start - ((o + 1) + INT_SIZE)}
    <3> HIDE DEF info
    <3> QED  BY <2>1
  <2>5. d.ins[o] = [c.ins[o] EXCEPT !.arg = num(o)]
    <3> HIDE DEF num, Of, d
    <3> QED  BY <1>3, <1>4
  <2>6. c.ins[o].op \in Jumps /\ Marked(H, o + (1 + INT_SIZE), l)
    <3> HIDE DEF info
    <3> QED  BY <2>1, <2>3
  <2> HIDE DEF num, d, Of, info
  <2>7. c.ins[o] = [op |-> c.ins[o].op, arg |-> c.ins[o].arg]
    BY DEF SoundCode, Checked
  <2>8. d.ins[o] = [op |-> c.ins[o].op, arg |-> num(o)]
    BY <2>5, <2>7
  <2>9. d.ins[o].op = c.ins[o].op /\ d.ins[o].arg = num(o)
    BY <2>8
  <2>10. o + 1 + INT_SIZE + num(o) \in {c.size, head.start}
    BY <1>1, <2>2, <2>4 DEF INT_SIZE
  <2>11. Landing(d, o) \in {c.size, head.start}
    BY <2>9, <2>10 DEF Landing
  <2>12. Behind(d, o) = o + (1 + INT_SIZE)
    <3>1. c.ins[o].op \notin OneByte
      BY <2>6 DEF Jumps, OneByte
    <3> QED  BY <2>9, <3>1 DEF Behind, Bytes
  <2> QED  BY <2>6, <2>9, <2>11, <2>12
<1>5. ASSUME NEW o \in DOMAIN c.ins, ~Of(o) PROVE d.ins[o] = c.ins[o]
  <2> HIDE DEF Of, d
  <2> QED  BY <1>3, <1>5
<1> HIDE DEF d, f, num, info
<1>6. Steady(c, H, pending) /\ Marked(H, c.size, l)
  BY DEF Arrives, Marked
<1>7. \A o \in DOMAIN c.ins : Of(o) => Lands(d, H, o)
  BY <1>4, <1>6 DEF Lands, Marked
<1>8. \A o \in DOMAIN c.ins : Of(o) \/ o + 1 \in left \/ o + 1 \notin pending
  OBVIOUS
<1> HIDE DEF Of
<1>9. \A o \in DOMAIN c.ins : /\ d.ins[o].op = c.ins[o].op
                              /\ d.ins[o] = c.ins[o] \/ c.ins[o].op \in Jumps
  BY <1>4, <1>5
<1>10. \A o \in DOMAIN H \cap DOMAIN c.ins :
        c.ins[o].op \in Jumps /\ o + 1 \notin left =>
          \/ d.ins[o] = c.ins[o] /\ o + 1 \notin pending
          \/ Lands(d, H, o)
  BY <1>5, <1>7, <1>8
<1>11. Steady(d, H, left)
  BY <1>3, <1>6, <1>9, <1>10, SteadyPatched
<1>12. Arrives(d, H, left, l)
  BY <1>3, <1>6, <1>11 DEF Arrives, Marked
<1> QED  BY <1>12 DEF d

-----------------------------------------------------------------------------
(* The blocks of the source *)

(* A sequence of blocks, whatever is in them                               *)
Lists(blocks) == \E S : blocks \in Seq(Seq(S))

(* A declaration more in the innermost block                               *)
Declared(blocks, n, e) == [blocks EXCEPT ![n] = Append(@, e)]

(* How many locals the blocks up to each of them declare                   *)
Heights(blocks) == [d \in 0..Len(blocks) |-> Below(blocks, d)]

(* Their heights with an empty block on top, without the innermost block,  *)
(* and with one local more in it                                           *)
OnTop(b, n) == [d \in 0..(n + 1) |-> IF d = n + 1 THEN b[n] ELSE b[d]]
Lower(b, n) == [d \in 0..(n - 1) |-> b[d]]
OneMore(b, n) == [d \in 0..n |-> IF d = n THEN b[n] + 1 ELSE b[d]]

(* The locals of n blocks: b[d] of them are in the d outermost ones, which *)
(* their depths tell.                                                      *)
Layered(locals, b, n) ==
  /\ b \in [0..n -> Nat] /\ b[0] = 0
  /\ \A d \in 1..n : b[d - 1] <= b[d]
  /\ Len(locals) = b[n]
  /\ \A j \in 1..Len(locals), d \in 0..n : locals[j].depth <= d <=> j <= b[d]

(* A sequence is one over any larger set too.                              *)
LEMMA SeqWidens == \A S, T : S \subseteq T => Seq(S) \subseteq Seq(T)
<1> TAKE S, T
<1> HAVE S \subseteq T
<1>1. \A n \in Nat : [1..n -> S] \subseteq [1..n -> T]
  OBVIOUS
<1> QED  BY <1>1, SeqDef

(* A block more                                                            *)
LEMMA HeightsOpened ==
  ASSUME NEW blocks, Lists(blocks), NEW n, n = Len(blocks), NEW t, t = <<>>
  PROVE  /\ Lists(Append(blocks, t)) /\ Len(Append(blocks, t)) = n + 1
         /\ Heights(Append(blocks, t)) = OnTop(Heights(blocks), n)
<1>0. PICK S : blocks \in Seq(Seq(S))
  BY DEF Lists
<1> DEFINE u == Append(blocks, t)
<1>1. n \in Nat /\ u \in Seq(Seq(S)) /\ Len(u) = n + 1 /\ u[n + 1] = t /\ \A i \in 1..n : blocks[i] = u[i]
      /\ Len(t) = 0
  BY <1>0
<1> HIDE DEF u
<1>2. \A d \in 0..n : Below(blocks, d) = Below(u, d)
  <2>1. n \in Nat /\ n <= Len(blocks) /\ n <= Len(u)
    BY <1>1
  <2> QED  BY <1>0, <1>1, <2>1, BelowAgrees
<1>3. Below(u, n + 1) = Below(u, n)
  <2>1. n + 1 \in 1..Len(u) /\ (n + 1) - 1 = n
    BY <1>1
  <2>2. /\ \A d \in 1..Len(u) : Below(u, d) = Below(u, d - 1) + Len(u[d])
        /\ \A d \in 0..Len(u) : Below(u, d) \in Nat
    BY <1>1, BelowCounts
  <2>3. Below(u, n) \in Nat /\ Below(u, n + 1) = Below(u, n) + 0
    BY <1>1, <2>1, <2>2
  <2> QED  BY <2>3
<1>4. \A d \in 0..n : Heights(blocks)[d] = Below(blocks, d)
  BY DEF Heights
<1>5. Heights(u) = [d \in 0..(n + 1) |-> Below(u, d)]
  BY <1>1 DEF Heights
<1>6. ASSUME NEW d \in 0..(n + 1)
      PROVE  Below(u, d) = IF d = n + 1 THEN Heights(blocks)[n] ELSE Heights(blocks)[d]
  <2>1. CASE d = n + 1
    <3>1. n \in 0..n
      BY <1>1
    <3> QED  BY <1>2, <1>3, <1>4, <2>1, <3>1
  <2>2. CASE d # n + 1
    <3>1. d \in 0..n
      BY <1>1, <2>2
    <3> QED  BY <1>2, <1>4, <2>2, <3>1
  <2> QED  BY <2>1, <2>2
<1>7. Heights(u) = [d \in 0..(n + 1) |-> IF d = n + 1 THEN Heights(blocks)[n] ELSE Heights(blocks)[d]]
  BY ONLY <1>5, <1>6
<1> QED  BY <1>1, <1>7 DEF u, OnTop, Lists

(* A local more in the innermost block                                     *)
LEMMA HeightsGain ==
  ASSUME NEW blocks, Lists(blocks), NEW n, n = Len(blocks), n # 0, NEW e,
         NEW u, u = Declared(blocks, n, e)
  PROVE  /\ Lists(u) /\ Len(u) = n
         /\ Heights(u) = OneMore(Heights(blocks), n)
<1>s. PICK S : blocks \in Seq(Seq(S)) /\ e \in S
  <2>1. PICK T : blocks \in Seq(Seq(T))
    BY DEF Lists
  <2> DEFINE S == T \union {e}
  <2>2. Seq(Seq(T)) \subseteq Seq(Seq(S))
    BY SeqWidens
  <2> QED  BY <2>1, <2>2
<1> DEFINE t == Append(blocks[n], e)
<1>0. u = [blocks EXCEPT ![n] = t]
  BY DEF Declared
<1>1. n \in Nat /\ n >= 1 /\ blocks[n] \in Seq(S)
  BY <1>s
<1>2. t \in Seq(S) /\ Len(t) = Len(blocks[n]) + 1 /\ Len(blocks[n]) \in Nat
  BY <1>s, <1>1
<1> HIDE DEF t
<1>3. u \in Seq(Seq(S)) /\ Len(u) = n /\ u[n] = t /\ \A i \in 1..(n - 1) : blocks[i] = u[i]
  <2>1. n \in 1..n /\ n \in DOMAIN blocks /\ \A i \in 1..(n - 1) : i \in DOMAIN blocks /\ i # n
    BY <1>1
  <2>2. u \in Seq(Seq(S)) /\ Len(u) = n
    BY <1>s, <1>0, <1>1, <1>2
  <2> QED  BY <1>0, <2>1, <2>2
<1>4. \A d \in 0..(n - 1) : Below(blocks, d) = Below(u, d)
  <2>1. n - 1 \in Nat /\ n - 1 <= Len(blocks) /\ n - 1 <= Len(u)
    BY <1>1, <1>3
  <2>2. \A i \in 1..(n - 1) : blocks[i] = u[i]
    BY <1>3
  <2>3. u \in Seq(Seq(S)) /\ blocks \in Seq(Seq(S))
    BY <1>s, <1>3
  <2> QED  BY ONLY <2>1, <2>2, <2>3, BelowAgrees
<1>5. Below(u, n) = Below(u, n - 1) + Len(t)
  <2>1. n \in 1..Len(u)
    BY <1>1, <1>3
  <2>2. \A d \in 1..Len(u) : Below(u, d) = Below(u, d - 1) + Len(u[d])
    BY <1>3, BelowCounts
  <2> QED  BY <1>3, <2>1, <2>2
<1>6. Below(blocks, n) = Below(blocks, n - 1) + Len(blocks[n]) /\ Below(blocks, n - 1) \in Nat
  <2>1. n \in 1..Len(blocks) /\ n - 1 \in 0..Len(blocks)
    BY <1>1
  <2>2. \A d \in 1..Len(blocks) : Below(blocks, d) = Below(blocks, d - 1) + Len(blocks[d])
    BY <1>s, BelowCounts
  <2>3. \A d \in 0..Len(blocks) : Below(blocks, d) \in Nat
    BY <1>s, BelowCounts
  <2> QED  BY <2>1, <2>2, <2>3
<1>7. Below(u, n) = Below(blocks, n) + 1
  <2>1. n - 1 \in 0..(n - 1)
    BY <1>1
  <2>2. Below(u, n - 1) = Below(blocks, n - 1)
    BY <1>4, <2>1
  <2>3. \A p, q \in Nat : p + (q + 1) = (p + q) + 1
    OBVIOUS
  <2> QED  BY <1>2, <1>5, <1>6, <2>2, <2>3
<1>8. \A d \in 0..n : Heights(blocks)[d] = Below(blocks, d)
  BY DEF Heights
<1>9. Heights(u) = [d \in 0..n |-> Below(u, d)]
  BY <1>3 DEF Heights
<1>10. ASSUME NEW d \in 0..n
       PROVE  Below(u, d) = IF d = n THEN Heights(blocks)[n] + 1 ELSE Heights(blocks)[d]
  <2>1. CASE d = n
    BY <1>7, <1>8, <2>1
  <2>2. CASE d # n
    <3>1. d \in 0..(n - 1)
      BY <1>1, <2>2
    <3> QED  BY <1>4, <1>8, <2>2, <3>1
  <2> QED  BY <2>1, <2>2
<1>11. Heights(u) = [d \in 0..n |-> IF d = n THEN Heights(blocks)[n] + 1 ELSE Heights(blocks)[d]]
  BY ONLY <1>9, <1>10
<1> QED  BY <1>3, <1>11 DEF OneMore, Lists

(* The innermost block is gone.                                            *)
LEMMA HeightsClosed ==
  ASSUME NEW blocks, Lists(blocks), NEW n, n = Len(blocks), n # 0
  PROVE  /\ Lists(Front(blocks)) /\ Len(Front(blocks)) = n - 1
         /\ Heights(Front(blocks)) = Lower(Heights(blocks), n)
<1>0. PICK S : blocks \in Seq(Seq(S))
  BY DEF Lists
<1> DEFINE u == Front(blocks)
<1>1. n \in Nat /\ n >= 1 /\ n - 1 \in 0..Len(blocks) /\ n - 1 \in 0..(n - 1) /\ 0 \in 0..(n - 1)
  BY <1>0
<1>2. u = SubSeq(blocks, 1, n - 1)
  BY DEF Front
<1>3. u \in Seq(Seq(S)) /\ Len(u) = n - 1 /\ \A i \in 1..(n - 1) : u[i] = blocks[i]
  BY <1>0, <1>1, <1>2, FirstOfFirst
<1> HIDE DEF u
<1>4. \A d \in 0..(n - 1) : Below(blocks, d) = Below(u, d)
  <2>1. n - 1 \in Nat /\ n - 1 <= Len(blocks) /\ n - 1 <= Len(u) /\ \A i \in 1..(n - 1) : blocks[i] = u[i]
    BY <1>1, <1>3
  <2> QED  BY <1>0, <1>3, <2>1, BelowAgrees
<1>5. Heights(u) = [d \in 0..(n - 1) |-> Below(u, d)]
  BY <1>3 DEF Heights
<1>6. \A d \in 0..(n - 1) : Heights(blocks)[d] = Below(blocks, d)
  BY <1>1 DEF Heights
<1>7. Heights(u) = [d \in 0..(n - 1) |-> Heights(blocks)[d]]
  BY ONLY <1>4, <1>5, <1>6
<1> QED  BY <1>3, <1>7 DEF u, Lists, Lower

(* All of them together are as many as the blocks flattened have.          *)
LEMMA HeightsAll ==
  ASSUME NEW blocks, Lists(blocks), NEW n, n = Len(blocks)
  PROVE  /\ Heights(blocks)[n] = Len(FlattenSeq(blocks))
         /\ \A k \in 0..n : Len(FlattenSeq(SubSeq(blocks, k + 1, n))) = Heights(blocks)[n] - Heights(blocks)[k]
<1>0. PICK S : blocks \in Seq(Seq(S))
  BY DEF Lists
<1>1. n \in Nat /\ n \in 0..n /\ \A d \in 0..n : Heights(blocks)[d] = Below(blocks, d)
  BY <1>0 DEF Heights
<1>2. Below(blocks, n) = Len(FlattenSeq(blocks))
  BY <1>0, BelowCounts
<1>3. \A k \in 0..n : Len(FlattenSeq(SubSeq(blocks, k + 1, n))) = Below(blocks, n) - Below(blocks, k)
  BY <1>0, FlattenRest
<1> QED  BY <1>1, <1>2, <1>3

-----------------------------------------------------------------------------
(* The depth of a local is a number.                                       *)
LEMMA DepthsAreNumbers == \A locals \in Seq(Locals) : \A j \in 1..Len(locals) : locals[j].depth \in Nat
<1>1. \A x \in Locals : x.depth \in Nat
  BY DEF Locals
<1>2. \A locals \in Seq(Locals) : \A j \in 1..Len(locals) : locals[j] \in Locals
  OBVIOUS
<1> QED  BY <1>1, <1>2

(* A block is opened.                                                      *)
LEMMA LayeredOpened ==
  ASSUME NEW locals \in Seq(Locals), NEW n \in Nat, NEW b, Layered(locals, b, n),
         NEW e, e = OnTop(b, n)
  PROVE  Layered(locals, e, n + 1)
<1>0. e = [d \in 0..(n + 1) |-> IF d = n + 1 THEN b[n] ELSE b[d]]
  BY DEF OnTop
<1>1. /\ b \in [0..n -> Nat] /\ b[0] = 0 /\ Len(locals) = b[n]
      /\ \A d \in 1..n : b[d - 1] <= b[d]
      /\ \A j \in 1..Len(locals), d \in 0..n : locals[j].depth <= d <=> j <= b[d]
  BY DEF Layered
<1>2. \A j \in 1..Len(locals) : locals[j].depth \in Nat
  BY DepthsAreNumbers
<1>3. e \in [0..(n + 1) -> Nat] /\ e[0] = 0 /\ Len(locals) = e[n + 1]
  <2>1. n \in 0..n /\ \A d \in 0..(n + 1) : d # n + 1 => d \in 0..n
    OBVIOUS
  <2> QED  BY <1>0, <1>1, <2>1
<1>4. ASSUME NEW d \in 1..(n + 1) PROVE e[d - 1] <= e[d]
  BY <1>0, <1>1
<1>5. ASSUME NEW j \in 1..Len(locals), NEW d \in 0..(n + 1) PROVE locals[j].depth <= d <=> j <= e[d]
  <2>1. CASE d = n + 1
    <3>1. n \in 0..n /\ j <= b[n]
      BY <1>1
    <3>2. locals[j].depth <= n
      BY <1>1, <3>1
    <3>3. e[d] = b[n]
      BY <1>0, <1>1, <2>1
    <3> QED  BY <1>2, <2>1, <3>1, <3>2, <3>3
  <2>2. CASE d # n + 1
    BY <1>0, <1>1, <2>2
  <2> QED  BY <2>1, <2>2
<1> QED  BY <1>3, <1>4, <1>5 DEF Layered

(* A local is declared in the innermost block.                             *)
LEMMA LayeredGains ==
  ASSUME NEW locals \in Seq(Locals), NEW n \in Nat, n # 0, NEW b, Layered(locals, b, n),
         NEW x \in Locals, x.depth = n,
         NEW e, e = OneMore(b, n)
  PROVE  Layered(Append(locals, x), e, n)
<1>0. e = [d \in 0..n |-> IF d = n THEN b[n] + 1 ELSE b[d]]
  BY DEF OneMore
<1>1. /\ b \in [0..n -> Nat] /\ b[0] = 0 /\ Len(locals) = b[n]
      /\ \A d \in 1..n : b[d - 1] <= b[d]
      /\ \A j \in 1..Len(locals), d \in 0..n : locals[j].depth <= d <=> j <= b[d]
  BY DEF Layered
<1> DEFINE more == Append(locals, x)
           k == Len(locals)
<1>2. k \in Nat /\ Len(more) = k + 1 /\ more[k + 1] = x /\ \A j \in 1..k : more[j] = locals[j] /\ locals[j].depth \in Nat
  <2>1. k \in Nat /\ Len(more) = k + 1 /\ more[k + 1] = x /\ \A j \in 1..k : more[j] = locals[j]
    OBVIOUS
  <2> QED  BY <2>1, DepthsAreNumbers
<1> HIDE DEF more, k
<1>3. e \in [0..n -> Nat] /\ e[0] = 0 /\ Len(more) = e[n]
  BY <1>0, <1>1, <1>2 DEF k
<1>4. ASSUME NEW d \in 1..n PROVE e[d - 1] <= e[d]
  <2>1. b[d - 1] <= b[d] /\ b[d] \in Nat /\ b[d - 1] \in Nat /\ e[d - 1] = b[d - 1] /\ (e[d] = b[d] \/ e[d] = b[d] + 1)
    BY <1>0, <1>1
  <2> QED  BY <2>1
<1>5. \A d \in 0..n : b[d] <= b[n]
  <2> DEFINE bad == {i \in Nat : i <= n /\ ~(b[n - i] <= b[n])}
  <2>1. bad = {}
    <3> SUFFICES ASSUME bad # {} PROVE FALSE
      OBVIOUS
    <3>1. bad \subseteq Nat
      OBVIOUS
    <3>2. PICK i \in bad : \A m \in bad : i <= m
      <4> HIDE DEF bad
      <4> QED  BY <3>1, LeastOne
    <3>3. i \in Nat /\ i <= n /\ ~(b[n - i] <= b[n])
      OBVIOUS
    <3>4. i # 0
      BY <1>1, <3>3
    <3>5. i - 1 \in Nat /\ i - 1 <= n /\ ~(i <= i - 1)
      BY <3>3, <3>4
    <3>6. i - 1 \notin bad
      <4> HIDE DEF bad
      <4> QED  BY <3>2, <3>5
    <3>7. b[n - (i - 1)] <= b[n]
      BY <3>5, <3>6
    <3>8. n - (i - 1) \in 1..n /\ (n - (i - 1)) - 1 = n - i /\ n - i \in 0..n
      BY <3>3, <3>4
    <3>9. b[n - i] <= b[n - (i - 1)] /\ b[n - i] \in Nat /\ b[n - (i - 1)] \in Nat /\ b[n] \in Nat
      BY <1>1, <3>8
    <3> QED  BY <3>3, <3>7, <3>9
  <2> TAKE d \in 0..n
  <2>2. n - d \in Nat /\ n - d <= n /\ n - (n - d) = d
    OBVIOUS
  <2>3. n - d \notin bad
    <3> HIDE DEF bad
    <3> QED  BY <2>1
  <2> QED  BY <2>2, <2>3
<1>6. ASSUME NEW j \in 1..Len(more), NEW d \in 0..n PROVE more[j].depth <= d <=> j <= e[d]
  <2>1. CASE j = k + 1
    <3>1. more[j].depth = n
      BY <1>2, <2>1
    <3>2. CASE d = n
      BY <1>0, <1>1, <1>2, <2>1, <3>1, <3>2 DEF k
    <3>3. CASE d # n
      <4>1. e[d] = b[d] /\ b[d] <= k /\ b[d] \in Nat
        BY <1>0, <1>1, <1>5, <3>3 DEF k
      <4> QED  BY <1>2, <2>1, <3>1, <3>3, <4>1
    <3> QED  BY <3>2, <3>3
  <2>2. CASE j # k + 1
    <3>1. j \in 1..k /\ more[j] = locals[j]
      BY <1>2, <2>2
    <3>2. locals[j].depth <= d <=> j <= b[d]
      BY <1>1, <3>1 DEF k
    <3>3. CASE d = n
      <4>1. j <= b[n] /\ e[n] = b[n] + 1 /\ b[n] \in Nat
        BY <1>0, <1>1, <3>1 DEF k
      <4> QED  BY <3>1, <3>2, <3>3, <4>1
    <3>4. CASE d # n
      BY <1>0, <3>1, <3>2, <3>4
    <3> QED  BY <3>3, <3>4
  <2> QED  BY <2>1, <2>2
<1>7. Layered(more, e, n)
  BY <1>3, <1>4, <1>6 DEF Layered
<1> QED  BY <1>7 DEF more

(* The innermost block is closed: end_scope keeps the locals of the others. *)
LEMMA LayeredClosed ==
  ASSUME NEW s, s.locals \in Seq(Locals), NEW n \in Nat, n # 0, NEW b, Layered(s.locals, b, n),
         NEW e, e = Lower(b, n)
  PROVE  /\ Kept(s, n - 1) = b[n - 1] /\ b[n - 1] \in 0..b[n] /\ b[n] \in Nat /\ b[n] = Len(s.locals)
         /\ Layered(SubSeq(s.locals, 1, Kept(s, n - 1)), e, n - 1)
<1>0. e = [d \in 0..(n - 1) |-> b[d]]
  BY DEF Lower
<1> DEFINE locals == s.locals
           k == Kept(s, n - 1)
<1>1. /\ b \in [0..n -> Nat] /\ b[0] = 0 /\ Len(locals) = b[n]
      /\ \A d \in 1..n : b[d - 1] <= b[d]
      /\ \A j \in 1..Len(locals), d \in 0..n : locals[j].depth <= d <=> j <= b[d]
  BY DEF Layered
<1>2. n - 1 \in 0..n /\ n - 1 \in Int /\ n \in 1..n /\ b[n - 1] \in 0..b[n] /\ b[n] \in Nat
  BY <1>1
<1>3. b[n - 1] \in 0..Len(locals)
  BY <1>1, <1>2
<1>4. /\ b[n - 1] > 0 => locals[b[n - 1]].depth <= n - 1
      /\ \A j \in (b[n - 1] + 1)..Len(locals) : locals[j].depth > n - 1
  <2>1. \A j \in 1..Len(locals) : locals[j].depth \in Nat
    BY DepthsAreNumbers
  <2>2. \A j \in 1..Len(locals) : locals[j].depth <= n - 1 <=> j <= b[n - 1]
    BY <1>1, <1>2
  <2> HIDE DEF locals
  <2>3. b[n - 1] > 0 => b[n - 1] \in 1..Len(locals)
    BY <1>2, <1>3
  <2>4. \A j \in (b[n - 1] + 1)..Len(locals) : j \in 1..Len(locals) /\ ~(j <= b[n - 1])
    BY <1>2, <1>3
  <2> QED  BY <1>2, <2>1, <2>2, <2>3, <2>4
<1>5. k = CHOOSE i \in 0..Len(locals) : /\ i > 0 => locals[i].depth <= n - 1
                                        /\ \A j \in (i + 1)..Len(locals) : locals[j].depth > n - 1
  BY DEF Kept
<1>6. /\ k \in 0..Len(locals)
      /\ k > 0 => locals[k].depth <= n - 1
      /\ \A j \in (k + 1)..Len(locals) : locals[j].depth > n - 1
  <2> HIDE DEF k, locals
  <2> QED  BY <1>3, <1>4, <1>5
<1>7. k = b[n - 1]
  <2>1. \A j \in 1..Len(locals) : locals[j].depth \in Nat /\ (locals[j].depth <= n - 1 <=> j <= b[n - 1])
    BY <1>1, <1>2, DepthsAreNumbers
  <2>2. Len(locals) \in Nat
    OBVIOUS
  <2> HIDE DEF k, locals
  <2>3. ~(k > b[n - 1])
    BY <1>3, <1>6, <2>1, <2>2
  <2>4. ~(k < b[n - 1])
    <3> SUFFICES ASSUME k < b[n - 1] PROVE FALSE
      OBVIOUS
    <3>1. b[n - 1] \in (k + 1)..Len(locals) /\ b[n - 1] \in 1..Len(locals)
      BY <1>3, <1>6, <2>2
    <3>2. locals[b[n - 1]].depth > n - 1 /\ locals[b[n - 1]].depth <= n - 1 /\ locals[b[n - 1]].depth \in Nat
      BY <1>3, <1>6, <2>1, <3>1
    <3> QED  BY <1>2, <3>2
  <2> QED  BY <1>3, <1>6, <2>2, <2>3, <2>4
<1> DEFINE rest == SubSeq(locals, 1, k)
<1>8. Len(rest) = k /\ \A j \in 1..k : rest[j] = locals[j]
  BY <1>6, FirstOfFirst
<1> HIDE DEF rest, k, locals
<1>9. e \in [0..(n - 1) -> Nat] /\ e[0] = 0 /\ e[n - 1] = b[n - 1]
  BY <1>0, <1>1, <1>2
<1>10. \A d \in 1..(n - 1) : e[d - 1] <= e[d]
  BY <1>0, <1>1
<1>11. ASSUME NEW j \in 1..Len(rest), NEW d \in 0..(n - 1) PROVE rest[j].depth <= d <=> j <= e[d]
  <2>1. j \in 1..k /\ j \in 1..Len(locals) /\ d \in 0..n /\ e[d] = b[d]
    BY <1>0, <1>6, <1>8
  <2> QED  BY <1>1, <1>8, <2>1
<1>12. Layered(rest, e, n - 1)
  BY <1>7, <1>8, <1>9, <1>10, <1>11 DEF Layered
<1> QED  BY <1>1, <1>2, <1>7, <1>12 DEF rest, k, locals

(* The locals are those of n blocks.                                       *)
Stacked(locals, blocks, n) ==
  Lists(blocks) /\ Len(blocks) = n /\ Layered(locals, Heights(blocks), n)

(* How many there are                                                      *)
LEMMA StackedFacts ==
  ASSUME NEW locals, NEW blocks, NEW n, Stacked(locals, blocks, n)
  PROVE  /\ Heights(blocks) \in [0..n -> Nat] /\ Heights(blocks)[0] = 0
         /\ Heights(blocks)[n] = Len(FlattenSeq(blocks)) /\ Heights(blocks)[n] = Len(locals)
         /\ \A k \in 0..n : Len(FlattenSeq(SubSeq(blocks, k + 1, n))) = Heights(blocks)[n] - Heights(blocks)[k]
<1>1. Lists(blocks) /\ Len(blocks) = n /\ Layered(locals, Heights(blocks), n)
  BY DEF Stacked
<1>2. /\ Heights(blocks)[n] = Len(FlattenSeq(blocks))
      /\ \A k \in 0..n : Len(FlattenSeq(SubSeq(blocks, k + 1, n))) = Heights(blocks)[n] - Heights(blocks)[k]
  BY <1>1, HeightsAll
<1> QED  BY <1>1, <1>2 DEF Layered

(* A block is opened.                                                      *)
LEMMA StackedOpened ==
  ASSUME NEW locals \in Seq(Locals), NEW n \in Nat, NEW blocks, Stacked(locals, blocks, n)
  PROVE  /\ Stacked(locals, Append(blocks, <<>>), n + 1)
         /\ Heights(Append(blocks, <<>>)) = OnTop(Heights(blocks), n)
<1>1. Lists(blocks) /\ Len(blocks) = n /\ Layered(locals, Heights(blocks), n)
  BY DEF Stacked
<1>2. PICK t : t = <<>>
  OBVIOUS
<1> DEFINE u == Append(blocks, t)
           b == Heights(blocks)
<1>3. Lists(u) /\ Len(u) = n + 1 /\ Heights(u) = OnTop(b, n)
  BY <1>1, <1>2, HeightsOpened
<1> HIDE DEF u, b
<1>5. Heights(u) = OnTop(b, n)
  BY <1>3
<1>6. Layered(locals, Heights(u), n + 1)
  <2>1. Layered(locals, b, n)
    BY <1>1 DEF b
  <2> QED  BY <1>5, <2>1, LayeredOpened
<1>7. Stacked(locals, u, n + 1)
  BY <1>3, <1>6 DEF Stacked
<1> QED  BY <1>2, <1>5, <1>7 DEF u, b

(* A local is declared in the innermost block.                             *)
LEMMA StackedGains ==
  ASSUME NEW locals \in Seq(Locals), NEW n \in Nat, n # 0, NEW blocks, Stacked(locals, blocks, n),
         NEW x \in Locals, x.depth = n, NEW e,
         NEW u, u = Declared(blocks, n, e)
  PROVE  /\ Stacked(Append(locals, x), u, n)
         /\ Heights(u) = OneMore(Heights(blocks), n)
<1>1. Lists(blocks) /\ Len(blocks) = n /\ Layered(locals, Heights(blocks), n)
  BY DEF Stacked
<1>3. Lists(u) /\ Len(u) = n /\ Heights(u) = OneMore(Heights(blocks), n)
  BY <1>1, HeightsGain
<1>4. Layered(Append(locals, x), Heights(u), n)
  BY <1>1, <1>3, LayeredGains
<1>5. Stacked(Append(locals, x), u, n)
  BY <1>3, <1>4 DEF Stacked
<1> QED  BY <1>3, <1>5

(* A block is opened with a local of its own.                              *)
LEMMA StackedOpenedWith ==
  ASSUME NEW locals \in Seq(Locals), NEW n \in Nat, NEW blocks, Stacked(locals, blocks, n),
         NEW x \in Locals, x.depth = n + 1, NEW e
  PROVE  /\ Stacked(Append(locals, x), Append(blocks, <<e>>), n + 1)
         /\ Heights(Append(blocks, <<e>>)) = OneMore(OnTop(Heights(blocks), n), n + 1)
<1> DEFINE u == Append(blocks, <<>>)
           w == [u EXCEPT ![n + 1] = Append(@, e)]
           b == Heights(blocks)
<1>1. /\ Stacked(locals, u, n + 1)
      /\ Heights(u) = OnTop(b, n)
  BY StackedOpened
<1>2. w = Append(blocks, <<e>>)
  <2>1. PICK S : blocks \in Seq(Seq(S)) /\ Len(blocks) = n
    BY DEF Stacked, Lists
  <2>2. u[n + 1] = <<>> /\ w = [u EXCEPT ![n + 1] = <<e>>]
    <3>1. u[n + 1] = <<>> /\ Append(<<>>, e) = <<e>>
      BY <2>1
    <3> QED  BY <3>1
  <2>3. [u EXCEPT ![n + 1] = <<e>>] = Append(blocks, <<e>>)
    <3> DEFINE v == [u EXCEPT ![n + 1] = <<e>>]
               z == Append(blocks, <<e>>)
    <3>1. DOMAIN u = 1..(n + 1) /\ \A i \in 1..n : u[i] = blocks[i] /\ i \in 1..(n + 1) /\ i # n + 1
      BY <2>1
    <3>2. DOMAIN z = 1..(n + 1) /\ z[n + 1] = <<e>> /\ \A i \in 1..n : z[i] = blocks[i]
      BY <2>1
    <3>3. n + 1 \in 1..(n + 1) /\ \A i \in 1..(n + 1) : i = n + 1 \/ i \in 1..n
      OBVIOUS
    <3>4. z = [i \in 1..(n + 1) |-> z[i]]
      BY <3>2, <2>1
    <3> HIDE DEF z, u
    <3>5. v = [i \in 1..(n + 1) |-> v[i]] /\ v[n + 1] = <<e>> /\ \A i \in 1..n : v[i] = u[i]
      BY <3>1, <3>3
    <3>6. \A i \in 1..(n + 1) : v[i] = z[i]
      <4> HIDE DEF v
      <4> QED  BY <3>1, <3>2, <3>3, <3>5
    <3> HIDE DEF v
    <3>7. v = z
      BY <3>4, <3>5, <3>6
    <3> QED  BY <3>7 DEF v, z
  <2> QED  BY <2>2, <2>3
<1> HIDE DEF u, b
<1>3. /\ Stacked(Append(locals, x), w, n + 1)
      /\ Heights(w) = OneMore(Heights(u), n + 1)
  <2>1. PICK m : m = n + 1
    OBVIOUS
  <2>2. m \in Nat /\ m # 0 /\ x.depth = m /\ Stacked(locals, u, m)
    BY <1>1, <2>1
  <2>3. w = Declared(u, m, e)
    BY <2>1 DEF Declared
  <2> HIDE DEF w
  <2>4. /\ Stacked(Append(locals, x), w, m)
        /\ Heights(w) = OneMore(Heights(u), m)
    BY <2>2, <2>3, StackedGains
  <2> QED  BY <2>1, <2>4
<1> HIDE DEF w
<1>4. Heights(w) = OneMore(OnTop(b, n), n + 1)
  BY <1>1, <1>3
<1> QED  BY <1>2, <1>3, <1>4 DEF b

(* The innermost block is closed.                                          *)
LEMMA StackedClosed ==
  ASSUME NEW s, s.locals \in Seq(Locals), NEW n \in Nat, n # 0, NEW blocks,
         Stacked(s.locals, blocks, n)
  PROVE  /\ Stacked(SubSeq(s.locals, 1, Kept(s, n - 1)), Front(blocks), n - 1)
         /\ Heights(Front(blocks)) = Lower(Heights(blocks), n)
         /\ Kept(s, n - 1) = Heights(blocks)[n - 1]
         /\ Heights(blocks)[n - 1] \in 0..Heights(blocks)[n]
<1>1. Lists(blocks) /\ Len(blocks) = n /\ Layered(s.locals, Heights(blocks), n)
  BY DEF Stacked
<1> DEFINE u == Front(blocks)
           b == Heights(blocks)
<1>2. Lists(u) /\ Len(u) = n - 1 /\ Heights(u) = Lower(b, n)
  BY <1>1, HeightsClosed
<1> HIDE DEF u, b
<1>3. Layered(s.locals, b, n)
  BY <1>1 DEF b
<1>4. /\ Kept(s, n - 1) = b[n - 1] /\ b[n - 1] \in 0..b[n]
      /\ Layered(SubSeq(s.locals, 1, Kept(s, n - 1)), Heights(u), n - 1)
  BY <1>2, <1>3, LayeredClosed
<1>5. Stacked(SubSeq(s.locals, 1, Kept(s, n - 1)), u, n - 1)
  BY <1>2, <1>4 DEF Stacked
<1> QED  BY <1>2, <1>4, <1>5 DEF u, b

(* A function's body begins without locals.                                *)
LEMMA StackedFirst ==
  /\ Stacked(<<>>, << <<>> >>, 1) /\ Heights(<< <<>> >>) = [d \in 0..1 |-> 0]
<1>1. Stacked(<<>>, <<>>, 0) /\ Heights(<<>>)[0] = 0
  <2> DEFINE none == <<>>
  <2>1. none \in Seq(Seq({})) /\ Len(none) = 0 /\ Lists(none)
    BY DEF Lists
  <2>2. Below(none, 0) = 0
    BY <2>1, BelowCounts
  <2> HIDE DEF none
  <2>3. Heights(none) = [d \in 0..0 |-> Below(none, d)]
    BY <2>1 DEF Heights
  <2>4. Heights(none)[0] = 0 /\ Heights(none) \in [0..0 -> Nat]
    BY <2>2, <2>3
  <2>5. Layered(none, Heights(none), 0)
    BY <2>1, <2>4 DEF Layered
  <2>6. Stacked(none, none, 0)
    BY <2>1, <2>5 DEF Stacked
  <2> QED  BY <2>4, <2>6 DEF none
<1>2. <<>> \in Seq(Locals) /\ Append(<<>>, <<>>) = << <<>> >>
  OBVIOUS
<1>3. PICK none : none = <<>>
  OBVIOUS
<1>4. PICK zero : zero = 0
  OBVIOUS
<1>5. /\ Stacked(none, Append(none, <<>>), zero + 1)
      /\ Heights(Append(none, <<>>)) = OnTop(Heights(none), zero)
  <2>1. none \in Seq(Locals) /\ zero \in Nat /\ Stacked(none, none, zero)
    BY <1>1, <1>2, <1>3, <1>4
  <2> QED  BY <2>1, StackedOpened
<1>6. zero + 1 = 1 /\ 0..1 = {0, 1} /\ Heights(none)[0] = 0
  BY <1>1, <1>3, <1>4
<1>7. Append(none, <<>>) = << <<>> >>
  BY <1>2, <1>3
<1>8. Stacked(none, << <<>> >>, 1)
  BY <1>5, <1>6, <1>7
<1>9. Heights(<< <<>> >>) = [d \in 0..1 |-> 0]
  <2>1. Heights(<< <<>> >>) = OnTop(Heights(none), 0)
    BY <1>4, <1>5, <1>7
  <2>2. OnTop(Heights(none), 0) = [d \in 0..1 |-> 0]
    BY <1>6 DEF OnTop
  <2> QED  BY <2>1, <2>2
<1> QED  BY <1>3, <1>8, <1>9

-----------------------------------------------------------------------------
(* The levels of the code under way *)

Shaped(e) == e = [heights |-> e.heights, reads |-> e.reads]

(* The blocks of the source are as deep as the parser's C stack, and hold  *)
(* the locals of the scope.                                                *)
LexInv ==
  /\ lex = [globals |-> lex.globals, params |-> lex.params, blocks |-> lex.blocks]
  /\ Shaped(expect)
  /\ ctl # <<>> => Stacked(scope.locals, lex.blocks, Len(ctl))

(* The heights in f are those of H.                                        *)
Met(f, H) == \A o \in DOMAIN f : o \in DOMAIN H /\ H[o].h = f[o]

Entered(H) == \A i \in DOMAIN fns :
                fns[i].entry # NoEntry => Marked(H, fns[i].entry, At(0, fns[i].argc))

(* H gives every instruction that can be reached its level: a function     *)
(* begins with nothing on its stack, a statement with the locals alone.    *)
Known(H) ==
  /\ Steady(code, H, Pending(ctl, cycles))
  /\ Entered(H)
  /\ Met(expect.heights, H)
  /\ ctl = <<>> => DOMAIN H \subseteq DOMAIN code.ins
  /\ ctl # <<>> => /\ Marked(H, code.size, At(Height, Len(scope.args)))
                   /\ Nested(H, ctl, cycles, Heights(lex.blocks), Len(scope.args))

LevelsInv == LexInv /\ \E H : Known(H)

(* What the compiler notes down                                            *)
LEMMA Expectations ==
  ASSUME NEW e, Shaped(e), NEW o, NEW h, NEW id
  PROVE  /\ Shaped(ExpectHeight(e, o, h)) /\ ExpectHeight(e, o, h).heights = Noted(e.heights, o, h)
         /\ Shaped(ExpectRead(e, o, id)) /\ ExpectRead(e, o, id).heights = e.heights
<1> DEFINE f == Noted(e.heights, o, h)
           g == Noted(e.reads, o, MaySee(id))
<1>1. e = [heights |-> e.heights, reads |-> e.reads]
  BY DEF Shaped
<1>2. ExpectHeight(e, o, h) = [e EXCEPT !.heights = f]
  BY DEF ExpectHeight
<1>3. ExpectRead(e, o, id) = [e EXCEPT !.reads = g] \/ ExpectRead(e, o, id) = e
  BY DEF ExpectRead
<1> HIDE DEF f, g
<1>4. [e EXCEPT !.heights = f] = [heights |-> f, reads |-> e.reads]
  BY <1>1
<1>5. [e EXCEPT !.reads = g] = [heights |-> e.heights, reads |-> g]
  BY <1>1
<1>6. Shaped(ExpectHeight(e, o, h)) /\ ExpectHeight(e, o, h).heights = f
  BY <1>2, <1>4 DEF Shaped
<1>7. Shaped(ExpectRead(e, o, id)) /\ ExpectRead(e, o, id).heights = e.heights
  BY <1>3, <1>5 DEF Shaped
<1> QED  BY <1>6, <1>7 DEF f

(* Heights noted down stay met when more levels are known.                 *)
LEMMA MetKeeps == ASSUME NEW f, NEW H, NEW G, Met(f, H), Keeps(H, G) PROVE Met(f, G)
BY DEF Met, Keeps

(* One more of them is met.                                                *)
LEMMA MetNoted ==
  ASSUME NEW f, NEW H, Met(f, H), NEW o, NEW l, Marked(H, o, l), NEW x, l.h = x
  PROVE  Met(Noted(f, o, x), H)
BY DEF Met, Marked, Noted

(* What is known within a body                                             *)
LEMMA BodyFacts ==
  ASSUME Ready, ScopeInv, LexInv, NEW H, Known(H), ctl # <<>>
  PROVE  /\ SoundCode(code) /\ Len(ctl) \in Nat /\ Len(ctl) # 0 /\ Symbols /\ FunctionsOk
         /\ ctl \in Seq(Record) /\ cycles \in Seq(CycleHead)
         /\ Height = Heights(lex.blocks)[Len(ctl)] /\ Height = Len(scope.locals) /\ Height \in Nat
         /\ Len(scope.args) \in Nat /\ At(Height, Len(scope.args)) \in Level
         /\ Arrives(code, H, Pending(ctl, cycles), At(Height, Len(scope.args)))
         /\ Nested(H, ctl, cycles, Heights(lex.blocks), Len(scope.args))
         /\ Stacked(scope.locals, lex.blocks, Len(ctl))
<1>1. ctl \in Seq(Record) /\ cycles \in Seq(CycleHead) /\ SoundCode(code) /\ Symbols /\ FunctionsOk
  BY InBodyFacts DEF Ready, CompilerInv
<1>2. Len(ctl) \in Nat /\ Len(ctl) # 0
  BY <1>1
<1>3. Stacked(scope.locals, lex.blocks, Len(ctl))
  BY DEF LexInv
<1>4. /\ Steady(code, H, Pending(ctl, cycles))
      /\ Marked(H, code.size, At(Height, Len(scope.args)))
      /\ Nested(H, ctl, cycles, Heights(lex.blocks), Len(scope.args))
  BY DEF Known
<1>5. Height = Heights(lex.blocks)[Len(ctl)] /\ Height = Len(scope.locals)
  BY <1>3, StackedFacts DEF Height
<1>6. At(Height, Len(scope.args)) \in Level
  BY <1>4 DEF Steady, Marked
<1>7. Len(scope.args) \in Nat /\ Height \in Nat
  BY <1>6 DEF At, Level
<1>8. Arrives(code, H, Pending(ctl, cycles), At(Height, Len(scope.args)))
  BY <1>4 DEF Arrives, Marked
<1> QED  BY <1>1, <1>2, <1>3, <1>4, <1>5, <1>6, <1>7, <1>8

(* The heights of the blocks around the innermost one                      *)
LEMMA BlockFacts ==
  ASSUME Ready, ScopeInv, LexInv, ctl # <<>>
  PROVE  /\ Heights(lex.blocks)[Len(ctl) - 1] \in Nat
         /\ PoppedBy(scope) \in Nat
         /\ Heights(lex.blocks)[Len(ctl)] = Heights(lex.blocks)[Len(ctl) - 1] + PoppedBy(scope)
<1> DEFINE n == Len(ctl)
           b == Heights(lex.blocks)
<1>1. n \in Nat /\ n # 0 /\ scope.depth = n /\ scope.locals \in Seq(Locals)
  <2>1. ctl \in Seq(Record)
    BY InBodyFacts
  <2> QED  BY <2>1 DEF ScopeInv
<1>2. Stacked(scope.locals, lex.blocks, n)
  BY DEF LexInv
<1> HIDE DEF n
<1>3. Kept(scope, n - 1) = b[n - 1] /\ b[n - 1] \in 0..b[n]
  BY <1>1, <1>2, StackedClosed
<1>4. b \in [0..n -> Nat] /\ b[n] = Len(scope.locals)
  BY <1>2, StackedFacts
<1>5. PoppedBy(scope) = b[n] - b[n - 1]
  BY <1>1, <1>3, <1>4 DEF PoppedBy
<1> HIDE DEF b
<1>6. b[n] \in Nat /\ b[n - 1] \in Nat
  BY <1>1, <1>4
<1>7. PoppedBy(scope) \in Nat /\ b[n] = b[n - 1] + PoppedBy(scope)
  BY <1>3, <1>5, <1>6
<1> QED  BY <1>6, <1>7 DEF n, b

(* A step within a body: it is enough to know the levels of the code it    *)
(* leaves.                                                                 *)
LEMMA BodyLevels ==
  ASSUME NEW H, Known(H), UNCHANGED fns, ctl' # <<>>, NEW G, Keeps(H, G),
         NEW h, h = Height', NEW a, a = Len(scope'.args),
         Arrives(code', G, Pending(ctl', cycles'), At(h, a)),
         Nested(G, ctl', cycles', Heights(lex'.blocks), a),
         Met(expect'.heights, G)
  PROVE  Known(G)'
<1>1. Steady(code', G, Pending(ctl', cycles')) /\ Marked(G, code'.size, At(h, a))
  BY DEF Arrives, Marked
<1>2. Steady(code, G, Pending(ctl, cycles))'
  BY <1>1 DEF Steady, Fits
<1>3. Entered(G)'
  BY DEF Known, Entered, Keeps, Marked
<1>4. Met(expect.heights, G)'
  BY DEF Met
<1>5. /\ Marked(G, code.size, At(Height, Len(scope.args)))'
      /\ Nested(G, ctl, cycles, Heights(lex.blocks), Len(scope.args))'
  BY <1>1 DEF Marked, Nested
<1> QED  BY <1>2, <1>3, <1>4, <1>5 DEF Known

-----------------------------------------------------------------------------
(* Statements *)

Here == At(Height, Len(scope.args))
Upper == At(Height + 1, Len(scope.args))

(* The statement goes one value up, to where c ends, and back.             *)
LEMMA StatementLevels ==
  ASSUME Ready, ScopeInv, LexInv, NEW H, Known(H), ctl # <<>>,
         UNCHANGED <<fns, scope, cycles, ctl, lex>>,
         NEW c, Carries(code, Here, c, Upper), Carries(c, Upper, code', Here),
         Shaped(expect'),
         expect'.heights = Noted(Noted(expect.heights, code.size, Height), c.size, Height + 1)
  PROVE  LexInv' /\ \E G : Known(G)'
<1>1. /\ Arrives(code, H, Pending(ctl, cycles), Here) /\ Met(expect.heights, H)
      /\ Nested(H, ctl, cycles, Heights(lex.blocks), Len(scope.args))
  BY BodyFacts DEF Here, Known
<1>2. PICK F : Keeps(H, F) /\ Arrives(c, F, Pending(ctl, cycles), Upper)
  BY <1>1 DEF Carries, Raises
<1>3. PICK G : Keeps(F, G) /\ Arrives(code', G, Pending(ctl, cycles), Here)
  BY <1>2 DEF Carries, Raises
<1>4. Keeps(H, G)
  BY <1>2, <1>3 DEF Keeps
<1>5. Marked(G, code.size, Here) /\ Marked(G, c.size, Upper)
  BY <1>1, <1>2, <1>3, <1>4 DEF Arrives, Marked, Keeps
<1>6. Met(expect'.heights, G)
  <2>1. Met(expect.heights, G) /\ Here.h = Height /\ Upper.h = Height + 1
    BY <1>1, <1>4, MetKeeps, Levels DEF Here, Upper
  <2>2. Met(Noted(expect.heights, code.size, Height), G)
    BY <1>5, <2>1, MetNoted
  <2>3. Met(Noted(Noted(expect.heights, code.size, Height), c.size, Height + 1), G)
    BY <1>5, <2>1, <2>2, MetNoted
  <2> QED  BY <2>3
<1>7. Nested(G, ctl, cycles, Heights(lex.blocks), Len(scope.args))
  BY <1>1, <1>4, NestedKeeps
<1>8. Height' = Height
  BY DEF Height
<1>9. Known(G)'
  BY <1>3, <1>4, <1>6, <1>7, <1>8, BodyLevels DEF Here
<1>10. LexInv'
  BY DEF LexInv
<1> QED  BY <1>9, <1>10

(* An expression whose value is popped                                     *)
LEMMA ExpressionLevels ==
  ASSUME Ready, ScopeInv, LexInv, NEW H, Known(H),
         NEW c, NEW e, ExpressionStatement(c, e), Carries(code, Here, c, Upper),
         Shaped(e), e.heights = Noted(expect.heights, code.size, Height)
  PROVE  LexInv' /\ \E G : Known(G)'
<1>1. /\ ctl # <<>> /\ code' = WriteOp(c, "POP") /\ expect' = ExpectHeight(e, c.size, Height + 1)
      /\ UNCHANGED <<fns, scope, cycles, ctl, lex>>
  BY DEF ExpressionStatement, InBody
<1>2. SoundCode(c) /\ Height \in Nat /\ Len(scope.args) \in Nat
  BY <1>1, BodyFacts, CarriedIsSound
<1>3. Carries(c, Upper, code', Here)
  BY <1>1, <1>2, PopCarries DEF Upper, Here
<1>4. Shaped(expect') /\ expect'.heights = Noted(e.heights, c.size, Height + 1)
  <2>1. /\ Shaped(ExpectHeight(e, c.size, Height + 1))
        /\ ExpectHeight(e, c.size, Height + 1).heights = Noted(e.heights, c.size, Height + 1)
    BY Expectations
  <2> QED  BY <1>1, <2>1
<1> QED  BY <1>1, <1>3, <1>4, StatementLevels

(* Where a statement starts                                                *)
LEMMA StartingLevels ==
  ASSUME LexInv, NEW o, NEW id
  PROVE  /\ Shaped(Starting(expect))
         /\ Starting(expect).heights = Noted(expect.heights, code.size, Height)
         /\ Shaped(ExpectRead(Starting(expect), o, id))
         /\ ExpectRead(Starting(expect), o, id).heights = Noted(expect.heights, code.size, Height)
<1>1. Shaped(expect)
  BY DEF LexInv
<1>2. /\ Shaped(Starting(expect))
      /\ Starting(expect).heights = Noted(expect.heights, code.size, Height)
  BY <1>1, Expectations DEF Starting
<1> QED  BY <1>2, Expectations

(* What expression statements are compiled to                              *)
LEMMA ExpressionStatements ==
  ASSUME Ready, ScopeInv, LexInv, NEW H, Known(H),
         \/ \E id \in VarIds : Output(id) \/ Assign(id) \/ Increment(id)
         \/ \E f \in FuncIds, n \in Argcs : Call(f, n) /\ ~CompileError
         \/ \E id \in VarIds, f \in FuncIds : AssignCall(id, f)
  PROVE  LexInv' /\ \E G : Known(G)'
<1> DEFINE h == Height
           a == Len(scope.args)
<1>0. CASE ctl # <<>>
  <2>1. /\ SoundCode(code) /\ Symbols /\ FunctionsOk /\ h = Len(scope.locals) /\ h \in Nat /\ a \in Nat
        /\ Here = At(h, a) /\ Upper = At(h + 1, a) /\ Len(scope.locals) \in 0..h
    <3>1. /\ SoundCode(code) /\ Symbols /\ FunctionsOk /\ h = Len(scope.locals) /\ h \in Nat /\ a \in Nat
      BY <1>0, BodyFacts
    <3> HIDE DEF h, a
    <3>2. Len(scope.locals) \in 0..h
      BY <3>1
    <3> QED  BY <3>1, <3>2 DEF Here, Upper, h, a
  <2> HIDE DEF h, a
  <2>2. ASSUME NEW id \in VarIds, Output(id) PROVE LexInv' /\ \E G : Known(G)'
    <3> DEFINE c1 == WriteGetVar(code, scope, id)
               c == WriteNativeCall(c1, "print", 1)
    <3>1. ExpressionStatement(c, ExpectRead(Starting(expect), code.size, id))
      BY <2>2 DEF Output
    <3>2. Carries(code, At(h, a), c1, At(h + 1, a))
      BY <2>1, AccessCarries
    <3> HIDE DEF c1
    <3>3. Carries(c1, At(h + 1, a), c, At(h + 1, a))
      BY <2>1, <3>2, CarriedIsSound, NativeCallCarries
    <3> HIDE DEF c
    <3>4. Carries(code, Here, c, Upper)
      BY <2>1, <3>2, <3>3, CarriesBehind
    <3> QED  BY <3>1, <3>4, StartingLevels, ExpressionLevels
  <2>3. ASSUME NEW id \in VarIds, Assign(id) PROVE LexInv' /\ \E G : Known(G)'
    <3> DEFINE c == WriteAssignment(code, scope, id)
    <3>1. ExpressionStatement(c, Starting(expect))
      BY <2>3 DEF Assign
    <3>2. Carries(code, Here, c, Upper)
      BY <2>1, AssignmentCarries DEF a
    <3> HIDE DEF c
    <3> QED  BY <3>1, <3>2, StartingLevels, ExpressionLevels
  <2>4. ASSUME NEW id \in VarIds, Increment(id) PROVE LexInv' /\ \E G : Known(G)'
    <3> DEFINE c == WriteIncrVar(code, scope, id)
    <3>1. ExpressionStatement(c, ExpectRead(Starting(expect), code.size, id))
      BY <2>4 DEF Increment
    <3>2. Carries(code, Here, c, Upper)
      BY <2>1, StepCarries DEF a
    <3> HIDE DEF c
    <3> QED  BY <3>1, <3>2, StartingLevels, ExpressionLevels
  <2>5. ASSUME NEW f \in FuncIds, NEW n \in Argcs, Call(f, n), ~CompileError
        PROVE  LexInv' /\ \E G : Known(G)'
    <3> DEFINE c == WriteCall(code, f, n)
    <3>1. Callable(f, n) /\ ExpressionStatement(c, Starting(expect))
      BY <2>5 DEF Call
    <3>2. Carries(code, Here, c, Upper)
      BY <2>1, <3>1, CallCarries
    <3> HIDE DEF c
    <3> QED  BY <3>1, <3>2, StartingLevels, ExpressionLevels
  <2>6. ASSUME NEW id \in VarIds, NEW f \in FuncIds, AssignCall(id, f) PROVE LexInv' /\ \E G : Known(G)'
    <3> DEFINE c1 == WriteCall(code, f, 0)
               c == WriteSetVar(c1, scope, id)
    <3>1. Callable(f, 0) /\ ExpressionStatement(c, Starting(expect))
      BY <2>6 DEF AssignCall
    <3>2. Carries(code, At(h, a), c1, At(h + 1, a))
      BY <2>1, <3>1, CallCarries
    <3> HIDE DEF c1
    <3>3. Carries(c1, At(h + 1, a), c, At(h + 1, a))
      BY <2>1, <3>2, CarriedIsSound, StoreCarries DEF a
    <3> HIDE DEF c
    <3>4. Carries(code, Here, c, Upper)
      BY <2>1, <3>2, <3>3, CarriesBehind
    <3> QED  BY <3>1, <3>4, StartingLevels, ExpressionLevels
  <2> QED  BY <2>2, <2>3, <2>4, <2>5, <2>6
<1>1. ctl # <<>>
  BY DEF Output, Assign, Increment, Call, AssignCall, ExpressionStatement, InBody
<1> QED  BY <1>0, <1>1

(* return; and return literal;                                             *)
LEMMA ReturnLevels ==
  ASSUME Ready, ScopeInv, LexInv, NEW H, Known(H), NEW withValue \in BOOLEAN, Return(withValue)
  PROVE  LexInv' /\ \E G : Known(G)'
<1> DEFINE c == IF withValue THEN WriteNumber(code, ReturnTag(CurrentFunction))
                ELSE WriteOp(code, "NONE")
<1>1. /\ ctl # <<>> /\ code' = WriteOp(c, "RETURN")
      /\ expect' = ExpectHeight(Starting(expect), c.size, Height + 1)
      /\ UNCHANGED <<fns, scope, cycles, ctl, lex>>
  BY DEF Return, InBody
<1>2. SoundCode(code) /\ Height \in Nat /\ Len(scope.args) \in Nat /\ Here \in Level
  BY <1>1, BodyFacts DEF Here
<1>3. Carries(code, Here, c, Upper)
  <2>1. Carries(code, Here, WriteNumber(code, ReturnTag(CurrentFunction)), Upper)
    BY <1>2, NumberCarries DEF Here, Upper
  <2>2. Carries(code, Here, WriteOp(code, "NONE"), Upper)
    BY <1>2, NoneCarries DEF Here, Upper
  <2> QED  BY <2>1, <2>2
<1> HIDE DEF c
<1>4. Carries(c, Upper, code', Here)
  BY <1>1, <1>2, <1>3, CarriedIsSound, ReturnCarries DEF Upper
<1>5. Shaped(expect') /\ expect'.heights = Noted(Noted(expect.heights, code.size, Height), c.size, Height + 1)
  BY <1>1, StartingLevels, Expectations
<1> QED  BY <1>1, <1>3, <1>4, <1>5, StatementLevels

-----------------------------------------------------------------------------
(* Blocks *)

(* A construct is opened: its block has no locals yet.                     *)
LEMMA LayersOpened ==
  ASSUME ScopeInv, LexInv, ctl # <<>>, ctl \in Seq(Record), NEW r \in Record,
         ctl' = <<r>> \o ctl, scope'.locals = scope.locals, lex' = OpenLexBlock, Shaped(expect')
  PROVE  /\ LexInv' /\ Heights(lex'.blocks) = OnTop(Heights(lex.blocks), Len(ctl))
         /\ Height' = Height /\ Len(ctl') = Len(ctl) + 1
<1> DEFINE n == Len(ctl)
           b == Heights(lex.blocks)
           u == Append(lex.blocks, <<>>)
<1>1. n \in Nat /\ scope.locals \in Seq(Locals) /\ Stacked(scope.locals, lex.blocks, n)
  BY DEF ScopeInv, LexInv
<1>2. lex' = [globals |-> lex.globals, params |-> lex.params, blocks |-> u]
  BY DEF OpenLexBlock, LexInv
<1>3. Len(ctl') = n + 1
  BY Pushing
<1>4. Stacked(scope.locals, u, n + 1) /\ Heights(u) = OnTop(b, n)
  BY <1>1, StackedOpened
<1> HIDE DEF u
<1>5. lex'.blocks = u /\ lex' = [globals |-> lex'.globals, params |-> lex'.params, blocks |-> lex'.blocks]
  BY <1>2
<1>6. b[n] = Height /\ b \in [0..n -> Nat]
  BY <1>1, StackedFacts DEF Height
<1>7. Len(FlattenSeq(u)) = Heights(u)[n + 1]
  BY <1>4, StackedFacts
<1> HIDE DEF n, b
<1>8. Height' = Height
  <2>1. Height' = Len(FlattenSeq(u))
    BY <1>5 DEF Height
  <2>2. n + 1 \in 0..(n + 1)
    BY <1>1
  <2>3. OnTop(b, n)[n + 1] = b[n]
    BY <2>2 DEF OnTop
  <2> QED  BY <1>4, <1>6, <1>7, <2>1, <2>3
<1>9. LexInv'
  BY <1>3, <1>4, <1>5 DEF LexInv
<1> QED  BY <1>3, <1>4, <1>5, <1>8, <1>9 DEF n, b

(* A construct is closed: its locals are gone, the arguments stay.         *)
LEMMA LayersClosed ==
  ASSUME Ready, ScopeInv, LexInv, ctl # <<>>, Head(ctl).kind # "function",
         ctl' = Tail(ctl), scope' = EndScope(scope), lex' = CloseLexBlock, Shaped(expect')
  PROVE  /\ LexInv' /\ Height' = Heights(lex.blocks)[Len(ctl) - 1] /\ scope'.args = scope.args
         /\ ctl' # <<>> /\ Len(ctl') = Len(ctl) - 1 /\ Len(ctl) - 1 \in Nat
         /\ \A p \in 0..(Len(ctl) - 1) : Heights(lex'.blocks)[p] = Heights(lex.blocks)[p]
<1> DEFINE n == Len(ctl)
           b == Heights(lex.blocks)
           u == Front(lex.blocks)
           k == Kept(scope, n - 1)
<1>1. /\ ctl \in Seq(Record) /\ n \in Nat /\ n # 0 /\ scope.depth = n /\ scope.locals \in Seq(Locals)
      /\ Stacked(scope.locals, lex.blocks, n)
  BY InBodyFacts DEF ScopeInv, LexInv
<1>2. Tail(ctl) # <<>> /\ Len(Tail(ctl)) = n - 1 /\ n - 1 # 0 /\ n - 1 \in Nat
  <2>1. ParserOk(ctl, cycles, code, Base)
    BY InBodyFacts
  <2>2. Tail(ctl) # <<>> /\ Tail(ctl) \in Seq(Record) /\ Len(Tail(ctl)) = n - 1
    BY <1>1, <2>1, ClosedOk, Popping
  <2> QED  BY <1>1, <2>2
<1>3. /\ Stacked(SubSeq(scope.locals, 1, k), u, n - 1) /\ Heights(u) = Lower(b, n)
  <2>1. PICK m : m = n
    OBVIOUS
  <2>2. m \in Nat /\ m # 0 /\ scope.locals \in Seq(Locals) /\ Stacked(scope.locals, lex.blocks, m)
    BY <1>1, <2>1
  <2>3. /\ Stacked(SubSeq(scope.locals, 1, Kept(scope, m - 1)), Front(lex.blocks), m - 1)
        /\ Heights(Front(lex.blocks)) = Lower(Heights(lex.blocks), m)
    BY <2>2, StackedClosed
  <2> QED  BY <2>1, <2>3
<1>4. lex' = [globals |-> lex.globals, params |-> lex.params, blocks |-> u]
  BY DEF CloseLexBlock, LexInv
<1>5. scope'.locals = SubSeq(scope.locals, 1, k) /\ scope'.args = scope.args
  <2>1. scope.depth - 1 = n - 1
    BY <1>1
  <2>2. EndScope(scope) = [locals |-> SubSeq(scope.locals, 1, Kept(scope, scope.depth - 1)),
                           args |-> IF scope.depth - 1 = 0 THEN <<>> ELSE scope.args,
                           depth |-> scope.depth - 1]
    BY DEF EndScope
  <2> HIDE DEF n
  <2>3. EndScope(scope) = [locals |-> SubSeq(scope.locals, 1, k), args |-> scope.args, depth |-> n - 1]
    BY <1>2, <2>1, <2>2
  <2> DEFINE ls == SubSeq(scope.locals, 1, k)
  <2>4. scope' = [locals |-> ls, args |-> scope.args, depth |-> n - 1]
    BY <2>3
  <2> HIDE DEF ls
  <2>5. scope'.locals = ls /\ scope'.args = scope.args
    BY <2>4
  <2> QED  BY <2>5 DEF ls
<1> HIDE DEF u, k
<1>6. lex'.blocks = u /\ lex' = [globals |-> lex'.globals, params |-> lex'.params, blocks |-> lex'.blocks]
  BY <1>4
<1>7. Len(FlattenSeq(u)) = Heights(u)[n - 1]
  BY <1>3, StackedFacts
<1>8. Len(ctl') = n - 1 /\ ctl' # <<>>
  BY <1>2
<1> HIDE DEF n, b
<1>9. Height' = b[n - 1]
  <2>1. Height' = Len(FlattenSeq(u))
    BY <1>6 DEF Height
  <2>2. n - 1 \in 0..(n - 1)
    BY <1>2
  <2>3. Lower(b, n)[n - 1] = b[n - 1]
    BY <2>2 DEF Lower
  <2> QED  BY <1>3, <1>7, <2>1, <2>3
<1>10. LexInv'
  BY <1>3, <1>5, <1>6, <1>8 DEF LexInv
<1>11. \A p \in 0..(n - 1) : Heights(lex'.blocks)[p] = b[p]
  BY <1>3, <1>6 DEF Lower
<1> QED  BY <1>2, <1>5, <1>8, <1>9, <1>10, <1>11 DEF n, b

-----------------------------------------------------------------------------
(* A local variable *)

(* What it is initialised with pushes one value.                           *)
LEMMA InitCarries ==
  ASSUME SoundCode(code), Symbols, FunctionsOk, NEW init \in VarInits, NEW s, InitCompiles(s, init),
         NEW h \in Nat, NEW a \in Nat
  PROVE  Carries(code, At(h, a), InitCode(code, s, init), At(h + 1, a))
<1>1. CASE init.kind = "literal"
  <2>1. InitCode(code, s, init) = WriteNumber(code, VariableTag)
    BY <1>1 DEF InitCode
  <2> QED  BY <2>1, NumberCarries
<1>2. CASE init.kind = "copy"
  <2>1. InitCode(code, s, init) = WriteGetVar(code, s, init.id) /\ init.id \in VarIds
    BY <1>2 DEF InitCode, VarInits
  <2> QED  BY <2>1, AccessCarries
<1>3. CASE init.kind = "call"
  <2> DEFINE argc == fns[symtable[init.id].v].argc
  <2>1. InitCode(code, s, init) = WriteCall(code, init.id, argc) /\ init.id \in FuncIds
        /\ Callable(init.id, argc)
    BY <1>3 DEF InitCode, VarInits, InitCompiles, Callable
  <2> HIDE DEF argc
  <2> QED  BY <2>1, CallCarries
<1> QED  BY <1>1, <1>2, <1>3 DEF VarInits

(* var id = init;                                                          *)
LEMMA LocalVarLevels ==
  ASSUME Ready, ScopeInv, LexInv, NEW H, Known(H), ctl # <<>>, Head(ctl).kind \notin Looping,
         NEW id \in VarIds, NEW e, Carries(code, Here, code', Upper),
         scope' = DefineLocal(DeclareLocal(scope, id)), lex' = AddLexVariable(e),
         Shaped(expect'), expect'.heights = Noted(expect.heights, code.size, Height),
         UNCHANGED <<fns, cycles, ctl>>
  PROVE  LexInv' /\ \E G : Known(G)'
<1> DEFINE n == Len(ctl)
           a == Len(scope.args)
           b == Heights(lex.blocks)
           x == [id |-> id, depth |-> scope.depth]
           u == Declared(lex.blocks, n, e)
<1>1. /\ Height = b[n] /\ Height \in Nat /\ n \in Nat /\ n # 0 /\ a \in Nat /\ ctl \in Seq(Record)
      /\ Arrives(code, H, Pending(ctl, cycles), Here)
      /\ Nested(H, ctl, cycles, b, a) /\ Stacked(scope.locals, lex.blocks, n)
  BY BodyFacts DEF Here
<1>2. /\ scope = [locals |-> scope.locals, args |-> scope.args, depth |-> scope.depth]
      /\ scope.locals \in Seq(Locals) /\ scope.depth = n /\ scope.depth \in Nat \ {0}
  BY <1>1 DEF ScopeInv
<1>3. scope'.locals = Append(scope.locals, x) /\ scope'.args = scope.args
  <2> DEFINE t == DefineLocal(DeclareLocal(scope, id))
  <2>1. t = [locals |-> t.locals, args |-> scope.args, depth |-> scope.depth]
        /\ t.locals = Append(scope.locals, x)
    BY <1>2, LocalDefined
  <2> HIDE DEF t, x
  <2>2. t.args = scope.args
    BY <2>1
  <2>3. scope' = t
    BY DEF t
  <2> QED  BY <2>1, <2>2, <2>3
<1>4. x \in Locals /\ x.depth = n
  BY <1>2 DEF Locals
<1> HIDE DEF x
<1>5. Stacked(Append(scope.locals, x), u, n) /\ Heights(u) = OneMore(b, n)
  <2> HIDE DEF n, u
  <2>1. u = Declared(lex.blocks, n, e)
    BY DEF u
  <2> QED  BY <1>1, <1>2, <1>4, <2>1, StackedGains
<1>6. lex' = [globals |-> lex.globals, params |-> lex.params, blocks |-> u]
  <2>1. lex = [globals |-> lex.globals, params |-> lex.params, blocks |-> lex.blocks]
        /\ Len(lex.blocks) = n
    BY <1>1 DEF LexInv, Stacked
  <2>2. lex' = [lex EXCEPT !.blocks = u]
    BY <2>1 DEF AddLexVariable, Declared
  <2> HIDE DEF u
  <2> QED  BY <2>1, <2>2
<1> HIDE DEF u
<1>7. lex'.blocks = u /\ lex' = [globals |-> lex'.globals, params |-> lex'.params, blocks |-> lex'.blocks]
  BY <1>6
<1>8. Height' = Height + 1
  <2>1. Height' = Len(FlattenSeq(u))
    BY <1>7 DEF Height
  <2>2. Len(FlattenSeq(u)) = Heights(u)[n]
    BY <1>5, StackedFacts
  <2>3. n \in 0..n
    BY <1>1
  <2> HIDE DEF n, b
  <2>4. OneMore(b, n)[n] = b[n] + 1
    BY <2>3 DEF OneMore
  <2> QED  BY <1>1, <1>5, <2>1, <2>2, <2>4
<1>9. LexInv'
  BY <1>3, <1>5, <1>7 DEF LexInv
<1>10. PICK G : Keeps(H, G) /\ Arrives(code', G, Pending(ctl, cycles), Upper)
  BY <1>1 DEF Carries, Raises
<1>11. Nested(G, ctl, cycles, Heights(u), a)
  <2>1. Nested(G, ctl, cycles, b, a)
    BY <1>1, <1>10, NestedKeeps
  <2>2. Out(ctl, n) = Head(ctl)
    BY <1>1, OutPopped
  <2>3. ASSUME NEW p \in 0..n
        PROVE  OneMore(b, n)[p] = b[p] \/ (p = n /\ p # 0 /\ Out(ctl, p).kind \notin Looping)
    <3> HIDE DEF n, b
    <3> QED  BY <1>1, <2>2 DEF OneMore
  <2> DEFINE g == OneMore(b, n)
  <2>4. \A p \in 0..Len(ctl) : g[p] = b[p] \/ (p = Len(ctl) /\ p # 0 /\ Out(ctl, p).kind \notin Looping)
    BY <2>3
  <2> HIDE DEF g, b, a
  <2>5. Nested(G, ctl, cycles, g, a)
    BY <1>1, <2>1, <2>4, NestedAlike
  <2> QED  BY <1>5, <2>5 DEF g
<1>12. Met(expect'.heights, G)
  <2>1. Met(expect.heights, G) /\ Here.h = Height
    BY <1>10, MetKeeps, Levels DEF Here, Known
  <2>2. Marked(G, code.size, Here)
    BY <1>1, <1>10 DEF Arrives, Marked, Keeps
  <2> QED  BY <2>1, <2>2, MetNoted
<1>13. Known(G)'
  <2>1. Arrives(code', G, Pending(ctl', cycles'), At(Height + 1, a))
    BY <1>10 DEF Upper
  <2>2. Nested(G, ctl', cycles', Heights(lex'.blocks), a)
    BY <1>7, <1>11
  <2> QED  BY <1>3, <1>8, <1>10, <1>12, <2>1, <2>2, BodyLevels
<1> QED  BY <1>9, <1>13

-----------------------------------------------------------------------------
(* Branches and loops *)

(* The operand of a branch is the last thing in the code.                   *)
LEMMA BranchSize ==
  ASSUME NEW c, SoundCode(c), NEW d, d = WriteConstant(c, "FJUMP", PLACEHOLDER)
  PROVE  d.size = OperandOffset(c) + INT_SIZE
<1>1. d = AddInstruction(c, "FJUMP", PLACEHOLDER, Bytes("FJUMP"))
  BY DEF WriteConstant, Bytes, OneByte
<1>2. c.size \in Nat /\ d.size = c.size + (1 + INT_SIZE)
  BY <1>1 DEF SoundCode, AddInstruction, Bytes, OneByte, WriteConstant
<1> QED  BY <1>2 DEF OperandOffset, INT_SIZE

(* FJUMP takes the condition, whether it jumps or not.                     *)
LEMMA BranchArrives ==
  ASSUME NEW c, SoundCode(c), NEW H, NEW pending, NEW h \in Nat, NEW a \in Nat,
         Arrives(c, H, pending, At(h + 1, a)),
         NEW d, d = WriteConstant(c, "FJUMP", PLACEHOLDER),
         NEW left, pending \subseteq left, OperandOffset(c) \in left
  PROVE  /\ \E G : Keeps(H, G) /\ Arrives(d, G, left, At(h, a))
         /\ d.size = OperandOffset(c) + INT_SIZE
<1> DEFINE x == [op |-> "FJUMP", arg |-> PLACEHOLDER]
<1>1. d = AddInstruction(c, "FJUMP", PLACEHOLDER, Bytes("FJUMP"))
  BY DEF WriteConstant, Bytes, OneByte
<1>2. Checked(x)
  BY DEF Checked, PLACEHOLDER, INT_SIZE
<1>3. Fits(x, At(h + 1, a))
  BY Levels DEF Fits, Drops
<1>4. After(x, At(h + 1, a)) = At(h, a) /\ At(h, a) \in Level
  <2>1. h + 1 + (-1) = h
    OBVIOUS
  <2> QED  BY <2>1, Levels DEF After, Rise, Pushes, Drops
<1>5. c.size + 1 \in left
  BY DEF OperandOffset
<1>6. \E G : Keeps(H, G) /\ Arrives(d, G, left, At(h, a))
  <2> DEFINE l == At(h + 1, a)
             m == At(h, a)
  <2>1. m \in Level /\ m = After(x, l) /\ Fits(x, l) /\ Arrives(c, H, pending, l)
    BY <1>3, <1>4
  <2> HIDE DEF l, m
  <2>2. \E G : Keeps(H, G) /\ Arrives(d, G, left, m)
    BY <1>1, <1>2, <1>5, <2>1, InstructionArrives
  <2> QED  BY <2>2 DEF m
<1>7. d.size = OperandOffset(c) + INT_SIZE
  BY BranchSize
<1> QED  BY <1>6, <1>7

(* A jump to be patched later: any level may be the one behind it.         *)
LEMMA JumpArrives ==
  ASSUME NEW c, SoundCode(c), NEW H, NEW pending, NEW l \in Level, Arrives(c, H, pending, l),
         NEW d, d = WriteConstant(c, "JUMP", PLACEHOLDER),
         NEW left, pending \subseteq left, OperandOffset(c) \in left
  PROVE  /\ \E G : Keeps(H, G) /\ Arrives(d, G, left, l)
         /\ d.size = OperandOffset(c) + INT_SIZE
<1> DEFINE x == [op |-> "JUMP", arg |-> PLACEHOLDER]
<1>1. d = AddInstruction(c, "JUMP", PLACEHOLDER, Bytes("JUMP"))
  BY DEF WriteConstant, Bytes, OneByte
<1>2. Checked(x)
  BY DEF Checked, PLACEHOLDER, INT_SIZE
<1>3. Fits(x, l)
  BY DEF Fits, Drops
<1>4. After(x, l) = l
  <2>1. l = At(l.h, l.a) /\ l.h + 0 = l.h
    BY Levels
  <2>2. Rise(x) = 0
    BY DEF Rise, Pushes, Drops
  <2> QED  BY <2>1, <2>2 DEF After
<1>5. c.size + 1 \in left
  BY DEF OperandOffset
<1>6. \E G : Keeps(H, G) /\ Arrives(d, G, left, l)
  BY <1>1, <1>2, <1>3, <1>4, <1>5, InstructionArrives
<1>7. d.size = OperandOffset(c) + INT_SIZE
  <2>1. c.size \in Nat /\ d.size = c.size + (1 + INT_SIZE)
    BY DEF SoundCode, WriteConstant, AddInstruction
  <2> QED  BY <2>1 DEF OperandOffset, INT_SIZE
<1> QED  BY <1>6, <1>7

(* The levels H of the old code are kept, and those of the new code end    *)
(* with level l.                                                           *)
Continued(H, d, left, l) == \E G : Keeps(H, G) /\ Arrives(d, G, left, l)

(* The same for levels and for an operand that have names.                 *)
LEMMA BranchArrivesAt ==
  ASSUME NEW c, SoundCode(c), NEW H, NEW pending, NEW h, h \in Nat, NEW a, a \in Nat,
         NEW m, m = At(h + 1, a), NEW l, l = At(h, a), Arrives(c, H, pending, m),
         NEW d, d = WriteConstant(c, "FJUMP", PLACEHOLDER), NEW o, o = OperandOffset(c),
         NEW left, pending \subseteq left, o \in left
  PROVE  Continued(H, d, left, l)
<1>1. Arrives(c, H, pending, At(h + 1, a)) /\ OperandOffset(c) \in left
  OBVIOUS
<1>2. (\E G : Keeps(H, G) /\ Arrives(d, G, left, At(h, a))) /\ d.size = OperandOffset(c) + INT_SIZE
  BY <1>1, BranchArrives
<1> QED  BY <1>2 DEF Continued

(* A branch or a loop is opened: the code goes to the height h inside, to  *)
(* where c1 ends, then over the condition, to where c2 ends.               *)
LEMMA OpenLevels ==
  ASSUME Ready, ScopeInv, LexInv, NEW H, Known(H), ctl # <<>>, UNCHANGED fns,
         NEW r \in Record, r.kind \in {"if", "while", "for"}, ctl' = <<r>> \o ctl,
         LexInv', NEW h \in Nat, h = Height', scope'.args = scope.args,
         \A p \in 0..Len(ctl) : Heights(lex'.blocks)[p] = Heights(lex.blocks)[p],
         Heights(lex'.blocks)[Len(ctl) + 1] = h,
         NEW a, a = Len(scope.args),
         NEW c1, Carries(code, Here, c1, At(h, a)),
         NEW c2, Carries(c1, At(h, a), c2, At(h + 1, a)),
         code' = WriteConstant(c2, "FJUMP", PLACEHOLDER), r.off = OperandOffset(c2),
         r.kind # "for" => h = Height,
         r.kind \notin Looping => cycles' = cycles,
         r.kind \in Looping => r.start = c1.size /\ cycles' = StartCycle(code),
         \A G : /\ Met(expect.heights, G) /\ Marked(G, code.size, Here)
                /\ Marked(G, c1.size, At(h, a)) /\ Marked(G, c2.size, At(h + 1, a))
                => Met(expect'.heights, G)
  PROVE  LexInv' /\ \E G : Known(G)'
<1> DEFINE n == Len(ctl)
           b == Heights(lex.blocks)
           e == Heights(lex'.blocks)
           P == Pending(ctl, cycles)
           N == Pending(ctl', cycles')
           cy == cycles'
           hd == [start |-> code.size, infos |-> {}]
<1>1. /\ SoundCode(code) /\ n \in Nat /\ ctl \in Seq(Record) /\ cycles \in Seq(CycleHead)
      /\ Height = b[n] /\ a \in Nat /\ Arrives(code, H, P, Here) /\ Nested(H, ctl, cycles, b, a)
      /\ code.size \in Nat /\ Here = At(Height, a)
  BY BodyFacts DEF Here, SoundCode
<1>2. Met(expect.heights, H)
  BY DEF Known
<1>3. hd \in CycleHead /\ hd.infos = {} /\ hd.start = code.size
  BY <1>1 DEF CycleHead
<1>4. /\ r.kind \notin Looping => cy = cycles
      /\ r.kind \in Looping => cy = <<hd>> \o cycles /\ r.start = c1.size
  BY DEF StartCycle
<1>5. r.kind \in Branching /\ (r.kind \in Looping <=> r.kind \in {"while", "for"})
  BY DEF Branching, Looping
<1>6. P \subseteq N /\ r.off \in N
  <2>1. cy = cycles \/ \E x \in CycleHead : cy = <<x>> \o cycles /\ x.infos = {}
    BY <1>3, <1>4
  <2>2. N = Pending(<<r>> \o ctl, cy)
    OBVIOUS
  <2> HIDE DEF cy, N, P
  <2>3. Pending(ctl, cycles) \subseteq Pending(<<r>> \o ctl, cy) /\ r.off \in Pending(<<r>> \o ctl, cy)
    BY <1>1, <1>5, <2>1, PendingOpened
  <2> QED  BY <2>2, <2>3 DEF P
<1>7. e[n + 1] = h /\ \A p \in 0..n : e[p] = b[p]
  OBVIOUS
<1> HIDE DEF n, b, e, P, N, cy, hd
<1>8. PICK F1 : Keeps(H, F1) /\ Arrives(c1, F1, P, At(h, a))
  BY <1>1 DEF Carries, Raises
<1>9. PICK F2 : Keeps(F1, F2) /\ Arrives(c2, F2, P, At(h + 1, a))
  BY <1>8 DEF Carries, Raises
<1>10. SoundCode(c2)
  BY CarriedIsSound
<1>11. /\ \E G : Keeps(F2, G) /\ Arrives(code', G, N, At(h, a))
       /\ code'.size = r.off + INT_SIZE
  <2>1. PICK d : d = code'
    OBVIOUS
  <2>2. d = WriteConstant(c2, "FJUMP", PLACEHOLDER)
    BY <2>1
  <2>3. /\ \E G : Keeps(F2, G) /\ Arrives(d, G, N, At(h, a))
        /\ d.size = OperandOffset(c2) + INT_SIZE
    <3>1. OperandOffset(c2) \in N /\ P \subseteq N /\ Arrives(c2, F2, P, At(h + 1, a))
          /\ a \in Nat /\ h \in Nat
      BY <1>1, <1>6, <1>9
    <3>2. PICK o, m, l : o = OperandOffset(c2) /\ m = At(h + 1, a) /\ l = At(h, a)
      OBVIOUS
    <3>3. o \in N /\ P \subseteq N /\ Arrives(c2, F2, P, m) /\ a \in Nat /\ h \in Nat
      BY ONLY <3>1, <3>2
    <3>4. Continued(F2, d, N, l)
      BY ONLY <1>10, <2>2, <3>2, <3>3, BranchArrivesAt
    <3>5. d.size = OperandOffset(c2) + INT_SIZE
      BY ONLY <1>10, <2>2, BranchSize
    <3> QED  BY ONLY <3>2, <3>4, <3>5 DEF Continued
  <2> QED  BY <2>1, <2>3
<1>12. PICK G : Keeps(F2, G) /\ Arrives(code', G, N, At(h, a))
  BY <1>11
<1>13. Keeps(H, G) /\ Keeps(F1, G)
  BY <1>8, <1>9, <1>12 DEF Keeps
<1>14. /\ Marked(G, code.size, Here) /\ Marked(G, c1.size, At(h, a))
       /\ Marked(G, c2.size, At(h + 1, a)) /\ Marked(G, r.off + INT_SIZE, At(h, a))
  BY <1>1, <1>8, <1>9, <1>11, <1>12, <1>13 DEF Arrives, Marked, Keeps
<1>15. Nested(G, <<r>> \o ctl, cy, e, a)
  <2>1. Nested(G, ctl, cycles, b, a)
    BY <1>1, <1>13, NestedKeeps
  <2>2. Nested(G, ctl, cycles, e, a)
    <3>1. Len(ctl) \in Nat /\ \A p \in 0..Len(ctl) : e[p] = b[p]
      BY <1>1, <1>7 DEF n
    <3> QED  BY <2>1, <3>1, NestedAlike
  <2>3. e[n] = Height /\ e[n + 1] = h
    BY <1>1, <1>7
  <2>4. RecordHeights(G, r, At(e[n], a), At(e[n + 1], a))
    BY <1>1, <1>4, <1>14, <2>3 DEF RecordHeights, Looping
  <2>5. CycleHeights(G, hd, r.kind, At(h, a))
    BY <1>1, <1>3, <1>14 DEF CycleHeights
  <2>6. \/ r.kind \notin Looping /\ cy = cycles
        \/ /\ r.kind \in Looping
           /\ \E x \in CycleHead : cy = <<x>> \o cycles /\ CycleHeights(G, x, r.kind, At(e[n + 1], a))
    BY <1>3, <1>4, <2>3, <2>5
  <2>7. RecordHeights(G, r, At(e[Len(ctl)], a), At(e[Len(ctl) + 1], a))
    BY <2>4 DEF n
  <2>8. \/ r.kind \notin Looping /\ cy = cycles
        \/ /\ r.kind \in Looping
           /\ \E x \in CycleHead : cy = <<x>> \o cycles /\ CycleHeights(G, x, r.kind, At(e[Len(ctl) + 1], a))
    BY <2>6 DEF n
  <2> QED  BY <1>1, <2>2, <2>7, <2>8, NestedPushed
<1>16. Met(expect'.heights, G)
  BY <1>2, <1>13, <1>14, MetKeeps
<1>17. Known(G)'
  <2>1. ctl' # <<>>
    BY <1>1, Pushing
  <2>2. Arrives(code', G, Pending(ctl', cycles'), At(h, a))
    BY <1>12 DEF N
  <2>3. Nested(G, ctl', cycles', Heights(lex'.blocks), a)
    BY <1>15 DEF e, cy
  <2> QED  BY <1>13, <1>16, <2>1, <2>2, <2>3, BodyLevels
<1> QED  BY <1>17

(* The height inside a construct just opened is that around it.            *)
LEMMA OnTopOf ==
  ASSUME NEW n \in Nat, NEW b, NEW e, e = OnTop(b, n)
  PROVE  (\A p \in 0..n : e[p] = b[p]) /\ e[n + 1] = b[n]
<1>1. \A p \in 0..n : p \in 0..(n + 1) /\ p # n + 1
  OBVIOUS
<1>2. n + 1 \in 0..(n + 1)
  OBVIOUS
<1> QED  BY <1>1, <1>2 DEF OnTop

(* What begin_scope leaves alone                                           *)
LEMMA ScopeBegun ==
  ASSUME ScopeInv, NEW s, s = BeginScope(scope)
  PROVE  s.locals = scope.locals /\ s.args = scope.args /\ s.depth = scope.depth + 1
<1>1. s = [locals |-> scope.locals, args |-> scope.args, depth |-> scope.depth + 1]
  BY BeginScopeIs
<1> QED  BY <1>1

(* { *)
LEMMA OpenBlockLevels ==
  ASSUME Ready, ScopeInv, LexInv, NEW H, Known(H), OpenBlock
  PROVE  LexInv' /\ \E G : Known(G)'
<1> DEFINE r == Activation("block", 0, 0, NoPost)
           n == Len(ctl)
           b == Heights(lex.blocks)
           e == Heights(lex'.blocks)
           a == Len(scope.args)
<1>1. /\ ctl # <<>> /\ ctl' = <<r>> \o ctl /\ UNCHANGED <<code, fns, symtable, cycles, expect>>
      /\ scope' = BeginScope(scope) /\ lex' = OpenLexBlock
  BY DEF OpenBlock, InBody, Enter
<1>2. /\ r \in Record /\ r.kind = "block" /\ r.kind \notin Branching /\ r.kind \notin Looping
  BY DEF Activation, Record, Branching, Looping
<1> HIDE DEF r
<1>3. /\ n \in Nat /\ ctl \in Seq(Record) /\ cycles \in Seq(CycleHead) /\ Height = b[n]
      /\ Arrives(code, H, Pending(ctl, cycles), At(Height, a)) /\ Nested(H, ctl, cycles, b, a)
      /\ Height \in Nat
  BY <1>1, BodyFacts
<1>4. scope'.locals = scope.locals /\ scope'.args = scope.args
  BY <1>1, ScopeBegun
<1>5. LexInv' /\ e = OnTop(b, n) /\ Height' = Height
  <2>1. Shaped(expect')
    BY <1>1 DEF LexInv
  <2> QED  BY <1>1, <1>2, <1>3, <1>4, <2>1, LayersOpened
<1> HIDE DEF n, b, e, a
<1>6. (\A p \in 0..n : e[p] = b[p]) /\ e[n + 1] = b[n]
  BY <1>3, <1>5, OnTopOf
<1>7. Nested(H, <<r>> \o ctl, cycles, e, a)
  <2>1. Len(ctl) \in Nat /\ \A p \in 0..Len(ctl) : e[p] = b[p]
    BY <1>3, <1>6 DEF n
  <2>2. Nested(H, ctl, cycles, e, a)
    BY <1>3, <2>1, NestedAlike
  <2>3. RecordHeights(H, r, At(e[Len(ctl)], a), At(e[Len(ctl) + 1], a))
    BY <1>2 DEF RecordHeights, Looping
  <2> QED  BY <1>2, <1>3, <2>2, <2>3, NestedPushed
<1>8. Pending(<<r>> \o ctl, cycles) = Pending(ctl, cycles)
  BY <1>2, <1>3, PendingOpened
<1>9. Known(H)'
  <2>1. ctl' # <<>>
    BY <1>1, <1>2, <1>3, Pushing
  <2>2. Keeps(H, H) /\ Met(expect'.heights, H)
    BY <1>1 DEF Keeps, Known
  <2>3. Arrives(code', H, Pending(ctl', cycles'), At(Height, a))
    BY <1>1, <1>3, <1>8
  <2>4. Nested(H, ctl', cycles', Heights(lex'.blocks), a)
    BY <1>1, <1>7 DEF e
  <2>5. a = Len(scope'.args) /\ UNCHANGED fns /\ Height = Height'
    BY <1>1, <1>4, <1>5 DEF a
  <2> QED  BY <2>1, <2>2, <2>3, <2>4, <2>5, BodyLevels
<1> QED  BY <1>5, <1>9

(* if (...) { and while (...) {                                            *)
LEMMA OpenConditionLevels ==
  ASSUME Ready, ScopeInv, LexInv, NEW H, Known(H), ctl # <<>>, UNCHANGED fns,
         NEW r \in Record, ctl' = <<r>> \o ctl,
         NEW c, c = WriteCondition(code),
         \/ r.kind = "if" /\ cycles' = cycles
         \/ r.kind = "while" /\ r.start = code.size /\ cycles' = StartCycle(code),
         code' = WriteConstant(c, "FJUMP", PLACEHOLDER), r.off = OperandOffset(c),
         expect' = ExpectHeight(Starting(expect), c.size, Height + 1),
         scope' = BeginScope(scope), lex' = OpenLexBlock
  PROVE  LexInv' /\ \E G : Known(G)'
<1> DEFINE n == Len(ctl)
           b == Heights(lex.blocks)
           e == Heights(lex'.blocks)
           a == Len(scope.args)
           h == Height
<1>1. /\ n \in Nat /\ ctl \in Seq(Record) /\ h = b[n] /\ h \in Nat /\ a \in Nat
      /\ SoundCode(code) /\ Here = At(h, a)
  BY BodyFacts DEF Here
<1>2. scope'.locals = scope.locals /\ scope'.args = scope.args
  BY ScopeBegun
<1>3. /\ Shaped(expect')
      /\ expect'.heights = Noted(Noted(expect.heights, code.size, h), c.size, h + 1)
  <2>1. Shaped(Starting(expect)) /\ Starting(expect).heights = Noted(expect.heights, code.size, h)
    BY StartingLevels
  <2>2. expect' = ExpectHeight(Starting(expect), c.size, h + 1)
    OBVIOUS
  <2> HIDE DEF h
  <2> QED  BY ONLY <2>1, <2>2, Expectations
<1>4. LexInv' /\ e = OnTop(b, n) /\ Height' = h
  BY <1>1, <1>2, <1>3, LayersOpened
<1>5. Carries(code, Here, code, At(h, a)) /\ Carries(code, At(h, a), c, At(h + 1, a))
  BY <1>1, CarriesNothing, ConditionCarries
<1> HIDE DEF b, e, n, a, h
<1>6. (\A p \in 0..n : e[p] = b[p]) /\ e[n + 1] = h
  BY <1>1, <1>4, OnTopOf
<1>7. ASSUME NEW G, Met(expect.heights, G), Marked(G, code.size, Here),
             Marked(G, c.size, At(h + 1, a))
      PROVE  Met(expect'.heights, G)
  <2>1. Here.h = h /\ At(h + 1, a).h = h + 1
    BY <1>1, Levels
  <2>2. Met(Noted(expect.heights, code.size, h), G)
    BY <1>7, <2>1, MetNoted
  <2>3. Met(Noted(Noted(expect.heights, code.size, h), c.size, h + 1), G)
    BY <1>7, <2>1, <2>2, MetNoted
  <2> QED  BY <1>3, <2>3
<1>8. /\ \A p \in 0..Len(ctl) : Heights(lex'.blocks)[p] = Heights(lex.blocks)[p]
      /\ Heights(lex'.blocks)[Len(ctl) + 1] = h /\ h = Height /\ a = Len(scope.args)
      /\ h = Height'
  BY <1>4, <1>6 DEF n, b, e, a, h
<1>9. /\ r.kind \in {"if", "while", "for"}
      /\ r.kind \notin Looping => cycles' = cycles
      /\ r.kind \in Looping => r.start = code.size /\ cycles' = StartCycle(code)
  BY DEF Looping
<1> QED  BY ONLY Ready, ScopeInv, LexInv, Known(H), ctl # <<>>, UNCHANGED fns, r \in Record,
            ctl' = <<r>> \o ctl, code' = WriteConstant(c, "FJUMP", PLACEHOLDER),
            r.off = OperandOffset(c), <1>1, <1>2, <1>4, <1>5, <1>7, <1>8, <1>9, OpenLevels

(* if (...) {  and  while (...) {                                          *)
LEMMA OpenIfLevels ==
  ASSUME Ready, ScopeInv, LexInv, NEW H, Known(H), OpenIf \/ OpenWhile
  PROVE  LexInv' /\ \E G : Known(G)'
<1> DEFINE c == WriteCondition(code)
           off == OperandOffset(c)
<1>1. /\ ctl # <<>> /\ UNCHANGED fns /\ code' = WriteConstant(c, "FJUMP", PLACEHOLDER)
      /\ expect' = ExpectHeight(Starting(expect), c.size, Height + 1)
      /\ scope' = BeginScope(scope) /\ lex' = OpenLexBlock
  BY DEF OpenIf, OpenWhile, InBody
<1>2. Appends(code, c) /\ code.size \in Nat
  BY <1>1, InBodyFacts, ConditionAppends
<1>3. off \in Nat
  BY <1>2 DEF Appends, Grows, SoundCode, OperandOffset
<1>4. CASE OpenIf
  <2> DEFINE r == Activation("if", 0, off, NoPost)
  <2>1. ctl' = <<r>> \o ctl /\ cycles' = cycles
    BY <1>4 DEF OpenIf, Enter
  <2> HIDE DEF off
  <2>2. r \in Record /\ r.kind = "if" /\ r.off = off
    BY <1>3 DEF Activation, Record, Branching
  <2> HIDE DEF r, c
  <2> QED  BY <1>1, <2>1, <2>2, OpenConditionLevels DEF off, c
<1>5. CASE OpenWhile
  <2> DEFINE r == Activation("while", code.size, off, NoPost)
  <2>1. ctl' = <<r>> \o ctl /\ cycles' = StartCycle(code)
    BY <1>5 DEF OpenWhile, Enter
  <2> HIDE DEF off
  <2>2. r \in Record /\ r.kind = "while" /\ r.off = off /\ r.start = code.size
    BY <1>2, <1>3 DEF Activation, Record, Branching
  <2> HIDE DEF r, c
  <2> QED  BY <1>1, <2>1, <2>2, OpenConditionLevels DEF off, c
<1> QED  BY <1>4, <1>5

(* A construct is opened whose block begins with a local.                  *)
LEMMA LayersOpenedWith ==
  ASSUME ScopeInv, LexInv, ctl # <<>>, ctl \in Seq(Record), NEW r \in Record,
         ctl' = <<r>> \o ctl, NEW id \in VarIds, NEW x,
         scope' = DefineLocal(DeclareLocal(BeginScope(scope), id)),
         lex' = [lex EXCEPT !.blocks = Append(@, <<x>>)], Shaped(expect')
  PROVE  /\ LexInv' /\ Height' = Height + 1 /\ scope'.args = scope.args
         /\ \A p \in 0..Len(ctl) : Heights(lex'.blocks)[p] = Heights(lex.blocks)[p]
         /\ Heights(lex'.blocks)[Len(ctl) + 1] = Height + 1
<1> DEFINE n == Len(ctl)
           b == Heights(lex.blocks)
           u == Append(lex.blocks, <<x>>)
           y == [id |-> id, depth |-> n + 1]
<1>1. n \in Nat /\ scope.locals \in Seq(Locals) /\ Stacked(scope.locals, lex.blocks, n)
      /\ scope.depth = n
  BY DEF ScopeInv, LexInv
<1>2. lex' = [globals |-> lex.globals, params |-> lex.params, blocks |-> u]
  <2>1. lex' = [lex EXCEPT !.blocks = u]
    OBVIOUS
  <2> HIDE DEF u
  <2> QED  BY <2>1 DEF LexInv
<1>3. Len(ctl') = n + 1
  BY Pushing
<1>4. y \in Locals /\ y.depth = n + 1
  BY <1>1 DEF Locals
<1>5. scope'.locals = Append(scope.locals, y) /\ scope'.args = scope.args
  <2>1. PICK s : s = BeginScope(scope)
    OBVIOUS
  <2>2. s = [locals |-> scope.locals, args |-> scope.args, depth |-> n + 1]
    BY <1>1, <2>1, BeginScopeIs
  <2>3. s.locals = scope.locals /\ s.args = scope.args /\ s.depth = n + 1
    BY <2>2
  <2>4. /\ s = [locals |-> s.locals, args |-> s.args, depth |-> s.depth]
        /\ s.locals \in Seq(Locals) /\ s.depth \in Nat \ {0}
    BY <1>1, <2>2, <2>3
  <2> DEFINE t == DefineLocal(DeclareLocal(s, id))
  <2>5. t = [locals |-> t.locals, args |-> s.args, depth |-> s.depth]
        /\ t.locals = Append(s.locals, [id |-> id, depth |-> s.depth])
    BY <2>4, LocalDefined
  <2>6. scope' = t
    BY <2>1
  <2> HIDE DEF t
  <2>7. t.args = s.args
    BY <2>5
  <2> QED  BY <2>3, <2>5, <2>6, <2>7
<1> HIDE DEF y
<1>6. Stacked(Append(scope.locals, y), u, n + 1) /\ Heights(u) = OneMore(OnTop(b, n), n + 1)
  <2> HIDE DEF n
  <2> QED  BY <1>1, <1>4, StackedOpenedWith
<1> HIDE DEF u
<1>7. lex'.blocks = u /\ lex' = [globals |-> lex'.globals, params |-> lex'.params, blocks |-> lex'.blocks]
  BY ONLY <1>2
<1>8. b[n] = Height /\ b \in [0..n -> Nat]
  BY <1>1, StackedFacts DEF Height
<1>9. Len(FlattenSeq(u)) = Heights(u)[n + 1]
  BY <1>6, StackedFacts
<1> HIDE DEF n, b
<1>10. (\A p \in 0..n : OnTop(b, n)[p] = b[p]) /\ OnTop(b, n)[n + 1] = b[n]
  BY <1>1, OnTopOf
<1>11. (\A p \in 0..n : Heights(u)[p] = b[p]) /\ Heights(u)[n + 1] = Height + 1
  <2>1. PICK g : g = OnTop(b, n)
    OBVIOUS
  <2>2. Heights(u) = OneMore(g, n + 1)
    BY <1>6, <2>1
  <2>3. n + 1 \in 0..(n + 1) /\ \A p \in 0..n : p \in 0..(n + 1) /\ p # n + 1
    BY <1>1
  <2>4. OneMore(g, n + 1)[n + 1] = g[n + 1] + 1 /\ \A p \in 0..n : OneMore(g, n + 1)[p] = g[p]
    BY <2>3 DEF OneMore
  <2> QED  BY <1>8, <1>10, <2>1, <2>2, <2>4
<1>12. Height' = Height + 1
  <2>1. Height' = Len(FlattenSeq(u))
    BY <1>7 DEF Height
  <2> QED  BY <1>9, <1>11, <2>1
<1>13. LexInv'
  BY <1>3, <1>5, <1>6, <1>7 DEF LexInv
<1>14. /\ \A p \in 0..n : Heights(lex'.blocks)[p] = Heights(lex.blocks)[p]
       /\ Heights(lex'.blocks)[n + 1] = Height + 1
  BY <1>7, <1>11 DEF b
<1> QED  BY <1>5, <1>12, <1>13, <1>14 DEF n

(* for (...; ...; ...) {                                                   *)
LEMMA OpenForLevels ==
  ASSUME Tame, Ready, ScopeInv, LexInv, NEW H, Known(H),
         NEW init \in ForInits, NEW endless \in BOOLEAN, NEW post \in Posts,
         OpenFor(init, endless, post), ~CompileError
  PROVE  LexInv' /\ \E G : Known(G)'
<1> DEFINE isVar == init.kind = "for_var"
           s  == IF isVar THEN DefineLocal(DeclareLocal(BeginScope(scope), init.id))
                 ELSE BeginScope(scope)
           c1 == CASE init.kind = "none" -> code
                   [] init.kind = "for_var"  -> WriteNumber(code, VariableTag)
                   [] init.kind = "for_expr" -> WriteAssignment(code, s, init.id)
           c2 == IF endless THEN WriteConstant(c1, "BOOLEAN", 1) ELSE WriteCondition(c1)
           h  == IF isVar THEN Height + 1 ELSE Height
           r  == Activation("for", c1.size, OperandOffset(c2), post)
           bl == IF isVar THEN <<Declaration(init.id, VariableTag, MayHold(VariableTag))>> ELSE <<>>
           a  == Len(scope.args)
<1>1. /\ ctl # <<>> /\ ctl' = <<r>> \o ctl /\ UNCHANGED fns
      /\ code' = WriteConstant(c2, "FJUMP", PLACEHOLDER) /\ cycles' = StartCycle(code)
      /\ scope' = s /\ lex' = [lex EXCEPT !.blocks = Append(@, bl)]
      /\ expect' = ExpectHeight(ExpectHeight(Starting(expect), c1.size, h), c2.size, h + 1)
  BY DEF OpenFor, InBody, Enter
<1>2. /\ SoundCode(code) /\ Height \in Nat /\ a \in Nat /\ ctl \in Seq(Record)
      /\ Here = At(Height, a) /\ Len(ctl) \in Nat /\ Height = Heights(lex.blocks)[Len(ctl)]
  BY <1>1, BodyFacts DEF Here
<1>3. init.kind \in {"none", "for_var"} /\ (isVar => init.id \in VarIds)
  BY DEF ForInits, Tame
<1>4. h \in Nat
  BY <1>2
<1> HIDE DEF s, h
<1>5. Carries(code, At(Height, a), c1, At(h, a))
  <2>1. CASE isVar
    <3>1. c1 = WriteNumber(code, VariableTag) /\ h = Height + 1
      BY <2>1 DEF h
    <3> QED  BY <1>2, <3>1, NumberCarries
  <2>2. CASE ~isVar
    <3>1. c1 = code /\ h = Height
      BY <1>3, <2>2 DEF h
    <3> QED  BY <1>2, <3>1, CarriesNothing
  <2> QED  BY <2>1, <2>2
<1>6. SoundCode(c1)
  BY <1>5, CarriedIsSound
<1> HIDE DEF c1
<1>7. Carries(c1, At(h, a), c2, At(h + 1, a))
  <2>1. Carries(c1, At(h, a), WriteConstant(c1, "BOOLEAN", 1), At(h + 1, a))
    BY <1>2, <1>4, <1>6, PushCarries DEF Pushes, OneByte
  <2>2. Carries(c1, At(h, a), WriteCondition(c1), At(h + 1, a))
    BY <1>2, <1>4, <1>6, ConditionCarries
  <2> QED  BY <2>1, <2>2
<1>8. c1.size \in Nat /\ c2.size \in Nat
  BY <1>6, <1>7, CarriedIsSound DEF SoundCode
<1> HIDE DEF c2
<1>9. /\ r \in Record /\ r.kind = "for" /\ r.off = OperandOffset(c2) /\ r.start = c1.size
  <2>1. post \in {NoPost} \union VarIds
    BY DEF Posts
  <2> QED  BY <1>8, <2>1 DEF Activation, Record, Branching, OperandOffset
<1> HIDE DEF r
<1>10. /\ Shaped(expect')
       /\ expect'.heights = Noted(Noted(Noted(expect.heights, code.size, Height), c1.size, h),
                                  c2.size, h + 1)
  <2>1. Shaped(Starting(expect)) /\ Starting(expect).heights = Noted(expect.heights, code.size, Height)
    BY StartingLevels
  <2> DEFINE e1 == ExpectHeight(Starting(expect), c1.size, h)
  <2>2. Shaped(e1) /\ e1.heights = Noted(Noted(expect.heights, code.size, Height), c1.size, h)
    BY ONLY <2>1, Expectations
  <2> HIDE DEF e1
  <2>3. /\ Shaped(ExpectHeight(e1, c2.size, h + 1))
        /\ ExpectHeight(e1, c2.size, h + 1).heights = Noted(e1.heights, c2.size, h + 1)
    <3>1. PICK o, k : o = c2.size /\ k = h + 1
      OBVIOUS
    <3>2. /\ Shaped(ExpectHeight(e1, o, k))
          /\ ExpectHeight(e1, o, k).heights = Noted(e1.heights, o, k)
      BY ONLY <2>2, Expectations
    <3> QED  BY <3>1, <3>2
  <2>4. expect' = ExpectHeight(e1, c2.size, h + 1)
    BY <1>1 DEF e1
  <2> QED  BY <2>2, <2>3, <2>4
<1>11. /\ LexInv' /\ h = Height' /\ scope'.args = scope.args
       /\ \A p \in 0..Len(ctl) : Heights(lex'.blocks)[p] = Heights(lex.blocks)[p]
       /\ Heights(lex'.blocks)[Len(ctl) + 1] = h
  <2>1. CASE isVar
    <3>1. PICK x : x = Declaration(init.id, VariableTag, MayHold(VariableTag))
      OBVIOUS
    <3>2. /\ lex' = [lex EXCEPT !.blocks = Append(@, <<x>>)] /\ h = Height + 1
          /\ scope' = DefineLocal(DeclareLocal(BeginScope(scope), init.id))
          /\ init.id \in VarIds
      BY <1>1, <1>3, <2>1, <3>1 DEF h, s
    <3> QED  BY <1>1, <1>2, <1>9, <1>10, <3>2, LayersOpenedWith
  <2>2. CASE ~isVar
    <3>1. lex' = OpenLexBlock /\ h = Height /\ scope' = BeginScope(scope)
      BY <1>1, <2>2 DEF h, s, OpenLexBlock
    <3>2. scope'.locals = scope.locals /\ scope'.args = scope.args
      BY <3>1, ScopeBegun
    <3>3. LexInv' /\ Heights(lex'.blocks) = OnTop(Heights(lex.blocks), Len(ctl)) /\ Height' = Height
      BY <1>1, <1>2, <1>9, <1>10, <3>1, <3>2, LayersOpened
    <3> DEFINE n == Len(ctl)
               b == Heights(lex.blocks)
               e == Heights(lex'.blocks)
    <3>4. e = OnTop(b, n) /\ n \in Nat
      BY <1>2, <3>3
    <3> HIDE DEF b, e, n
    <3>5. (\A p \in 0..n : e[p] = b[p]) /\ e[n + 1] = b[n]
      BY <3>4, OnTopOf
    <3>6. b[n] = h
      BY <1>2, <3>1 DEF b, n
    <3> QED  BY <3>1, <3>2, <3>3, <3>5, <3>6 DEF b, e, n
  <2> QED  BY <2>1, <2>2
<1>12. ASSUME NEW G, Met(expect.heights, G), Marked(G, code.size, Here),
              Marked(G, c1.size, At(h, a)), Marked(G, c2.size, At(h + 1, a))
       PROVE  Met(expect'.heights, G)
  <2>1. Here.h = Height /\ At(h, a).h = h /\ At(h + 1, a).h = h + 1
    BY <1>2, Levels
  <2>2. Met(Noted(expect.heights, code.size, Height), G)
    BY <1>12, <2>1, MetNoted
  <2>3. Met(Noted(Noted(expect.heights, code.size, Height), c1.size, h), G)
    BY <1>12, <2>1, <2>2, MetNoted
  <2>4. Met(Noted(Noted(Noted(expect.heights, code.size, Height), c1.size, h), c2.size, h + 1), G)
    BY <1>12, <2>1, <2>3, MetNoted
  <2> QED  BY <1>10, <2>4
<1>13. /\ Carries(code, Here, c1, At(h, a)) /\ a = Len(scope.args)
       /\ r.kind \in {"if", "while", "for"}
       /\ r.kind # "for" => h = Height
       /\ r.kind \notin Looping => cycles' = cycles
       /\ r.kind \in Looping => r.start = c1.size /\ cycles' = StartCycle(code)
  BY <1>1, <1>2, <1>5, <1>9 DEF Looping
<1> HIDE DEF a
<1> QED  BY ONLY Ready, ScopeInv, LexInv, Known(H), <1>1, <1>4, <1>7, <1>9, <1>11, <1>12, <1>13,
            OpenLevels

(* A construct is closed: the code behind it finds the height around it.   *)
LEMMA CloseLevels ==
  ASSUME Ready, ScopeInv, LexInv, NEW H, Known(H), ctl # <<>>, Head(ctl).kind # "function",
         UNCHANGED fns, ctl' = Tail(ctl), scope' = EndScope(scope), lex' = CloseLexBlock,
         cycles' = IF Head(ctl).kind \in Looping THEN Tail(cycles) ELSE cycles,
         Shaped(expect'), expect'.heights = Noted(expect.heights, code.size, Height),
         NEW G, Keeps(H, G),
         Arrives(code', G, Pending(ctl', cycles'),
                 At(Heights(lex.blocks)[Len(ctl) - 1], Len(scope.args)))
  PROVE  LexInv' /\ \E F : Known(F)'
<1> DEFINE n == Len(ctl)
           b == Heights(lex.blocks)
           e == Heights(lex'.blocks)
           a == Len(scope.args)
           cy == cycles'
<1>1. /\ n \in Nat /\ ctl \in Seq(Record) /\ cycles \in Seq(CycleHead)
      /\ Arrives(code, H, Pending(ctl, cycles), At(Height, a)) /\ Nested(H, ctl, cycles, b, a)
  BY BodyFacts
<1>2. /\ LexInv' /\ Height' = b[n - 1] /\ scope'.args = scope.args
      /\ ctl' # <<>> /\ Len(ctl') = n - 1 /\ n - 1 \in Nat
      /\ \A p \in 0..(n - 1) : e[p] = b[p]
  BY LayersClosed
<1>3. /\ Head(ctl).kind \notin Looping => cy = cycles
      /\ Head(ctl).kind \in Looping => cy = Tail(cycles)
  OBVIOUS
<1> HIDE DEF b, e, a, cy
<1>4. Nested(G, Tail(ctl), cy, e, a)
  <2>1. Nested(G, ctl, cycles, b, a)
    BY <1>1, NestedKeeps
  <2>2. Nested(G, Tail(ctl), cy, b, a)
    BY <1>1, <1>3, <2>1, NestedPopped
  <2>3. PICK t : t = Tail(ctl)
    OBVIOUS
  <2>4. Len(t) \in Nat /\ \A p \in 0..Len(t) : e[p] = b[p]
    BY <1>2, <2>3
  <2>5. Nested(G, t, cy, e, a)
    BY <2>2, <2>3, <2>4, NestedAlike
  <2> QED  BY <2>3, <2>5
<1>5. Met(expect'.heights, G)
  <2>1. Met(expect.heights, G)
    BY MetKeeps DEF Known
  <2>2. Marked(G, code.size, At(Height, a)) /\ At(Height, a).h = Height
    BY <1>1, Levels DEF Arrives, Marked, Keeps
  <2> QED  BY <2>1, <2>2, MetNoted
<1>6. Known(G)'
  <2>1. /\ Arrives(code', G, Pending(ctl', cycles'), At(b[n - 1], a))
        /\ Nested(G, ctl', cycles', Heights(lex'.blocks), a)
    BY <1>4 DEF b, e, a, cy
  <2>2. b[n - 1] = Height' /\ a = Len(scope'.args)
    BY <1>2 DEF a
  <2> QED  BY <1>2, <1>5, <2>1, <2>2, BodyLevels
<1> QED  BY <1>2, <1>6

(* What end_scope pops takes the stack to the height around the construct. *)
LEMMA PoppedLevels ==
  ASSUME Ready, ScopeInv, LexInv, ctl # <<>>, NEW H, Known(H), NEW c, SoundCode(c)
  PROVE  /\ Carries(c, Here, PopLocals(c, PoppedBy(scope)),
                    At(Heights(lex.blocks)[Len(ctl) - 1], Len(scope.args)))
         /\ At(Heights(lex.blocks)[Len(ctl) - 1], Len(scope.args)) \in Level
<1> DEFINE low == Heights(lex.blocks)[Len(ctl) - 1]
           k == PoppedBy(scope)
           a == Len(scope.args)
<1>1. low \in Nat /\ k \in Nat /\ Height = low + k /\ a \in Nat
  BY BlockFacts, BodyFacts
<1>2. Here = At(Height, a)
  BY DEF Here
<1> HIDE DEF low, k, a
<1>3. Carries(c, At(low + k, a), PopLocals(c, k), At(low, a))
  BY <1>1, PopLocalsCarries
<1> QED  BY <1>1, <1>2, <1>3, Levels DEF low, k, a

(* A jump that is pending is in the code, however long it has become.      *)
LEMMA PendingWritten ==
  ASSUME Ready, ctl # <<>>, NEW p \in Pending(ctl, cycles), NEW c, Grows(code, c)
  PROVE  /\ p \in Nat /\ p - 1 \in DOMAIN code.ins /\ code.ins[p - 1].op \in Jumps
         /\ p - 1 \in DOMAIN c.ins /\ c.ins[p - 1].op \in Jumps
<1>1. PendingAreJumps(code, Base, Pending(ctl, cycles))
  BY DEF Ready, CompilerInv, CodeOk
<1> QED  BY <1>1 DEF PendingAreJumps, Grows

(* } of a block, and of a branch that no else follows                      *)
LEMMA CloseBlockLevels ==
  ASSUME Ready, ScopeInv, LexInv, NEW H, Known(H), CloseBlock
  PROVE  LexInv' /\ \E G : Known(G)'
<1> DEFINE c == PopLocals(code, PoppedBy(scope))
           l == At(Heights(lex.blocks)[Len(ctl) - 1], Len(scope.args))
<1>1. /\ ctl # <<>> /\ Head(ctl).kind = "block" /\ code' = c /\ UNCHANGED <<fns, cycles>>
      /\ ctl' = Tail(ctl) /\ scope' = EndScope(scope) /\ lex' = CloseLexBlock
      /\ expect' = Starting(expect)
  BY DEF CloseBlock, Leave
<1>2. /\ SoundCode(code) /\ ctl \in Seq(Record) /\ Arrives(code, H, Pending(ctl, cycles), Here)
  BY <1>1, BodyFacts DEF Here
<1>3. Carries(code, Here, c, l)
  BY <1>1, <1>2, PoppedLevels
<1> HIDE DEF c, l
<1>4. Pending(Tail(ctl), cycles) = Pending(ctl, cycles)
  <2>1. /\ Pending(Tail(ctl), cycles) \subseteq Pending(ctl, cycles)
        /\ \A p \in Pending(ctl, cycles) : p \in Pending(Tail(ctl), cycles)
    BY <1>1, <1>2, PendingClosed DEF Branching, Looping
  <2> QED  BY <2>1
<1>5. PICK G : Keeps(H, G) /\ Arrives(c, G, Pending(ctl, cycles), l)
  BY <1>2, <1>3 DEF Carries, Raises
<1>6. Arrives(code', G, Pending(ctl', cycles'), l)
  BY <1>1, <1>4, <1>5
<1>7. /\ Shaped(expect') /\ expect'.heights = Noted(expect.heights, code.size, Height)
      /\ Head(ctl).kind # "function" /\ Head(ctl).kind \notin Looping
  BY <1>1, StartingLevels DEF Looping
<1> QED  BY <1>1, <1>5, <1>6, <1>7, CloseLevels DEF l

(* The end of an if and of an else                                         *)
LEMMA CloseBranchLevels ==
  ASSUME Ready, ScopeInv, LexInv, NEW H, Known(H), CloseIf \/ CloseElse
  PROVE  LexInv' /\ \E G : Known(G)'
<1> DEFINE c == PopLocals(code, PoppedBy(scope))
           off == Head(ctl).off
           P == Pending(ctl, cycles)
           T == Pending(Tail(ctl), cycles)
           l == At(Heights(lex.blocks)[Len(ctl) - 1], Len(scope.args))
<1>1. /\ ctl # <<>> /\ Head(ctl).kind \in {"if", "else"} /\ code' = PatchToHere(c, off)
      /\ UNCHANGED <<fns, cycles>> /\ ctl' = Tail(ctl) /\ scope' = EndScope(scope)
      /\ lex' = CloseLexBlock /\ expect' = Starting(expect)
  BY DEF CloseIf, CloseElse, Leave
<1>2. /\ SoundCode(code) /\ ctl \in Seq(Record) /\ cycles \in Seq(CycleHead)
      /\ Arrives(code, H, P, Here)
      /\ Nested(H, ctl, cycles, Heights(lex.blocks), Len(scope.args))
  BY <1>1, BodyFacts DEF Here
<1>3. Carries(code, Here, c, l)
  BY <1>1, <1>2, PoppedLevels
<1>4. T \subseteq P /\ off \in P /\ P \ {off} \subseteq T
  BY <1>1, <1>2, PendingClosed DEF Branching, Looping
<1>5. Marked(H, off + INT_SIZE, l)
  <2>1. RecordHeights(H, Head(ctl), l, At(Heights(lex.blocks)[Len(ctl)], Len(scope.args)))
    BY <1>1, <1>2, NestedPopped
  <2> QED  BY <1>1, <2>1 DEF RecordHeights
<1>6. Grows(code, c) /\ SoundCode(c)
  BY <1>3, CarriedIsSound DEF Carries, Appends
<1>7. off \in Nat /\ off - 1 \in DOMAIN c.ins /\ c.ins[off - 1].op \in Jumps
  BY <1>1, <1>4, <1>6, PendingWritten
<1> HIDE DEF c, l, off, P, T
<1>8. PICK G : Keeps(H, G) /\ Arrives(c, G, P, l)
  BY <1>2, <1>3 DEF Carries, Raises
<1>9. Arrives(PatchToHere(c, off), G, T, l)
  <2>1. Marked(G, off + INT_SIZE, l)
    BY <1>5, <1>8 DEF Marked, Keeps
  <2> QED  BY <1>4, <1>6, <1>7, <1>8, <2>1, PatchArrives
<1>10. Arrives(code', G, Pending(ctl', cycles'), l)
  BY <1>1, <1>9 DEF T
<1>11. /\ Shaped(expect') /\ expect'.heights = Noted(expect.heights, code.size, Height)
       /\ Head(ctl).kind # "function" /\ Head(ctl).kind \notin Looping
  BY <1>1, StartingLevels DEF Looping
<1> QED  BY <1>1, <1>8, <1>10, <1>11, CloseLevels DEF l

(* The end of a loop: the jump back, the exit, the breaks and continues    *)
(* all lead to where the stack is as inside, and then the locals go.       *)
LEMMA CloseLoopLevels ==
  ASSUME Ready, ScopeInv, LexInv, NEW H, Known(H), ctl # <<>>, Head(ctl).kind \in Looping,
         UNCHANGED fns, NEW c, Carries(code, Here, c, Here),
         NEW head, head = ContinueAt(Head(cycles), head.start),
         \/ head.start = Head(cycles).start /\ Head(ctl).kind = "while"
         \/ head.start = code.size,
         code' = PopLocals(PatchCycle(PatchToHere(WriteJumpBack(c, Head(ctl).start),
                                                  Head(ctl).off), head), PoppedBy(scope)),
         ctl' = Tail(ctl), cycles' = Tail(cycles), scope' = EndScope(scope),
         lex' = CloseLexBlock, Shaped(expect'),
         expect'.heights = Noted(expect.heights, code.size, Height)
  PROVE  LexInv' /\ \E G : Known(G)'
<1> DEFINE act == Head(ctl)
           P == Pending(ctl, cycles)
           T == Pending(Tail(ctl), Tail(cycles))
           Q == {p \in P : p \in T \/ \E info \in head.infos : info.off = p}
           c1 == WriteJumpBack(c, act.start)
           c2 == PatchToHere(c1, act.off)
           c3 == PatchCycle(c2, head)
           d == PopLocals(c3, PoppedBy(scope))
           l == At(Heights(lex.blocks)[Len(ctl) - 1], Len(scope.args))
<1>1. /\ SoundCode(code) /\ ctl \in Seq(Record) /\ cycles \in Seq(CycleHead)
      /\ Arrives(code, H, P, Here) /\ Here \in Level
      /\ Nested(H, ctl, cycles, Heights(lex.blocks), Len(scope.args))
      /\ Here = At(Heights(lex.blocks)[Len(ctl)], Len(scope.args))
  BY BodyFacts DEF Here
<1>2. /\ Built(code, Base, P) /\ ParserOk(ctl, cycles, code, Base) /\ code.size \in Ends(code)
      /\ Base \in Nat /\ Base <= code.size /\ code.size \in Nat
  BY InBodyFacts
<1>3. /\ cycles # <<>> /\ Head(cycles) \in CycleHead
      /\ act.start \in Ends(code) /\ act.start >= Base
      /\ Head(cycles).start \in Ends(code) /\ Head(cycles).start >= Base
  <2>1. Ends(code) \subseteq Ends(code) /\ Head(ctl).kind # "function"
    BY DEF Looping
  <2> QED  BY <1>2, <2>1, ClosedOk
<1>4. act.start \in Nat /\ head.start \in Ends(code) /\ head.start >= Base
  BY <1>1, <1>2, <1>3, SMTT(40) DEF SoundCode, Ends
<1>5. head.infos = Head(cycles).infos /\ head \in CycleHead
  <2>1. head.start \in Nat
    BY <1>1, <1>4 DEF SoundCode, Ends
  <2> QED  BY <1>3, <2>1 DEF ContinueAt, CycleHead
<1>6. /\ T \subseteq P /\ act.off \in P
      /\ \A p \in P : p \in T \/ p = act.off \/ \E info \in head.infos : info.off = p
      /\ \A info \in head.infos : info.off \in P
  BY <1>1, <1>3, <1>5, PendingLoopClosed
<1>7. Q \subseteq P /\ P \ {act.off} \subseteq Q /\ T \subseteq Q
      /\ (\A info \in head.infos : info.off \in Q)
      /\ \A p \in Q : p \in T \/ \E info \in head.infos : info.off = p
  BY <1>6
<1>8. /\ Marked(H, act.off + INT_SIZE, Here) /\ Marked(H, act.start, Here)
      /\ \A info \in head.infos : Marked(H, info.off + INT_SIZE, Here)
      /\ Marked(H, head.start, Here)
  <2>1. /\ RecordHeights(H, act, l, Here) /\ CycleHeights(H, Head(cycles), act.kind, Here)
    BY <1>1, NestedPopped
  <2>2. Marked(H, code.size, Here)
    BY <1>1 DEF Arrives, Marked
  <2> QED  BY <1>5, <2>1, <2>2 DEF RecordHeights, CycleHeights
<1>9. Grows(code, c) /\ SoundCode(c) /\ Appends(code, c)
  BY CarriedIsSound DEF Carries, Appends
<1>10. PICK F1 : Keeps(H, F1) /\ Arrives(c, F1, P, Here)
  BY <1>1 DEF Carries, Raises
<1>11. \A p \in P : p \in Nat /\ p - 1 \in DOMAIN c.ins /\ c.ins[p - 1].op \in Jumps
  BY <1>9, PendingWritten
<1>12. Built(c, Base, P) /\ Ends(code) \subseteq Ends(c)
  BY <1>2, <1>9, AppendingBuilds, EndsGrow
<1>13. code' = d /\ Pending(ctl', cycles') = T
  OBVIOUS
<1> HIDE DEF act, P, T, Q, l
<1>14. \E F : Keeps(F1, F) /\ Arrives(c1, F, P, Here)
  <2>1. Marked(F1, act.start, Here)
    BY <1>8, <1>10 DEF Marked, Keeps
  <2> QED  BY <1>1, <1>4, <1>9, <1>10, <2>1, JumpBackArrives
<1>15. Built(c1, Base, P) /\ Grows(c, c1) /\ Ends(c) \subseteq Ends(c1)
  BY <1>3, <1>4, <1>12, JumpBackWritten, EndsGrow
<1> HIDE DEF c1
<1>16. PICK F : Keeps(F1, F) /\ Arrives(c1, F, P, Here)
  BY <1>14
<1>17. Keeps(H, F)
  BY <1>10, <1>16 DEF Keeps
<1>18. \A p \in P : p \in Nat /\ p - 1 \in DOMAIN c1.ins /\ c1.ins[p - 1].op \in Jumps
  BY <1>11, <1>15 DEF Grows
<1>19. SoundCode(c1)
  BY <1>15 DEF Built, CodeOk
<1>20. Arrives(c2, F, Q, Here)
  <2>1. Marked(F, act.off + INT_SIZE, Here)
    BY <1>8, <1>17 DEF Marked, Keeps
  <2> QED  BY <1>6, <1>7, <1>16, <1>18, <1>19, <2>1, PatchArrives
<1>21. /\ DOMAIN c2.ins = DOMAIN c1.ins
       /\ \A o \in DOMAIN c1.ins : c2.ins[o].op = c1.ins[o].op
  BY <1>6, <1>18, <1>19, PatchedIs
<1>22. Built(c2, Base, Q) /\ Ends(c2) = Ends(c1)
  BY <1>6, <1>7, <1>15, PatchedToHere
<1> HIDE DEF c2
<1>23. Arrives(c3, F, T, Here)
  <2>1. /\ Marked(F, head.start, Here)
        /\ \A info \in head.infos : Marked(F, info.off + INT_SIZE, Here)
    BY <1>8, <1>17 DEF Marked, Keeps
  <2>2. \A info \in head.infos : info.off - 1 \in DOMAIN c2.ins /\ c2.ins[info.off - 1].op \in Jumps
    BY <1>6, <1>18, <1>21
  <2>3. SoundCode(c2)
    BY <1>22 DEF Built, CodeOk
  <2> QED  BY <1>5, <1>7, <1>20, <2>1, <2>2, <2>3, CycleArrives
<1>24. SoundCode(c3)
  <2>1. head.start \in Ends(c2)
    BY <1>4, <1>12, <1>15, <1>22
  <2>2. Built(c3, Base, T)
    BY <1>4, <1>5, <1>7, <1>22, <2>1, PatchedCycle
  <2> QED  BY <2>2 DEF Built, CodeOk
<1> HIDE DEF c3
<1>25. Carries(c3, Here, d, l)
  BY <1>24, PoppedLevels DEF l
<1> HIDE DEF d
<1>26. PICK G : Keeps(F, G) /\ Arrives(d, G, T, l)
  BY <1>23, <1>25 DEF Carries, Raises
<1>27. Keeps(H, G)
  BY <1>17, <1>26 DEF Keeps
<1>28. Arrives(code', G, Pending(ctl', cycles'),
               At(Heights(lex.blocks)[Len(ctl) - 1], Len(scope.args)))
  BY <1>13, <1>26 DEF l
<1>29. /\ Head(ctl).kind # "function"
       /\ cycles' = IF Head(ctl).kind \in Looping THEN Tail(cycles) ELSE cycles
  BY DEF Looping
<1> QED  BY <1>27, <1>28, <1>29, CloseLevels

(* The end of a while                                                      *)
LEMMA CloseWhileLevels ==
  ASSUME Ready, ScopeInv, LexInv, NEW H, Known(H), CloseWhile
  PROVE  LexInv' /\ \E G : Known(G)'
<1> DEFINE head == Head(cycles)
<1>1. /\ ctl # <<>> /\ Head(ctl).kind = "while" /\ Head(ctl).kind \in Looping /\ UNCHANGED fns
      /\ code' = PopLocals(PatchCycle(PatchToHere(WriteJumpBack(code, Head(ctl).start),
                                                  Head(ctl).off), head), PoppedBy(scope))
      /\ ctl' = Tail(ctl) /\ cycles' = Tail(cycles) /\ scope' = EndScope(scope)
      /\ lex' = CloseLexBlock /\ expect' = Starting(expect)
  BY DEF CloseWhile, Leave, Looping, EndCycle
<1>2. head = ContinueAt(head, head.start)
  <2>1. ParserOk(ctl, cycles, code, Base) /\ Head(ctl).kind # "function"
    BY <1>1, InBodyFacts
  <2>2. head \in CycleHead
    BY <1>1, <2>1, ClosedOk
  <2> HIDE DEF head
  <2> QED  BY <2>2 DEF ContinueAt, CycleHead
<1>3. Carries(code, Here, code, Here)
  BY <1>1, BodyFacts, CarriesNothing
<1>4. Shaped(expect') /\ expect'.heights = Noted(expect.heights, code.size, Height)
  BY <1>1, StartingLevels
<1>5. head.start = Head(cycles).start
  OBVIOUS
<1>6. head = ContinueAt(Head(cycles), head.start)
  BY <1>2
<1> HIDE DEF head
<1> QED  BY <1>1, <1>3, <1>4, <1>5, <1>6, CloseLoopLevels

(* The end of a for                                                        *)
LEMMA CloseForLevels ==
  ASSUME Ready, ScopeInv, LexInv, NEW H, Known(H), CloseFor
  PROVE  LexInv' /\ \E G : Known(G)'
<1> DEFINE act == Head(ctl)
           head == ContinueAt(Head(cycles), code.size)
           c == IF act.post = NoPost THEN code
                ELSE WriteOp(WriteIncrVar(code, scope, act.post), "POP")
<1>1. /\ ctl # <<>> /\ Head(ctl).kind \in Looping /\ Head(ctl).kind # "function" /\ UNCHANGED fns
      /\ code' = PopLocals(PatchCycle(PatchToHere(WriteJumpBack(c, Head(ctl).start),
                                                  Head(ctl).off), head), PoppedBy(scope))
      /\ ctl' = Tail(ctl) /\ cycles' = Tail(cycles) /\ scope' = EndScope(scope)
      /\ lex' = CloseLexBlock
      /\ expect' = Starting(expect) \/ expect' = ExpectRead(Starting(expect), code.size, act.post)
  BY DEF CloseFor, Leave, Looping, EndCycle
<1>2. ParserOk(ctl, cycles, code, Base) /\ SoundCode(code)
  BY <1>1, InBodyFacts
<1>3. Head(cycles) \in CycleHead /\ act \in Record
  BY <1>1, <1>2, ClosedOk
<1>4. head.start = code.size /\ head = ContinueAt(Head(cycles), head.start)
  BY <1>3 DEF ContinueAt, CycleHead
<1>5. Carries(code, Here, c, Here)
  <2>1. CASE act.post = NoPost
    BY <1>2, <2>1, CarriesNothing
  <2>2. CASE act.post # NoPost
    <3> DEFINE e == WriteIncrVar(code, scope, act.post)
    <3>1. act.post \in VarIds
      BY <1>3, <2>2 DEF Record
    <3>2. Height \in Nat /\ Len(scope.args) \in Nat /\ Len(scope.locals) \in 0..Height
      <4>1. Height = Len(scope.locals) /\ Height \in Nat /\ Len(scope.args) \in Nat
        BY <1>1, BodyFacts
      <4> QED  BY <4>1
    <3>3. Carries(code, Here, e, Upper) /\ SoundCode(e)
      BY <1>2, <3>1, <3>2, StepCarries, CarriedIsSound DEF Here, Upper
    <3>4. c = WriteOp(e, "POP")
      BY <2>2
    <3> HIDE DEF e, c
    <3>5. Carries(e, Upper, c, Here)
      BY <3>2, <3>3, <3>4, PopCarries DEF Here, Upper
    <3> QED  BY <1>2, <3>3, <3>5, CarriesBehind
  <2> QED  BY <2>1, <2>2
<1>6. Shaped(expect') /\ expect'.heights = Noted(expect.heights, code.size, Height)
  BY <1>1, StartingLevels
<1> HIDE DEF act, head, c
<1> QED  BY <1>1, <1>4, <1>5, <1>6, CloseLoopLevels

(* break; and continue; where no local has to be popped: the loop starts   *)
(* over, and is left, at the height the jump has.                          *)
LEMMA JumpLevels ==
  ASSUME Tame, Ready, ScopeInv, LexInv, NEW H, Known(H),
         NEW kind \in {"break", "continue"}, Jump(kind), ~CompileError
  PROVE  LexInv' /\ \E G : Known(G)'
<1> DEFINE info == [type |-> kind, off |-> OperandOffset(code)]
           d == CHOOSE d \in 1..Len(ctl) : IsInnermost(ctl, d)
           n == Len(ctl)
           b == Heights(lex.blocks)
           a == Len(scope.args)
           P == Pending(ctl, cycles)
           N == Pending(ctl, InfoAdded(cycles, info))
<1>1. /\ ctl # <<>> /\ cycles # <<>> /\ LocalsInsideLoop = 0
      /\ code' = WriteConstant(code, "JUMP", PLACEHOLDER) /\ cycles' = AddInfo(kind)
      /\ expect' = Starting(expect) /\ UNCHANGED <<fns, scope, ctl, lex>>
  BY DEF Jump, InBody, In, Tame
<1>2. /\ SoundCode(code) /\ n \in Nat /\ ctl \in Seq(Record) /\ cycles \in Seq(CycleHead)
      /\ Height = b[n] /\ a \in Nat /\ Arrives(code, H, P, Here) /\ Here \in Level
      /\ Nested(H, ctl, cycles, b, a) /\ Stacked(scope.locals, lex.blocks, n) /\ Here = At(Height, a)
  BY <1>1, BodyFacts DEF Here
<1>3. info \in [type : {"break", "continue"}, off : Nat] /\ info.off = OperandOffset(code)
  BY <1>2 DEF OperandOffset, SoundCode
<1>4. cycles' = InfoAdded(cycles, info)
  BY <1>1 DEF AddInfo, InfoAdded
<1> HIDE DEF info
<1>5. P \subseteq N /\ OperandOffset(code) \in N
  BY <1>1, <1>2, <1>3, PendingNoted
<1>6. d \in 1..n
  <2>1. PICK v : Loops(ctl, cycles, v) /\ LoopHeights(H, ctl, cycles, b, a, v)
    BY <1>2 DEF Nested
  <2>2. PICK x : x = d
    OBVIOUS
  <2>3. x \in 1..Len(ctl)
    BY <1>1, <1>2, <2>1, <2>2, InnermostFound
  <2> QED  BY <2>2, <2>3
<1>7. b[n + 1 - d] = Height
  <2>1. LocalsInsideLoop = Len(FlattenSeq(SubSeq(lex.blocks, Len(lex.blocks) - d + 2, Len(lex.blocks))))
    BY DEF LocalsInsideLoop, IsInnermost, Looping
  <2>2. Len(lex.blocks) = n
    BY <1>2 DEF Stacked
  <2>3. PICK k : k = n + 1 - d
    OBVIOUS
  <2> HIDE DEF d
  <2>4. k \in 0..n /\ n - d + 2 = k + 1
    BY <1>2, <1>6, <2>3
  <2>5. Len(FlattenSeq(SubSeq(lex.blocks, k + 1, n))) = b[n] - b[k]
    BY <1>2, <2>4, StackedFacts
  <2>6. b[n] \in Nat /\ b[k] \in Nat
    <3>1. b \in [0..n -> Nat]
      BY <1>2, StackedFacts
    <3>2. n \in 0..n
      BY <1>2
    <3> HIDE DEF b, n
    <3> QED  BY <2>4, <3>1, <3>2
  <2>7. b[n] - b[k] = 0
    BY <1>1, <2>1, <2>2, <2>4, <2>5
  <2> HIDE DEF b, n
  <2> QED  BY <1>2, <2>3, <2>6, <2>7
<1>8. PICK x : x = d
  OBVIOUS
<1>9. x = CHOOSE y \in 1..Len(ctl) : IsInnermost(ctl, y)
  BY <1>8
<1>10. At(b[Len(ctl) + 1 - x], a) = Here
  BY <1>2, <1>7, <1>8
<1> HIDE DEF n, b, a, P, N, d
<1>11. PICK c : c = code'
  OBVIOUS
<1>12. /\ \E G : Keeps(H, G) /\ Arrives(c, G, N, Here)
       /\ c.size = OperandOffset(code) + INT_SIZE
  <2>1. c = WriteConstant(code, "JUMP", PLACEHOLDER)
    BY <1>1, <1>11
  <2> QED  BY ONLY <1>2, <1>5, <2>1, JumpArrives
<1>13. PICK G : Keeps(H, G) /\ Arrives(c, G, N, Here)
  BY <1>12
<1>14. Marked(G, info.off + INT_SIZE, At(b[Len(ctl) + 1 - x], a))
  BY <1>3, <1>10, <1>12, <1>13 DEF Arrives, Marked
<1>15. Nested(G, ctl, InfoAdded(cycles, info), b, a)
  <2>1. Nested(G, ctl, cycles, b, a)
    BY <1>2, <1>13, NestedKeeps
  <2> QED  BY <1>1, <1>2, <1>3, <1>9, <1>14, <2>1, NestedNoted
<1>16. Met(expect'.heights, G)
  <2>1. Met(expect.heights, G)
    BY <1>13, MetKeeps DEF Known
  <2>2. Marked(G, code.size, Here) /\ Here.h = Height
    BY <1>2, <1>13, Levels DEF Arrives, Marked, Keeps
  <2>3. expect'.heights = Noted(expect.heights, code.size, Height)
    BY <1>1, StartingLevels
  <2> QED  BY <2>1, <2>2, <2>3, MetNoted
<1>17. LexInv'
  <2>1. Shaped(expect')
    BY <1>1, StartingLevels
  <2> QED  BY <1>1, <2>1 DEF LexInv
<1>18. Known(G)'
  <2>1. Height = Height'
    BY <1>1 DEF Height
  <2>2. Arrives(code', G, Pending(ctl', cycles'), At(Height, a))
    BY <1>1, <1>2, <1>4, <1>11, <1>13 DEF N
  <2>3. Nested(G, ctl', cycles', Heights(lex'.blocks), a)
    BY <1>1, <1>4, <1>15 DEF b
  <2>4. ctl' # <<>> /\ a = Len(scope'.args) /\ UNCHANGED fns
    BY <1>1 DEF a
  <2> QED  BY <1>13, <1>16, <2>1, <2>2, <2>3, <2>4, BodyLevels
<1> QED  BY <1>17, <1>18

(* The block of one branch makes way for that of the other.                *)
LEMMA LayersReopened ==
  ASSUME Ready, ScopeInv, LexInv, ctl # <<>>, Head(ctl).kind # "function", NEW r \in Record,
         ctl' = <<r>> \o Tail(ctl), scope' = BeginScope(EndScope(scope)),
         lex' = [lex EXCEPT !.blocks = Append(Front(@), <<>>)], Shaped(expect')
  PROVE  /\ LexInv' /\ Height' = Heights(lex.blocks)[Len(ctl) - 1] /\ scope'.args = scope.args
         /\ ctl' # <<>> /\ Heights(lex'.blocks)[Len(ctl)] = Heights(lex.blocks)[Len(ctl) - 1]
         /\ \A p \in 0..(Len(ctl) - 1) : Heights(lex'.blocks)[p] = Heights(lex.blocks)[p]
<1> DEFINE n == Len(ctl)
           b == Heights(lex.blocks)
           k == Kept(scope, n - 1)
           ls == SubSeq(scope.locals, 1, k)
           u == Append(Front(lex.blocks), <<>>)
           e == Heights(u)
<1>1. /\ ctl \in Seq(Record) /\ n \in Nat /\ n # 0 /\ scope.depth = n /\ scope.locals \in Seq(Locals)
      /\ Stacked(scope.locals, lex.blocks, n)
  BY InBodyFacts DEF ScopeInv, LexInv
<1>2. Tail(ctl) \in Seq(Record) /\ Len(Tail(ctl)) = n - 1 /\ n - 1 # 0 /\ n - 1 \in Nat
  <2>1. ParserOk(ctl, cycles, code, Base)
    BY InBodyFacts
  <2>2. Tail(ctl) # <<>> /\ Tail(ctl) \in Seq(Record) /\ Len(Tail(ctl)) = n - 1
    BY <1>1, <2>1, ClosedOk, Popping
  <2> QED  BY <1>1, <2>2
<1>3. ctl' # <<>> /\ Len(ctl') = n
  <2>1. Len(<<r>> \o Tail(ctl)) = Len(Tail(ctl)) + 1
    BY <1>2, Pushing
  <2> QED  BY <1>1, <1>2, <2>1
<1>4. ls \in Seq(Locals)
  <2>1. k \in 0..Len(scope.locals)
    BY <1>2, KeptExists, <1>1
  <2> HIDE DEF k
  <2> QED  BY <1>1, <2>1
<1>5. /\ Stacked(ls, u, n) /\ e[n] = b[n - 1] /\ \A p \in 0..(n - 1) : e[p] = b[p]
  <2>1. PICK m : m = n - 1
    OBVIOUS
  <2>2. m \in Nat /\ m + 1 = n /\ Stacked(ls, Front(lex.blocks), m) /\ Heights(Front(lex.blocks)) = Lower(b, n)
    <3>1. PICK j : j = n
      OBVIOUS
    <3>2. j \in Nat /\ j # 0 /\ scope.locals \in Seq(Locals) /\ Stacked(scope.locals, lex.blocks, j)
      BY <1>1, <3>1
    <3>3. /\ Stacked(SubSeq(scope.locals, 1, Kept(scope, j - 1)), Front(lex.blocks), j - 1)
          /\ Heights(Front(lex.blocks)) = Lower(Heights(lex.blocks), j)
      BY <3>2, StackedClosed
    <3> QED  BY <1>1, <1>2, <2>1, <3>1, <3>3
  <2> HIDE DEF ls
  <2>3. Stacked(ls, u, m + 1) /\ e = OnTop(Heights(Front(lex.blocks)), m)
    BY <1>4, <2>2, StackedOpened
  <2> HIDE DEF e, u, b
  <2>4. (\A p \in 0..m : e[p] = Heights(Front(lex.blocks))[p]) /\ e[m + 1] = Heights(Front(lex.blocks))[m]
    BY <2>2, <2>3, OnTopOf
  <2>5. \A p \in 0..m : Lower(b, n)[p] = b[p]
    BY <2>1 DEF Lower
  <2>6. m \in 0..m
    BY <2>2
  <2> HIDE DEF n
  <2>7. e[n] = b[m] /\ \A p \in 0..m : e[p] = b[p]
    BY <2>2, <2>4, <2>5, <2>6
  <2> QED  BY <2>1, <2>2, <2>3, <2>7
<1>6. scope'.locals = ls /\ scope'.args = scope.args
  <2>1. scope.depth - 1 = n - 1
    BY <1>1
  <2>2. EndScope(scope) = [locals |-> SubSeq(scope.locals, 1, Kept(scope, scope.depth - 1)),
                           args |-> IF scope.depth - 1 = 0 THEN <<>> ELSE scope.args,
                           depth |-> scope.depth - 1]
    BY DEF EndScope
  <2> HIDE DEF n
  <2>3. EndScope(scope) = [locals |-> SubSeq(scope.locals, 1, k), args |-> scope.args, depth |-> n - 1]
    BY <1>2, <2>1, <2>2
  <2> HIDE DEF ls
  <2>4. EndScope(scope) = [locals |-> ls, args |-> scope.args, depth |-> n - 1]
    BY <2>3 DEF ls
  <2>5. scope' = [locals |-> ls, args |-> scope.args, depth |-> n - 1 + 1]
    BY <2>4 DEF BeginScope
  <2> QED  BY <2>5
<1>7. lex'.blocks = u /\ lex' = [globals |-> lex'.globals, params |-> lex'.params, blocks |-> lex'.blocks]
  <2>1. lex' = [globals |-> lex.globals, params |-> lex.params, blocks |-> u]
    BY DEF LexInv
  <2> HIDE DEF u
  <2>2. lex'.globals = lex.globals /\ lex'.params = lex.params /\ lex'.blocks = u
    BY ONLY <2>1
  <2> QED  BY ONLY <2>1, <2>2
<1> HIDE DEF u, k, ls
<1>8. Height' = b[n - 1]
  <2>1. Height' = Len(FlattenSeq(u))
    BY <1>7 DEF Height
  <2>2. Len(FlattenSeq(u)) = e[n]
    BY <1>5, StackedFacts
  <2> QED  BY <1>5, <2>1, <2>2
<1>9. LexInv'
  BY <1>3, <1>5, <1>6, <1>7 DEF LexInv
<1> QED  BY <1>3, <1>5, <1>6, <1>7, <1>8, <1>9

(* } else {  Both branches start and end at the height around them.        *)
LEMMA ElseLevels ==
  ASSUME Ready, ScopeInv, LexInv, NEW H, Known(H), CloseIfOpenElse
  PROVE  LexInv' /\ \E G : Known(G)'
<1> DEFINE n == Len(ctl)
           b == Heights(lex.blocks)
           e == Heights(lex'.blocks)
           a == Len(scope.args)
           off == Head(ctl).off
           c == PopLocals(code, PoppedBy(scope))
           c2 == WriteConstant(c, "JUMP", PLACEHOLDER)
           r == Activation("else", 0, c2.size - INT_SIZE, NoPost)
           ct == Tail(ctl)
           P == Pending(ctl, cycles)
           T == Pending(ct, cycles)
           N == Pending(<<r>> \o ct, cycles)
           l == At(b[n - 1], a)
<1>1. /\ ctl # <<>> /\ Head(ctl).kind = "if" /\ Head(ctl).kind # "function"
      /\ Head(ctl).kind \in Branching /\ Head(ctl).kind \notin Looping
      /\ code' = PatchToHere(c2, off) /\ UNCHANGED <<fns, cycles>> /\ ctl' = <<r>> \o ct
      /\ scope' = BeginScope(EndScope(scope))
      /\ lex' = [lex EXCEPT !.blocks = Append(Front(@), <<>>)]
      /\ expect' = Starting(expect)
  BY DEF CloseIfOpenElse, Leave, Branching, Looping
<1>2. /\ SoundCode(code) /\ n \in Nat /\ ctl \in Seq(Record) /\ cycles \in Seq(CycleHead)
      /\ Arrives(code, H, P, Here) /\ Nested(H, ctl, cycles, b, a) /\ Here = At(Height, a)
  BY <1>1, BodyFacts DEF Here
<1>3. Carries(code, Here, c, l) /\ l \in Level
  BY <1>1, <1>2, PoppedLevels
<1>4. Grows(code, c) /\ SoundCode(c)
  BY <1>3, CarriedIsSound DEF Carries, Appends
<1>5. ct \in Seq(Record)
  BY <1>1, <1>2, Popping
<1>6. T \subseteq P /\ off \in P /\ P \ {off} \subseteq T
  BY <1>1, <1>2, PendingClosed
<1>7. RecordHeights(H, Head(ctl), l, At(b[n], a)) /\ Nested(H, ct, cycles, b, a)
  BY <1>1, <1>2, NestedPopped
<1>8. Marked(H, off + INT_SIZE, l)
  BY <1>1, <1>7 DEF RecordHeights
<1>9. /\ LexInv' /\ Height' = b[n - 1] /\ scope'.args = scope.args
      /\ ctl' # <<>> /\ e[n] = b[n - 1] /\ \A p \in 0..(n - 1) : e[p] = b[p]
  <2>1. Shaped(expect')
    BY <1>1, StartingLevels
  <2>2. c2.size - INT_SIZE \in Nat
    <3> HIDE DEF c
    <3>1. c.size \in Nat /\ c2.size = c.size + (1 + INT_SIZE)
      BY <1>4 DEF SoundCode, WriteConstant, AddInstruction
    <3> HIDE DEF c2
    <3> QED  BY <3>1 DEF INT_SIZE
  <2> HIDE DEF c2
  <2>3. r \in Record
    BY <2>2 DEF Activation, Record, Branching
  <2> HIDE DEF r
  <2> QED  BY <1>1, <2>1, <2>3, LayersReopened
<1>10. Len(ct) = n - 1
  BY <1>1, <1>2, Popping
<1> HIDE DEF c
<1>11. c2.size - INT_SIZE = OperandOffset(c) /\ c2.size - INT_SIZE \in Nat
  <2>1. c.size \in Nat /\ c2.size = c.size + (1 + INT_SIZE)
    BY <1>4 DEF SoundCode, WriteConstant, AddInstruction
  <2> HIDE DEF c2
  <2> QED  BY <2>1 DEF INT_SIZE, OperandOffset
<1>12. r \in Record /\ r.off = OperandOffset(c) /\ r.kind = "else"
  BY <1>11 DEF Activation, Record, Branching
<1>13. c2 = WriteConstant(c, "JUMP", PLACEHOLDER)
  OBVIOUS
<1> HIDE DEF c2, r, ct, off, n, b, e, a, P, T, N, l
<1>14. T \subseteq N /\ N \subseteq T \union {r.off} /\ r.off \in N
  BY <1>2, <1>5, <1>12, PendingOpened DEF Branching, T, N
<1> DEFINE Q == P \union {r.off}
<1>15. P \subseteq Q /\ OperandOffset(c) \in Q /\ Q \ {off} \subseteq N
  BY <1>6, <1>12, <1>14
<1> HIDE DEF Q
<1>16. PICK F : Keeps(H, F) /\ Arrives(c, F, P, l)
  BY <1>2, <1>3 DEF Carries, Raises
<1>17. /\ \E G : Keeps(F, G) /\ Arrives(c2, G, Q, l)
       /\ c2.size = OperandOffset(c) + INT_SIZE
  BY ONLY <1>3, <1>4, <1>13, <1>15, <1>16, JumpArrives
<1>18. PICK G : Keeps(F, G) /\ Arrives(c2, G, Q, l)
  BY <1>17
<1>19. Keeps(H, G)
  BY <1>16, <1>18 DEF Keeps
<1>20. Grows(c, c2)
  <2>1. Checked([op |-> "JUMP", arg |-> PLACEHOLDER])
    BY DEF Checked, PLACEHOLDER, INT_SIZE
  <2>2. c2 = AddInstruction(c, "JUMP", PLACEHOLDER, Bytes("JUMP"))
    BY <1>13 DEF WriteConstant, Bytes, OneByte
  <2> QED  BY <1>4, <2>1, <2>2, InstructionAdded
<1>21. off \in Nat /\ off - 1 \in DOMAIN c2.ins /\ c2.ins[off - 1].op \in Jumps /\ SoundCode(c2)
  <2>1. off \in Pending(ctl, cycles)
    BY <1>6 DEF P
  <2>2. off \in Nat /\ off - 1 \in DOMAIN c.ins /\ c.ins[off - 1].op \in Jumps
    BY <1>1, <1>4, <2>1, PendingWritten
  <2> QED  BY <1>20, <2>2 DEF Grows
<1>22. Arrives(code', G, N, l)
  <2>1. Marked(G, off + INT_SIZE, l)
    BY <1>8, <1>19 DEF Marked, Keeps
  <2>2. Arrives(PatchToHere(c2, off), G, N, l)
    BY <1>15, <1>18, <1>21, <2>1, PatchArrives
  <2> QED  BY <1>1, <2>2
<1>23. Nested(G, <<r>> \o ct, cycles, e, a)
  <2>1. Nested(G, ct, cycles, b, a)
    BY <1>7, <1>19, NestedKeeps
  <2>2. Len(ct) \in Nat /\ Len(ct) + 1 = n
    BY <1>2, <1>5, <1>10
  <2>3. Nested(G, ct, cycles, e, a)
    <3>1. \A p \in 0..Len(ct) : e[p] = b[p]
      BY <1>9, <1>10
    <3> QED  BY <2>1, <2>2, <3>1, NestedAlike
  <2>4. Marked(G, r.off + INT_SIZE, l)
    BY <1>12, <1>17, <1>18 DEF Arrives, Marked
  <2>5. e[Len(ct)] = b[n - 1] /\ e[Len(ct) + 1] = b[n - 1]
    <3>1. Len(ct) \in 0..(n - 1)
      BY <1>10, <2>2
    <3> QED  BY <1>9, <1>10, <2>2, <3>1
  <2>6. RecordHeights(G, r, At(e[Len(ct)], a), At(e[Len(ct) + 1], a))
    BY <1>12, <2>4, <2>5 DEF RecordHeights, Looping, l
  <2>7. r.kind \notin Looping /\ cycles = cycles
    BY <1>12 DEF Looping
  <2> QED  BY <1>2, <1>5, <1>12, <2>3, <2>6, <2>7, NestedPushed
<1>24. Met(expect'.heights, G)
  <2>1. Met(expect.heights, G)
    BY <1>19, MetKeeps DEF Known
  <2>2. Marked(G, code.size, Here) /\ Here.h = Height
    BY <1>2, <1>19, Levels DEF Arrives, Marked, Keeps
  <2>3. expect'.heights = Noted(expect.heights, code.size, Height)
    BY <1>1, StartingLevels
  <2> QED  BY <2>1, <2>2, <2>3, MetNoted
<1>25. Known(G)'
  <2>1. Arrives(code', G, Pending(ctl', cycles'), l)
    BY <1>1, <1>22 DEF N
  <2>2. Nested(G, ctl', cycles', Heights(lex'.blocks), a)
    BY <1>1, <1>23 DEF e
  <2>3. l = At(Height', Len(scope'.args)) /\ a = Len(scope'.args)
    BY <1>9 DEF l, a
  <2> QED  BY <1>1, <1>9, <1>19, <1>24, <2>1, <2>2, <2>3, BodyLevels
<1> QED  BY <1>9, <1>25

-----------------------------------------------------------------------------
(* Between the functions *)

(* Function objects more do not matter to the code.                        *)
LEMMA SteadyStays ==
  ASSUME SoundCode(code), NEW H, NEW pending, Steady(code, H, pending), UNCHANGED code,
         \A j \in DOMAIN fns : fns'[j].argc = fns[j].argc
  PROVE  Steady(code, H, pending)'
<1>1. ASSUME NEW o \in DOMAIN H \cap DOMAIN code.ins
      PROVE  Fits(code.ins[o], H[o])'
  <2>1. Fits(code.ins[o], H[o]) /\ Checked(code.ins[o])
    BY DEF Steady, SoundCode
  <2>2. code.ins[o].op = "CALL" => fns'[code.ins[o].arg].argc = fns[code.ins[o].arg].argc
    BY <2>1 DEF Checked
  <2> QED  BY <2>1, <2>2 DEF Fits
<1>2. \A o \in DOMAIN H \cap DOMAIN code.ins :
        /\ code.ins[o].op # "RETURN" => Leads(code, H, o)'
        /\ code.ins[o].op \in Jumps /\ o + 1 \notin pending => Lands(code, H, o)'
  <2>1. \A o \in DOMAIN H \cap DOMAIN code.ins :
          /\ code.ins[o].op # "RETURN" => Leads(code, H, o)
          /\ code.ins[o].op \in Jumps /\ o + 1 \notin pending => Lands(code, H, o)
    BY DEF Steady
  <2> QED  BY <2>1 DEF Leads, Lands, Behind, Landing
<1>3. DOMAIN H \subseteq Ends(code)' /\ \A o \in DOMAIN H : H[o] \in Level
  BY DEF Steady, Ends
<1> QED  BY <1>1, <1>2, <1>3 DEF Steady

(* Nothing of it moves.                                                    *)
LEMMA KnownStays ==
  ASSUME NEW H, Known(H), UNCHANGED <<code, fns, scope, cycles, ctl, lex, expect>>
  PROVE  Known(H)'
<1>1. /\ Steady(code, H, Pending(ctl, cycles)) /\ Entered(H) /\ Met(expect.heights, H)
      /\ ctl = <<>> => DOMAIN H \subseteq DOMAIN code.ins
      /\ ctl # <<>> => /\ Marked(H, code.size, At(Height, Len(scope.args)))
                       /\ Nested(H, ctl, cycles, Heights(lex.blocks), Len(scope.args))
  BY DEF Known
<1>2. Steady(code, H, Pending(ctl, cycles))'
  <2>1. Steady(code', H, Pending(ctl', cycles'))
    BY <1>1
  <2> QED  BY <2>1 DEF Steady, Fits
<1>3. Entered(H)' /\ Met(expect.heights, H)'
  BY <1>1 DEF Entered, Marked, Met
<1>4. ctl' # <<>> => /\ Marked(H, code.size, At(Height, Len(scope.args)))'
                     /\ Nested(H, ctl, cycles, Heights(lex.blocks), Len(scope.args))'
  <2>1. Height' = Height
    BY DEF Height
  <2>2. ctl' # <<>> => /\ Marked(H, code'.size, At(Height', Len(scope'.args)))
                       /\ Nested(H, ctl', cycles', Heights(lex'.blocks), Len(scope'.args))
    BY <1>1, <2>1
  <2> QED  BY <2>2 DEF Marked, Nested
<1>5. ctl' = <<>> => DOMAIN H \subseteq DOMAIN code'.ins
  BY <1>1
<1> QED  BY <1>2, <1>3, <1>4, <1>5 DEF Known

(* The levels of unchanged code stay.                                      *)
LEMMA LevelsStay ==
  ASSUME LevelsInv, UNCHANGED <<code, fns, scope, cycles, ctl, lex, expect>>
  PROVE  LevelsInv'
<1>1. PICK H : Known(H)
  BY DEF LevelsInv
<1>2. LexInv'
  BY DEF LevelsInv, LexInv
<1>3. Known(H)'
  BY <1>1, KnownStays
<1> QED  BY <1>2, <1>3 DEF LevelsInv

(* var id = literal; at global scope                                       *)
LEMMA GlobalLevels ==
  ASSUME Ready, LexInv, NEW H, Known(H), ctl = <<>>, NEW e,
         lex' = [lex EXCEPT !.globals = Append(@, e)],
         UNCHANGED <<code, fns, scope, cycles, ctl, expect>>
  PROVE  LexInv' /\ \E G : Known(G)'
<1>1. lex' = [globals |-> lex'.globals, params |-> lex'.params, blocks |-> lex'.blocks]
  <2> DEFINE g == Append(lex.globals, e)
  <2>1. lex = [globals |-> lex.globals, params |-> lex.params, blocks |-> lex.blocks]
    BY DEF LexInv
  <2>2. lex' = [lex EXCEPT !.globals = g]
    OBVIOUS
  <2> HIDE DEF g
  <2>3. lex' = [globals |-> g, params |-> lex.params, blocks |-> lex.blocks]
    BY ONLY <2>1, <2>2
  <2>4. lex'.globals = g /\ lex'.params = lex.params /\ lex'.blocks = lex.blocks
    BY ONLY <2>3
  <2> QED  BY ONLY <2>3, <2>4
<1>2. LexInv'
  BY <1>1 DEF LexInv
<1>3. /\ Steady(code, H, Pending(ctl, cycles)) /\ Entered(H) /\ Met(expect.heights, H)
      /\ DOMAIN H \subseteq DOMAIN code.ins
  BY DEF Known
<1>4. Steady(code, H, Pending(ctl, cycles))'
  <2>1. Steady(code', H, Pending(ctl', cycles'))
    BY <1>3
  <2> QED  BY <2>1 DEF Steady, Fits
<1>5. Entered(H)' /\ Met(expect.heights, H)'
  BY <1>3 DEF Entered, Marked, Met
<1>6. Known(H)'
  BY <1>3, <1>4, <1>5 DEF Known
<1> QED  BY <1>2, <1>6

(* func f(...);                                                            *)
LEMMA DeclareLevels ==
  ASSUME Ready, LexInv, NEW H, Known(H), ctl = <<>>, NEW f, NEW argc,
         fns' = Append(fns, NewFunction(f, argc, NoEntry)),
         UNCHANGED <<code, cycles, ctl, lex, expect>>
  PROVE  LexInv' /\ \E G : Known(G)'
<1> DEFINE g == NewFunction(f, argc, NoEntry)
<1>1. fns \in Seq(FunctionObject) /\ SoundCode(code) /\ Pending(ctl, cycles) = {}
  BY TopLevelFacts DEF Ready, CompilerInv, FunctionsOk
<1>2. g.entry = NoEntry
  BY DEF NewFunction
<1>3. fns' = Append(fns, g)
  OBVIOUS
<1> HIDE DEF g
<1>4. /\ \A j \in DOMAIN fns : fns'[j] = fns[j]
      /\ \A j \in DOMAIN fns' : j \in DOMAIN fns \/ fns'[j] = g
  BY <1>1, <1>3
<1>5. /\ Steady(code, H, {}) /\ Entered(H) /\ Met(expect.heights, H)
      /\ DOMAIN H \subseteq DOMAIN code.ins
  BY <1>1 DEF Known
<1>6. Steady(code, H, {})'
  BY <1>1, <1>4, <1>5, SteadyStays
<1>7. Steady(code, H, Pending(ctl, cycles))'
  <2>1. Pending(ctl', cycles') = {}
    BY <1>1
  <2> QED  BY <1>6, <2>1 DEF Steady, Leads, Lands, Behind, Landing
<1>8. Entered(H)' /\ Met(expect.heights, H)'
  <2>1. ASSUME NEW i \in DOMAIN fns', fns'[i].entry # NoEntry
        PROVE  Marked(H, fns'[i].entry, At(0, fns'[i].argc))
    BY <1>2, <1>4, <1>5, <2>1 DEF Entered
  <2> QED  BY <1>5, <2>1 DEF Entered, Marked, Met
<1>9. LexInv'
  BY DEF LexInv
<1>10. Known(H)'
  BY <1>5, <1>7, <1>8 DEF Known
<1> QED  BY <1>9, <1>10

(* What a definition does to the function objects: one of them begins here *)
(* and takes argc arguments.                                               *)
LEMMA DefinedFunctions ==
  ASSUME Ready, ctl = <<>>, NEW f \in FuncIds, NEW argc \in Nat, Definable(f, argc),
         fns' = [Append(fns, NewFunction(f, argc, NoEntry))
                   EXCEPT ![DefinedObject(f)].entry = code.size]
  PROVE  /\ DefinedObject(f) \in Nat
         /\ \A j \in DOMAIN fns : fns'[j].argc = fns[j].argc
         /\ \A j \in DOMAIN fns' : \/ j \in DOMAIN fns /\ fns'[j] = fns[j]
                                   \/ fns'[j].entry = NoEntry
                                   \/ fns'[j].entry = code.size /\ fns'[j].argc = argc
<1> DEFINE g == NewFunction(f, argc, NoEntry)
           i == DefinedObject(f)
           hs == Append(fns, g)
<1>1. g \in FunctionObject /\ g.argc = argc /\ g.entry = NoEntry
  BY DEF NewFunction, FunctionObject
<1>2. fns \in Seq(FunctionObject) /\ code.size \in Nat /\ Symbols
  BY TopLevelFacts DEF Ready, CompilerInv, FunctionsOk
<1>3. i \in 1..(Len(fns) + 1) /\ (i \in DOMAIN fns => fns[i].argc = argc)
  <2>1. CASE IsFunction(symtable[f])
    <3>1. PICK j \in DOMAIN fns : symtable[f] = Function(j) /\ fns[j].name = f
      BY <1>2, <2>1 DEF Symbols
    <3>2. i = j
      BY <2>1, <3>1 DEF DefinedObject, Function, Value
    <3>3. symtable[f].v = j
      BY <3>1 DEF Function, Value
    <3>4. fns[j].argc = argc
      BY <2>1, <3>3 DEF Definable, IsFunction, IsNone
    <3> HIDE DEF i
    <3> QED  BY <1>2, <3>1, <3>2, <3>4
  <2>2. CASE ~IsFunction(symtable[f])
    <3>1. i = Len(fns) + 1
      BY <2>2 DEF DefinedObject
    <3> HIDE DEF i
    <3> QED  BY <1>2, <3>1
  <2> QED  BY <2>1, <2>2
<1>4. fns' = [hs EXCEPT ![i].entry = code.size]
  OBVIOUS
<1> HIDE DEF g, i
<1>5. /\ hs \in Seq(FunctionObject) /\ Len(hs) = Len(fns) + 1
      /\ \A j \in DOMAIN fns : hs[j] = fns[j]
      /\ hs[Len(fns) + 1] = g /\ DOMAIN hs = 1..(Len(fns) + 1)
  BY <1>1, <1>2
<1> HIDE DEF hs
<1>6. hs[i].argc = argc
  BY <1>1, <1>2, <1>3, <1>5
<1> DEFINE h == [hs[i] EXCEPT !.entry = code.size]
<1>7. h \in FunctionObject /\ h.argc = argc /\ h.entry = code.size
  <2>1. hs[i] \in FunctionObject
    BY <1>3, <1>5
  <2> QED  BY <1>2, <1>6, <2>1 DEF FunctionObject
<1>8. fns' = [hs EXCEPT ![i] = h]
  BY <1>4
<1> HIDE DEF h
<1>9. /\ DOMAIN fns' = 1..(Len(fns) + 1)
      /\ fns'[i] = h /\ \A j \in 1..(Len(fns) + 1) : j # i => fns'[j] = hs[j]
  BY <1>3, <1>5, <1>8
<1>10. ASSUME NEW j \in DOMAIN fns
       PROVE  fns'[j].argc = fns[j].argc
  <2>1. j \in 1..(Len(fns) + 1)
    BY <1>2
  <2>2. CASE j = i
    BY <1>3, <1>7, <1>9, <2>2
  <2>3. CASE j # i
    BY <1>5, <1>9, <2>1, <2>3
  <2> QED  BY <2>2, <2>3
<1>11. ASSUME NEW j \in DOMAIN fns'
       PROVE  \/ j \in DOMAIN fns /\ fns'[j] = fns[j]
              \/ fns'[j].entry = NoEntry
              \/ fns'[j].entry = code.size /\ fns'[j].argc = argc
  <2>1. CASE j = i
    BY <1>7, <1>9, <2>1
  <2>2. CASE j # i
    <3>1. j \in 1..(Len(fns) + 1) /\ fns'[j] = hs[j]
      BY <1>9, <2>2
    <3>2. j \in DOMAIN fns \/ j = Len(fns) + 1
      BY <1>2, <3>1
    <3> QED  BY <1>1, <1>5, <3>1, <3>2
  <2> QED  BY <2>1, <2>2
<1>12. i \in Nat
  BY <1>2, <1>3
<1> QED  BY <1>10, <1>11, <1>12 DEF i

(* A level for the end of the code                                         *)
LEMMA EntryAdded ==
  ASSUME SoundCode(code), NEW H, Steady(code, H, {}), DOMAIN H \subseteq DOMAIN code.ins,
         NEW m \in Level
  PROVE  \E G : Keeps(H, G) /\ Arrives(code, G, {}, m)
<1> DEFINE G == [o \in DOMAIN H \union {code.size} |-> IF o = code.size THEN m ELSE H[o]]
<1>1. code.size \notin DOMAIN code.ins
  BY DEF SoundCode
<1>2. DOMAIN G = DOMAIN H \union {code.size} /\ G[code.size] = m /\ \A o \in DOMAIN H : G[o] = H[o]
  BY <1>1
<1> HIDE DEF G
<1>3. \A o \in DOMAIN H \cap DOMAIN code.ins :
        /\ Fits(code.ins[o], H[o])
        /\ code.ins[o].op # "RETURN" => Leads(code, H, o)
        /\ code.ins[o].op \in Jumps /\ o + 1 \notin {} => Lands(code, H, o)
  BY DEF Steady
<1>4. DOMAIN G \subseteq Ends(code) /\ \A o \in DOMAIN G : G[o] \in Level
  BY <1>2 DEF Steady, Ends
<1>5. ASSUME NEW o \in DOMAIN G \cap DOMAIN code.ins
      PROVE  /\ Fits(code.ins[o], G[o])
             /\ code.ins[o].op # "RETURN" => Leads(code, G, o)
             /\ code.ins[o].op \in Jumps /\ o + 1 \notin {} => Lands(code, G, o)
  <2>1. o \in DOMAIN H \cap DOMAIN code.ins /\ G[o] = H[o]
    BY <1>1, <1>2
  <2>2. Leads(code, H, o) => Leads(code, G, o)
    BY <1>2, <2>1 DEF Leads
  <2>3. Leads(code, H, o) /\ Lands(code, H, o) => Lands(code, G, o)
    BY <1>2 DEF Leads, Lands
  <2>4. code.ins[o].op \in Jumps => code.ins[o].op # "RETURN"
    BY DEF Jumps
  <2> QED  BY <1>3, <2>1, <2>2, <2>3, <2>4
<1>6. Arrives(code, G, {}, m)
  BY <1>2, <1>4, <1>5 DEF Arrives, Steady
<1>7. Keeps(H, G)
  BY <1>2 DEF Keeps
<1> QED  BY <1>6, <1>7

(* A scope with other arguments                                            *)
LEMMA OtherArguments ==
  ASSUME NEW l, NEW a, NEW d, NEW x, NEW t, t = [locals |-> l, args |-> a, depth |-> d]
  PROVE  [t EXCEPT !.args = x] = [locals |-> l, args |-> x, depth |-> d]
OBVIOUS

(* func f(...) {                                                           *)
LEMMA DefineLevels ==
  ASSUME Ready, ScopeInv, LexInv, NEW H, Known(H),
         NEW f \in FuncIds, NEW argc \in Argcs, OpenFunction(f, argc), ~CompileError
  PROVE  LexInv' /\ \E G : Known(G)'
<1> DEFINE i == DefinedObject(f)
           r == Activation("function", i, 0, NoPost)
           ps == [k \in 1..argc |-> Declaration(ParamIds[k], ParamTag(i, k), MayHold(ParamTag(i, k)))]
           bl == << <<>> >>
           b == Heights(bl)
           m == At(0, argc)
<1>1. /\ ctl = <<>> /\ Definable(f, argc)
      /\ fns' = [Append(fns, NewFunction(f, argc, NoEntry)) EXCEPT ![i].entry = code.size]
      /\ ctl' = <<r>> \o ctl /\ scope' = FunctionScope(argc)
      /\ lex' = [lex EXCEPT !.params = ps, !.blocks = bl]
      /\ UNCHANGED <<code, cycles, expect>>
  BY DEF OpenFunction, Enter
<1>2. argc \in Nat /\ argc \in 0..Len(ParamIds)
  BY ArgcsAreNumbers DEF Argcs
<1>3. /\ i \in Nat /\ \A j \in DOMAIN fns : fns'[j].argc = fns[j].argc
      /\ \A j \in DOMAIN fns' : \/ j \in DOMAIN fns /\ fns'[j] = fns[j]
                                \/ fns'[j].entry = NoEntry
                                \/ fns'[j].entry = code.size /\ fns'[j].argc = argc
  BY <1>1, <1>2, DefinedFunctions, ZenonT(60)
<1> HIDE DEF i
<1>4. r \in Record /\ r.kind = "function"
  BY <1>3 DEF Activation, Record
<1>5. SoundCode(code) /\ cycles = <<>> /\ Pending(ctl, cycles) = {}
  BY <1>1, TopLevelFacts
<1>6. /\ Steady(code, H, {}) /\ Entered(H) /\ Met(expect.heights, H)
      /\ DOMAIN H \subseteq DOMAIN code.ins
  BY <1>1, <1>5 DEF Known
<1>7. m \in Level
  BY <1>2, Levels
<1> HIDE DEF r, m
<1>8. PICK G : Keeps(H, G) /\ Arrives(code, G, {}, m)
  BY <1>5, <1>6, <1>7, EntryAdded
<1>9. scope'.locals = <<>> /\ Len(scope'.args) = argc
  <2> DEFINE as == scope.args \o Params(argc)
  <2>1. BeginScope(scope) = [locals |-> scope.locals, args |-> scope.args, depth |-> scope.depth + 1]
    BY BeginScopeIs
  <2>2. scope.locals = <<>> /\ scope.args = <<>>
    BY <1>1 DEF ScopeInv
  <2>3. Len(as) = argc
    <3>1. ParamIds \in Seq(Range(ParamIds))
      BY ProgramAssumption
    <3>2. Params(argc) \in Seq(Range(ParamIds)) /\ Len(Params(argc)) = argc
      BY <1>2, <3>1 DEF Params
    <3>3. as = <<>> \o Params(argc) /\ <<>> \in Seq(Range(ParamIds)) /\ Len(<<>>) = 0
      BY <2>2
    <3> HIDE DEF as
    <3> QED  BY <1>2, <3>2, <3>3
  <2>4. FunctionScope(argc) = [BeginScope(scope) EXCEPT !.args = as]
    BY <2>1 DEF FunctionScope
  <2> HIDE DEF as
  <2>5. FunctionScope(argc) = [locals |-> scope.locals, args |-> as, depth |-> scope.depth + 1]
    <3> DEFINE l == scope.locals
               a == scope.args
               d == scope.depth + 1
               t == BeginScope(scope)
    <3>1. t = [locals |-> l, args |-> a, depth |-> d]
      BY <2>1
    <3>2. FunctionScope(argc) = [t EXCEPT !.args = as]
      BY <2>4
    <3> HIDE DEF l, a, d, t
    <3>3. FunctionScope(argc) = [locals |-> l, args |-> as, depth |-> d]
      BY ONLY <3>1, <3>2, OtherArguments
    <3> QED  BY ONLY <3>3 DEF l, d
  <2>6. FunctionScope(argc).locals = scope.locals /\ FunctionScope(argc).args = as
    BY <2>5
  <2> QED  BY <1>1, <2>2, <2>3, <2>6
<1>10. /\ lex' = [globals |-> lex'.globals, params |-> lex'.params, blocks |-> lex'.blocks]
       /\ lex'.blocks = bl
  <2>1. lex = [globals |-> lex.globals, params |-> lex.params, blocks |-> lex.blocks]
    BY DEF LexInv
  <2> HIDE DEF ps, bl
  <2>2. lex' = [globals |-> lex.globals, params |-> ps, blocks |-> bl]
    BY ONLY <1>1, <2>1
  <2>3. lex'.globals = lex.globals /\ lex'.params = ps /\ lex'.blocks = bl
    BY ONLY <2>2
  <2> QED  BY ONLY <2>2, <2>3
<1>11. Stacked(<<>>, bl, 1) /\ b = [d \in 0..1 |-> 0]
  BY StackedFirst
<1> HIDE DEF bl
<1>12. ctl' = <<r>> /\ Len(ctl') = 1 /\ ctl' # <<>>
  BY <1>1, <1>4
<1>13. LexInv'
  <2>1. Shaped(expect')
    BY <1>1 DEF LexInv
  <2>2. Stacked(scope'.locals, lex'.blocks, Len(ctl'))
    BY <1>9, <1>10, <1>11, <1>12
  <2> QED  BY <1>10, <2>1, <2>2 DEF LexInv
<1>14. Height' = 0
  <2>1. b[1] = Len(FlattenSeq(bl))
    BY <1>11, StackedFacts
  <2>2. b[1] = 0
    BY <1>11
  <2> QED  BY <1>10, <2>1, <2>2 DEF Height
<1>15. Nested(G, <<r>> \o <<>>, <<>>, b, argc)
  <2> DEFINE none == <<>>
  <2>1. none \in Seq(Record) /\ none \in Seq(CycleHead) /\ Len(none) = 0
    OBVIOUS
  <2>2. Nested(G, none, none, b, argc)
    <3>1. Loops(none, none, [q \in {} |-> 0]) /\ LoopHeights(G, none, none, b, argc, [q \in {} |-> 0])
      <4> HIDE DEF none
      <4>1. 1..Len(none) = {}
        BY <2>1
      <4> QED  BY <4>1 DEF Loops, LoopHeights
    <3>2. \A p \in 1..Len(none) : RecordHeights(G, Out(none, p), At(b[p - 1], argc), At(b[p], argc))
      BY <2>1
    <3> HIDE DEF none
    <3> QED  BY <3>1, <3>2 DEF Nested
  <2>3. RecordHeights(G, r, At(b[Len(none)], argc), At(b[Len(none) + 1], argc))
    BY <1>4 DEF RecordHeights, Looping
  <2>4. r.kind \notin Looping
    BY <1>4 DEF Looping
  <2> HIDE DEF none, b
  <2>5. Nested(G, <<r>> \o none, none, b, argc)
    BY <1>4, <2>1, <2>2, <2>3, <2>4, NestedPushed
  <2> QED  BY <2>5 DEF none
<1>16. Pending(ctl', cycles') = {}
  <2>1. cycles' = <<>> /\ r.kind \notin Branching
    BY <1>1, <1>4, <1>5 DEF Branching
  <2> QED  BY <1>12, <2>1 DEF Pending
<1>17. Steady(code, G, Pending(ctl, cycles))'
  <2>1. Steady(code, G, {})'
    BY <1>1, <1>3, <1>5, <1>8, SteadyStays DEF Arrives
  <2> QED  BY <1>16, <2>1 DEF Steady, Leads, Lands, Behind, Landing
<1>18. Entered(G)'
  <2>1. ASSUME NEW j \in DOMAIN fns', fns'[j].entry # NoEntry
        PROVE  Marked(G, fns'[j].entry, At(0, fns'[j].argc))
    <3>1. CASE j \in DOMAIN fns /\ fns'[j] = fns[j]
      BY <1>6, <1>8, <2>1, <3>1, MarkedKeeps DEF Entered
    <3>2. CASE fns'[j].entry = code.size /\ fns'[j].argc = argc
      BY <1>8, <3>2 DEF Arrives, Marked, m
    <3> QED  BY <1>3, <2>1, <3>1, <3>2
  <2> QED  BY <2>1 DEF Entered, Marked
<1>19. Met(expect.heights, G)'
  <2>1. Met(expect'.heights, G)
    BY <1>1, <1>6, <1>8, MetKeeps
  <2> QED  BY <2>1 DEF Met
<1>20. Marked(G, code.size, At(Height, Len(scope.args)))'
  <2>1. Marked(G, code'.size, At(Height', Len(scope'.args)))
    BY <1>1, <1>8, <1>9, <1>14 DEF Arrives, Marked, m
  <2> QED  BY <2>1 DEF Marked
<1>21. Nested(G, ctl, cycles, Heights(lex.blocks), Len(scope.args))'
  <2>1. ctl' = <<r>> \o <<>> /\ cycles' = <<>> /\ Heights(lex'.blocks) = b /\ Len(scope'.args) = argc
    BY <1>1, <1>5, <1>9, <1>10
  <2> HIDE DEF b
  <2>2. Nested(G, ctl', cycles', Heights(lex'.blocks), Len(scope'.args))
    BY <1>15, <2>1
  <2> QED  BY <2>2 DEF Nested
<1>22. Known(G)'
  BY <1>12, <1>17, <1>18, <1>19, <1>20, <1>21 DEF Known
<1> QED  BY <1>13, <1>22

(* Behind a return nothing need be known.                                  *)
LEMMA ReturnedSteady ==
  ASSUME NEW c, SoundCode(c), NEW H, NEW h \in Nat, NEW a, Arrives(c, H, {}, At(h + 1, a)),
         NEW d, Grows(WriteOp(c, "RETURN"), d)
  PROVE  Steady(d, H, {}) /\ DOMAIN H \subseteq DOMAIN d.ins
<1> DEFINE x == [op |-> "RETURN", arg |-> NoOperand]
           r == WriteOp(c, "RETURN")
<1>1. /\ Grows(c, r) /\ DOMAIN r.ins = DOMAIN c.ins \union {c.size} /\ r.ins[c.size] = x
  <2>1. r = AddInstruction(c, "RETURN", NoOperand, Bytes("RETURN"))
    BY DEF WriteOp, Bytes, OneByte
  <2>2. Checked(x)
    BY DEF Checked, Jumps
  <2> HIDE DEF r
  <2> QED  BY <2>1, <2>2, InstructionAdded
<1>2. /\ \A o \in DOMAIN c.ins : o \in DOMAIN d.ins /\ d.ins[o] = c.ins[o]
      /\ c.size \in DOMAIN d.ins /\ d.ins[c.size] = x
  <2> HIDE DEF r, x
  <2>1. Grows(r, d)
    BY DEF r
  <2> QED  BY <1>1, <2>1 DEF Grows
<1>3. x.op = "RETURN"
  OBVIOUS
<1> HIDE DEF x, r
<1>4. Steady(c, H, {}) /\ c.size \in DOMAIN H /\ H[c.size] = At(h + 1, a)
  BY DEF Arrives
<1>5. DOMAIN H \subseteq Ends(c) /\ \A o \in DOMAIN H : H[o] \in Level
  BY <1>4 DEF Steady
<1>6. DOMAIN H \subseteq DOMAIN d.ins
  BY <1>2, <1>5 DEF Ends
<1>7. ASSUME NEW o \in DOMAIN H \cap DOMAIN d.ins
      PROVE  /\ Fits(d.ins[o], H[o])
             /\ d.ins[o].op # "RETURN" => Leads(d, H, o)
             /\ d.ins[o].op \in Jumps /\ o + 1 \notin {} => Lands(d, H, o)
  <2>1. CASE o \in DOMAIN c.ins
    <3>1. d.ins[o] = c.ins[o] /\ Behind(d, o) = Behind(c, o) /\ Landing(d, o) = Landing(c, o)
      BY <1>2, <2>1 DEF Behind, Landing
    <3>2. /\ Fits(c.ins[o], H[o])
          /\ c.ins[o].op # "RETURN" => Leads(c, H, o)
          /\ c.ins[o].op \in Jumps /\ o + 1 \notin {} => Lands(c, H, o)
      BY <1>4, <2>1 DEF Steady
    <3> QED  BY <3>1, <3>2 DEF Leads, Lands
  <2>2. CASE o = c.size
    <3>1. d.ins[o].op = "RETURN" /\ H[o] = At(h + 1, a)
      BY <1>2, <1>3, <1>4, <2>2
    <3>2. At(h + 1, a).h = h + 1
      BY DEF At
    <3>3. Fits(d.ins[o], H[o])
      BY <3>1, <3>2 DEF Fits
    <3> QED  BY <3>1, <3>3 DEF Jumps
  <2> QED  BY <1>5, <2>1, <2>2 DEF Ends
<1>8. DOMAIN H \subseteq Ends(d)
  BY <1>6 DEF Ends
<1> QED  BY <1>5, <1>6, <1>7, <1>8 DEF Steady

(* }                                                                       *)
LEMMA CloseFunctionLevels ==
  ASSUME Ready, ScopeInv, LexInv, NEW H, Known(H), CloseFunction
  PROVE  LexInv' /\ \E G : Known(G)'
<1> DEFINE c1 == WriteOp(code, "NONE")
           c2 == WriteOp(c1, "RETURN")
           p == <<>>
<1>1. /\ ctl # <<>> /\ Head(ctl).kind = "function"
      /\ code' = PopLocals(c2, PoppedBy(scope))
      /\ ctl' = Tail(ctl) /\ lex' = [lex EXCEPT !.params = p, !.blocks = p]
      /\ expect' = Starting(expect)
      /\ UNCHANGED <<fns, cycles>>
  BY DEF CloseFunction, CloseBody, Leave
<1>2. /\ SoundCode(code) /\ Height \in Nat /\ Len(scope.args) \in Nat /\ Here \in Level
      /\ Arrives(code, H, Pending(ctl, cycles), Here)
  BY <1>1, BodyFacts DEF Here
<1>3. /\ ctl' = <<>> /\ cycles = <<>> /\ Pending(ctl, cycles) = {} /\ Pending(ctl', cycles') = {}
  <2>1. DOMAIN ctl = {1} /\ ctl[1].kind = "function" /\ Tail(ctl) = <<>> /\ cycles = <<>>
    BY <1>1, FunctionAlone
  <2>2. Pending(ctl, cycles) = {}
    BY <2>1 DEF Pending, Branching
  <2>3. Pending(<<>>, <<>>) = {}
    BY DEF Pending
  <2> QED  BY <1>1, <2>1, <2>2, <2>3
<1>4. Carries(code, Here, c1, Upper)
  BY <1>2, NoneCarries DEF Here, Upper
<1>5. SoundCode(c1)
  BY <1>4, CarriedIsSound
<1> HIDE DEF c1, p
<1>6. PICK G : Keeps(H, G) /\ Arrives(c1, G, {}, Upper)
  BY <1>2, <1>3, <1>4 DEF Carries, Raises
<1>7. Grows(c2, code')
  <2>1. Appends(c1, c2)
    BY <1>5, WriteOpAppends DEF OneByte
  <2> HIDE DEF c2
  <2>2. SoundCode(c2)
    BY <2>1 DEF Appends, Grows
  <2>3. Appends(c2, code')
    BY <1>1, <2>2, PopLocalsAppends, PoppedIsNat
  <2> QED  BY <2>3 DEF Appends
<1>8. Steady(code', G, {}) /\ DOMAIN G \subseteq DOMAIN code'.ins
  BY <1>2, <1>5, <1>6, <1>7, ReturnedSteady DEF Upper
<1>9. lex' = [globals |-> lex'.globals, params |-> lex'.params, blocks |-> lex'.blocks]
  <2>1. lex = [globals |-> lex.globals, params |-> lex.params, blocks |-> lex.blocks]
    BY DEF LexInv
  <2>2. lex' = [globals |-> lex.globals, params |-> p, blocks |-> p]
    BY ONLY <1>1, <2>1
  <2>3. lex'.globals = lex.globals /\ lex'.params = p /\ lex'.blocks = p
    BY ONLY <2>2
  <2> QED  BY ONLY <2>2, <2>3
<1>10. Shaped(expect') /\ expect'.heights = Noted(expect.heights, code.size, Height)
  BY <1>1, StartingLevels
<1>11. LexInv'
  <2>1. Shaped(expect)'
    BY <1>10 DEF Shaped
  <2> QED  BY <1>3, <1>9, <2>1 DEF LexInv
<1>12. Marked(G, code.size, Here)
  BY <1>2, <1>6 DEF Arrives, Keeps, Marked
<1>13. Met(expect'.heights, G)
  <2>1. Met(expect.heights, G)
    BY <1>6, MetKeeps DEF Known
  <2>2. Here.h = Height
    BY DEF Here, At
  <2> QED  BY <1>10, <1>12, <2>1, <2>2, MetNoted
<1>14. Entered(G)'
  BY <1>1, <1>6 DEF Known, Entered, Keeps, Marked
<1>15. Steady(code, G, Pending(ctl, cycles))'
  <2>1. Steady(code', G, Pending(ctl', cycles'))
    BY <1>3, <1>8
  <2> QED  BY <1>1, <2>1 DEF Steady, Fits
<1>16. Known(G)'
  BY <1>3, <1>8, <1>13, <1>14, <1>15 DEF Known, Met
<1> QED  BY <1>11, <1>16

(* var id = ...; in a body                                                 *)
LEMMA LocalVarStatement ==
  ASSUME Tame, Ready, ScopeInv, LexInv, NEW H, Known(H),
         NEW id \in VarIds, NEW init \in VarInits, LocalVar(id, init), ~CompileError
  PROVE  LexInv' /\ \E G : Known(G)'
<1> DEFINE s == DeclareVariable(scope, id)
           e == Declaration(id, VariableTag, MayHold(VariableTag) \union InitYields(init))
<1>1. /\ ctl # <<>> /\ InitCompiles(s, init) /\ code' = InitCode(code, s, init)
      /\ scope' = DefineLocal(s) /\ lex' = AddLexVariable(e)
      /\ expect' = Starting(expect) \/ expect' = ExpectRead(Starting(expect), code.size, init.id)
      /\ UNCHANGED <<fns, cycles, ctl>>
  BY DEF LocalVar, InBody
<1>2. Head(ctl).kind \notin Looping
  <2>1. Head(ctl).kind \notin {"while", "for"} \/ In("var_in_loop")
    BY DEF LocalVar
  <2>2. ~In("var_in_loop")
    BY DEF Tame, In
  <2> QED  BY <2>1, <2>2 DEF Looping
<1> HIDE DEF e
<1>3. /\ SoundCode(code) /\ Symbols /\ FunctionsOk /\ Height \in Nat /\ Len(scope.args) \in Nat
      /\ ctl \in Seq(Record) /\ Len(ctl) # 0 /\ Len(ctl) \in Nat
  BY <1>1, BodyFacts
<1>4. s = DeclareLocal(scope, id)
  <2>1. scope.depth # 0
    BY <1>3 DEF ScopeInv
  <2> QED  BY <2>1 DEF DeclareVariable, IsGlobalScope
<1> HIDE DEF s
<1>5. Carries(code, Here, code', Upper)
  <2>1. Carries(code, At(Height, Len(scope.args)), InitCode(code, s, init),
                At(Height + 1, Len(scope.args)))
    BY <1>1, <1>3, InitCarries
  <2> QED  BY <1>1, <2>1 DEF Here, Upper
<1>6. Shaped(expect') /\ expect'.heights = Noted(expect.heights, code.size, Height)
  BY <1>1, StartingLevels
<1>7. scope' = DefineLocal(DeclareLocal(scope, id))
  BY <1>1, <1>4
<1> QED  BY <1>1, <1>2, <1>5, <1>6, <1>7, LocalVarLevels

-----------------------------------------------------------------------------
(* Reading *)

(* Every construct the parser reads keeps the levels, in a tame program.   *)
LEMMA ParseKeepsLevels ==
  ASSUME Tame, Ready, ScopeInv, LevelsInv, Parse PROVE LevelsInv'
<1>0. PICK H : Known(H)
  BY DEF LevelsInv
<1>a. LexInv
  BY DEF LevelsInv
<1>b. ASSUME LexInv' /\ \E G : Known(G)' PROVE LevelsInv'
  BY <1>b DEF LevelsInv
<1>c. CompileError => LevelsInv'
  BY LevelsStay DEF CompileError
<1>1. ASSUME NEW id \in VarIds, GlobalVar(id) PROVE LevelsInv'
  <2>1. CASE ~CompileError
    <3>1. /\ ctl = <<>> /\ UNCHANGED <<code, fns, scope, cycles, ctl, expect>>
          /\ \E e : lex' = [lex EXCEPT !.globals = Append(@, e)]
      BY <1>1, <2>1 DEF GlobalVar
    <3> QED  BY <1>0, <1>a, <1>b, <3>1, GlobalLevels
  <2> QED  BY <1>c, <2>1
<1>2. ASSUME NEW f \in FuncIds, NEW n \in Argcs, DeclareFunction(f, n) PROVE LevelsInv'
  <2>1. CASE ~CompileError
    <3>1. /\ ctl = <<>> /\ UNCHANGED <<code, cycles, ctl, lex, expect>>
          /\ fns' = Append(fns, NewFunction(f, n, NoEntry))
      BY <1>2, <2>1 DEF DeclareFunction
    <3> QED  BY <1>0, <1>a, <1>b, <3>1, DeclareLevels
  <2> QED  BY <1>c, <2>1
<1>3. ASSUME NEW f \in FuncIds, NEW n \in Argcs, OpenFunction(f, n) PROVE LevelsInv'
  <2>1. CASE ~CompileError
    BY <1>0, <1>3, <1>a, <1>b, <2>1, DefineLevels
  <2> QED  BY <1>c, <2>1
<1>4. CASE CloseFunction
  BY <1>0, <1>4, <1>a, <1>b, CloseFunctionLevels
<1>5. CASE OpenBlock
  BY <1>0, <1>5, <1>a, <1>b, OpenBlockLevels
<1>6. CASE CloseBlock
  BY <1>0, <1>6, <1>a, <1>b, CloseBlockLevels
<1>7. CASE OpenIf \/ OpenWhile
  BY <1>0, <1>7, <1>a, <1>b, OpenIfLevels
<1>8. CASE CloseIf \/ CloseElse
  BY <1>0, <1>8, <1>a, <1>b, CloseBranchLevels
<1>9. CASE CloseIfOpenElse
  BY <1>0, <1>9, <1>a, <1>b, ElseLevels
<1>10. CASE CloseWhile
  BY <1>0, <1>10, <1>a, <1>b, CloseWhileLevels
<1>11. CASE CloseFor
  BY <1>0, <1>11, <1>a, <1>b, CloseForLevels
<1>12. ASSUME NEW init \in ForInits, NEW endless \in BOOLEAN, NEW post \in Posts,
              OpenFor(init, endless, post)
       PROVE  LevelsInv'
  <2>1. CASE ~CompileError
    BY <1>0, <1>12, <1>a, <1>b, <2>1, OpenForLevels
  <2> QED  BY <1>c, <2>1
<1>13. ASSUME NEW kind \in {"break", "continue"}, Jump(kind) PROVE LevelsInv'
  <2>1. CASE ~CompileError
    BY <1>0, <1>13, <1>a, <1>b, <2>1, JumpLevels
  <2> QED  BY <1>c, <2>1
<1>14. ASSUME NEW id \in VarIds, NEW init \in VarInits, LocalVar(id, init) PROVE LevelsInv'
  <2>1. CASE ~CompileError
    BY <1>0, <1>14, <1>a, <1>b, <2>1, LocalVarStatement
  <2> QED  BY <1>c, <2>1
<1>15. ASSUME NEW id \in VarIds, Output(id) \/ Assign(id) \/ Increment(id) PROVE LevelsInv'
  BY <1>0, <1>15, <1>a, <1>b, ExpressionStatements
<1>16. ASSUME NEW f \in FuncIds, NEW n \in Argcs, Call(f, n) PROVE LevelsInv'
  <2>1. CASE ~CompileError
    BY <1>0, <1>16, <1>a, <1>b, <2>1, ExpressionStatements
  <2> QED  BY <1>c, <2>1
<1>17. ASSUME NEW id \in VarIds, NEW f \in FuncIds, AssignCall(id, f) PROVE LevelsInv'
  BY <1>0, <1>17, <1>a, <1>b, ExpressionStatements
<1>18. ASSUME NEW withValue \in BOOLEAN, Return(withValue) PROVE LevelsInv'
  BY <1>0, <1>18, <1>a, <1>b, ReturnLevels
<1>19. CASE EndOfInput
  BY <1>19, <1>c, LevelsStay DEF EndOfInput
<1> QED  BY <1>1, <1>2, <1>3, <1>4, <1>5, <1>6, <1>7, <1>8, <1>9, <1>10, <1>11, <1>12, <1>13,
            <1>14, <1>15, <1>16, <1>17, <1>18, <1>19 DEF Parse, Break, Continue
=============================================================================
