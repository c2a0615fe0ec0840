--------------------------- MODULE ScannerProofs ---------------------------
(***************************************************************************)
(* Theorems about the scanner, for every set of characters, every text and *)
(* every list of keywords.                                                 *)
(*                                                                         *)
(* The input: the buffer of characters put back never overflows, and       *)
(* line_counter is the line of the next character (InputInv).              *)
(*                                                                         *)
(* The keywords: the trie finds a word exactly when it was added.  The     *)
(* loops over words are folds, and a fold is shown to add the last element *)
(* at the end first (FoldAppends); then a word of the trie is the way from *)
(* the root to its node (IsTrie).                                          *)
(*                                                                         *)
(* The tokens: each is the piece of the text between the last one and the  *)
(* next character, and its data follow from that piece (ScanInv, with what *)
(* every loop of the scanner knows of what it has read in LexInv).         *)
(***************************************************************************)
EXTENDS Scanner, FiniteSetTheorems, SequenceTheorems, WellFoundedInduction, TLAPS

(* What the buffer can hold: the character read last, or the end. *)
BufferIsLast ==
  /\ text \in Seq(Chars)
  /\ \/ buf = <<>>
     \/ buf = <<EOF>>
     \/ text # <<>> /\ buf = <<text[Len(text)]>>

(* What the input is between two steps                                     *)
InputInv == BufferIsLast /\ LinesAreCounted /\ PutBackFits

(* The newlines among the first k characters of a text *)
NewlinesUpTo(t, k) == {i \in 1..k : t[i] = NL}

(* 1 for a newline                                                         *)
One(c) == IF c = NL THEN 1 ELSE 0

(* Newlines can be counted.                                                *)
LEMMA NewlinesFinite ==
  ASSUME NEW t, NEW k \in Nat
  PROVE  /\ IsFiniteSet(NewlinesUpTo(t, k))
         /\ Cardinality(NewlinesUpTo(t, k)) \in Nat
<1>1. IsFiniteSet(1..k)
  BY FS_Interval
<1>2. IsFiniteSet(NewlinesUpTo(t, k))
  BY <1>1, FS_Subset DEF NewlinesUpTo
<1> QED
  BY <1>2, FS_CardinalityType

(* One more character adds one if it is a newline. *)
LEMMA NewlinesStep ==
  ASSUME NEW t, NEW k \in Nat
  PROVE  Cardinality(NewlinesUpTo(t, k + 1)) = Cardinality(NewlinesUpTo(t, k)) + One(t[k + 1])
<1>1. CASE t[k + 1] = NL
  <2>1. NewlinesUpTo(t, k + 1) = NewlinesUpTo(t, k) \union {k + 1}
    BY <1>1 DEF NewlinesUpTo
  <2>2. k + 1 \notin NewlinesUpTo(t, k)
    BY DEF NewlinesUpTo
  <2> QED
    BY <1>1, <2>1, <2>2, NewlinesFinite, FS_AddElement DEF One
<1>2. CASE t[k + 1] # NL
  <2>1. NewlinesUpTo(t, k + 1) = NewlinesUpTo(t, k)
    BY <1>2 DEF NewlinesUpTo
  <2> QED
    BY <1>2, <2>1, NewlinesFinite DEF One
<1> QED
  BY <1>1, <1>2

(* What is appended to a text changes nothing before it. *)
LEMMA NewlinesOfAppend ==
  ASSUME NEW t \in Seq(Chars), NEW c \in Chars
  PROVE  /\ NewlinesUpTo(Append(t, c), Len(t)) = NewlinesUpTo(t, Len(t))
         /\ Append(t, c)[Len(t) + 1] = c
         /\ Append(t, c) \in Seq(Chars)
         /\ Append(t, c) # <<>>
         /\ Len(Append(t, c)) = Len(t) + 1
  BY DEF NewlinesUpTo

(* Nothing has been read at first.                                         *)
LEMMA Initially ==
  ASSUME Init PROVE InputInv
<1>1. BufferIsLast /\ PutBackFits
  BY DEF Init, BufferIsLast, PutBackFits
<1>2. Position = 0
  BY DEF Init, Position
<1>3. {i \in 1..0 : text[i] = NL} = {}
  OBVIOUS
<1>4. LinesAreCounted
  BY <1>2, <1>3, FS_EmptySet DEF Init, LinesAreCounted
<1> QED
  BY <1>1, <1>4 DEF InputInv

(* The cases of a character read: from an empty buffer, the end or a new   *)
(* one; from the buffer, the end or the one read before.                   *)
LEMMA ReadingCases ==
  ASSUME InputInv, CharsAssumption, NEW c, Reads(c)
  PROVE  /\ Rest = <<>>
         /\ \/ c = EOF /\ text' = text /\ Position = Len(text)
            \/ /\ c \in Chars /\ text' = Append(text, c)
               /\ Position = Len(text)
            \/ /\ c \in Chars /\ text' = text /\ text # <<>>
               /\ c = text[Len(text)] /\ Position = Len(text) - 1
<1> USE DEF InputInv, BufferIsLast, Reads, Available, Rest, Position
<1>1. CASE buf = <<>>
  BY <1>1
<1>2. CASE buf = <<EOF>>
  BY <1>2
<1>3. CASE text # <<>> /\ buf = <<text[Len(text)]>>
  <2>1. text[Len(text)] \in Chars /\ text[Len(text)] # EOF
    BY <1>3, CharsAssumption
  <2> QED
    BY <1>3, <2>1
<1> QED
  BY <1>1, <1>2, <1>3

(* What a read leaves, before it is decided whether c is put back. *)
LEMMA Reading ==
  ASSUME InputInv, CharsAssumption, NEW c, Reads(c)
  PROVE  /\ Rest = <<>>
         /\ text' \in Seq(Chars)
         /\ line \in Int
         /\ line + One(c) = 1 + Cardinality(NewlinesUpTo(text', Len(text')))
         /\ c # EOF => /\ text' # <<>>
                       /\ c = text'[Len(text')]
                       /\ line = 1 + Cardinality(NewlinesUpTo(text', Len(text') - 1))
<1>a. text \in Seq(Chars) /\ Len(text) \in Nat
  BY DEF InputInv, BufferIsLast
<1>b. EOF # NL
  BY DEF EOF, NL
<1>c. line = 1 + Cardinality(NewlinesUpTo(text, Position))
  BY DEF InputInv, LinesAreCounted, NewlinesUpTo
<1>1. /\ text \in Seq(Chars) /\ Len(text) \in Nat
      /\ EOF # NL /\ EOF \notin Chars
      /\ line = 1 + Cardinality(NewlinesUpTo(text, Position))
  BY <1>a, <1>b, <1>c, CharsAssumption
<1>2. Rest = <<>>
  BY ReadingCases
<1>3. CASE c = EOF /\ text' = text /\ Position = Len(text)
  BY <1>1, <1>2, <1>3, NewlinesFinite DEF One
<1>4. CASE c \in Chars /\ text' = Append(text, c) /\ Position = Len(text)
  <2>1. /\ text' \in Seq(Chars) /\ text' # <<>>
        /\ Len(text') = Len(text) + 1 /\ text'[Len(text')] = c
        /\ NewlinesUpTo(text', Len(text)) = NewlinesUpTo(text, Len(text))
    BY <1>1, <1>4, NewlinesOfAppend
  <2>2. Cardinality(NewlinesUpTo(text', Len(text) + 1))
          = Cardinality(NewlinesUpTo(text', Len(text))) + One(text'[Len(text) + 1])
    BY <1>1, NewlinesStep
  <2>3. Cardinality(NewlinesUpTo(text, Len(text))) \in Nat
    BY <1>1, NewlinesFinite
  <2>4. line = 1 + Cardinality(NewlinesUpTo(text', Len(text') - 1))
    BY <1>1, <1>4, <2>1
  <2>5. line + One(c) = 1 + Cardinality(NewlinesUpTo(text', Len(text')))
    BY <1>1, <1>4, <2>1, <2>2, <2>3 DEF One
  <2> QED
    BY <1>1, <1>2, <1>4, <2>1, <2>3, <2>4, <2>5
<1>5. CASE /\ c \in Chars /\ text' = text /\ text # <<>>
           /\ c = text[Len(text)] /\ Position = Len(text) - 1
  <2>1. Len(text) - 1 \in Nat /\ (Len(text) - 1) + 1 = Len(text)
    BY <1>1, <1>5
  <2>2. Cardinality(NewlinesUpTo(text, (Len(text) - 1) + 1))
          = Cardinality(NewlinesUpTo(text, Len(text) - 1)) + One(text[(Len(text) - 1) + 1])
    BY <2>1, NewlinesStep
  <2>3. Cardinality(NewlinesUpTo(text, Len(text) - 1)) \in Nat
    BY <2>1, NewlinesFinite
  <2> QED
    BY <1>1, <1>2, <1>5, <2>1, <2>2, <2>3 DEF One
<1> QED
  BY <1>3, <1>4, <1>5, ReadingCases

(* A character that stays read *)
LEMMA Getting ==
  ASSUME InputInv, CharsAssumption, NEW c, Gets(c), at' # "fatal"
  PROVE  InputInv'
<1>1. Reads(c) /\ buf' = <<>> /\ line' = line + One(c)
  BY Reading DEF Gets, LineBehind, One
<1>2. Position' = Len(text')
  BY <1>1 DEF Position
<1>3. line + One(c) = 1 + Cardinality(NewlinesUpTo(text', Len(text')))
  BY <1>1, Reading
<1>4. LinesAreCounted'
  BY <1>1, <1>2, <1>3 DEF LinesAreCounted, NewlinesUpTo
<1>5. BufferIsLast' /\ PutBackFits'
  BY <1>1, Reading DEF BufferIsLast, PutBackFits
<1> QED
  BY <1>4, <1>5 DEF InputInv

(* A character that is put back: there is room for it. *)
LEMMA Looking ==
  ASSUME InputInv, CharsAssumption, ScannerAssumption,
         NEW c, NEW where, where # "fatal", LooksAt(c, where)
  PROVE  InputInv'
<1>1. Reads(c) /\ Rest = <<>> /\ buf' = <<c>> /\ line' = line
  <2>1. Reads(c) /\ Rest = <<>> /\ line \in Int
    BY Reading DEF LooksAt
  <2> QED
    BY <2>1 DEF LooksAt, LineBehind, LineBefore
<1>2. at' # "fatal"
  BY <1>1 DEF LooksAt, ScannerAssumption
<1>3. CASE c = EOF
  <2>1. Position' = Len(text') /\ One(c) = 0
    BY <1>1, <1>3 DEF Position, One, EOF, NL
  <2>2. line \in Int /\ line + One(c) = 1 + Cardinality(NewlinesUpTo(text', Len(text')))
    BY <1>1, Reading
  <2>3. LinesAreCounted'
    BY <1>1, <2>1, <2>2 DEF LinesAreCounted, NewlinesUpTo
  <2> QED
    BY <1>1, <1>2, <1>3, <2>3, Reading DEF InputInv, BufferIsLast, PutBackFits
<1>4. CASE c # EOF
  <2>1. Position' = Len(text') - 1
    BY <1>1, <1>4 DEF Position
  <2>2. line = 1 + Cardinality(NewlinesUpTo(text', Len(text') - 1))
    BY <1>1, <1>4, Reading
  <2>3. LinesAreCounted'
    BY <1>1, <2>1, <2>2 DEF LinesAreCounted, NewlinesUpTo
  <2> QED
    BY <1>1, <1>2, <1>4, <2>3, Reading DEF InputInv, BufferIsLast, PutBackFits
<1> QED
  BY <1>3, <1>4

(* A step that reads nothing *)
LEMMA Resting ==
  ASSUME InputInv, UNCHANGED inputVars, at' # "fatal"
  PROVE  InputInv'
  BY DEF InputInv, BufferIsLast, LinesAreCounted, PutBackFits, Position, inputVars

(* Every step of the scanner keeps the input and the counter together.     *)
LEMMA Stepping ==
  ASSUME InputInv, CharsAssumption, ScannerAssumption, [Next]_scannerVars
  PROVE  InputInv'
<1> USE CharsAssumption, ScannerAssumption
<1>0. at # "fatal"
  BY DEF InputInv, PutBackFits
<1>1. CASE NextToken \/ PutBackToken
  BY <1>0, <1>1, Resting DEF NextToken, PutBackToken
<1>2. CASE Skip
  <2>1. PICK c \in CharOrEOF : Gets(c) /\ at' \in {"idle", Branch(c)}
    BY <1>2 DEF Skip
  <2>2. at' # "fatal"
    BY <2>1 DEF Branch
  <2> QED
    BY <2>1, <2>2, Getting
<1>3. CASE ReadSecond
  BY <1>3, Getting, Looking DEF ReadSecond, Returns
<1>4. CASE ReadSlash
  BY <1>4, Getting, Looking DEF ReadSlash, GoOn
<1>5. CASE SkipLine \/ SkipBlock \/ SkipBlockStar
  BY <1>0, <1>5, Getting DEF SkipLine, SkipBlock, SkipBlockStar, GoOn
<1>6. CASE ReadBang
  BY <1>6, Getting DEF ReadBang, Returns, GoOn
<1>7. CASE ReadString
  BY <1>0, <1>7, Getting, Looking DEF ReadString, GoOn, Keep
<1>8. CASE ReadEscape
  BY <1>8, Getting DEF ReadEscape, GoOn
<1>9. CASE CloseString
  BY <1>9, Getting DEF CloseString, Returns, GoOn
<1>10. CASE ReadInt
  BY <1>0, <1>10, Getting, Looking DEF ReadInt, Keep
<1>11. CASE ReadWord
  BY <1>0, <1>11, Getting, Looking DEF ReadWord, Keep
<1>12. CASE Exited \/ UNCHANGED scannerVars
  BY <1>0, <1>12, Resting DEF Exited, scannerVars
<1> QED
  BY <1>1, <1>2, <1>3, <1>4, <1>5, <1>6, <1>7, <1>8, <1>9, <1>10, <1>11, <1>12
     DEF Next, Read

(* Input and counter agree in every reachable state.                       *)
LEMMA InputInvariant == Spec => []InputInv
<1>1. Init => InputInv
  BY Initially
<1>2. InputInv /\ [Next]_scannerVars => InputInv'
  BY Stepping, CharsAssumption, ScannerAssumption
<1> QED
  BY <1>1, <1>2, PTL DEF Spec

(* No text makes scanner.c end the process with "input buffer size limit   *)
(* exceeded": one character of room is enough.                             *)
THEOREM PutBackAlwaysFits == Spec => []PutBackFits
<1>1. InputInv => PutBackFits
  BY DEF InputInv
<1> QED
  BY <1>1, InputInvariant, PTL

(* The line printed with an error is the line of the text, whatever was    *)
(* put back and whatever the newlines stand in.                            *)
THEOREM LinesAreAlwaysCounted == Spec => []LinesAreCounted
<1>1. InputInv => LinesAreCounted
  BY DEF InputInv
<1> QED
  BY <1>1, InputInvariant, PTL

(* A set of naturals has a least one, unless it is empty.                  *)
LEMMA LeastOne ==
  ASSUME NEW S, S \subseteq Nat, S # {}
  PROVE  \E m \in S : \A k \in S : m <= k
<1>1. PICK m \in S : \A k \in S : ~(<<k, m>> \in OpToRel(<, Nat))
  BY NatLessThanWellFounded, WFMin
<1>2. ASSUME NEW k \in S PROVE m <= k
  <2>1. k \in Nat /\ m \in Nat
    OBVIOUS
  <2>2. <<k, m>> \in OpToRel(<, Nat) <=> <<k, m>> \in Nat \X Nat /\ k < m
    BY DEF OpToRel
  <2>3. ~(k < m)
    BY <1>1, <2>1, <2>2, Zenon
  <2> QED BY <2>1, <2>3
<1> QED BY <1>2

(* Counting up to n reaches every number up to n.                          *)
LEMMA CountingUp ==
  ASSUME NEW n \in Nat, NEW P, 0 \in P, \A k \in 1..n : k - 1 \in P => k \in P
  PROVE  \A k \in 0..n : k \in P
<1> DEFINE bad == {k \in 0..n : k \notin P}
<1>1. bad = {}
  <2> SUFFICES ASSUME bad # {} PROVE FALSE
    OBVIOUS
  <2>1. bad \subseteq Nat
    OBVIOUS
  <2>2. PICK m \in bad : \A k \in bad : m <= k
    <3> HIDE DEF bad
    <3> QED  BY <2>1, LeastOne
  <2>3. m \in 0..n /\ m \notin P /\ m # 0
    OBVIOUS
  <2>4. m \in 1..n /\ m - 1 \in 0..n /\ ~(m <= m - 1)
    BY <2>3
  <2>5. m - 1 \in P
    BY <2>2, <2>4
  <2> QED  BY <2>3, <2>4, <2>5
<1> QED  BY <1>1

(* The values h of a loop over 1..n that begins with base                  *)
IsLoop(F, base, n, h) ==
  h[0] = base /\ \A k \in 1..n : h[k] = F[<<h[k - 1], k>>]

(* Every loop has values.                                                  *)
LEMMA LoopExists ==
  ASSUME NEW S, NEW base \in S, NEW n \in Nat, NEW F \in [S \X (1..n) -> S]
  PROVE  \E h \in [0..n -> S] : IsLoop(F, base, n, h)
<1> DEFINE P == {m \in 0..n : \E h \in [0..m -> S] : IsLoop(F, base, m, h)}
<1>1. 0 \in P
  <2>1. [k \in 0..0 |-> base] \in [0..0 -> S] /\ IsLoop(F, base, 0, [k \in 0..0 |-> base])
    BY DEF IsLoop
  <2> QED  BY <2>1
<1>2. ASSUME NEW m \in 1..n, m - 1 \in P PROVE m \in P
  <2>1. PICK f \in [0..(m - 1) -> S] : IsLoop(F, base, m - 1, f)
    BY <1>2
  <2> DEFINE v == F[<<f[m - 1], m>>]
             h == [k \in 0..m |-> IF k = m THEN v ELSE f[k]]
  <2>2. m - 1 \in 0..(m - 1) /\ \A k \in 0..m : k # m => k \in 0..(m - 1)
    OBVIOUS
  <2>3. v \in S
    BY <2>2
  <2>4. h \in [0..m -> S]
    BY <2>2, <2>3
  <2>5. h[0] = base
    BY <2>1, <2>2 DEF IsLoop
  <2>6. ASSUME NEW k \in 1..m PROVE h[k] = F[<<h[k - 1], k>>]
    <3>1. k \in 0..m /\ k - 1 \in 0..m /\ k - 1 # m /\ k - 1 \in 0..(m - 1)
      OBVIOUS
    <3>2. h[k - 1] = f[k - 1]
      BY <3>1
    <3>3. CASE k = m
      BY <3>1, <3>2, <3>3
    <3>4. CASE k # m
      <4>1. k \in 1..(m - 1) /\ h[k] = f[k]
        BY <3>1, <3>4
      <4> QED  BY <2>1, <3>2, <4>1 DEF IsLoop
    <3> QED  BY <3>3, <3>4
  <2> HIDE DEF h
  <2>7. IsLoop(F, base, m, h)
    BY <2>5, <2>6 DEF IsLoop
  <2>8. m \in 0..n
    OBVIOUS
  <2> QED  BY <2>4, <2>7, <2>8
<1> HIDE DEF P
<1>3. n \in P
  BY <1>1, <1>2, CountingUp
<1> QED  BY <1>3 DEF P

(* The largest of the first k numbers, and of those among them             *)
LEMMA LargestOfFirst ==
  ASSUME NEW k \in Nat, NEW s \in SUBSET (1..k), k \in s
  PROVE  Max(s) = k
<1>1. \A y \in s : y \in Nat /\ k >= y
  OBVIOUS
<1>2. ASSUME NEW x \in s, \A y \in s : x >= y PROVE x = k
  BY <1>1, <1>2
<1>3. PICK x : x = CHOOSE z \in s : \A y \in s : z >= y
  OBVIOUS
<1>4. x \in s /\ \A y \in s : x >= y
  BY <1>1, <1>3
<1> QED  BY <1>2, <1>3, <1>4 DEF Max

(* it is the recursive function of MapThenFoldSet for the steps F.         *)
IsIteration(F, base, n, it) ==
  \A s \in SUBSET (1..n) :
    it[s] = IF s = {} THEN base ELSE F[<<it[s \ {Max(s)}], Max(s)>>]

(* MapThenFoldSet, on which the folds rest, has a value for every subset.  *)
LEMMA FoldExists ==
  ASSUME NEW S, NEW base \in S, NEW n \in Nat, NEW F \in [S \X (1..n) -> S]
  PROVE  \E it \in [SUBSET (1..n) -> S] : IsIteration(F, base, n, it)
<1> DEFINE Body(g, s) == IF s = {} THEN base ELSE F[<<g[s \ {Max(s)}], Max(s)>>]
           Is(g, m) == g \in [SUBSET (1..m) -> S] /\ \A s \in SUBSET (1..m) : g[s] = Body(g, s)
           P == {m \in 0..n : \E g : Is(g, m)}
<1>1. 0 \in P
  <2>1. 1..0 = {} /\ SUBSET (1..0) = {{}}
    OBVIOUS
  <2>2. Is([s \in SUBSET (1..0) |-> base], 0)
    BY <2>1
  <2> HIDE DEF Is
  <2> QED  BY <2>2
<1>2. ASSUME NEW m \in 1..n, m - 1 \in P PROVE m \in P
  <2>1. PICK f : Is(f, m - 1)
    BY <1>2
  <2> DEFINE g == [s \in SUBSET (1..m) |->
                     IF m \in s THEN F[<<f[s \ {m}], m>>] ELSE f[s]]
  <2>2. ASSUME NEW s \in SUBSET (1..m), m \in s
        PROVE  /\ s # {} /\ Max(s) = m /\ s \ {m} \in SUBSET (1..(m - 1))
               /\ s \ {m} \in SUBSET (1..m) /\ m \notin s \ {m}
    BY <2>2, LargestOfFirst
  <2>3. ASSUME NEW s \in SUBSET (1..m), m \notin s PROVE s \in SUBSET (1..(m - 1))
    BY <2>3
  <2>4. f \in [SUBSET (1..(m - 1)) -> S]
    BY <2>1
  <2>5. ASSUME NEW s \in SUBSET (1..m) PROVE g[s] \in S /\ g[s] = Body(g, s)
    <3>1. CASE m \in s
      <4>1. f[s \ {m}] \in S
        BY <2>2, <2>4, <3>1
      <4>2. g[s] = F[<<f[s \ {m}], m>>] /\ g[s \ {m}] = f[s \ {m}]
        BY <2>2, <3>1
      <4>3. F[<<f[s \ {m}], m>>] \in S
        BY <4>1
      <4> HIDE DEF g
      <4> QED  BY <2>2, <3>1, <4>2, <4>3
    <3>2. CASE m \notin s
      <4>1. s \in SUBSET (1..(m - 1)) /\ g[s] = f[s] /\ f[s] = Body(f, s) /\ f[s] \in S
        BY <2>1, <2>3, <2>4, <3>2
      <4>2. CASE s = {}
        <5> HIDE DEF g
        <5> QED  BY <4>1, <4>2
      <4>3. CASE s # {}
        <5>1. s \ {Max(s)} \in SUBSET (1..m) /\ m \notin s \ {Max(s)}
          BY <3>2
        <5>2. g[s \ {Max(s)}] = f[s \ {Max(s)}]
          BY <5>1
        <5> HIDE DEF g
        <5> QED  BY <4>1, <4>3, <5>2
      <4> QED  BY <4>2, <4>3
    <3> QED  BY <3>1, <3>2
  <2>6. Is(g, m)
    <3> HIDE DEF Body
    <3>1. g \in [SUBSET (1..m) -> S]
      BY <2>5
    <3> HIDE DEF g
    <3> QED  BY <2>5, <3>1
  <2>7. m \in 0..n
    OBVIOUS
  <2> HIDE DEF Is, g
  <2> QED  BY <2>6, <2>7
<1> HIDE DEF P
<1>3. n \in P
  BY <1>1, <1>2, CountingUp
<1>4. PICK g : Is(g, n)
  BY <1>3 DEF P
<1> QED  BY <1>4 DEF IsIteration

(* The largest of some of the numbers up to n is one of them.              *)
LEMMA LargestInside ==
  ASSUME NEW n \in Nat, NEW t \in SUBSET (1..n), t # {}
  PROVE  Max(t) \in t
<1> DEFINE below == {n - x : x \in t}
<1>1. below \subseteq Nat /\ below # {}
  <2>1. \A x \in t : x \in 1..n /\ n - x \in Nat
    OBVIOUS
  <2> QED  BY <2>1
<1>2. PICK m \in below : \A k \in below : m <= k
  <2> HIDE DEF below
  <2> QED  BY <1>1, LeastOne
<1>3. PICK x \in t : m = n - x
  OBVIOUS
<1>4. ASSUME NEW y \in t PROVE x >= y
  <2>1. n - y \in below /\ x \in Int /\ y \in Int
    OBVIOUS
  <2> HIDE DEF below
  <2> QED  BY <1>2, <1>3, <2>1
<1>5. PICK z : z = CHOOSE u \in t : \A y \in t : u >= y
  OBVIOUS
<1> QED  BY <1>4, <1>5 DEF Max

(* The recursive function of MapThenFoldSet, taken to be what its          *)
(* definition says, runs through the loop.                                 *)
LEMMA FoldFollowsLoop ==
  ASSUME NEW S, NEW base \in S, NEW n \in Nat, NEW F \in [S \X (1..n) -> S],
         NEW it, it[{}] = base,
         \A t \in SUBSET (1..n) : t # {} /\ it[t \ {Max(t)}] \in S =>
           it[t] = F[<<it[t \ {Max(t)}], Max(t)>>],
         NEW h, IsLoop(F, base, n, h)
  PROVE  it[1..n] = h[n] /\ h[n] \in S
<1> DEFINE P == {k \in 0..n : it[1..k] = h[k] /\ h[k] \in S}
<1>1. 0 \in P
  <2>1. 1..0 = {}
    OBVIOUS
  <2> QED  BY <2>1 DEF IsLoop
<1>2. ASSUME NEW k \in 1..n, k - 1 \in P PROVE k \in P
  <2>1. it[1..(k - 1)] = h[k - 1] /\ h[k - 1] \in S /\ k \in 0..n
    BY <1>2
  <2>2. 1..k \in SUBSET (1..n) /\ 1..k # {} /\ k \in 1..k /\ (1..k) \ {k} = 1..(k - 1)
    OBVIOUS
  <2>3. Max(1..k) = k
    BY <2>2, LargestOfFirst
  <2>4. it[(1..k) \ {Max(1..k)}] = it[1..(k - 1)]
    BY <2>2, <2>3, Zenon
  <2>5. it[1..k] = F[<<it[(1..k) \ {Max(1..k)}], Max(1..k)>>]
    BY <2>1, <2>2, <2>4
  <2>6. it[1..k] = F[<<h[k - 1], k>>]
    BY <2>1, <2>3, <2>4, <2>5, Zenon
  <2>7. h[k] = F[<<h[k - 1], k>>]
    BY DEF IsLoop
  <2>8. F[<<h[k - 1], k>>] \in S
    BY <2>1
  <2> QED  BY <2>1, <2>6, <2>7, <2>8
<1>3. \A k \in 0..n : k \in P
  <2> HIDE DEF P
  <2> QED  BY <1>1, <1>2, CountingUp
<1> QED  BY <1>3

(* The step of a loop that goes through a sequence                         *)
Through(S, G, s) == [p \in S \X (1..Len(s)) |-> G[<<p[1], s[p[2]]>>]]

(* The recursive function of a fold through s                              *)
IsFold(G, base, s, it) ==
  it = [t \in SUBSET (DOMAIN s) |->
          IF t = {} THEN base ELSE G[<<it[t \ {Max(t)}], s[Max(t)]>>]]

(* It exists.                                                              *)
LEMMA FoldIsDefined ==
  ASSUME NEW S, NEW A, NEW base \in S, NEW G \in [S \X A -> S], NEW s \in Seq(A)
  PROVE  \E it : /\ it \in [SUBSET (DOMAIN s) -> S]
                 /\ IsFold(G, base, s, it)
<1>1. PICK n \in Nat : n = Len(s) /\ DOMAIN s = 1..n
  OBVIOUS
<1>2. PICK F : F = Through(S, G, s)
  OBVIOUS
<1>3. \A k \in 1..n : s[k] \in A
  BY <1>1
<1>4. F \in [S \X (1..n) -> S]
  <2>1. ASSUME NEW p \in S \X (1..n) PROVE G[<<p[1], s[p[2]]>>] \in S
    BY <1>3
  <2>2. F = [p \in S \X (1..n) |-> G[<<p[1], s[p[2]]>>]]
    BY <1>1, <1>2 DEF Through
  <2> QED  BY <2>1, <2>2
<1>5. ASSUME NEW u \in S, NEW k \in 1..n PROVE F[<<u, k>>] = G[<<u, s[k]>>]
  BY <1>1, <1>2 DEF Through
<1>6. PICK it \in [SUBSET (1..n) -> S] : IsIteration(F, base, n, it)
  BY <1>4, FoldExists
<1>7. ASSUME NEW t \in SUBSET (1..n), t # {}
      PROVE  it[t] = G[<<it[t \ {Max(t)}], s[Max(t)]>>]
  <2>1. Max(t) \in 1..n
    BY <1>7, LargestInside
  <2>2. it[t \ {Max(t)}] \in S
    OBVIOUS
  <2>3. it[t] = F[<<it[t \ {Max(t)}], Max(t)>>]
    BY <1>6, <1>7 DEF IsIteration
  <2> QED  BY <1>5, <2>1, <2>2, <2>3
<1>8. it = [t \in SUBSET (1..n) |->
              IF t = {} THEN base ELSE G[<<it[t \ {Max(t)}], s[Max(t)]>>]]
  BY <1>6, <1>7 DEF IsIteration
<1> QED  BY <1>1, <1>8 DEF IsFold

(* it takes the step G at every element of s it is asked for.              *)
Iterates(S, base, G, s, it) ==
  /\ it[{}] = base
  /\ \A t \in SUBSET (DOMAIN s) : t # {} /\ it[t \ {Max(t)}] \in S =>
       it[t] = G[<<it[t \ {Max(t)}], s[Max(t)]>>]

(* Its value for the whole sequence is the last one of the loop.           *)
LEMMA FoldEnds ==
  ASSUME NEW S, NEW A, NEW base \in S, NEW G \in [S \X A -> S], NEW s \in Seq(A),
         NEW it, Iterates(S, base, G, s, it),
         NEW h, IsLoop(Through(S, G, s), base, Len(s), h)
  PROVE  it[DOMAIN s] = h[Len(s)] /\ h[Len(s)] \in S
<1>1. PICK n \in Nat : n = Len(s) /\ DOMAIN s = 1..n
  OBVIOUS
<1>2. PICK F : F = Through(S, G, s)
  OBVIOUS
<1>3. \A k \in 1..n : s[k] \in A
  BY <1>1
<1>4. F \in [S \X (1..n) -> S]
  <2>1. ASSUME NEW p \in S \X (1..n) PROVE G[<<p[1], s[p[2]]>>] \in S
    BY <1>3
  <2>2. F = [p \in S \X (1..n) |-> G[<<p[1], s[p[2]]>>]]
    BY <1>1, <1>2 DEF Through
  <2> QED  BY <2>1, <2>2
<1>5. ASSUME NEW u \in S, NEW k \in 1..n PROVE F[<<u, k>>] = G[<<u, s[k]>>]
  BY <1>1, <1>2 DEF Through
<1>6. ASSUME NEW t \in SUBSET (1..n), t # {}, it[t \ {Max(t)}] \in S
      PROVE  it[t] = F[<<it[t \ {Max(t)}], Max(t)>>]
  <2>1. Max(t) \in 1..n
    BY <1>6, LargestInside
  <2> QED  BY <1>1, <1>5, <1>6, <2>1 DEF Iterates
<1>7. IsLoop(F, base, n, h)
  BY <1>1, <1>2
<1>8. it[{}] = base
  BY DEF Iterates
<1>9. it[1..n] = h[n] /\ h[n] \in S
  BY <1>4, <1>6, <1>7, <1>8, FoldFollowsLoop
<1> QED  BY <1>1, <1>9

(* X is the fold with base and G of every sequence over A.                 *)
IsFoldOver(S, A, base, G, X) ==
  \A s \in Seq(A) : \A h : IsLoop(Through(S, G, s), base, Len(s), h) =>
    X[s] = h[Len(s)] /\ h[Len(s)] \in S

(* It begins with base and goes on with G.                                 *)
Accumulates(S, A, base, G, X) ==
  /\ X[<<>>] = base
  /\ \A s \in Seq(A) : X[s] \in S
  /\ \A s \in Seq(A), c \in A : X[Append(s, c)] = G[<<X[s], c>>]

(* A fold of the empty sequence is base, and of a longer one a step from   *)
(* what the shorter one gives.                                             *)
LEMMA FoldAppends ==
  ASSUME NEW S, NEW A, NEW base \in S, NEW G \in [S \X A -> S], NEW X,
         IsFoldOver(S, A, base, G, X)
  PROVE  Accumulates(S, A, base, G, X)
<1>1. ASSUME NEW s \in Seq(A)
      PROVE  /\ Through(S, G, s) \in [S \X (1..Len(s)) -> S]
             /\ \A u \in S, k \in 1..Len(s) : Through(S, G, s)[<<u, k>>] = G[<<u, s[k]>>]
  <2>1. \A k \in 1..Len(s) : s[k] \in A
    OBVIOUS
  <2>2. ASSUME NEW p \in S \X (1..Len(s)) PROVE G[<<p[1], s[p[2]]>>] \in S
    BY <2>1
  <2>3. ASSUME NEW u \in S, NEW k \in 1..Len(s)
        PROVE  Through(S, G, s)[<<u, k>>] = G[<<u, s[k]>>]
    BY DEF Through
  <2>4. Through(S, G, s) \in [S \X (1..Len(s)) -> S]
    BY <2>2 DEF Through
  <2> QED  BY <2>3, <2>4
<1>2. ASSUME NEW s \in Seq(A)
      PROVE  \E h \in [0..Len(s) -> S] :
               IsLoop(Through(S, G, s), base, Len(s), h) /\ X[s] = h[Len(s)]
  <2>1. PICK h \in [0..Len(s) -> S] : IsLoop(Through(S, G, s), base, Len(s), h)
    <3>1. Len(s) \in Nat
      OBVIOUS
    <3> QED  BY <1>1, <3>1, LoopExists
  <2> QED  BY <2>1 DEF IsFoldOver
<1>3. ASSUME NEW s \in Seq(A) PROVE X[s] \in S
  <2>1. Len(s) \in 0..Len(s)
    OBVIOUS
  <2> QED  BY <1>2, <2>1
<1>4. X[<<>>] = base
  <2>1. <<>> \in Seq(A) /\ Len(<<>>) = 0
    OBVIOUS
  <2> QED  BY <1>2, <2>1 DEF IsLoop
<1>5. ASSUME NEW s \in Seq(A), NEW c \in A PROVE X[Append(s, c)] = G[<<X[s], c>>]
  <2>1. PICK n \in Nat : n = Len(s)
    OBVIOUS
  <2>2. PICK t : t = Append(s, c)
    OBVIOUS
  <2>3. t \in Seq(A) /\ Len(t) = n + 1 /\ t[n + 1] = c /\ \A k \in 1..n : t[k] = s[k]
    BY <2>1, <2>2
  <2>4. PICK h \in [0..(n + 1) -> S] :
          IsLoop(Through(S, G, t), base, n + 1, h) /\ X[t] = h[n + 1]
    BY <1>2, <2>3
  <2>5. ASSUME NEW k \in 1..(n + 1) PROVE h[k] = G[<<h[k - 1], t[k]>>]
    <3>1. h[k - 1] \in S
      OBVIOUS
    <3>2. Through(S, G, t)[<<h[k - 1], k>>] = G[<<h[k - 1], t[k]>>]
      BY <1>1, <2>3, <3>1, ZenonT(60)
    <3> QED  BY <2>4, <3>2 DEF IsLoop
  <2>6. ASSUME NEW k \in 1..n PROVE h[k] = Through(S, G, s)[<<h[k - 1], k>>]
    <3>1. h[k - 1] \in S /\ k \in 1..(n + 1)
      OBVIOUS
    <3>2. Through(S, G, s)[<<h[k - 1], k>>] = G[<<h[k - 1], s[k]>>]
      BY <1>1, <2>1, <3>1
    <3> QED  BY <2>3, <2>5, <3>1, <3>2
  <2>7. IsLoop(Through(S, G, s), base, n, h)
    BY <2>4, <2>6 DEF IsLoop
  <2>8. X[s] = h[n]
    BY <2>1, <2>7 DEF IsFoldOver
  <2>9. n + 1 \in 1..(n + 1) /\ (n + 1) - 1 = n
    OBVIOUS
  <2> QED  BY <2>2, <2>3, <2>4, <2>5, <2>8, <2>9
<1> QED  BY <1>3, <1>4, <1>5 DEF Accumulates

(* The element of s a fold takes is one of s.                              *)
LEMMA LargestElement ==
  ASSUME NEW A, NEW s \in Seq(A), NEW t \in SUBSET (DOMAIN s), t # {}
  PROVE  s[Max(t)] \in A
<1>1. Len(s) \in Nat /\ DOMAIN s = 1..Len(s)
  OBVIOUS
<1>2. Max(t) \in DOMAIN s
  BY <1>1, LargestInside
<1> QED  BY <1>1, <1>2

(* What holds for the empty sequence, and for a longer one if it does for  *)
(* the shorter one, holds for all.                                         *)
LEMMA Appending ==
  ASSUME NEW A, NEW P, <<>> \in P,
         \A s \in Seq(A), c \in A : s \in P => Append(s, c) \in P
  PROVE  \A s \in Seq(A) : s \in P
<1> SUFFICES ASSUME NEW s \in Seq(A) PROVE s \in P
  OBVIOUS
<1>1. PICK n \in Nat : n = Len(s)
  OBVIOUS
<1> DEFINE Q == {k \in 0..n : SubSeq(s, 1, k) \in P}
<1>2. 0 \in Q
  <2>1. SubSeq(s, 1, 0) = <<>>
    OBVIOUS
  <2>2. SubSeq(s, 1, 0) \in P
    BY <2>1, Zenon
  <2> QED  BY <2>2
<1>3. ASSUME NEW k \in 1..n, k - 1 \in Q PROVE k \in Q
  <2>1. SubSeq(s, 1, k - 1) \in Seq(A) /\ s[k] \in A
    BY <1>1
  <2>2. SubSeq(s, 1, k) = Append(SubSeq(s, 1, k - 1), s[k])
    BY <1>1
  <2>3. Append(SubSeq(s, 1, k - 1), s[k]) \in P
    BY <1>3, <2>1
  <2>4. SubSeq(s, 1, k) \in P
    BY <2>2, <2>3, Zenon
  <2> QED  BY <2>4
<1>4. \A k \in 0..n : k \in Q
  <2> HIDE DEF Q
  <2> QED  BY <1>2, <1>3, CountingUp
<1>5. n \in Q
  <2>1. n \in 0..n
    OBVIOUS
  <2> QED  BY <1>4, <2>1
<1>6. SubSeq(s, 1, n) = s
  BY <1>1
<1> QED  BY <1>5, <1>6

-----------------------------------------------------------------------------
(* Numbers *)

(* Decimal goes through the digits.                                        *)
LEMMA DecimalFolds ==
  /\ Decimal(<<>>) = 0
  /\ \A s \in Seq(Digits) : Decimal(s) \in Nat
  /\ \A s \in Seq(Digits), c \in Digits : Decimal(Append(s, c)) = 10 * Decimal(s) + DigitValue[c]
<1>0. 0 \in Nat /\ \A u \in Nat, c \in Digits : 10 * u + DigitValue[c] \in Nat
  BY DEF DigitValue, Digits
<1>1. PICK G : G = [p \in Nat \X Digits |-> 10 * p[1] + DigitValue[p[2]]]
  OBVIOUS
<1>2. G \in [Nat \X Digits -> Nat] /\ \A u \in Nat, c \in Digits : G[<<u, c>>] = 10 * u + DigitValue[c]
  BY <1>0, <1>1
<1>3. ASSUME NEW s \in Seq(Digits), NEW h, IsLoop(Through(Nat, G, s), 0, Len(s), h)
      PROVE  Decimal(s) = h[Len(s)] /\ h[Len(s)] \in Nat
  <2> DEFINE Is(it) == it = [t \in SUBSET (DOMAIN s) |->
                IF t = {} THEN 0 ELSE 10 * it[t \ {Max(t)}] + DigitValue[s[Max(t)]]]
  <2>1. ASSUME NEW t \in SUBSET (DOMAIN s), t # {}, NEW it, it[t \ {Max(t)}] \in Nat
        PROVE  G[<<it[t \ {Max(t)}], s[Max(t)]>>] = 10 * it[t \ {Max(t)}] + DigitValue[s[Max(t)]]
    BY <1>2, <2>1, LargestElement
  <2>2. \E it : Is(it)
    <3>1. PICK it \in [SUBSET (DOMAIN s) -> Nat] : IsFold(G, 0, s, it)
      BY <1>0, <1>2, FoldIsDefined
    <3>2. \A t \in SUBSET (DOMAIN s) : it[t \ {Max(t)}] \in Nat
      OBVIOUS
    <3>3. Is(it)
      BY <2>1, <3>1, <3>2 DEF IsFold
    <3> QED  BY <3>3
  <2>3. PICK it : it = CHOOSE g : Is(g)
    OBVIOUS
  <2>4. Is(it)
    <3> HIDE DEF Is
    <3> QED  BY <2>2, <2>3
  <2>5. Decimal(s) = it[DOMAIN s]
    BY <2>3 DEF Decimal, FoldLeft, MapThenFoldSet
  <2>6. Iterates(Nat, 0, G, s, it)
    BY <2>1, <2>4 DEF Iterates
  <2> QED  BY <1>0, <1>2, <1>3, <2>5, <2>6, FoldEnds
<1>4. PICK X : X = [s \in Seq(Digits) |-> Decimal(s)]
  OBVIOUS
<1>5. Accumulates(Nat, Digits, 0, G, X)
  <2>1. IsFoldOver(Nat, Digits, 0, G, X)
    BY <1>3, <1>4 DEF IsFoldOver
  <2> QED  BY <1>0, <1>2, <2>1, FoldAppends
<1>6. <<>> \in Seq(Digits) /\ \A s \in Seq(Digits), c \in Digits : Append(s, c) \in Seq(Digits)
  OBVIOUS
<1>7. ASSUME NEW s \in Seq(Digits) PROVE X[s] = Decimal(s) /\ X[s] \in Nat
  BY <1>4, <1>5 DEF Accumulates
<1>8. ASSUME NEW s \in Seq(Digits), NEW c \in Digits
      PROVE  Decimal(Append(s, c)) = 10 * Decimal(s) + DigitValue[c]
  <2>1. X[Append(s, c)] = G[<<X[s], c>>]
    BY <1>5 DEF Accumulates
  <2> QED  BY <1>2, <1>6, <1>7, <2>1
<1>9. Decimal(<<>>) = 0
  BY <1>5, <1>6, <1>7 DEF Accumulates
<1> QED  BY <1>7, <1>8, <1>9

(* So does _readint.                                                       *)
LEMMA IntOfFolds ==
  /\ IntOf(<<>>) = 0
  /\ \A s \in Seq(Digits) : IntOf(s) \in Int
  /\ \A s \in Seq(Digits), c \in Digits : IntOf(Append(s, c)) = Wrapped(IntOf(s) * 10 + DigitValue[c])
<1>0. 0 \in Int /\ \A u \in Int, c \in Digits : Wrapped(u * 10 + DigitValue[c]) \in Int
  <2>1. \A u \in Int, c \in Digits : u * 10 + DigitValue[c] \in Int
    BY DEF DigitValue, Digits
  <2>2. ASSUME NEW n \in Int PROVE Wrapped(n) \in Int
    BY ScannerAssumption DEF Wrapped, ScannerAssumption
  <2> QED  BY <2>1, <2>2
<1>1. PICK G : G = [p \in Int \X Digits |-> Wrapped(p[1] * 10 + DigitValue[p[2]])]
  OBVIOUS
<1>2. G \in [Int \X Digits -> Int] /\ \A u \in Int, c \in Digits : G[<<u, c>>] = Wrapped(u * 10 + DigitValue[c])
  BY <1>0, <1>1
<1>3. ASSUME NEW s \in Seq(Digits), NEW h, IsLoop(Through(Int, G, s), 0, Len(s), h)
      PROVE  IntOf(s) = h[Len(s)] /\ h[Len(s)] \in Int
  <2> DEFINE Is(it) == it = [t \in SUBSET (DOMAIN s) |->
                IF t = {} THEN 0 ELSE Wrapped(it[t \ {Max(t)}] * 10 + DigitValue[s[Max(t)]])]
  <2>1. ASSUME NEW t \in SUBSET (DOMAIN s), t # {}, NEW it, it[t \ {Max(t)}] \in Int
        PROVE  G[<<it[t \ {Max(t)}], s[Max(t)]>>] = Wrapped(it[t \ {Max(t)}] * 10 + DigitValue[s[Max(t)]])
    BY <1>2, <2>1, LargestElement
  <2>2. \E it : Is(it)
    <3>1. PICK it \in [SUBSET (DOMAIN s) -> Int] : IsFold(G, 0, s, it)
      BY <1>0, <1>2, FoldIsDefined
    <3>2. \A t \in SUBSET (DOMAIN s) : it[t \ {Max(t)}] \in Int
      OBVIOUS
    <3>3. Is(it)
      BY <2>1, <3>1, <3>2 DEF IsFold
    <3> QED  BY <3>3
  <2>3. PICK it : it = CHOOSE g : Is(g)
    OBVIOUS
  <2>4. Is(it)
    <3> HIDE DEF Is
    <3> QED  BY <2>2, <2>3
  <2>5. IntOf(s) = it[DOMAIN s]
    BY <2>3 DEF IntOf, FoldLeft, MapThenFoldSet
  <2>6. Iterates(Int, 0, G, s, it)
    BY <2>1, <2>4 DEF Iterates
  <2> QED  BY <1>0, <1>2, <1>3, <2>5, <2>6, FoldEnds
<1>4. PICK X : X = [s \in Seq(Digits) |-> IntOf(s)]
  OBVIOUS
<1>5. Accumulates(Int, Digits, 0, G, X)
  <2>1. IsFoldOver(Int, Digits, 0, G, X)
    BY <1>3, <1>4 DEF IsFoldOver
  <2> QED  BY <1>0, <1>2, <2>1, FoldAppends
<1>6. <<>> \in Seq(Digits) /\ \A s \in Seq(Digits), c \in Digits : Append(s, c) \in Seq(Digits)
  OBVIOUS
<1>7. ASSUME NEW s \in Seq(Digits) PROVE X[s] = IntOf(s) /\ X[s] \in Int
  BY <1>4, <1>5 DEF Accumulates
<1>8. ASSUME NEW s \in Seq(Digits), NEW c \in Digits
      PROVE  IntOf(Append(s, c)) = Wrapped(IntOf(s) * 10 + DigitValue[c])
  <2>1. X[Append(s, c)] = G[<<X[s], c>>]
    BY <1>5 DEF Accumulates
  <2> QED  BY <1>2, <1>6, <1>7, <2>1
<1>9. IntOf(<<>>) = 0
  BY <1>5, <1>6, <1>7 DEF Accumulates
<1> QED  BY <1>7, <1>8, <1>9

(* A number that fits an int stays what it is.                             *)
LEMMA FittingIsNotWrapped ==
  ASSUME NEW n \in Nat, n <= INT_MAX
  PROVE  Wrapped(n) = n
<1>1. INT_MAX \in Nat
  BY ScannerAssumption DEF ScannerAssumption
<1>2. PICK w \in Nat : w = 2 * (INT_MAX + 1)
  BY <1>1
<1>3. n + INT_MAX + 1 \in 0..(w - 1) /\ w > 0
  BY <1>1, <1>2
<1>4. ASSUME NEW x \in 0..(w - 1) PROVE x % w = x
  BY <1>3
<1>5. (n + INT_MAX + 1) % w = n + INT_MAX + 1
  BY <1>3, <1>4
<1> QED  BY <1>1, <1>2, <1>5 DEF Wrapped

(* _readint yields the number, unless it is larger than an int.            *)
LEMMA IntIsDecimal ==
  ASSUME NEW s \in Seq(Digits), Decimal(s) <= INT_MAX
  PROVE  IntOf(s) = Decimal(s)
<1> DEFINE P == {d \in Seq(Digits) : Decimal(d) > INT_MAX \/ IntOf(d) = Decimal(d)}
<1>1. INT_MAX \in Nat
  BY ScannerAssumption DEF ScannerAssumption
<1>2. <<>> \in P
  BY DecimalFolds, IntOfFolds
<1>3. ASSUME NEW d \in Seq(Digits), NEW c \in Digits, d \in P PROVE Append(d, c) \in P
  <2>1. Append(d, c) \in Seq(Digits) /\ Decimal(d) \in Nat /\ IntOf(d) \in Int
    BY DecimalFolds, IntOfFolds
  <2>2. PICK e \in Nat : e = DigitValue[c]
    BY DEF DigitValue, Digits
  <2>3. /\ Decimal(Append(d, c)) = 10 * Decimal(d) + e
        /\ IntOf(Append(d, c)) = Wrapped(IntOf(d) * 10 + e)
    BY <2>2, DecimalFolds, IntOfFolds
  <2>4. CASE Decimal(d) > INT_MAX
    BY <1>1, <2>1, <2>3, <2>4
  <2>5. CASE IntOf(d) = Decimal(d) /\ 10 * Decimal(d) + e <= INT_MAX
    <3>1. Wrapped(10 * Decimal(d) + e) = 10 * Decimal(d) + e
      BY <2>1, <2>5, FittingIsNotWrapped
    <3>2. IntOf(d) * 10 + e = 10 * Decimal(d) + e
      BY <2>1, <2>5
    <3> QED  BY <2>1, <2>3, <3>1, <3>2
  <2>6. CASE 10 * Decimal(d) + e > INT_MAX
    BY <2>1, <2>3, <2>6
  <2>7. 10 * Decimal(d) + e \in Int
    BY <2>1
  <2> QED  BY <1>1, <1>3, <2>4, <2>5, <2>6, <2>7
<1>4. s \in P
  <2> HIDE DEF P
  <2> QED  BY <1>2, <1>3, Appending
<1> QED  BY <1>1, <1>4, DecimalFolds

-----------------------------------------------------------------------------
(* Strings *)

(* The characters of strings and words                                     *)
TextChars == Chars \union {NL}

(* Before the first character of a string                                  *)
NothingRead == [word |-> <<>>, escaped |-> FALSE]

(* What can have been read of one                                          *)
Readings == [word : Seq(TextChars), escaped : BOOLEAN]

(* What a string means as far as it has been read                          *)
ReadOf(s) == FoldLeft(Unescape, NothingRead, s)

(* Unescaping goes through the characters.                                 *)
LEMMA UnescapingFolds ==
  /\ ReadOf(<<>>) = NothingRead
  /\ \A s \in Seq(Chars) : ReadOf(s) \in Readings
  /\ \A s \in Seq(Chars), c \in Chars : ReadOf(Append(s, c)) = Unescape(ReadOf(s), c)
<1>0. NothingRead \in Readings /\ \A u \in Readings, c \in Chars : Unescape(u, c) \in Readings
  <2>1. NothingRead \in Readings
    BY DEF NothingRead, Readings
  <2>2. ASSUME NEW u \in Readings, NEW c \in Chars PROVE Unescape(u, c) \in Readings
    <3>1. c \in TextChars /\ Escape(c) \in TextChars
      BY DEF TextChars, Escape
    <3>2. u.word \in Seq(TextChars) /\ u.escaped \in BOOLEAN
      BY DEF Readings
    <3>3. Append(u.word, c) \in Seq(TextChars) /\ Append(u.word, Escape(c)) \in Seq(TextChars)
      BY <3>1, <3>2
    <3>4. CASE u.escaped
      BY <3>3, <3>4 DEF Unescape, Readings
    <3>5. CASE ~u.escaped /\ c = "\\"
      BY <3>5 DEF Unescape, Readings
    <3>6. CASE ~u.escaped /\ c # "\\"
      BY <3>3, <3>6 DEF Unescape, Readings
    <3> QED  BY <3>2, <3>4, <3>5, <3>6
  <2> QED  BY <2>1, <2>2
<1>1. PICK G : G = [p \in Readings \X Chars |-> Unescape(p[1], p[2])]
  OBVIOUS
<1>2. G \in [Readings \X Chars -> Readings] /\ \A u \in Readings, c \in Chars : G[<<u, c>>] = Unescape(u, c)
  BY <1>0, <1>1
<1>3. ASSUME NEW s \in Seq(Chars), NEW h, IsLoop(Through(Readings, G, s), NothingRead, Len(s), h)
      PROVE  ReadOf(s) = h[Len(s)] /\ h[Len(s)] \in Readings
  <2> DEFINE Is(it) == it = [t \in SUBSET (DOMAIN s) |->
                IF t = {} THEN NothingRead ELSE Unescape(it[t \ {Max(t)}], s[Max(t)])]
  <2>1. ASSUME NEW t \in SUBSET (DOMAIN s), t # {}, NEW it, it[t \ {Max(t)}] \in Readings
        PROVE  G[<<it[t \ {Max(t)}], s[Max(t)]>>] = Unescape(it[t \ {Max(t)}], s[Max(t)])
    BY <1>2, <2>1, LargestElement
  <2>2. \E it : Is(it)
    <3>1. PICK it \in [SUBSET (DOMAIN s) -> Readings] : IsFold(G, NothingRead, s, it)
      BY <1>0, <1>2, FoldIsDefined
    <3>2. \A t \in SUBSET (DOMAIN s) : it[t \ {Max(t)}] \in Readings
      OBVIOUS
    <3>3. Is(it)
      BY <2>1, <3>1, <3>2 DEF IsFold
    <3> QED  BY <3>3
  <2>3. PICK it : it = CHOOSE g : Is(g)
    OBVIOUS
  <2>4. Is(it)
    <3> HIDE DEF Is
    <3> QED  BY <2>2, <2>3
  <2>5. ReadOf(s) = it[DOMAIN s]
    BY <2>3 DEF ReadOf, FoldLeft, MapThenFoldSet
  <2>6. Iterates(Readings, NothingRead, G, s, it)
    BY <2>1, <2>4 DEF Iterates
  <2> QED  BY <1>0, <1>2, <1>3, <2>5, <2>6, FoldEnds
<1>4. PICK X : X = [s \in Seq(Chars) |-> ReadOf(s)]
  OBVIOUS
<1>5. Accumulates(Readings, Chars, NothingRead, G, X)
  <2>1. IsFoldOver(Readings, Chars, NothingRead, G, X)
    BY <1>3, <1>4 DEF IsFoldOver
  <2> QED  BY <1>0, <1>2, <2>1, FoldAppends
<1>6. <<>> \in Seq(Chars) /\ \A s \in Seq(Chars), c \in Chars : Append(s, c) \in Seq(Chars)
  OBVIOUS
<1>7. ASSUME NEW s \in Seq(Chars) PROVE X[s] = ReadOf(s) /\ X[s] \in Readings
  BY <1>4, <1>5 DEF Accumulates
<1>8. ASSUME NEW s \in Seq(Chars), NEW c \in Chars
      PROVE  ReadOf(Append(s, c)) = Unescape(ReadOf(s), c)
  <2>1. X[Append(s, c)] = G[<<X[s], c>>]
    BY <1>5 DEF Accumulates
  <2> QED  BY <1>2, <1>6, <1>7, <2>1
<1>9. ReadOf(<<>>) = NothingRead
  BY <1>5, <1>6, <1>7 DEF Accumulates
<1> QED  BY <1>7, <1>8, <1>9

(* ReadOf is the part of Unescaped before it is put together.              *)
LEMMA UnescapedIsRead == \A s : Unescaped(s) = ReadOf(s).word
BY DEF Unescaped, ReadOf, NothingRead

-----------------------------------------------------------------------------
(* Keywords *)

(* A node of the trie of the keywords                                      *)
Node == [children : UNION {[D -> Nat] : D \in SUBSET WordChars},
         is_final : BOOLEAN, data : Seq(WordChars)]

(* What can be a keyword                                                   *)
Words == Seq(WordChars)

(* A node's children, and the way p to it from the root                    *)
ChildrenOk(t, p) ==
  \A i \in DOMAIN t : \A c \in DOMAIN t[i].children :
    /\ t[i].children[c] \in DOMAIN t
    /\ p[t[i].children[c]] = Append(p[i], c)

(* Some node has the child j.                                              *)
IsChild(t, j) ==
  \E i \in DOMAIN t : \E c \in DOMAIN t[i].children : t[i].children[c] = j

(* t is a trie of the words W; p[i] spells the way to node i.              *)
IsTrie(t, W, p) ==
  /\ t \in Seq(Node) /\ 1 \in DOMAIN t
  /\ p \in [DOMAIN t -> Words]
  /\ p[1] = <<>>
  /\ \A i, j \in DOMAIN t : p[i] = p[j] => i = j
  /\ ChildrenOk(t, p)
  /\ \A j \in DOMAIN t : j # 1 => IsChild(t, j)
  /\ \A i \in DOMAIN t : t[i].is_final <=> p[i] \in W
  /\ \A i \in DOMAIN t : t[i].is_final => t[i].data = p[i]
  /\ \A w \in W : \E i \in DOMAIN t : p[i] = w

(* The empty trie is one.                                                  *)
LEMMA EmptyIsTrie == EmptyTrie \in Seq(Node) /\ IsTrie(EmptyTrie, {}, [k \in {1} |-> <<>>])
<1>1. NewNode \in Node
  <2>1. <<>> \in [{} -> Nat] /\ {} \in SUBSET WordChars
    OBVIOUS
  <2>2. <<>> \in UNION {[D -> Nat] : D \in SUBSET WordChars}
    BY <2>1
  <2> QED  BY <2>2 DEF NewNode, Node
<1>2. EmptyTrie \in Seq(Node) /\ DOMAIN EmptyTrie = {1} /\ EmptyTrie[1] = NewNode
  BY <1>1 DEF EmptyTrie
<1>3. NewNode.children = <<>> /\ NewNode.is_final = FALSE /\ DOMAIN (<<>>) = {}
  BY DEF NewNode
<1>4. PICK p : p = [k \in {1} |-> <<>>]
  OBVIOUS
<1>5. p \in [{1} -> Words] /\ p[1] = <<>>
  <2>1. <<>> \in Words
    BY DEF Words
  <2> QED  BY <1>4, <2>1
<1>6. ChildrenOk(EmptyTrie, p)
  BY <1>2, <1>3 DEF ChildrenOk
<1> QED  BY <1>2, <1>3, <1>4, <1>5, <1>6 DEF IsTrie

(* Two ways that are equal have been the same before their last characters.*)
LEMMA SameWay ==
  ASSUME NEW v \in Words, NEW w \in Words, NEW c \in WordChars, NEW d \in WordChars,
         Append(v, c) = Append(w, d)
  PROVE  v = w /\ c = d
BY AppendInjective DEF Words

(* A word goes on to a word that is not empty.                             *)
LEMMA LongerWord ==
  ASSUME NEW v \in Words, NEW c \in WordChars
  PROVE  Append(v, c) \in Words /\ Append(v, c) # <<>>
BY AppendProperties DEF Words

(* From a node the way goes on by a character to its child, if there is    *)
(* one, and nowhere else.                                                  *)
LEMMA ChildIsNext ==
  ASSUME NEW t, NEW W, NEW p, IsTrie(t, W, p), NEW i \in DOMAIN t, NEW c \in WordChars
  PROVE  LET next == Child(t, i, c)
         IN  /\ next # NULL => next \in DOMAIN t /\ p[next] = Append(p[i], c)
             /\ next = NULL => \A j \in DOMAIN t : p[j] # Append(p[i], c)
<1>1. /\ t \in Seq(Node) /\ p \in [DOMAIN t -> Words] /\ p[1] = <<>>
      /\ ChildrenOk(t, p) /\ \A j, k \in DOMAIN t : p[j] = p[k] => j = k
      /\ \A j \in DOMAIN t : j # 1 => IsChild(t, j)
  BY DEF IsTrie
<1>2. i # NULL /\ \A j \in DOMAIN t : j # NULL
  BY <1>1 DEF NULL
<1>3. CASE c \in DOMAIN t[i].children
  <2>1. Child(t, i, c) = t[i].children[c]
    BY <1>2, <1>3 DEF Child
  <2> QED  BY <1>1, <1>2, <1>3, <2>1 DEF ChildrenOk
<1>4. CASE c \notin DOMAIN t[i].children
  <2>1. Child(t, i, c) = NULL
    BY <1>4 DEF Child
  <2>2. ASSUME NEW j \in DOMAIN t, p[j] = Append(p[i], c) PROVE FALSE
    <3>1. p[i] \in Words /\ Append(p[i], c) # <<>>
      BY <1>1, LongerWord
    <3>2. PICK k \in DOMAIN t : \E d \in DOMAIN t[k].children : t[k].children[d] = j
      BY <1>1, <2>2, <3>1 DEF IsChild
    <3>3. PICK d \in DOMAIN t[k].children : t[k].children[d] = j
      BY <3>2
    <3>4. p[j] = Append(p[k], d) /\ p[k] \in Words
      BY <1>1, <3>3 DEF ChildrenOk
    <3>5. d \in WordChars
      <4>1. t[k] \in Node
        BY <1>1
      <4> QED  BY <4>1, <3>3 DEF Node
    <3>6. p[k] = p[i] /\ d = c
      <4>1. Append(p[k], d) = Append(p[i], c)
        BY <2>2, <3>4
      <4> QED  BY <3>1, <3>4, <3>5, <4>1, SameWay
    <3> QED  BY <1>1, <1>4, <3>3, <3>6
  <2> QED  BY <2>1, <2>2
<1> QED  BY <1>3, <1>4

(* i is a node of a trie u of the words W, and word the way to it.         *)
Spells(W, u, i, q, word) ==
  u \in Seq(Node) /\ i \in DOMAIN u /\ IsTrie(u, W, q) /\ q[i] = word

(* A turn of tr_add goes one character on; the words stay the same.        *)
LEMMA Descending ==
  ASSUME NEW t, NEW W, NEW p, IsTrie(t, W, p), NEW i \in DOMAIN t, NEW c \in WordChars
  PROVE  \E u, j, q : /\ Descend([trie |-> t, node |-> i], c) = [trie |-> u, node |-> j]
                      /\ Spells(W, u, j, q, Append(p[i], c))
<1>1. /\ t \in Seq(Node) /\ 1 \in DOMAIN t /\ p \in [DOMAIN t -> Words] /\ p[1] = <<>>
      /\ ChildrenOk(t, p) /\ \A j, k \in DOMAIN t : p[j] = p[k] => j = k
      /\ \A j \in DOMAIN t : j # 1 => IsChild(t, j)
      /\ \A j \in DOMAIN t : t[j].is_final <=> p[j] \in W
      /\ \A j \in DOMAIN t : t[j].is_final => t[j].data = p[j]
      /\ \A w \in W : \E j \in DOMAIN t : p[j] = w
  BY DEF IsTrie
<1>2. PICK next : next = Child(t, i, c)
  OBVIOUS
<1>3. CASE next # NULL
  <2>1. next \in DOMAIN t /\ p[next] = Append(p[i], c)
    BY <1>2, <1>3, ChildIsNext
  <2>2. Descend([trie |-> t, node |-> i], c) = [trie |-> t, node |-> next]
    BY <1>2, <1>3 DEF Descend
  <2> WITNESS t, next, p
  <2> QED  BY <1>1, <2>1, <2>2 DEF Spells
<1>4. CASE next = NULL
  <2>1. PICK n \in Nat : n = Len(t) /\ DOMAIN t = 1..n
    BY <1>1
  <2>2. PICK way \in Words : way = Append(p[i], c) /\ way # <<>>
    <3>1. p[i] \in Words
      BY <1>1
    <3> QED  BY <3>1, LongerWord
  <2>3. \A j \in DOMAIN t : p[j] # way
    <3>1. Child(t, i, c) = NULL => \A j \in DOMAIN t : p[j] # Append(p[i], c)
      BY ChildIsNext
    <3> QED  BY <1>2, <1>4, <2>2, <3>1
  <2>4. PICK hung : hung = Hung(t[i].children, c, n + 1)
    OBVIOUS
  <2>5. t[i] \in Node /\ NewNode \in Node /\ NewNode.is_final = FALSE /\ DOMAIN NewNode.children = {}
    <3>1. NewNode = EmptyTrie[1] /\ 1 \in DOMAIN EmptyTrie
      BY DEF EmptyTrie
    <3>2. NewNode \in Node
      BY <3>1, EmptyIsTrie
    <3>3. NewNode.is_final = FALSE /\ NewNode.children = <<>> /\ DOMAIN (<<>>) = {}
      BY DEF NewNode
    <3> QED  BY <1>1, <3>2, <3>3
  <2>6. /\ hung \in UNION {[D -> Nat] : D \in SUBSET WordChars}
        /\ DOMAIN hung = DOMAIN t[i].children \union {c}
        /\ hung[c] = n + 1
        /\ \A d \in DOMAIN t[i].children : d # c => hung[d] = t[i].children[d]
    <3>1. PICK D \in SUBSET WordChars : t[i].children \in [D -> Nat]
      BY <2>5 DEF Node
    <3>2. hung = [d \in D \union {c} |-> IF d = c THEN n + 1 ELSE t[i].children[d]]
      BY <2>4, <3>1 DEF Hung
    <3>3. hung \in [D \union {c} -> Nat] /\ D \union {c} \in SUBSET WordChars
      BY <3>1, <3>2
    <3> QED  BY <3>1, <3>2, <3>3
  <2>7. PICK node : node = [t[i] EXCEPT !.children = hung]
    OBVIOUS
  <2>8. /\ node \in Node /\ node.children = hung
        /\ node.is_final = t[i].is_final /\ node.data = t[i].data
    BY <2>5, <2>6, <2>7 DEF Node
  <2>9. PICK u : u = Append([t EXCEPT ![i] = node], NewNode)
    OBVIOUS
  <2>10. Descend([trie |-> t, node |-> i], c) = [trie |-> u, node |-> n + 1]
    BY <1>2, <1>4, <2>1, <2>4, <2>7, <2>9 DEF Descend
  <2>11. /\ u \in Seq(Node) /\ DOMAIN u = 1..(n + 1)
         /\ u[i] = node /\ u[n + 1] = NewNode
         /\ \A k \in 1..n : k # i => u[k] = t[k]
    <3>1. [t EXCEPT ![i] = node] \in Seq(Node) /\ Len([t EXCEPT ![i] = node]) = n
      BY <1>1, <2>1, <2>8
    <3> QED  BY <2>1, <2>5, <2>9, <3>1
  <2>12. PICK q : q = [k \in 1..(n + 1) |-> IF k = n + 1 THEN way ELSE p[k]]
    OBVIOUS
  <2>13. /\ q \in [DOMAIN u -> Words] /\ q[n + 1] = way
         /\ \A k \in 1..n : k \in 1..(n + 1) /\ k # n + 1 /\ q[k] = p[k]
    BY <1>1, <2>1, <2>2, <2>11, <2>12
  <2>14. \A k \in 1..(n + 1) : k \in 1..n \/ k = n + 1
    OBVIOUS
  <2>15. ChildrenOk(u, q)
    <3> SUFFICES ASSUME NEW k \in DOMAIN u, NEW d \in DOMAIN u[k].children
                 PROVE  /\ u[k].children[d] \in DOMAIN u
                        /\ q[u[k].children[d]] = Append(q[k], d)
      BY DEF ChildrenOk
    <3>1. ASSUME k \in 1..n, d \in DOMAIN t[k].children, u[k].children[d] = t[k].children[d]
          PROVE  /\ u[k].children[d] \in DOMAIN u
                 /\ q[u[k].children[d]] = Append(q[k], d)
      <4>1. t[k].children[d] \in 1..n /\ p[t[k].children[d]] = Append(p[k], d)
        BY <1>1, <2>1, <3>1 DEF ChildrenOk
      <4> QED  BY <2>11, <2>13, <3>1, <4>1
    <3>2. CASE k \in 1..n /\ k # i
      BY <2>11, <3>1, <3>2
    <3>3. CASE k = i /\ d # c
      BY <2>1, <2>6, <2>8, <2>11, <3>1, <3>3
    <3>4. CASE k = i /\ d = c
      <4>1. u[k].children[d] = n + 1
        BY <2>6, <2>8, <2>11, <3>4
      <4>2. n + 1 \in DOMAIN u /\ q[k] = p[i]
        BY <2>1, <2>11, <2>13, <3>4
      <4> QED  BY <2>2, <2>13, <3>4, <4>1, <4>2
    <3>5. k # n + 1
      BY <2>5, <2>11
    <3> QED  BY <2>11, <2>14, <3>2, <3>3, <3>4, <3>5
  <2>16. ASSUME NEW j \in DOMAIN u, j # 1 PROVE IsChild(u, j)
    <3>1. CASE j = n + 1
      BY <2>1, <2>6, <2>8, <2>11, <3>1 DEF IsChild
    <3>2. CASE j \in 1..n
      <4>1. PICK k \in DOMAIN t : \E d \in DOMAIN t[k].children : t[k].children[d] = j
        BY <1>1, <2>1, <2>16, <3>2 DEF IsChild
      <4>2. PICK d \in DOMAIN t[k].children : t[k].children[d] = j
        BY <4>1
      <4>3. k = i => d # c
        <5>1. ASSUME k = i, d = c PROVE FALSE
          <6>1. Child(t, i, c) = j /\ j # NULL
            BY <2>1, <3>2, <4>2, <5>1 DEF Child, NULL
          <6> QED  BY <1>2, <1>4, <6>1
        <5> QED  BY <5>1
      <4>4. d \in DOMAIN u[k].children /\ u[k].children[d] = j /\ k \in DOMAIN u
        BY <2>1, <2>6, <2>8, <2>11, <2>13, <4>2, <4>3
      <4> QED  BY <4>4 DEF IsChild
    <3> QED  BY <2>11, <2>14, <3>1, <3>2
  <2>17. ASSUME NEW k \in DOMAIN u
         PROVE  /\ u[k].is_final <=> q[k] \in W
                /\ u[k].is_final => u[k].data = q[k]
    <3>1. CASE k = n + 1
      BY <1>1, <2>3, <2>5, <2>11, <2>13, <3>1
    <3>2. CASE k \in 1..n
      <4>1. u[k].is_final = t[k].is_final /\ u[k].data = t[k].data
        BY <2>8, <2>11, <3>2
      <4> QED  BY <1>1, <2>1, <2>13, <3>2, <4>1
    <3> QED  BY <2>11, <2>14, <3>1, <3>2
  <2>18. ASSUME NEW j \in DOMAIN u, NEW k \in DOMAIN u, q[j] = q[k] PROVE j = k
    BY <1>1, <2>1, <2>3, <2>11, <2>13, <2>14, <2>18
  <2>19. \A w \in W : \E k \in DOMAIN u : q[k] = w
    BY <1>1, <2>1, <2>11, <2>13
  <2>20. 1 \in DOMAIN u /\ q[1] = <<>>
    BY <1>1, <2>1, <2>11, <2>13
  <2>21. IsTrie(u, W, q)
    BY <2>11, <2>13, <2>15, <2>16, <2>17, <2>18, <2>19, <2>20 DEF IsTrie
  <2>22. n + 1 \in DOMAIN u
    BY <2>11
  <2>23. Spells(W, u, n + 1, q, Append(p[i], c))
    BY <2>2, <2>11, <2>13, <2>21, <2>22 DEF Spells
  <2> QED  BY <2>10, <2>23
<1> QED  BY <1>3, <1>4

(* Where the way to a node goes through, there is a node.                  *)
LEMMA WaysArePassed ==
  ASSUME NEW t, NEW W, NEW p, IsTrie(t, W, p), NEW j \in DOMAIN t,
         NEW v \in Words, NEW c \in WordChars, p[j] = Append(v, c)
  PROVE  \E i \in DOMAIN t : p[i] = v
<1>1. /\ t \in Seq(Node) /\ p \in [DOMAIN t -> Words] /\ p[1] = <<>> /\ ChildrenOk(t, p)
      /\ \A k \in DOMAIN t : k # 1 => IsChild(t, k)
  BY DEF IsTrie
<1>2. PICK i \in DOMAIN t : \E d \in DOMAIN t[i].children : t[i].children[d] = j
  BY <1>1, LongerWord DEF IsChild
<1>3. PICK d \in DOMAIN t[i].children : t[i].children[d] = j
  BY <1>2
<1>4. p[j] = Append(p[i], d) /\ p[i] \in Words
  BY <1>1, <1>3 DEF ChildrenOk
<1>5. d \in WordChars
  <2>1. t[i] \in Node
    BY <1>1
  <2> QED  BY <1>3, <2>1 DEF Node
<1>6. Append(p[i], d) = Append(v, c)
  BY <1>4
<1>7. p[i] = v
  BY <1>4, <1>5, <1>6, SameWay, ZenonT(60)
<1> QED  BY <1>7

(* A trie of the words W and a node of it                                  *)
Places(W) ==
  {pl \in [trie : Seq(Node), node : Nat] :
     pl.node \in DOMAIN pl.trie /\ \E p : IsTrie(pl.trie, W, p)}

(* tr_add begins at the root.                                              *)
Root(t) == [trie |-> t, node |-> 1]

(* Where tr_add comes to with a word, and what the trie is then            *)
Walk(t, word) == FoldLeft(Descend, Root(t), word)

(* A place is a trie and a node.                                           *)
LEMMA PlaceOf ==
  ASSUME NEW W, NEW t, NEW p, IsTrie(t, W, p), NEW i \in DOMAIN t
  PROVE  [trie |-> t, node |-> i] \in Places(W)
<1>1. t \in Seq(Node) /\ i \in Nat
  BY DEF IsTrie
<1> QED  BY <1>1 DEF Places

(* Walk goes through the characters.                                       *)
LEMMA WalkFolds ==
  ASSUME NEW W, NEW tree, NEW way, IsTrie(tree, W, way)
  PROVE
  /\ Walk(tree, <<>>) = Root(tree)
  /\ \A s \in Seq(WordChars) : Walk(tree, s) \in Places(W)
  /\ \A s \in Seq(WordChars), c \in WordChars : Walk(tree, Append(s, c)) = Descend(Walk(tree, s), c)
<1>0. Root(tree) \in Places(W) /\ \A u \in Places(W), c \in WordChars : Descend(u, c) \in Places(W)
  <2>1. Root(tree) \in Places(W)
    BY PlaceOf DEF IsTrie, Root
  <2>2. ASSUME NEW u \in Places(W), NEW c \in WordChars PROVE Descend(u, c) \in Places(W)
    <3>1. PICK q : IsTrie(u.trie, W, q) /\ u.node \in DOMAIN u.trie
      BY DEF Places
    <3>2. u = [trie |-> u.trie, node |-> u.node]
      BY DEF Places
    <3>3. \E v, i, r : /\ Descend([trie |-> u.trie, node |-> u.node], c) = [trie |-> v, node |-> i]
                       /\ Spells(W, v, i, r, Append(q[u.node], c))
      BY <3>1, Descending
    <3>4. PICK v, i, r : Descend(u, c) = [trie |-> v, node |-> i] /\ IsTrie(v, W, r) /\ i \in DOMAIN v
      BY <3>2, <3>3 DEF Spells
    <3> QED  BY <3>4, PlaceOf
  <2> QED  BY <2>1, <2>2
<1>1. PICK G : G = [p \in Places(W) \X WordChars |-> Descend(p[1], p[2])]
  OBVIOUS
<1>2. G \in [Places(W) \X WordChars -> Places(W)] /\ \A u \in Places(W), c \in WordChars : G[<<u, c>>] = Descend(u, c)
  BY <1>0, <1>1
<1>3. ASSUME NEW s \in Seq(WordChars), NEW h, IsLoop(Through(Places(W), G, s), Root(tree), Len(s), h)
      PROVE  Walk(tree, s) = h[Len(s)] /\ h[Len(s)] \in Places(W)
  <2> DEFINE Is(it) == it = [t \in SUBSET (DOMAIN s) |->
                IF t = {} THEN Root(tree) ELSE Descend(it[t \ {Max(t)}], s[Max(t)])]
  <2>1. ASSUME NEW t \in SUBSET (DOMAIN s), t # {}, NEW it, it[t \ {Max(t)}] \in Places(W)
        PROVE  G[<<it[t \ {Max(t)}], s[Max(t)]>>] = Descend(it[t \ {Max(t)}], s[Max(t)])
    BY <1>2, <2>1, LargestElement
  <2>2. \E it : Is(it)
    <3>1. PICK it \in [SUBSET (DOMAIN s) -> Places(W)] : IsFold(G, Root(tree), s, it)
      BY <1>0, <1>2, FoldIsDefined
    <3>2. \A t \in SUBSET (DOMAIN s) : it[t \ {Max(t)}] \in Places(W)
      OBVIOUS
    <3>3. Is(it)
      BY <2>1, <3>1, <3>2 DEF IsFold
    <3> QED  BY <3>3
  <2>3. PICK it : it = CHOOSE g : Is(g)
    OBVIOUS
  <2>4. Is(it)
    <3> HIDE DEF Is
    <3> QED  BY <2>2, <2>3
  <2>5. Walk(tree, s) = it[DOMAIN s]
    BY <2>3 DEF Walk, FoldLeft, MapThenFoldSet
  <2>6. Iterates(Places(W), Root(tree), G, s, it)
    BY <2>1, <2>4 DEF Iterates
  <2> QED  BY <1>0, <1>2, <1>3, <2>5, <2>6, FoldEnds
<1>4. PICK X : X = [s \in Seq(WordChars) |-> Walk(tree, s)]
  OBVIOUS
<1>5. Accumulates(Places(W), WordChars, Root(tree), G, X)
  <2>1. IsFoldOver(Places(W), WordChars, Root(tree), G, X)
    BY <1>3, <1>4 DEF IsFoldOver
  <2> QED  BY <1>0, <1>2, <2>1, FoldAppends
<1>6. <<>> \in Seq(WordChars) /\ \A s \in Seq(WordChars), c \in WordChars : Append(s, c) \in Seq(WordChars)
  OBVIOUS
<1>7. ASSUME NEW s \in Seq(WordChars) PROVE X[s] = Walk(tree, s) /\ X[s] \in Places(W)
  BY <1>4, <1>5 DEF Accumulates
<1>8. ASSUME NEW s \in Seq(WordChars), NEW c \in WordChars
      PROVE  Walk(tree, Append(s, c)) = Descend(Walk(tree, s), c)
  <2>1. X[Append(s, c)] = G[<<X[s], c>>]
    BY <1>5 DEF Accumulates
  <2> QED  BY <1>2, <1>6, <1>7, <2>1
<1>9. Walk(tree, <<>>) = Root(tree)
  BY <1>5, <1>6, <1>7 DEF Accumulates
<1> QED  BY <1>7, <1>8, <1>9

(* The way to where tr_add comes is the word.                              *)
LEMMA WalkSpells ==
  ASSUME NEW W, NEW t, NEW p, IsTrie(t, W, p)
  PROVE  \A word \in Words : \E u, i, q :
           Walk(t, word) = [trie |-> u, node |-> i] /\ Spells(W, u, i, q, word)
<1> DEFINE P == {word \in Words : \E u, i, q :
                   Walk(t, word) = [trie |-> u, node |-> i] /\ Spells(W, u, i, q, word)}
<1>1. <<>> \in P
  <2>1. Walk(t, <<>>) = [trie |-> t, node |-> 1]
    BY WalkFolds DEF Root
  <2>2. Spells(W, t, 1, p, <<>>) /\ <<>> \in Words
    BY DEF IsTrie, Words, Spells
  <2> QED  BY <2>1, <2>2
<1>2. ASSUME NEW word \in Seq(WordChars), NEW c \in WordChars, word \in P
      PROVE  Append(word, c) \in P
  <2>1. PICK u, i, q : Walk(t, word) = [trie |-> u, node |-> i] /\ Spells(W, u, i, q, word)
    BY <1>2
  <2>2. PICK v, k, r : /\ Descend([trie |-> u, node |-> i], c) = [trie |-> v, node |-> k]
                       /\ Spells(W, v, k, r, Append(word, c))
    <3>1. IsTrie(u, W, q) /\ i \in DOMAIN u /\ q[i] = word
      BY <2>1 DEF Spells
    <3>2. \E v, k, r : /\ Descend([trie |-> u, node |-> i], c) = [trie |-> v, node |-> k]
                       /\ Spells(W, v, k, r, Append(q[i], c))
      BY <3>1, Descending
    <3> QED  BY <3>1, <3>2
  <2>3. Walk(t, Append(word, c)) = Descend(Walk(t, word), c)
    BY WalkFolds
  <2>4. Walk(t, Append(word, c)) = [trie |-> v, node |-> k]
    BY <2>1, <2>2, <2>3
  <2>5. Append(word, c) \in Words
    BY LongerWord DEF Words
  <2> QED  BY <2>2, <2>4, <2>5
<1>3. \A word \in Words : word \in P
  <2> HIDE DEF P
  <2> QED  BY <1>1, <1>2, Appending DEF Words
<1> QED  BY <1>3

(* tr_add adds the word and no other.                                      *)
LEMMA AddingAWord ==
  ASSUME NEW W, NEW t, NEW p, IsTrie(t, W, p), NEW word \in Words
  PROVE  \E q : IsTrie(Add(t, word, word), W \union {word}, q)
<1>1. PICK u, j, q : Walk(t, word) = [trie |-> u, node |-> j] /\ Spells(W, u, j, q, word)
  BY WalkSpells
<1>2. u \in Seq(Node) /\ j \in DOMAIN u
  BY <1>1 DEF Spells
<1>3. Walk(t, word) = [trie |-> u, node |-> j] /\ IsTrie(u, W, q) /\ q[j] = word
  BY <1>1 DEF Spells
<1>4. PICK v : v = [u EXCEPT ![j].is_final = TRUE, ![j].data = word]
  OBVIOUS
<1>5. Add(t, word, word) = v
  <2>1. PICK end : end = Walk(t, word)
    OBVIOUS
  <2>2. Add(t, word, word)
          = [end.trie EXCEPT ![end.node].is_final = TRUE, ![end.node].data = word]
    BY <2>1 DEF Add, Walk, Root
  <2>3. end.trie = u /\ end.node = j
    BY <1>3, <2>1
  <2> QED  BY <1>4, <2>2, <2>3
<1>6. u[j] \in Node /\ DOMAIN u = 1..Len(u)
  BY <1>2
<1>7. PICK node : node = [[u[j] EXCEPT !.is_final = TRUE] EXCEPT !.data = word]
  OBVIOUS
<1>8. /\ node \in Node /\ node.is_final = TRUE /\ node.data = word
      /\ node.children = u[j].children
  BY <1>6, <1>7 DEF Node, Words
<1>9. v = [u EXCEPT ![j] = node]
  BY <1>2, <1>4, <1>6, <1>7 DEF Node
<1>10. /\ v \in Seq(Node) /\ DOMAIN v = DOMAIN u /\ v[j] = node
       /\ \A k \in DOMAIN u : k # j => v[k] = u[k]
  BY <1>2, <1>8, <1>9
<1>11. \A k \in DOMAIN u : v[k].children = u[k].children
  BY <1>8, <1>10
<1>12. /\ 1 \in DOMAIN u /\ q \in [DOMAIN u -> Words] /\ q[1] = <<>>
       /\ ChildrenOk(u, q) /\ \A i, k \in DOMAIN u : q[i] = q[k] => i = k
       /\ \A k \in DOMAIN u : k # 1 => IsChild(u, k)
       /\ \A k \in DOMAIN u : u[k].is_final <=> q[k] \in W
       /\ \A k \in DOMAIN u : u[k].is_final => u[k].data = q[k]
       /\ \A w \in W : \E k \in DOMAIN u : q[k] = w
  BY <1>3 DEF IsTrie
<1>13. ChildrenOk(v, q) /\ \A k \in DOMAIN v : k # 1 => IsChild(v, k)
  BY <1>10, <1>11, <1>12 DEF ChildrenOk, IsChild
<1>14. ASSUME NEW k \in DOMAIN v
       PROVE  /\ v[k].is_final <=> q[k] \in W \union {word}
              /\ v[k].is_final => v[k].data = q[k]
  <2>1. CASE k = j
    BY <1>3, <1>8, <1>10, <2>1
  <2>2. CASE k # j
    <3>1. k \in DOMAIN u /\ v[k] = u[k]
      BY <1>10, <2>2
    <3>2. q[k] # word
      BY <1>2, <1>3, <1>12, <2>2, <3>1
    <3> QED  BY <1>12, <3>1, <3>2
  <2> QED  BY <2>1, <2>2
<1>15. ASSUME NEW w \in W \union {word} PROVE \E k \in DOMAIN v : q[k] = w
  <2>1. CASE w = word
    BY <1>2, <1>3, <1>10, <2>1
  <2>2. CASE w \in W
    BY <1>10, <1>12, <2>2
  <2> QED  BY <2>1, <2>2
<1>16. IsTrie(v, W \union {word}, q)
  BY <1>10, <1>12, <1>13, <1>14, <1>15 DEF IsTrie
<1> QED  BY <1>5, <1>16

(* The tries of any words, and the one of the words in a sequence          *)
Tries == {t \in Seq(Node) : \E W \in SUBSET Words : \E p : IsTrie(t, W, p)}

(* The trie after all the words have been added                            *)
TrieOf(words) == FoldLeft(LAMBDA trie, word : Add(trie, word, word), EmptyTrie, words)

(* TrieOf goes through the words.                                          *)
LEMMA TrieFolds ==
  /\ TrieOf(<<>>) = EmptyTrie
  /\ \A s \in Seq(Words) : TrieOf(s) \in Tries
  /\ \A s \in Seq(Words), c \in Words : TrieOf(Append(s, c)) = Add(TrieOf(s), c, c)
<1>0. EmptyTrie \in Tries /\ \A u \in Tries, c \in Words : Add(u, c, c) \in Tries
  <2>1. EmptyTrie \in Tries
    BY EmptyIsTrie DEF Tries
  <2>2. ASSUME NEW u \in Tries, NEW c \in Words PROVE Add(u, c, c) \in Tries
    <3>1. PICK W \in SUBSET Words : \E p : IsTrie(u, W, p)
      BY DEF Tries
    <3>2. PICK q : IsTrie(Add(u, c, c), W \union {c}, q)
      BY <3>1, AddingAWord
    <3>3. W \union {c} \in SUBSET Words /\ Add(u, c, c) \in Seq(Node)
      BY <3>2 DEF IsTrie
    <3> QED  BY <3>2, <3>3 DEF Tries
  <2> QED  BY <2>1, <2>2
<1>1. PICK G : G = [p \in Tries \X Words |-> Add(p[1], p[2], p[2])]
  OBVIOUS
<1>2. G \in [Tries \X Words -> Tries] /\ \A u \in Tries, c \in Words : G[<<u, c>>] = Add(u, c, c)
  BY <1>0, <1>1
<1>3. ASSUME NEW s \in Seq(Words), NEW h, IsLoop(Through(Tries, G, s), EmptyTrie, Len(s), h)
      PROVE  TrieOf(s) = h[Len(s)] /\ h[Len(s)] \in Tries
  <2> DEFINE Is(it) == it = [t \in SUBSET (DOMAIN s) |->
                IF t = {} THEN EmptyTrie ELSE Add(it[t \ {Max(t)}], s[Max(t)], s[Max(t)])]
  <2>1. ASSUME NEW t \in SUBSET (DOMAIN s), t # {}, NEW it, it[t \ {Max(t)}] \in Tries
        PROVE  G[<<it[t \ {Max(t)}], s[Max(t)]>>] = Add(it[t \ {Max(t)}], s[Max(t)], s[Max(t)])
    BY <1>2, <2>1, LargestElement
  <2>2. \E it : Is(it)
    <3>1. PICK it \in [SUBSET (DOMAIN s) -> Tries] : IsFold(G, EmptyTrie, s, it)
      BY <1>0, <1>2, FoldIsDefined
    <3>2. \A t \in SUBSET (DOMAIN s) : it[t \ {Max(t)}] \in Tries
      OBVIOUS
    <3>3. Is(it)
      BY <2>1, <3>1, <3>2 DEF IsFold
    <3> QED  BY <3>3
  <2>3. PICK it : it = CHOOSE g : Is(g)
    OBVIOUS
  <2>4. Is(it)
    <3> HIDE DEF Is
    <3> QED  BY <2>2, <2>3
  <2>5. TrieOf(s) = it[DOMAIN s]
    BY <2>3 DEF TrieOf, FoldLeft, MapThenFoldSet
  <2>6. Iterates(Tries, EmptyTrie, G, s, it)
    BY <2>1, <2>4 DEF Iterates
  <2> QED  BY <1>0, <1>2, <1>3, <2>5, <2>6, FoldEnds
<1>4. PICK X : X = [s \in Seq(Words) |-> TrieOf(s)]
  OBVIOUS
<1>5. Accumulates(Tries, Words, EmptyTrie, G, X)
  <2>1. IsFoldOver(Tries, Words, EmptyTrie, G, X)
    BY <1>3, <1>4 DEF IsFoldOver
  <2> QED  BY <1>0, <1>2, <2>1, FoldAppends
<1>6. <<>> \in Seq(Words) /\ \A s \in Seq(Words), c \in Words : Append(s, c) \in Seq(Words)
  OBVIOUS
<1>7. ASSUME NEW s \in Seq(Words) PROVE X[s] = TrieOf(s) /\ X[s] \in Tries
  BY <1>4, <1>5 DEF Accumulates
<1>8. ASSUME NEW s \in Seq(Words), NEW c \in Words
      PROVE  TrieOf(Append(s, c)) = Add(TrieOf(s), c, c)
  <2>1. X[Append(s, c)] = G[<<X[s], c>>]
    BY <1>5 DEF Accumulates
  <2> QED  BY <1>2, <1>6, <1>7, <2>1
<1>9. TrieOf(<<>>) = EmptyTrie
  BY <1>5, <1>6, <1>7 DEF Accumulates
<1> QED  BY <1>7, <1>8, <1>9

(* It is the trie of all of them.                                          *)
LEMMA TrieOfWords == \A words \in Seq(Words) : \E p : IsTrie(TrieOf(words), Range(words), p)
<1> DEFINE P == {words \in Seq(Words) : \E p : IsTrie(TrieOf(words), Range(words), p)}
<1>1. <<>> \in P
  <2>1. Range(<<>>) = {} /\ <<>> \in Seq(Words)
    BY DEF Range
  <2>2. TrieOf(<<>>) = EmptyTrie
    BY TrieFolds
  <2> QED  BY <2>1, <2>2, EmptyIsTrie
<1>2. ASSUME NEW words \in Seq(Words), NEW c \in Words, words \in P
      PROVE  Append(words, c) \in P
  <2>1. PICK p : IsTrie(TrieOf(words), Range(words), p)
    BY <1>2
  <2>2. PICK q : IsTrie(Add(TrieOf(words), c, c), Range(words) \union {c}, q)
    BY <2>1, AddingAWord
  <2>3. TrieOf(Append(words, c)) = Add(TrieOf(words), c, c)
    BY TrieFolds
  <2>4. Append(words, c) \in Seq(Words)
    OBVIOUS
  <2>5. Range(Append(words, c)) = Range(words) \union {c}
    <3>1. PICK n \in Nat : n = Len(words) /\ DOMAIN words = 1..n
      OBVIOUS
    <3>2. PICK w : w = Append(words, c)
      OBVIOUS
    <3>3. DOMAIN w = 1..(n + 1) /\ w[n + 1] = c /\ \A k \in 1..n : w[k] = words[k]
      BY <3>1, <3>2
    <3>4. \A k \in 1..(n + 1) : k \in 1..n \/ k = n + 1
      OBVIOUS
    <3>5. \A k \in 1..n : k \in 1..(n + 1)
      OBVIOUS
    <3>6. n + 1 \in 1..(n + 1)
      OBVIOUS
    <3>7. Range(w) = Range(words) \union {c}
      BY <3>1, <3>3, <3>4, <3>5, <3>6 DEF Range
    <3> QED  BY <3>2, <3>7
  <2> QED  BY <2>2, <2>3, <2>4, <2>5
<1>3. \A words \in Seq(Words) : words \in P
  <2> HIDE DEF P
  <2> QED  BY <1>1, <1>2, Appending
<1> QED  BY <1>3

(* Where tr_find comes to with a word                                      *)
Nodes(t) == DOMAIN t \union {NULL}

(* The node tr_find reaches                                                *)
Reached(t, word) == FoldLeft(LAMBDA node, c : Child(t, node, c), 1, word)

(* Reached goes through the characters.                                    *)
LEMMA ReachedFolds ==
  ASSUME NEW W, NEW tree, NEW way, IsTrie(tree, W, way)
  PROVE
  /\ Reached(tree, <<>>) = 1
  /\ \A s \in Seq(WordChars) : Reached(tree, s) \in Nodes(tree)
  /\ \A s \in Seq(WordChars), c \in WordChars : Reached(tree, Append(s, c)) = Child(tree, Reached(tree, s), c)
<1>0. 1 \in Nodes(tree) /\ \A u \in Nodes(tree), c \in WordChars : Child(tree, u, c) \in Nodes(tree)
  <2>1. 1 \in Nodes(tree)
    BY DEF IsTrie, Nodes
  <2>2. ASSUME NEW u \in Nodes(tree), NEW c \in WordChars PROVE Child(tree, u, c) \in Nodes(tree)
    <3>1. CASE u = NULL
      BY <3>1 DEF Child, Nodes
    <3>2. CASE u \in DOMAIN tree
      BY <3>2, ChildIsNext DEF Nodes
    <3> QED  BY <3>1, <3>2 DEF Nodes
  <2> QED  BY <2>1, <2>2
<1>1. PICK G : G = [p \in Nodes(tree) \X WordChars |-> Child(tree, p[1], p[2])]
  OBVIOUS
<1>2. G \in [Nodes(tree) \X WordChars -> Nodes(tree)] /\ \A u \in Nodes(tree), c \in WordChars : G[<<u, c>>] = Child(tree, u, c)
  BY <1>0, <1>1
<1>3. ASSUME NEW s \in Seq(WordChars), NEW h, IsLoop(Through(Nodes(tree), G, s), 1, Len(s), h)
      PROVE  Reached(tree, s) = h[Len(s)] /\ h[Len(s)] \in Nodes(tree)
  <2> DEFINE Is(it) == it = [t \in SUBSET (DOMAIN s) |->
                IF t = {} THEN 1 ELSE Child(tree, it[t \ {Max(t)}], s[Max(t)])]
  <2>1. ASSUME NEW t \in SUBSET (DOMAIN s), t # {}, NEW it, it[t \ {Max(t)}] \in Nodes(tree)
        PROVE  G[<<it[t \ {Max(t)}], s[Max(t)]>>] = Child(tree, it[t \ {Max(t)}], s[Max(t)])
    BY <1>2, <2>1, LargestElement
  <2>2. \E it : Is(it)
    <3>1. PICK it \in [SUBSET (DOMAIN s) -> Nodes(tree)] : IsFold(G, 1, s, it)
      BY <1>0, <1>2, FoldIsDefined
    <3>2. \A t \in SUBSET (DOMAIN s) : it[t \ {Max(t)}] \in Nodes(tree)
      OBVIOUS
    <3>3. Is(it)
      BY <2>1, <3>1, <3>2 DEF IsFold
    <3> QED  BY <3>3
  <2>3. PICK it : it = CHOOSE g : Is(g)
    OBVIOUS
  <2>4. Is(it)
    <3> HIDE DEF Is
    <3> QED  BY <2>2, <2>3
  <2>5. Reached(tree, s) = it[DOMAIN s]
    BY <2>3 DEF Reached, FoldLeft, MapThenFoldSet
  <2>6. Iterates(Nodes(tree), 1, G, s, it)
    BY <2>1, <2>4 DEF Iterates
  <2> QED  BY <1>0, <1>2, <1>3, <2>5, <2>6, FoldEnds
<1>4. PICK X : X = [s \in Seq(WordChars) |-> Reached(tree, s)]
  OBVIOUS
<1>5. Accumulates(Nodes(tree), WordChars, 1, G, X)
  <2>1. IsFoldOver(Nodes(tree), WordChars, 1, G, X)
    BY <1>3, <1>4 DEF IsFoldOver
  <2> QED  BY <1>0, <1>2, <2>1, FoldAppends
<1>6. <<>> \in Seq(WordChars) /\ \A s \in Seq(WordChars), c \in WordChars : Append(s, c) \in Seq(WordChars)
  OBVIOUS
<1>7. ASSUME NEW s \in Seq(WordChars) PROVE X[s] = Reached(tree, s) /\ X[s] \in Nodes(tree)
  BY <1>4, <1>5 DEF Accumulates
<1>8. ASSUME NEW s \in Seq(WordChars), NEW c \in WordChars
      PROVE  Reached(tree, Append(s, c)) = Child(tree, Reached(tree, s), c)
  <2>1. X[Append(s, c)] = G[<<X[s], c>>]
    BY <1>5 DEF Accumulates
  <2> QED  BY <1>2, <1>6, <1>7, <2>1
<1>9. Reached(tree, <<>>) = 1
  BY <1>5, <1>6, <1>7 DEF Accumulates
<1> QED  BY <1>7, <1>8, <1>9

(* tr_find finds the words of the trie and no other.                       *)
LEMMA FindingAWord ==
  ASSUME NEW W, NEW t, NEW p, IsTrie(t, W, p), NEW word \in Words
  PROVE  /\ word \in W => Find(t, word) # NULL /\ t[Find(t, word)].data = word
         /\ word \notin W => Find(t, word) = NULL
<1> DEFINE P == {w \in Words : /\ Reached(t, w) # NULL => p[Reached(t, w)] = w
                               /\ Reached(t, w) = NULL => \A j \in DOMAIN t : p[j] # w}
<1>1. /\ t \in Seq(Node) /\ p \in [DOMAIN t -> Words] /\ 1 \in DOMAIN t /\ p[1] = <<>>
      /\ \A i, j \in DOMAIN t : p[i] = p[j] => i = j
      /\ \A j \in DOMAIN t : t[j].is_final <=> p[j] \in W
      /\ \A j \in DOMAIN t : t[j].is_final => t[j].data = p[j]
      /\ \A w \in W : \E j \in DOMAIN t : p[j] = w
  BY DEF IsTrie
<1>2. <<>> \in P
  <2>1. Reached(t, <<>>) = 1 /\ <<>> \in Words /\ 1 # NULL
    BY ReachedFolds DEF Words, NULL
  <2> QED  BY <1>1, <2>1
<1>3. ASSUME NEW w \in Seq(WordChars), NEW c \in WordChars, w \in P
      PROVE  Append(w, c) \in P
  <2>1. w \in Words /\ Append(w, c) \in Words
    BY LongerWord DEF Words
  <2>2. PICK i : i = Reached(t, w)
    OBVIOUS
  <2>3. i \in Nodes(t) /\ Reached(t, Append(w, c)) = Child(t, i, c)
    BY <2>2, ReachedFolds
  <2>4. CASE i = NULL
    <3>1. Child(t, i, c) = NULL
      BY <2>4 DEF Child
    <3>2. ASSUME NEW j \in DOMAIN t, p[j] = Append(w, c) PROVE FALSE
      <4>1. \E k \in DOMAIN t : p[k] = w
        BY <2>1, <3>2, WaysArePassed
      <4> QED  BY <1>3, <2>2, <2>4, <4>1
    <3> QED  BY <2>1, <2>3, <3>1, <3>2
  <2>5. CASE i # NULL
    <3>1. i \in DOMAIN t /\ p[i] = w
      BY <1>3, <2>2, <2>3, <2>5 DEF Nodes
    <3>2. /\ Child(t, i, c) # NULL => p[Child(t, i, c)] = Append(w, c)
          /\ Child(t, i, c) = NULL => \A j \in DOMAIN t : p[j] # Append(w, c)
      BY <3>1, ChildIsNext
    <3> QED  BY <2>1, <2>3, <3>2
  <2> QED  BY <2>4, <2>5
<1>4. word \in P
  <2> HIDE DEF P
  <2> QED  BY <1>2, <1>3, Appending DEF Words
<1>5. PICK i : i = Reached(t, word)
  OBVIOUS
<1>6. i \in Nodes(t)
  BY <1>5, ReachedFolds DEF Words
<1>7. Find(t, word) = IF i # NULL /\ t[i].is_final THEN i ELSE NULL
  BY <1>5 DEF Find, Reached
<1>8. CASE i = NULL
  BY <1>1, <1>4, <1>5, <1>7, <1>8
<1>9. CASE i # NULL
  <2>1. i \in DOMAIN t /\ p[i] = word
    BY <1>4, <1>5, <1>6, <1>9 DEF Nodes
  <2> QED  BY <1>1, <1>7, <1>9, <2>1
<1> QED  BY <1>8, <1>9

(* A word is a keyword as a whole or an identifier: tr_find answers for    *)
(* every word of whatever length with the keyword it was given, or not at  *)
(* all.                                                                    *)
THEOREM KeywordsAreFound ==
  \A word \in Words : TypeOfWord(word) = IF word \in Range(Keywords) THEN word ELSE T_IDENT
<1> SUFFICES ASSUME NEW word \in Words
             PROVE  TypeOfWord(word) = IF word \in Range(Keywords) THEN word ELSE T_IDENT
  OBVIOUS
<1>1. keywords = TrieOf(Keywords) /\ Keywords \in Seq(Words)
  BY KeywordsAssumption DEF keywords, TrieOf, Words, KeywordsAssumption
<1>2. PICK p : IsTrie(keywords, Range(Keywords), p)
  BY <1>1, TrieOfWords
<1> QED  BY <1>2, FindingAWord DEF TypeOfWord

-----------------------------------------------------------------------------
(* Texts and their parts *)

(* u goes on where t ends.                                                 *)
Extends(u, t) ==
  /\ t \in Seq(Chars) /\ u \in Seq(Chars)
  /\ Len(t) <= Len(u)
  /\ \A i \in 1..Len(t) : u[i] = t[i]

(* A part of a text is a sequence of its characters.                       *)
LEMMA PartOfText ==
  ASSUME NEW t \in Seq(Chars), NEW i \in Nat \ {0}, NEW k \in Nat, k <= Len(t)
  PROVE  /\ SubSeq(t, i, k) \in Seq(Chars)
         /\ Len(SubSeq(t, i, k)) = IF i <= k THEN k - i + 1 ELSE 0
         /\ \A j \in 1..(k - i + 1) : SubSeq(t, i, k)[j] = t[i + j - 1]
<1>1. \A j \in i..k : t[j] \in Chars
  OBVIOUS
<1> QED
  BY <1>1, SubSeqProperties

(* What has been read stays as it is.                                      *)
LEMMA PartStays ==
  ASSUME NEW t, NEW u, Extends(u, t), NEW i \in Nat \ {0}, NEW k \in Nat, k <= Len(t)
  PROVE  SubSeq(u, i, k) = SubSeq(t, i, k)
<1>1. t \in Seq(Chars) /\ u \in Seq(Chars) /\ Len(t) \in Nat /\ Len(u) \in Nat /\ k <= Len(u)
  BY DEF Extends
<1>2. SubSeq(t, i, k) \in Seq(Chars) /\ SubSeq(u, i, k) \in Seq(Chars)
  BY <1>1, PartOfText
<1>3. Len(SubSeq(t, i, k)) = Len(SubSeq(u, i, k))
  BY <1>1, PartOfText
<1>4. \A j \in 1..(k - i + 1) : SubSeq(u, i, k)[j] = SubSeq(t, i, k)[j]
  <2> TAKE j \in 1..(k - i + 1)
  <2>1. SubSeq(u, i, k)[j] = u[i + j - 1] /\ SubSeq(t, i, k)[j] = t[i + j - 1]
    BY <1>1, PartOfText
  <2>2. i + j - 1 \in 1..Len(t)
    BY <1>1
  <2> QED
    BY <2>1, <2>2 DEF Extends
<1>5. \A j \in 1..Len(SubSeq(u, i, k)) : SubSeq(u, i, k)[j] = SubSeq(t, i, k)[j]
  <2>1. Len(SubSeq(u, i, k)) = IF i <= k THEN k - i + 1 ELSE 0
    BY <1>1, PartOfText
  <2>2. 1..Len(SubSeq(u, i, k)) \subseteq 1..(k - i + 1)
    BY <1>1, <2>1
  <2> QED
    BY <1>4, <2>2
<1> QED
  BY <1>2, <1>3, <1>5, SeqEqual

(* One more character.                                                     *)
LEMMA PartGrows ==
  ASSUME NEW t \in Seq(Chars), NEW i \in Nat \ {0}, NEW k \in Nat, i <= k + 1, k < Len(t)
  PROVE  SubSeq(t, i, k + 1) = Append(SubSeq(t, i, k), t[k + 1])
<1>1. Len(t) \in Nat /\ i \in 1..Len(t) /\ k + 1 \in i..Len(t) /\ t[k + 1] \in Chars /\ (k + 1) - 1 = k
  OBVIOUS
<1>2. SubSeq(t, i, k + 1) = SubSeq(t, i, (k + 1) - 1) \o <<t[k + 1]>>
  BY <1>1, SubSeqRecursiveSecond
<1>3. SubSeq(t, i, k) \in Seq(Chars)
  BY <1>1, PartOfText
<1> QED
  BY <1>1, <1>2, <1>3, AppendIsConcat

(* A part of one character                                                 *)
LEMMA OneCharacter ==
  ASSUME NEW t \in Seq(Chars), NEW i \in 1..Len(t)
  PROVE  SubSeq(t, i, i) = <<t[i]>>
<1>1. i \in Nat \ {0} /\ i - 1 \in Nat /\ (i - 1) + 1 = i /\ Len(t) \in Nat
  OBVIOUS
<1>2. SubSeq(t, i, (i - 1) + 1) = Append(SubSeq(t, i, i - 1), t[(i - 1) + 1])
  BY <1>1, PartGrows
<1>3. SubSeq(t, i, i - 1) = <<>>
  BY <1>1, SubSeqEmpty
<1>4. (i - 1) + 1 = i
  BY <1>1
<1>5. SubSeq(t, i, i) = Append(<<>>, t[i])
  BY <1>2, <1>3, <1>4, Zenon
<1> QED
  BY <1>5

(* A part of a part                                                        *)
LEMMA PartOfPart ==
  ASSUME NEW t \in Seq(Chars), NEW i \in Nat \ {0}, NEW k \in Nat, i <= k, k <= Len(t),
         NEW m \in 1..(k - i + 1), NEW n \in 1..(k - i + 1)
  PROVE  SubSeq(SubSeq(t, i, k), m, n) = SubSeq(t, i + m - 1, i + n - 1)
<1>1. Len(t) \in Nat /\ i \in 1..Len(t) /\ k \in 1..Len(t)
  OBVIOUS
<1> QED
  BY <1>1, SubSeqOfSubSeq

-----------------------------------------------------------------------------
(* Comments *)

(* The stars at the end of the first k characters                          *)
StarsUpTo(s, k) == {i \in 1..k : \A j \in i..k : s[j] = "*"}

(* Nothing ends with no star.                                              *)
LEMMA NoStars == Stars(<<>>, 0) = 0
<1>1. StarsUpTo(<<>>, 0) = {}
  BY DEF StarsUpTo
<1> QED
  BY <1>1, FS_EmptySet DEF Stars, StarsUpTo

(* A star adds one, any other character ends the count.                    *)
LEMMA StarsAtTheEnd ==
  ASSUME NEW s \in Seq(Chars), NEW c \in Chars
  PROVE  /\ Stars(s, Len(s)) \in Nat
         /\ c = "*" => Stars(Append(s, c), Len(s) + 1) = Stars(s, Len(s)) + 1
         /\ c # "*" => Stars(Append(s, c), Len(s) + 1) = 0
<1> DEFINE n == Len(s)
           u == Append(s, c)
<1>1. n \in Nat /\ u[n + 1] = c /\ \A i \in 1..n : u[i] = s[i]
  OBVIOUS
<1> HIDE DEF u, n
<1>2. IsFiniteSet(StarsUpTo(s, n)) /\ Cardinality(StarsUpTo(s, n)) \in Nat
  <2>1. IsFiniteSet(1..n) /\ StarsUpTo(s, n) \subseteq 1..n
    BY <1>1, FS_Interval DEF StarsUpTo
  <2> QED
    BY <2>1, FS_Subset, FS_CardinalityType
<1>4. ASSUME c = "*" PROVE Cardinality(StarsUpTo(u, n + 1)) = Cardinality(StarsUpTo(s, n)) + 1
  <2>1. StarsUpTo(u, n + 1) = StarsUpTo(s, n) \union {n + 1}
    BY <1>1, <1>4 DEF StarsUpTo
  <2>2. n + 1 \notin StarsUpTo(s, n)
    BY <1>1 DEF StarsUpTo
  <2> QED
    BY <1>2, <2>1, <2>2, FS_AddElement
<1>5. ASSUME c # "*" PROVE StarsUpTo(u, n + 1) = {}
  BY <1>1, <1>5 DEF StarsUpTo
<1> QED
  BY <1>2, <1>4, <1>5, FS_EmptySet DEF Stars, StarsUpTo, u, n

(* A line comment without its end                                          *)
OpenLine(s) ==
  /\ s # <<>> /\ (s[1] = "#" \/ (Len(s) > 1 /\ s[1] = "/" /\ s[2] = "/"))
  /\ \A k \in 1..Len(s) : s[k] # NL

(* A block comment without its end, behind an even or an odd number of     *)
(* stars                                                                   *)
OpenBlock(s, odd) ==
  /\ Len(s) >= 2 /\ s[1] = "/" /\ s[2] = "*"
  /\ \A k \in 4..Len(s) : ~EndsBlock(s, k)
  /\ Stars(SubSeq(s, 3, Len(s)), Len(s) - 2) % 2 = odd

(* A line comment begins with # or with two slashes.                       *)
LEMMA LineCommentBegins ==
  ASSUME NEW s \in Seq(Chars), s = <<"#">> \/ s = <<"/", "/">>
  PROVE  OpenLine(s)
BY DEF OpenLine, NL

(* It ends at the end of the line, or of the text.                         *)
LEMMA LineCommentGoesOn ==
  ASSUME NEW s \in Seq(Chars), NEW c \in Chars, OpenLine(s)
  PROVE  /\ c # NL => OpenLine(Append(s, c))
         /\ c = NL => IsLineComment(Append(s, c), FALSE)
         /\ IsLineComment(s, TRUE)
<1>1. /\ Len(s) \in Nat /\ Len(s) > 0 /\ Append(s, c) # <<>>
      /\ Len(Append(s, c)) = Len(s) + 1 /\ Append(s, c)[Len(s) + 1] = c
      /\ \A i \in 1..Len(s) : Append(s, c)[i] = s[i]
  BY DEF OpenLine
<1> HIDE DEF NL
<1> QED
  BY <1>1 DEF OpenLine, IsLineComment

(* A block comment begins with a slash and a star.                         *)
LEMMA BlockCommentBegins ==
  ASSUME NEW s \in Seq(Chars), s = <<"/", "*">>
  PROVE  OpenBlock(s, 0)
<1>1. Len(s) = 2 /\ Len(s) - 2 = 0 /\ s[1] = "/" /\ s[2] = "*" /\ 4..Len(s) = {}
  OBVIOUS
<1>2. SubSeq(s, 3, 2) = <<>>
  BY SubSeqEmpty
<1>3. Stars(SubSeq(s, 3, Len(s)), Len(s) - 2) = 0
  BY <1>1, <1>2, NoStars, Zenon
<1> QED
  BY <1>1, <1>3 DEF OpenBlock

(* What a block comment is behind its first two characters                 *)
LEMMA InsideBlock ==
  ASSUME NEW s \in Seq(Chars), NEW c \in Chars, Len(s) >= 2
  PROVE  LET inside == SubSeq(s, 3, Len(s))
             u      == Append(s, c)
         IN  /\ inside \in Seq(Chars) /\ Len(inside) = Len(s) - 2
             /\ SubSeq(u, 3, Len(u)) = Append(inside, c)
             /\ SubSeq(u, 3, Len(u) - 1) = inside
             /\ Len(u) = Len(s) + 1 /\ u[Len(u)] = c
             /\ \A i \in 1..Len(s) : u[i] = s[i]
             /\ \A k \in 4..Len(s) : EndsBlock(u, k) <=> EndsBlock(s, k)
<1> DEFINE u == Append(s, c)
<1>1. /\ u \in Seq(Chars) /\ Len(s) \in Nat /\ Len(u) = Len(s) + 1 /\ u[Len(u)] = c
      /\ \A i \in 1..Len(s) : u[i] = s[i]
  OBVIOUS
<1> HIDE DEF u
<1>2. Extends(u, s)
  BY <1>1 DEF Extends
<1>3. SubSeq(s, 3, Len(s)) \in Seq(Chars) /\ Len(SubSeq(s, 3, Len(s))) = Len(s) - 2
  <2>1. 3 \in Nat \ {0} /\ Len(s) \in Nat /\ Len(s) <= Len(s)
    BY <1>1
  <2>2. /\ SubSeq(s, 3, Len(s)) \in Seq(Chars)
        /\ Len(SubSeq(s, 3, Len(s))) = IF 3 <= Len(s) THEN Len(s) - 3 + 1 ELSE 0
    BY <2>1, PartOfText
  <2>3. \A n \in Nat : n >= 2 => (IF 3 <= n THEN n - 3 + 1 ELSE 0) = n - 2
    OBVIOUS
  <2> QED
    BY <2>1, <2>2, <2>3
<1>4. SubSeq(u, 3, Len(s)) = SubSeq(s, 3, Len(s))
  BY <1>1, <1>2, PartStays
<1>5. SubSeq(u, 3, Len(s) + 1) = Append(SubSeq(u, 3, Len(s)), u[Len(s) + 1])
  <2>1. 3 \in Nat \ {0} /\ Len(s) \in Nat /\ 3 <= Len(s) + 1 /\ Len(s) < Len(u)
    BY <1>1
  <2> QED
    BY <1>1, <2>1, PartGrows
<1>6. \A k \in 4..Len(s) : EndsBlock(u, k) <=> EndsBlock(s, k)
  <2> TAKE k \in 4..Len(s)
  <2>1. SubSeq(u, 3, k - 1) = SubSeq(s, 3, k - 1) /\ u[k] = s[k]
    BY <1>1, <1>2, PartStays
  <2> QED
    BY <2>1 DEF EndsBlock
<1>7. Len(u) - 1 = Len(s)
  BY <1>1
<1> QED
  BY <1>1, <1>3, <1>4, <1>5, <1>6, <1>7 DEF u

(* The slash behind an odd number of stars ends it, and nothing else.      *)
LEMMA BlockCommentGoesOn ==
  ASSUME NEW s \in Seq(Chars), NEW c \in Chars, NEW odd \in {0, 1}, OpenBlock(s, odd)
  PROVE  /\ odd = 1 /\ c = "/" => IsBlockComment(Append(s, c))
         /\ odd = 1 /\ c # "/" => OpenBlock(Append(s, c), 0)
         /\ odd = 0 => OpenBlock(Append(s, c), IF c = "*" THEN 1 ELSE 0)
<1> DEFINE u == Append(s, c)
           inside == SubSeq(s, 3, Len(s))
<1>1. /\ Len(s) \in Nat /\ Len(s) >= 2 /\ s[1] = "/" /\ s[2] = "*"
      /\ \A k \in 4..Len(s) : ~EndsBlock(s, k)
      /\ Stars(inside, Len(s) - 2) % 2 = odd
  BY DEF OpenBlock
<1>2. /\ inside \in Seq(Chars) /\ Len(inside) = Len(s) - 2
      /\ SubSeq(u, 3, Len(u)) = Append(inside, c)
      /\ SubSeq(u, 3, Len(u) - 1) = inside
      /\ Len(u) = Len(s) + 1 /\ u[Len(u)] = c
      /\ \A i \in 1..Len(s) : u[i] = s[i]
      /\ \A k \in 4..Len(s) : EndsBlock(u, k) <=> EndsBlock(s, k)
  BY <1>1, InsideBlock
<1> HIDE DEF u, inside
<1>3. Stars(inside, Len(s) - 2) \in Nat
  BY <1>2, StarsAtTheEnd
<1>4. /\ c = "*" => Stars(Append(inside, c), Len(s) - 1) = Stars(inside, Len(s) - 2) + 1
      /\ c # "*" => Stars(Append(inside, c), Len(s) - 1) = 0
  <2>1. Len(inside) + 1 = Len(s) - 1
    BY <1>1, <1>2
  <2> QED
    BY <1>2, <2>1, StarsAtTheEnd
<1>5. Len(s) >= 3 => (EndsBlock(u, Len(u)) <=> c = "/" /\ odd = 1)
  <2>1. EndsBlock(u, Len(u)) <=> c = "/" /\ Stars(inside, Len(u) - 3) % 2 = 1
    BY <1>2 DEF EndsBlock
  <2>2. Len(u) - 3 = Len(s) - 2
    BY <1>1, <1>2
  <2> QED
    BY <1>1, <2>1, <2>2
<1>6. odd = 1 => Len(s) >= 3
  <2>1. ASSUME Len(s) = 2 PROVE odd = 0
    <3>1. inside = <<>> /\ Len(s) - 2 = 0
      BY <1>2, <2>1
    <3>2. Stars(inside, Len(s) - 2) = 0
      BY <3>1, NoStars, Zenon
    <3> QED
      BY <1>1, <3>2
  <2>2. \A n \in Nat : n >= 2 => n = 2 \/ n >= 3
    OBVIOUS
  <2> QED
    BY <1>1, <2>1, <2>2
<1>7. u[1] = "/" /\ u[2] = "*" /\ Len(u) \in Nat /\ Len(u) >= 3
  BY <1>1, <1>2
<1>8. \A k \in 4..(Len(u) - 1) : ~EndsBlock(u, k)
  BY <1>1, <1>2
<1>9. ASSUME odd = 1, c = "/" PROVE IsBlockComment(u)
  BY <1>1, <1>2, <1>5, <1>6, <1>7, <1>8, <1>9 DEF IsBlockComment
<1>10. ~(odd = 1 /\ c = "/") => \A k \in 4..Len(u) : ~EndsBlock(u, k)
  BY <1>1, <1>2, <1>5, <1>8
<1>11. c = "*" => Stars(Append(inside, c), Len(s) - 1) % 2 = 1 - odd
  BY <1>1, <1>3, <1>4, SMTT(40)
<1>12. c # "*" => Stars(Append(inside, c), Len(s) - 1) % 2 = 0
  BY <1>4
<1>13. SubSeq(u, 3, Len(u)) = Append(inside, c) /\ Len(u) - 2 = Len(s) - 1
  BY <1>1, <1>2
<1>a. Stars(SubSeq(u, 3, Len(u)), Len(u) - 2) = Stars(Append(inside, c), Len(s) - 1)
  BY <1>13, Zenon
<1>14. ASSUME odd = 1, c # "/" PROVE OpenBlock(u, 0)
  BY <1>7, <1>10, <1>11, <1>12, <1>a, <1>14 DEF OpenBlock
<1>15. ASSUME odd = 0 PROVE OpenBlock(u, IF c = "*" THEN 1 ELSE 0)
  BY <1>7, <1>10, <1>11, <1>12, <1>a, <1>15 DEF OpenBlock
<1> QED
  BY <1>9, <1>14, <1>15 DEF u

-----------------------------------------------------------------------------
(* What lies between two tokens *)

(* A space or a comment from i to k                                        *)
IsPart(t, i, k, isLast) ==
  \/ i = k /\ t[i] \in Spaces
  \/ IsBlockComment(SubSeq(t, i, k))
  \/ IsLineComment(SubSeq(t, i, k), isLast)

(* At every place of C there is a space or a comment, up to the next one,  *)
(* or to k.                                                                *)
AreCuts(t, k, isLast, C) ==
  \A i \in C : i = k + 1 \/ \E m \in i..k : IsPart(t, i, m, isLast /\ m = k) /\ m + 1 \in C

(* From i to k there are only spaces and comments.                         *)
Blank(t, i, k, isLast) ==
  \E C \in SUBSET (i..(k + 1)) : i \in C /\ AreCuts(t, k, isLast, C)

(* A part is one at the end of the text, too.                              *)
LEMMA PartAtTheEnd ==
  ASSUME NEW t, NEW i, NEW k, NEW a, NEW b, IsPart(t, i, k, a), a => b
  PROVE  IsPart(t, i, k, b)
BY DEF IsPart, IsLineComment

(* Between two tokens there may be nothing.                                *)
LEMMA NothingIsBlank ==
  ASSUME NEW t, NEW k \in Nat, NEW isLast
  PROVE  Blank(t, k + 1, k, isLast)
<1>1. {k + 1} \in SUBSET ((k + 1)..(k + 1)) /\ k + 1 \in {k + 1}
  OBVIOUS
<1>2. AreCuts(t, k, isLast, {k + 1})
  BY DEF AreCuts
<1> QED
  BY <1>1, <1>2 DEF Blank

(* Another space or comment                                                *)
LEMMA BlankGoesOn ==
  ASSUME NEW t, NEW i \in Nat \ {0}, NEW k \in Nat, i <= k + 1, Blank(t, i, k, FALSE),
         NEW m \in Nat, k < m, NEW isLast, IsPart(t, k + 1, m, isLast)
  PROVE  Blank(t, i, m, isLast)
<1>1. PICK C \in SUBSET (i..(k + 1)) : i \in C /\ AreCuts(t, k, FALSE, C)
  BY DEF Blank
<1>2. C \union {m + 1} \in SUBSET (i..(m + 1))
  OBVIOUS
<1>3. ASSUME NEW x \in C \union {m + 1}
      PROVE  x = m + 1 \/ \E n \in x..m : /\ IsPart(t, x, n, isLast /\ n = m)
                                          /\ n + 1 \in C \union {m + 1}
  <2>1. CASE x = m + 1
    BY <2>1
  <2>2. CASE x = k + 1
    <3>1. m \in x..m /\ m + 1 \in C \union {m + 1}
      BY <2>2
    <3>3. IsPart(t, x, m, isLast /\ m = m)
      BY <2>2 DEF IsPart, IsLineComment
    <3> QED
      BY <3>1, <3>3
  <2>3. CASE x \in C /\ x # k + 1
    <3>1. PICK n \in x..k : IsPart(t, x, n, FALSE /\ n = k) /\ n + 1 \in C
      BY <1>1, <2>3 DEF AreCuts
    <3>2. n \in x..m
      BY <1>1, <2>3
    <3>3. IsPart(t, x, n, isLast /\ n = m)
      BY <3>1, PartAtTheEnd
    <3> QED
      BY <3>1, <3>2, <3>3
  <2> QED
    BY <2>1, <2>2, <2>3
<1>4. AreCuts(t, m, isLast, C \union {m + 1})
  BY <1>3 DEF AreCuts
<1> QED
  BY <1>1, <1>2, <1>4 DEF Blank

(* What is blank is blank at the end of the text, too.                     *)
LEMMA BlankAtTheEnd ==
  ASSUME NEW t, NEW i, NEW k, NEW isLast, Blank(t, i, k, FALSE)
  PROVE  Blank(t, i, k, isLast)
<1>1. PICK C \in SUBSET (i..(k + 1)) : i \in C /\ AreCuts(t, k, FALSE, C)
  BY DEF Blank
<1>2. AreCuts(t, k, isLast, C)
  <2> SUFFICES ASSUME NEW x \in C, x # k + 1
               PROVE  \E m \in x..k : IsPart(t, x, m, isLast /\ m = k) /\ m + 1 \in C
    BY DEF AreCuts
  <2>1. PICK m \in x..k : IsPart(t, x, m, FALSE /\ m = k) /\ m + 1 \in C
    BY <1>1 DEF AreCuts
  <2>2. IsPart(t, x, m, isLast /\ m = k)
    BY <2>1, PartAtTheEnd
  <2> QED
    BY <2>1, <2>2
<1> QED
  BY <1>1, <1>2 DEF Blank

(* What is read behind them changes nothing.                               *)
LEMMA BlankStays ==
  ASSUME NEW t, NEW u, Extends(u, t), NEW i \in Nat \ {0}, NEW k \in Nat, k <= Len(t),
         NEW isLast, Blank(t, i, k, isLast)
  PROVE  Blank(u, i, k, isLast)
<1>1. PICK C \in SUBSET (i..(k + 1)) : i \in C /\ AreCuts(t, k, isLast, C)
  BY DEF Blank
<1>2. AreCuts(u, k, isLast, C)
  <2> SUFFICES ASSUME NEW x \in C, x # k + 1
               PROVE  \E m \in x..k : IsPart(u, x, m, isLast /\ m = k) /\ m + 1 \in C
    BY DEF AreCuts
  <2>1. PICK m \in x..k : IsPart(t, x, m, isLast /\ m = k) /\ m + 1 \in C
    BY <1>1 DEF AreCuts
  <2>2. x \in Nat \ {0} /\ m \in Nat /\ m <= Len(t) /\ x \in 1..Len(t)
    BY <1>1 DEF Extends
  <2>3. SubSeq(u, x, m) = SubSeq(t, x, m) /\ u[x] = t[x]
    BY <2>2, PartStays DEF Extends
  <2>4. IsPart(u, x, m, isLast /\ m = k)
    BY <2>1, <2>3 DEF IsPart
  <2> QED
    BY <2>1, <2>4
<1> QED
  BY <1>1, <1>2 DEF Blank

(* The part of the text by itself                                          *)
LEMMA BlankAlone ==
  ASSUME NEW t \in Seq(Chars), NEW i \in Nat \ {0}, NEW k \in Nat, i <= k + 1, k <= Len(t),
         NEW isLast, Blank(t, i, k, isLast)
  PROVE  LET s == SubSeq(t, i, k) IN Blank(s, 1, Len(s), isLast)
<1> DEFINE s == SubSeq(t, i, k)
<1>0. s \in Seq(Chars) /\ Len(s) \in Nat
  BY PartOfText
<1>1. CASE i = k + 1
  <2>1. s = <<>>
    BY <1>1, SubSeqEmpty
  <2>2. Len(s) = 0
    BY <2>1
  <2>3. Blank(s, 0 + 1, 0, isLast)
    BY NothingIsBlank
  <2>4. 0 + 1 = 1
    OBVIOUS
  <2> QED
    BY <2>2, <2>3, <2>4, Zenon
<1>2. CASE i # k + 1
  <2>1. i <= k /\ Len(s) = k - i + 1 /\ \A j \in 1..(k - i + 1) : s[j] = t[i + j - 1]
    BY <1>2, PartOfText
  <2>2. PICK C \in SUBSET (i..(k + 1)) : i \in C /\ AreCuts(t, k, isLast, C)
    BY DEF Blank
  <2> DEFINE D == {x - i + 1 : x \in C}
             n == k - i + 1
  <2>3. D \in SUBSET (1..(n + 1)) /\ 1 \in D
    BY <2>1, <2>2
  <2>4. ASSUME NEW y \in D, y # n + 1
        PROVE  \E m \in y..n : IsPart(s, y, m, isLast /\ m = n) /\ m + 1 \in D
    <3>1. PICK x \in C : y = x - i + 1
      OBVIOUS
    <3>2. x \in i..(k + 1) /\ x # k + 1
      BY <2>4, <3>1
    <3>3. PICK m \in x..k : IsPart(t, x, m, isLast /\ m = k) /\ m + 1 \in C
      BY <2>2, <3>2 DEF AreCuts
    <3>4. /\ y \in 1..n /\ m - i + 1 \in y..n /\ m - i + 1 \in 1..n
          /\ i + y - 1 = x /\ i + (m - i + 1) - 1 = m
          /\ (m + 1) - i + 1 = (m - i + 1) + 1
          /\ (m = k <=> m - i + 1 = n) /\ (x = m => y = m - i + 1)
      BY <3>1, <3>2
    <3>5. SubSeq(s, y, m - i + 1) = SubSeq(t, i + y - 1, i + (m - i + 1) - 1)
      BY <2>1, <3>4, PartOfPart
    <3>6. SubSeq(s, y, m - i + 1) = SubSeq(t, x, m) /\ s[y] = t[x]
      BY <2>1, <3>4, <3>5
    <3>7. IsPart(s, y, m - i + 1, isLast /\ m = k)
      BY <3>3, <3>4, <3>6 DEF IsPart
    <3>8. IsPart(s, y, m - i + 1, isLast /\ m - i + 1 = n)
      BY <3>4, <3>7, PartAtTheEnd
    <3>9. (m - i + 1) + 1 \in D
      BY <3>3, <3>4
    <3> QED
      BY <3>4, <3>8, <3>9
  <2>5. AreCuts(s, n, isLast, D)
    BY <2>4 DEF AreCuts
  <2>6. Blank(s, 1, n, isLast)
    BY <2>3, <2>5 DEF Blank
  <2> QED
    BY <2>1, <2>6
<1> QED
  BY <1>1, <1>2

(* The function of IsBlank                                                 *)
IsFrom(s, isLast, f) ==
  f = [i \in 1..(Len(s) + 1) |->
        i = Len(s) + 1 \/ \E k \in i..Len(s) : IsPart(s, i, k, isLast /\ k = Len(s)) /\ f[k + 1]]

(* There is such a function: it asks for a set of cuts.                    *)
LEMMA FromExists ==
  ASSUME NEW s \in Seq(Chars), NEW isLast
  PROVE  \E f : IsFrom(s, isLast, f)
<1> DEFINE n == Len(s)
           f == [i \in 1..(n + 1) |-> Blank(s, i, n, isLast)]
           R(i) == i = n + 1 \/ \E k \in i..n : IsPart(s, i, k, isLast /\ k = n) /\ f[k + 1]
<1>0. n \in Nat
  OBVIOUS
<1> HIDE DEF n
<1>1. ASSUME NEW i \in 1..(n + 1), Blank(s, i, n, isLast) PROVE R(i)
  <2>1. PICK C \in SUBSET (i..(n + 1)) : i \in C /\ AreCuts(s, n, isLast, C)
    BY <1>1 DEF Blank
  <2>2. CASE i = n + 1
    BY <2>2
  <2>3. CASE i # n + 1
    <3>1. PICK k \in i..n : IsPart(s, i, k, isLast /\ k = n) /\ k + 1 \in C
      BY <2>1, <2>3 DEF AreCuts
    <3>2. C \cap ((k + 1)..(n + 1)) \in SUBSET ((k + 1)..(n + 1)) /\ k + 1 \in C \cap ((k + 1)..(n + 1))
      BY <3>1, <1>0
    <3>3. AreCuts(s, n, isLast, C \cap ((k + 1)..(n + 1)))
      BY <1>0, <2>1, <3>1 DEF AreCuts
    <3>4. Blank(s, k + 1, n, isLast)
      BY <3>2, <3>3 DEF Blank
    <3>5. k + 1 \in 1..(n + 1)
      BY <1>0
    <3>6. f[k + 1]
      BY <3>4, <3>5
    <3> QED
      BY <3>1, <3>6
  <2> QED
    BY <2>2, <2>3
<1>2. ASSUME NEW i \in 1..(n + 1), R(i) PROVE Blank(s, i, n, isLast)
  <2>1. CASE i = n + 1
    BY <1>0, <2>1, NothingIsBlank
  <2>2. CASE \E k \in i..n : IsPart(s, i, k, isLast /\ k = n) /\ f[k + 1]
    <3>1. PICK k \in i..n : IsPart(s, i, k, isLast /\ k = n) /\ f[k + 1]
      BY <2>2
    <3>2. k + 1 \in 1..(n + 1)
      BY <1>0
    <3>3. Blank(s, k + 1, n, isLast)
      BY <3>1, <3>2
    <3>4. PICK C \in SUBSET ((k + 1)..(n + 1)) : k + 1 \in C /\ AreCuts(s, n, isLast, C)
      BY <3>3 DEF Blank
    <3>5. C \union {i} \in SUBSET (i..(n + 1))
      BY <1>0, <3>4
    <3>6. AreCuts(s, n, isLast, C \union {i})
      BY <3>1, <3>4 DEF AreCuts
    <3> QED
      BY <3>5, <3>6 DEF Blank
  <2> QED
    BY <1>2, <2>1, <2>2
<1> HIDE DEF R
<1>3. \A i \in 1..(n + 1) : Blank(s, i, n, isLast) = R(i)
  <2> TAKE i \in 1..(n + 1)
  <2>1. Blank(s, i, n, isLast) <=> R(i)
    BY <1>1, <1>2
  <2> QED
    BY <2>1, Zenon DEF Blank, R
<1>4. f = [i \in 1..(n + 1) |-> R(i)]
  BY <1>3, Zenon
<1>5. IsFrom(s, isLast, f)
  BY <1>4 DEF IsFrom, R, n
<1> QED
  BY <1>5

(* It holds wherever there are cuts.                                       *)
LEMMA FromTheCuts ==
  ASSUME NEW s \in Seq(Chars), NEW isLast, NEW f, IsFrom(s, isLast, f),
         Blank(s, 1, Len(s), isLast)
  PROVE  f[1]
<1> DEFINE n == Len(s)
<1>0. n \in Nat
  OBVIOUS
<1>1. \A i \in 1..(n + 1) :
        f[i] <=> (i = n + 1 \/ \E k \in i..n : IsPart(s, i, k, isLast /\ k = n) /\ f[k + 1])
  BY DEF IsFrom
<1> HIDE DEF n
<1>2. PICK C \in SUBSET (1..(n + 1)) : 1 \in C /\ AreCuts(s, n, isLast, C)
  BY DEF Blank, n
<1> SUFFICES ASSUME ~f[1] PROVE FALSE
  OBVIOUS
<1> DEFINE Bad == {y \in 0..n : n + 1 - y \in C /\ ~f[n + 1 - y]}
<1>3. n \in Bad /\ Bad \subseteq Nat
  BY <1>0, <1>2
<1>4. PICK y \in Bad : \A z \in Bad : y <= z
  BY <1>3, LeastOne
<1>5. n + 1 - y \in 1..(n + 1) /\ n + 1 - y # n + 1
  BY <1>0, <1>1, <1>4
<1>6. PICK k \in (n + 1 - y)..n : IsPart(s, n + 1 - y, k, isLast /\ k = n) /\ k + 1 \in C
  BY <1>2, <1>4, <1>5 DEF AreCuts
<1>7. ~f[k + 1]
  BY <1>1, <1>4, <1>5, <1>6
<1>8. n - k \in Bad /\ n - k < y
  <2>1. n - k \in 0..n /\ n + 1 - (n - k) = k + 1 /\ n - k < y
    BY <1>0, <1>4, <1>5, <1>6
  <2> QED
    BY <1>6, <1>7, <2>1
<1> QED
  BY <1>0, <1>4, <1>8

(* Cuts make a text blank as the scanner's properties have it.             *)
LEMMA CutsMakeBlank ==
  ASSUME NEW t \in Seq(Chars), NEW i \in Nat \ {0}, NEW k \in Nat, i <= k + 1, k <= Len(t),
         NEW isLast, Blank(t, i, k, isLast)
  PROVE  IsBlank(SubSeq(t, i, k), isLast)
<1> DEFINE s == SubSeq(t, i, k)
<1>1. s \in Seq(Chars) /\ Blank(s, 1, Len(s), isLast)
  BY BlankAlone, PartOfText
<1> HIDE DEF s
<1> DEFINE f == CHOOSE g : IsFrom(s, isLast, g)
<1>2. IsFrom(s, isLast, f)
  BY <1>1, FromExists
<1>3. f[1]
  BY <1>1, <1>2, FromTheCuts
<1>4. IsBlank(s, isLast)
  BY <1>3 DEF IsBlank, IsFrom, IsPart
<1> QED
  BY <1>4 DEF s

-----------------------------------------------------------------------------
(* The invariant of the tokens *)

(* Where the token after the last one delivered may begin                  *)
Start == IF toks = <<>> THEN 1 ELSE toks[Len(toks)].last + 1

(* The characters of the token, or comment, as far as they have been read  *)
Current == SubSeq(text, first, Position)

(* A string without its end, of which word is what has been read           *)
OpenString(s, word, escaped) ==
  /\ s # <<>> /\ s[1] = "\""
  /\ ReadOf(Tail(s)) = [word |-> word, escaped |-> escaped]

(* The loops that read a token or a comment to its end                     *)
Within == {"second", "slash", "line_comment", "block", "block_star", "bang",
           "string", "escape", "close", "int", "word"}

(* The loop that reads knows what it has read.                             *)
LexInv ==
  /\ at = "second" => lex = Current /\ \E c \in Doubling : lex = <<c>>
  /\ at = "slash"  => lex = Current /\ lex = <<"/">>
  /\ at = "bang"   => Current = <<"!">>
  /\ at = "int"    => lex = Current /\ lex \in Seq(Digits)
  /\ at = "word"   => /\ lex = Current /\ lex \in Words
                      /\ lex # <<>> /\ lex[1] \in Letters /\ Len(lex) < WORD_SIZE
  /\ at \in {"string", "close"} => OpenString(Current, lex, FALSE)
  /\ at = "escape" => OpenString(Current, lex, TRUE)
  /\ at = "line_comment" => OpenLine(Current)
  /\ at = "block"        => over \/ OpenBlock(Current, 0)
  /\ at = "block_star"   => over \/ OpenBlock(Current, 1)

(* Between the last token and this one there is nothing else.              *)
GapBefore == first \in Start..Position /\ Blank(text, Start, first - 1, FALSE)

(* Where the last token ended, and what came since                         *)
GapInv ==
  /\ Start \in 1..(Position + 1)
  /\ at = "idle" => Start = Position + 1
  /\ at = "skip" => Blank(text, Start, Position, over)
  /\ at \in Within => GapBefore

(* The end of the file is for ever.                                        *)
EndOfInput ==
  /\ over \in BOOLEAN
  /\ over => buf \in {<<>>, <<EOF>>}
  /\ buf = <<EOF>> => over

(* The token of the end is the last one.                                   *)
EndOfTokens == toks # <<>> /\ tok.type = T_EOF => over /\ Start = Len(text) + 1

(* What an identifier or a string means                                    *)
MeaningIn(u, t) == IF t.type = T_STRING THEN Unescaped(SubSeq(u, t.first + 1, t.last - 1))
                   ELSE SubSeq(u, t.first, t.last)

(* An object has a kind and a word.                                        *)
Object == [kind : {T_IDENT, T_STRING}, str : Seq(TextChars \union WordChars)]

(* There is one object of a kind and a word.                               *)
ObjectsInv ==
  /\ objs \in Seq(Object)
  /\ \A i, j \in DOMAIN objs : objs[i] = objs[j] => i = j

(* A token of the text u, of which isAll says that it is all there is: it  *)
(* lies behind the end of the one before, with nothing between them, is    *)
(* spelled as its type is and as long as it can be,                        *)
IsToken(u, isAll, t, before) ==
  /\ before \in Nat /\ t.first \in Nat /\ t.last \in Nat
  /\ before < t.first /\ t.first <= t.last + 1 /\ t.last <= Len(u)
  /\ Blank(u, before + 1, t.first - 1, t.type = T_EOF)
  /\ IsSpelled(t.type, SubSeq(u, t.first, t.last))
  /\ \/ \A c \in Chars : IsLongest(t.type, SubSeq(u, t.first, t.last), c)
     \/ t.last < Len(u) /\ IsLongest(t.type, SubSeq(u, t.first, t.last), u[t.last + 1])
     \/ isAll /\ t.last = Len(u)

(* and its data follow from the text, with os the objects.                 *)
HasData(u, os, t) ==
  /\ t.type \in {T_IDENT, T_STRING} =>
       t.data \in DOMAIN os /\ os[t.data] = [kind |-> t.type, str |-> MeaningIn(u, t)]
  /\ t.type = T_INT =>
       /\ SubSeq(u, t.first, t.last) \in Seq(Digits)
       /\ t.data = IntOf(SubSeq(u, t.first, t.last))

(* Where the token before the token i ends                                 *)
Before(i) == IF i = 1 THEN 0 ELSE toks[i - 1].last

(* Every token that was delivered is one of the text.                      *)
TokensInv ==
  /\ \E S : toks \in Seq(S)
  /\ \A i \in DOMAIN toks : IsToken(text, over, toks[i], Before(i)) /\ HasData(text, objs, toks[i])

(* The invariant of the scanner                                            *)
ScanInv ==
  InputInv /\ GapInv /\ LexInv /\ EndOfInput /\ EndOfTokens /\ ObjectsInv /\ TokensInv

-----------------------------------------------------------------------------
(* Reading and the text *)

(* More of the text than before, and all of it if it was all               *)
Grows(c) ==
  /\ Extends(text', text)
  /\ EndOfInput'
  /\ over' = (over \/ c = EOF)
  /\ over => c = EOF
  /\ c = EOF => text' = text /\ Position = Len(text)
  /\ c # EOF => c \in Chars /\ Len(text') = Position + 1 /\ text'[Position + 1] = c
  /\ Position \in Nat /\ Position <= Len(text)
  /\ Position' \in Nat /\ Position' <= Len(text')

(* getc delivers characters up to the first EOF, and then EOF for ever.    *)
LEMMA TextGrows ==
  ASSUME InputInv, EndOfInput, CharsAssumption, NEW c, Reads(c)
  PROVE  /\ Extends(text', text)
         /\ over' \in BOOLEAN
         /\ over' = (over \/ c = EOF)
         /\ over => c = EOF
         /\ c = EOF => text' = text /\ Position = Len(text)
         /\ c # EOF => c \in Chars /\ Len(text') = Position + 1 /\ text'[Position + 1] = c
         /\ Position \in Nat /\ Position <= Len(text)
<1>1. text \in Seq(Chars) /\ Len(text) \in Nat /\ EOF \notin Chars
  BY CharsAssumption DEF InputInv, BufferIsLast
<1>2. over' = (over \/ c = EOF) /\ over' \in BOOLEAN
  BY DEF Reads, EndOfInput
<1>3. over => c = EOF
  <2>1. over => Available = {EOF}
    BY DEF EndOfInput, Available
  <2> QED
    BY <2>1 DEF Reads
<1>4. CASE c = EOF /\ text' = text /\ Position = Len(text)
  BY <1>1, <1>2, <1>3, <1>4 DEF Extends
<1>5. CASE c \in Chars /\ text' = Append(text, c) /\ Position = Len(text)
  BY <1>1, <1>2, <1>3, <1>5 DEF Extends
<1>6. CASE c \in Chars /\ text' = text /\ text # <<>> /\ c = text[Len(text)] /\ Position = Len(text) - 1
  BY <1>1, <1>2, <1>3, <1>6 DEF Extends
<1> QED
  BY <1>4, <1>5, <1>6, ReadingCases

(* A character is taken                                                    *)
LEMMA TextTaken ==
  ASSUME InputInv, EndOfInput, CharsAssumption, NEW c, Gets(c)
  PROVE  Grows(c) /\ Position' = (IF c = EOF THEN Position ELSE Position + 1)
<1>1. Reads(c) /\ buf' = <<>>
  BY ReadingCases DEF Gets
<1>2. Position' = Len(text')
  BY <1>1 DEF Position
<1>3. EndOfInput'
  BY <1>1, TextGrows DEF EndOfInput
<1>4. Len(text') \in Nat
  BY <1>1, TextGrows DEF Extends
<1> QED
  BY <1>1, <1>2, <1>3, <1>4, TextGrows DEF Grows

(* or looked at.                                                           *)
LEMMA TextSeen ==
  ASSUME InputInv, EndOfInput, CharsAssumption, NEW c, NEW where, LooksAt(c, where)
  PROVE  Grows(c) /\ Position' = Position
<1>1. Reads(c) /\ Rest = <<>> /\ buf' = Append(Rest, c)
  BY ReadingCases DEF LooksAt
<1>2. buf' = <<c>>
  BY <1>1
<1>3. Position' = IF c # EOF THEN Len(text') - 1 ELSE Len(text')
  BY <1>2 DEF Position
<1>4. EndOfInput'
  <2>1. <<c>> = <<EOF>> <=> c = EOF
    OBVIOUS
  <2> QED
    BY <1>1, <1>2, <2>1, TextGrows DEF EndOfInput
<1>5. Len(text') \in Nat /\ Len(text) \in Nat
  BY <1>1, TextGrows DEF Extends
<1> QED
  BY <1>1, <1>3, <1>4, <1>5, TextGrows DEF Grows

-----------------------------------------------------------------------------
(* Tokens and the text *)

(* A token stays one when more of the text is read                         *)
LEMMA TokenStays ==
  ASSUME NEW u, NEW v, Extends(v, u), NEW isAll, NEW isAll2, isAll => isAll2 /\ v = u,
         NEW t, NEW before, IsToken(u, isAll, t, before)
  PROVE  IsToken(v, isAll2, t, before)
<1>1. /\ before \in Nat /\ t.first \in Nat /\ t.last \in Nat
      /\ before < t.first /\ t.first <= t.last + 1 /\ t.last <= Len(u)
  BY DEF IsToken
<1>2. Len(u) \in Nat /\ Len(v) \in Nat /\ Len(u) <= Len(v) /\ u \in Seq(Chars)
  BY DEF Extends
<1>3. SubSeq(v, t.first, t.last) = SubSeq(u, t.first, t.last)
  <2>1. t.first \in Nat \ {0} /\ t.last \in Nat /\ t.last <= Len(u)
    BY <1>1
  <2> QED
    BY <2>1, PartStays, ZenonT(60)
<1>4. Blank(v, before + 1, t.first - 1, t.type = T_EOF)
  <2>1. before + 1 \in Nat \ {0} /\ t.first - 1 \in Nat /\ t.first - 1 <= Len(u)
    BY <1>1, <1>2
  <2>2. Blank(u, before + 1, t.first - 1, t.type = T_EOF)
    BY DEF IsToken
  <2> QED
    BY <2>1, <2>2, BlankStays
<1>5. t.last < Len(u) => t.last < Len(v) /\ v[t.last + 1] = u[t.last + 1]
  BY <1>1, <1>2, SMTT(40) DEF Extends
<1> QED
  BY <1>1, <1>2, <1>3, <1>4, <1>5 DEF IsToken

(* and its data stay, when more objects are made.                          *)
ObjectsKept(os, os2) == \A i \in DOMAIN os : i \in DOMAIN os2 /\ os2[i] = os[i]

(* Its data stay what they are, too.                                       *)
LEMMA DataStay ==
  ASSUME NEW u, NEW v, Extends(v, u), NEW os, NEW os2, ObjectsKept(os, os2),
         NEW isAll, NEW t, NEW before, IsToken(u, isAll, t, before), HasData(u, os, t)
  PROVE  HasData(v, os2, t)
<1>1. t.first \in Nat \ {0} /\ t.last \in Nat /\ t.last <= Len(u)
  BY DEF IsToken
<1>2. SubSeq(v, t.first, t.last) = SubSeq(u, t.first, t.last)
  BY <1>1, PartStays, ZenonT(60)
<1>3. ASSUME t.type = T_STRING
      PROVE  SubSeq(v, t.first + 1, t.last - 1) = SubSeq(u, t.first + 1, t.last - 1)
  <2> DEFINE s == SubSeq(u, t.first, t.last)
  <2>a. IsSpelled(T_STRING, s)
    BY <1>3 DEF IsToken
  <2> HIDE DEF s
  <2>b. Len(s) > 1
    BY <2>a DEF IsSpelled, T_STRING, T_EOF, T_INT, T_IDENT
  <2>1. Len(SubSeq(u, t.first, t.last)) > 1
    BY <2>b DEF s
  <2>2. u \in Seq(Chars) /\ Len(u) \in Nat
    BY DEF Extends
  <2>3. t.first <= t.last
    BY <1>1, <2>1, <2>2, PartOfText
  <2>4. t.first + 1 \in Nat \ {0} /\ t.last - 1 \in Nat /\ t.last - 1 <= Len(u)
    BY <1>1, <2>2, <2>3
  <2> QED
    BY <2>4, PartStays, ZenonT(60)
<1>4. MeaningIn(v, t) = MeaningIn(u, t)
  BY <1>2, <1>3 DEF MeaningIn
<1> QED
  BY <1>2, <1>4 DEF HasData, ObjectsKept

(* The tokens that have been delivered stay what they are.                 *)
LEMMA TokensStay ==
  ASSUME TokensInv, Extends(text', text), over => over' /\ text' = text,
         ObjectsKept(objs, objs')
  PROVE  \A i \in DOMAIN toks : /\ IsToken(text', over', toks[i], Before(i))
                                /\ HasData(text', objs', toks[i])
<1> TAKE i \in DOMAIN toks
<1>1. IsToken(text, over, toks[i], Before(i)) /\ HasData(text, objs, toks[i])
  BY DEF TokensInv
<1> QED
  BY <1>1, TokenStays, DataStay

(* A step that delivers none                                               *)
LEMMA NothingDelivered ==
  ASSUME TokensInv, ObjectsInv, Extends(text', text), over => over' /\ text' = text,
         UNCHANGED toks, ObjectsKept(objs, objs')
  PROVE  TokensInv' /\ Start' = Start
<1>1. \A i \in DOMAIN toks : Before(i)' = Before(i)
  BY DEF Before
<1>2. \A i \in DOMAIN toks : /\ IsToken(text', over', toks[i], Before(i))
                             /\ HasData(text', objs', toks[i])
  BY TokensStay
<1> QED
  BY <1>1, <1>2 DEF TokensInv, Start

(* A step that delivers one                                                *)
LEMMA TokenDelivered ==
  ASSUME TokensInv, Extends(text', text), over => over' /\ text' = text,
         ObjectsKept(objs, objs'), NEW t, toks' = Append(toks, t),
         IsToken(text', over', t, Start - 1), HasData(text', objs', t)
  PROVE  TokensInv' /\ toks' # <<>> /\ Start' = t.last + 1
<1>1. PICK S : toks \in Seq(S)
  BY DEF TokensInv
<1>2. toks \in Seq(S \union {t})
  BY <1>1, SeqMonotonic
<1>3. PICK n \in Nat : n = Len(toks)
  BY <1>2
<1>4. /\ toks' \in Seq(S \union {t}) /\ toks' # <<>> /\ Len(toks') = n + 1
      /\ \A i \in 1..n : toks'[i] = toks[i]
      /\ toks'[n + 1] = t
      /\ DOMAIN toks = 1..n /\ DOMAIN toks' = 1..(n + 1)
  BY <1>2, <1>3, AppendProperties
<1>5. ASSUME NEW i \in 1..n
      PROVE  IsToken(text', over', toks'[i], Before(i)') /\ HasData(text', objs', toks'[i])
  <2>1. toks'[i] = toks[i] /\ Before(i)' = Before(i)
    BY <1>4 DEF Before
  <2>2. IsToken(text', over', toks[i], Before(i)) /\ HasData(text', objs', toks[i])
    BY <1>4, TokensStay
  <2> QED
    BY <2>1, <2>2
<1>6. Before(n + 1)' = Start - 1
  <2>1. CASE toks = <<>>
    <3>1. n = 0
      BY <1>3, <2>1
    <3> QED
      BY <2>1, <3>1 DEF Before, Start
  <2>2. CASE toks # <<>>
    <3>1. n \in 1..n /\ n + 1 # 1 /\ (n + 1) - 1 = n
      BY <1>2, <1>3, <2>2, EmptySeq
    <3>2. toks[n].last \in Nat
      BY <1>4, <3>1 DEF TokensInv, IsToken
    <3>3. Start - 1 = toks[n].last
      BY <1>3, <2>2, <3>2 DEF Start
    <3>4. Before(n + 1)' = toks'[n].last
      BY <3>1 DEF Before
    <3> QED
      BY <1>4, <3>1, <3>3, <3>4
  <2> QED
    BY <2>1, <2>2
<1>7. \A i \in DOMAIN toks' : IsToken(text', over', toks'[i], Before(i)') /\ HasData(text', objs', toks'[i])
  <2> TAKE i \in DOMAIN toks'
  <2>1. CASE i \in 1..n
    BY <1>5, <2>1
  <2>2. CASE i = n + 1
    <3>1. toks'[i] = t /\ Before(i)' = Start - 1
      BY <1>4, <1>6, <2>2
    <3> QED
      BY <3>1
  <2> QED
    BY <1>4, <2>1, <2>2
<1> QED
  BY <1>4, <1>7 DEF TokensInv, Start

-----------------------------------------------------------------------------
(* What the steps have in common *)

(* A step inside a token or a comment that reads on                        *)
LEMMA PlaceInside ==
  ASSUME ScanInv, at \in Within, NEW c, Grows(c), Position' >= Position,
         first' = first
  PROVE  /\ Start \in Nat \ {0} /\ Start \in 1..(Position' + 1)
         /\ first \in Nat \ {0} /\ first \in Start..Position'
         /\ Blank(text', Start, first - 1, FALSE)
         /\ Current \in Seq(Chars) /\ Current # <<>>
         /\ Position' = Position => Current' = Current
         /\ Position' = Position + 1 /\ c # EOF => Current' = Append(Current, c)
<1>1. /\ Position \in Nat /\ Position' \in Nat /\ Position <= Len(text) /\ Position' <= Len(text')
      /\ Extends(text', text)
  BY DEF Grows
<1>3. Start \in 1..(Position + 1) /\ first \in Start..Position /\ Blank(text, Start, first - 1, FALSE)
  BY DEF ScanInv, GapInv, GapBefore
<1>4. Len(text) \in Nat /\ text \in Seq(Chars) /\ text' \in Seq(Chars) /\ Len(text') \in Nat
  BY <1>1 DEF Extends
<1>5. Start \in Nat \ {0} /\ first \in Nat \ {0} /\ first - 1 \in Nat /\ first - 1 <= Len(text)
  BY <1>1, <1>3, <1>4
<1>6. Blank(text', Start, first - 1, FALSE)
  BY <1>1, <1>3, <1>5, BlankStays
<1>7. first \in Start..Position' /\ Start \in 1..(Position' + 1)
  <2>1. Position' >= Position
    OBVIOUS
  <2>2. \A p, q, i, f \in Nat :
          q >= p /\ f \in i..p /\ i \in 1..(p + 1) => f \in i..q /\ i \in 1..(q + 1)
    OBVIOUS
  <2>3. Position \in Nat /\ Position' \in Nat /\ Start \in Nat /\ first \in Nat
    BY <1>1, <1>5
  <2> QED
    BY <1>3, <2>1, <2>2, <2>3
<1>9. Current \in Seq(Chars) /\ Current # <<>>
  <2>1. Current \in Seq(Chars) /\ Len(Current) = IF first <= Position THEN Position - first + 1 ELSE 0
    BY <1>1, <1>4, <1>5, PartOfText DEF Current
  <2>2. Len(Current) > 0
    BY <1>1, <1>3, <1>5, <2>1
  <2> QED
    BY <2>1, <2>2
<1>10. SubSeq(text', first, Position) = Current
  BY <1>1, <1>5, PartStays DEF Current
<1>11. ASSUME Position' = Position PROVE Current' = Current
  BY <1>10, <1>11 DEF Current
<1>12. ASSUME Position' = Position + 1, c # EOF PROVE Current' = Append(Current, c)
  <2>1. Len(text') = Position + 1 /\ text'[Position + 1] = c
    BY <1>12 DEF Grows
  <2>2. first <= Position + 1 /\ Position < Len(text')
    BY <1>1, <1>3, <1>5, <2>1
  <2>3. SubSeq(text', first, Position + 1) = Append(SubSeq(text', first, Position), text'[Position + 1])
    BY <1>1, <1>4, <1>5, <2>2, PartGrows
  <2>4. SubSeq(text', first', Position') = Append(Current, c)
    BY <1>10, <1>12, <2>1, <2>3
  <2> QED
    BY <2>4 DEF Current
<1> QED
  BY <1>5, <1>6, <1>7, <1>9, <1>11, <1>12

(* What a step that delivers no token leaves                               *)
OthersStay == EndOfInput /\ EndOfTokens /\ ObjectsInv /\ TokensInv

(* A step that reads and delivers nothing                                  *)
LEMMA NoneDelivered ==
  ASSUME ScanInv, NEW c, Grows(c), UNCHANGED tokenVars
  PROVE  OthersStay' /\ Start' = Start
<1>1. tok' = tok /\ toks' = toks /\ objs' = objs
  BY DEF tokenVars
<1>2. Extends(text', text) /\ over' \in BOOLEAN /\ (over => over' /\ text' = text) /\ EndOfInput'
  BY DEF Grows, EndOfInput, ScanInv
<1>3. ObjectsKept(objs, objs')
  BY <1>1 DEF ObjectsKept
<1>4. TokensInv' /\ Start' = Start
  BY <1>1, <1>2, <1>3, NothingDelivered DEF ScanInv
<1>5. ObjectsInv'
  BY <1>1 DEF ScanInv, ObjectsInv
<1>6. EndOfTokens'
  BY <1>1, <1>2, <1>4 DEF ScanInv, EndOfTokens
<1> QED
  BY <1>2, <1>4, <1>5, <1>6 DEF OthersStay

(* A loop reads one more character, or the end.                            *)
LEMMA GoingOn ==
  ASSUME ScanInv, CharsAssumption, at \in Within, NEW c, Gets(c), first' = first, UNCHANGED tokenVars
  PROVE  /\ OthersStay' /\ GapBefore' /\ Start' \in 1..(Position' + 1)
         /\ Start' \in Nat \ {0} /\ first' \in Nat \ {0} /\ Position' \in Nat /\ first' \in Start'..Position'
         /\ Current \in Seq(Chars) /\ Current # <<>>
         /\ over' = (over \/ c = EOF) /\ over \in BOOLEAN
         /\ c = EOF => Current' = Current
         /\ c # EOF => c \in Chars /\ over' = FALSE /\ Current' = Append(Current, c)
<1>1. Grows(c) /\ Position' = IF c = EOF THEN Position ELSE Position + 1
  BY TextTaken DEF ScanInv
<1>2. Position' >= Position /\ toks' = toks /\ Position' \in Nat
  BY <1>1 DEF Grows, tokenVars
<1>3. over' = (over \/ c = EOF) /\ over \in BOOLEAN /\ (over => c = EOF)
  BY <1>1 DEF Grows, ScanInv, EndOfInput
<1>4. c # EOF => c \in Chars
  BY <1>1 DEF Grows
<1>5. c = EOF => Position' = Position
  BY <1>1
<1>6. c # EOF => Position' = Position + 1
  BY <1>1
<1>7. /\ Start \in Nat \ {0} /\ Start \in 1..(Position' + 1)
      /\ first \in Nat \ {0} /\ first \in Start..Position'
      /\ Blank(text', Start, first - 1, FALSE)
      /\ Current \in Seq(Chars) /\ Current # <<>>
      /\ Position' = Position => Current' = Current
      /\ Position' = Position + 1 /\ c # EOF => Current' = Append(Current, c)
  BY <1>1, <1>2, PlaceInside
<1>8. OthersStay' /\ Start' = Start
  BY <1>1, NoneDelivered
<1>9. GapBefore'
  BY <1>7, <1>8 DEF GapBefore
<1> QED
  BY <1>2, <1>3, <1>4, <1>5, <1>6, <1>7, <1>8, <1>9

(* The end of a comment                                                    *)
LEMMA CommentIsBlank ==
  ASSUME NEW t \in Seq(Chars), NEW i \in Nat \ {0}, NEW f \in Nat \ {0}, NEW k \in Nat, f \in i..k,
         Blank(t, i, f - 1, FALSE), NEW isLast,
         IsBlockComment(SubSeq(t, f, k)) \/ IsLineComment(SubSeq(t, f, k), isLast)
  PROVE  Blank(t, i, k, isLast)
<1>1. f - 1 \in Nat /\ i <= (f - 1) + 1 /\ f - 1 < k /\ (f - 1) + 1 = f
  OBVIOUS
<1>2. IsPart(t, f, k, isLast)
  BY DEF IsPart
<1> QED
  BY <1>1, <1>2, BlankGoesOn

(* A token is complete.                                                    *)
LEMMA Delivering ==
  ASSUME ScanInv, InputInv', at' = "idle", NEW c, Grows(c), NEW type, NEW data, Becomes(type, data),
         ObjectsInv', ObjectsKept(objs, objs'),
         NEW t, t = [type |-> type, data |-> data, first |-> first', last |-> Position'],
         IsToken(text', over', t, Start - 1), HasData(text', objs', t),
         type = T_EOF => c = EOF /\ Position' = Len(text')
  PROVE  ScanInv'
<1>1. /\ Extends(text', text) /\ over' \in BOOLEAN /\ (over => over' /\ text' = text)
      /\ EndOfInput' /\ Position' \in Nat /\ (c = EOF => text' = text /\ over')
  BY DEF Grows, EndOfInput, ScanInv
<1>2. tok'.type = type
  BY DEF Becomes
<1>3. type = T_EOF => Position' = Len(text')
  OBVIOUS
<1>4. CASE type = T_EOF /\ toks # <<>> /\ tok.type = T_EOF
  <2>1. toks' = toks
    BY <1>4 DEF Becomes
  <2>2. TokensInv' /\ Start' = Start
    BY <1>1, <2>1, NothingDelivered DEF ScanInv
  <2>3. over /\ Start = Len(text) + 1
    BY <1>4 DEF ScanInv, EndOfTokens
  <2>4. over' /\ Start' = Len(text') + 1 /\ Start' = Position' + 1
    BY <1>1, <1>3, <1>4, <2>2, <2>3
  <2>5. EndOfTokens'
    BY <2>4 DEF EndOfTokens
  <2>6. GapInv'
    <3>0. \A p \in Nat : p + 1 \in 1..(p + 1)
      OBVIOUS
    <3>1. Start' \in 1..(Position' + 1) /\ Start' = Position' + 1
      BY <1>1, <2>4, <3>0
    <3>2. at' \notin Within /\ at' # "skip"
      BY DEF Within
    <3> QED
      BY <3>1, <3>2 DEF GapInv
  <2>7. LexInv'
    BY DEF LexInv
  <2> QED
    BY <1>1, <2>2, <2>5, <2>6, <2>7 DEF ScanInv
<1>5. CASE ~(type = T_EOF /\ toks # <<>> /\ tok.type = T_EOF)
  <2>1. toks' = Append(toks, t)
    BY <1>5 DEF Becomes
  <2>2. TokensInv' /\ Start' = t.last + 1
    BY <1>1, <2>1, TokenDelivered DEF ScanInv
  <2>3. Start' = Position' + 1
    BY <2>2
  <2>5. EndOfTokens'
    BY <1>1, <1>2, <1>3, <2>3 DEF EndOfTokens
  <2>6. GapInv'
    <3>0. \A p \in Nat : p + 1 \in 1..(p + 1)
      OBVIOUS
    <3>1. Start' \in 1..(Position' + 1) /\ Start' = Position' + 1
      BY <1>1, <2>3, <3>0
    <3>2. at' \notin Within /\ at' # "skip"
      BY DEF Within
    <3> QED
      BY <3>1, <3>2 DEF GapInv
  <2>7. LexInv'
    BY DEF LexInv
  <2> QED
    BY <1>1, <2>2, <2>5, <2>6, <2>7 DEF ScanInv
<1> QED
  BY <1>4, <1>5

(* The token is what has been read of it.                                  *)
LEMMA TokenRead ==
  ASSUME ScanInv, InputInv', at \in Within, at' = "idle", first' = first,
         NEW c, Grows(c), Position' >= Position,
         NEW type, NEW data, Becomes(type, data), type # T_EOF,
         ObjectsInv', ObjectsKept(objs, objs'),
         NEW s, s = Current', IsSpelled(type, s),
         \/ \A d \in Chars : IsLongest(type, s, d)
         \/ Position' < Len(text') /\ IsLongest(type, s, text'[Position' + 1])
         \/ over' /\ Position' = Len(text'),
         type = T_INT => s \in Seq(Digits) /\ data = IntOf(s),
         type \in {T_IDENT, T_STRING} =>
           /\ data \in DOMAIN objs'
           /\ objs'[data] = [kind |-> type,
                             str |-> IF type = T_STRING THEN Unescaped(SubSeq(text', first + 1, Position' - 1))
                                     ELSE s]
  PROVE  ScanInv'
<1> DEFINE t == [type |-> type, data |-> data, first |-> first', last |-> Position']
<1>1. /\ Start \in Nat \ {0} /\ first \in Nat \ {0} /\ first \in Start..Position'
      /\ Blank(text', Start, first - 1, FALSE)
  BY PlaceInside
<1>2. Position' \in Nat /\ Position' <= Len(text')
  BY DEF Grows
<1>3. s = SubSeq(text', first, Position')
  BY DEF Current
<1>4. t.type = type /\ t.data = data /\ t.first = first /\ t.last = Position'
  OBVIOUS
<1> HIDE DEF t
<1>5. Blank(text', (Start - 1) + 1, t.first - 1, t.type = T_EOF)
  <2>1. (Start - 1) + 1 = Start
    BY <1>1
  <2>2. Blank(text', Start, first - 1, t.type = T_EOF)
    BY <1>1, BlankAtTheEnd
  <2> QED
    BY <1>4, <2>1, <2>2
<1>6. IsToken(text', over', t, Start - 1)
  <2>1. /\ Start - 1 \in Nat /\ t.first \in Nat /\ t.last \in Nat
        /\ Start - 1 < t.first /\ t.first <= t.last + 1 /\ t.last <= Len(text')
    <3>1. \A p \in Nat, i, f \in Nat \ {0} : f \in i..p => i - 1 \in Nat /\ i - 1 < f /\ f <= p + 1
      OBVIOUS
    <3> QED
      BY <1>1, <1>2, <1>4, <3>1
  <2> QED
    BY <1>3, <1>4, <1>5, <2>1 DEF IsToken
<1>7. HasData(text', objs', t)
  <2>1. MeaningIn(text', t) = IF type = T_STRING
                              THEN Unescaped(SubSeq(text', first + 1, Position' - 1)) ELSE s
    BY <1>3, <1>4 DEF MeaningIn
  <2> QED
    BY <1>3, <1>4, <2>1 DEF HasData
<1>8. t = [type |-> type, data |-> data, first |-> first', last |-> Position']
  BY DEF t
<1> QED
  BY <1>6, <1>7, <1>8, Delivering

(* The last character belongs to it                                        *)
LEMMA TokenTaken ==
  ASSUME ScanInv, InputInv', CharsAssumption, at \in Within, at' = "idle", first' = first,
         NEW c, c # EOF, Gets(c),
         NEW type, NEW data, Becomes(type, data), type \notin {T_EOF, T_INT},
         ObjectsInv', ObjectsKept(objs, objs'),
         NEW s, s = Append(Current, c), IsSpelled(type, s), \A d \in Chars : IsLongest(type, s, d),
         type \in {T_IDENT, T_STRING} =>
           /\ type = T_STRING /\ data \in DOMAIN objs'
           /\ objs'[data] = [kind |-> type, str |-> Unescaped(SubSeq(text', first + 1, Position))]
  PROVE  ScanInv'
<1>1. Grows(c) /\ Position' = Position + 1
  BY TextTaken DEF ScanInv
<1>2. Position \in Nat
  BY <1>1 DEF Grows
<1>3. Position' >= Position /\ Position' - 1 = Position
  BY <1>1, <1>2
<1>4. s = Current'
  BY <1>1, <1>3, PlaceInside
<1>5. type \in {T_IDENT, T_STRING} =>
           /\ data \in DOMAIN objs'
           /\ objs'[data] = [kind |-> type,
                             str |-> IF type = T_STRING THEN Unescaped(SubSeq(text', first + 1, Position' - 1))
                                     ELSE s]
  BY <1>3
<1> QED
  BY <1>1, <1>3, <1>4, <1>5, TokenRead

(* or is the first one behind it.                                          *)
LEMMA TokenSeen ==
  ASSUME ScanInv, InputInv', CharsAssumption, at \in Within, at' = "idle", first' = first,
         NEW c, LooksAt(c, "idle"),
         NEW type, NEW data, Becomes(type, data), type \notin {T_EOF, T_STRING},
         ObjectsInv', ObjectsKept(objs, objs'),
         NEW s, s = Current, IsSpelled(type, s),
         c \in Chars => IsLongest(type, s, c),
         type = T_INT => s \in Seq(Digits) /\ data = IntOf(s),
         type = T_IDENT => data \in DOMAIN objs' /\ objs'[data] = [kind |-> type, str |-> s]
  PROVE  ScanInv'
<1>1. Grows(c) /\ Position' = Position
  BY TextSeen DEF ScanInv
<1>2. Position \in Nat /\ Position' >= Position
  BY <1>1 DEF Grows
<1>3. s = Current'
  BY <1>1, <1>2, PlaceInside
<1>4. \/ Position' < Len(text') /\ IsLongest(type, s, text'[Position' + 1])
      \/ over' /\ Position' = Len(text')
  <2>1. CASE c = EOF
    BY <1>1, <2>1 DEF Grows
  <2>2. CASE c # EOF
    <3>1. c \in Chars /\ Len(text') = Position + 1 /\ text'[Position + 1] = c
      BY <1>1, <2>2 DEF Grows
    <3>2. Position' < Len(text') /\ text'[Position' + 1] = c
      BY <1>1, <1>2, <3>1
    <3> QED
      BY <3>1, <3>2
  <2> QED
    BY <2>1, <2>2
<1>5. type \in {T_IDENT, T_STRING} =>
           /\ data \in DOMAIN objs'
           /\ objs'[data] = [kind |-> type,
                             str |-> IF type = T_STRING THEN Unescaped(SubSeq(text', first + 1, Position' - 1))
                                     ELSE s]
  OBVIOUS
<1> QED
  BY <1>1, <1>2, <1>3, <1>4, <1>5, TokenRead

-----------------------------------------------------------------------------
(* The steps *)

(* The types that are not spelled as themselves                            *)
Kinds == {T_EOF, T_INT, T_IDENT, T_STRING}

(* A token of any other type is spelled as its type.                       *)
LEMMA SpelledAsItself ==
  ASSUME NEW s, s \notin Kinds
  PROVE  IsSpelled(s, s)
BY DEF IsSpelled, Kinds

(* A character or two are no kind                                          *)
LEMMA NoKind ==
  /\ \A c \in Punctuation \union Doubling \union {"/"} : <<c>> \notin Kinds
  /\ \A c, d : <<c, d>> \notin Kinds
<1>1. ASSUME NEW c \in Punctuation \union Doubling \union {"/"} PROVE <<c>> \notin Kinds
  BY DEF Kinds, T_EOF, T_INT, T_IDENT, T_STRING, Punctuation, Doubling
<1>2. ASSUME NEW c, NEW d PROVE <<c, d>> \notin Kinds
  <2>1. Len(<<c, d>>) = 2 /\ Len(T_EOF) = 1 /\ Len(T_INT) = 1 /\ Len(T_IDENT) = 1 /\ Len(T_STRING) = 1
    BY DEF T_EOF, T_INT, T_IDENT, T_STRING
  <2> QED
    BY <2>1 DEF Kinds
<1> QED
  BY <1>1, <1>2

(* nor is a word.                                                          *)
LEMMA WordIsNoKind ==
  ASSUME NEW word \in Words
  PROVE  word \notin Kinds
<1>1. ASSUME NEW x, word = <<x>> PROVE x \in WordChars
  <2>1. word[1] \in WordChars
    BY <1>1 DEF Words
  <2> QED
    BY <1>1, <2>1
<1>2. /\ "end" \notin WordChars /\ "number" \notin WordChars
      /\ "identifier" \notin WordChars /\ "string" \notin WordChars
  BY DEF WordChars, Letters, Digits
<1> QED
  BY <1>1, <1>2 DEF Kinds, T_EOF, T_INT, T_IDENT, T_STRING

(* There is room for a character that is put back.                         *)
LEMMA WhereItGoes ==
  ASSUME InputInv', NEW c, NEW where, LooksAt(c, where)
  PROVE  at' = where
BY DEF InputInv, PutBackFits, LooksAt

(* A step that makes no object                                             *)
LEMMA SameObjects ==
  ASSUME ScanInv, UNCHANGED objs
  PROVE  ObjectsInv' /\ ObjectsKept(objs, objs')
BY DEF ScanInv, ObjectsInv, ObjectsKept

(* One character and another one                                           *)
LEMMA TwoCharacters == \A c, d : Append(<<c>>, d) = <<c, d>>
<1> TAKE c, d
<1>1. <<c>> \in Seq({c, d}) /\ <<c, d>> \in Seq({c, d}) /\ d \in {c, d}
  OBVIOUS
<1>2. /\ Append(<<c>>, d) \in Seq({c, d}) /\ Len(Append(<<c>>, d)) = Len(<<c>>) + 1
      /\ \A i \in 1..Len(<<c>>) : Append(<<c>>, d)[i] = <<c>>[i]
      /\ Append(<<c>>, d)[Len(<<c>>) + 1] = d
  BY <1>1, AppendProperties
<1>3. Len(<<c>>) = 1 /\ Len(<<c, d>>) = 2 /\ <<c>>[1] = c /\ <<c, d>>[1] = c /\ <<c, d>>[2] = d
  OBVIOUS
<1>4. /\ Len(Append(<<c>>, d)) = 2
      /\ \A i \in 1..2 : Append(<<c>>, d)[i] = <<c, d>>[i]
  BY <1>2, <1>3
<1> QED
  BY <1>1, <1>2, <1>3, <1>4, SeqEqual

(* ReadSecond delivers one of + - = > < or the two characters.             *)
LEMMA SecondStep ==
  ASSUME ScanInv, InputInv', CharsAssumption, ReadSecond
  PROVE  ScanInv'
<1>1. at = "second" /\ at \in Within
  BY DEF ReadSecond, Within
<1>2. PICK d \in Doubling : lex = <<d>> /\ Current = <<d>> /\ lex[1] = d
  BY <1>1 DEF ScanInv, LexInv
<1>3. PICK c \in CharOrEOF :
       \/ /\ c = Second(d)
          /\ Gets(c) /\ Returns
          /\ Becomes(<<d, c>>, 0) /\ UNCHANGED objs
       \/ /\ c # Second(d)
          /\ LooksAt(c, "idle") /\ UNCHANGED <<lex, first, is_putback>>
          /\ Becomes(<<d>>, 0) /\ UNCHANGED objs
  BY <1>2 DEF ReadSecond
<1>4. ObjectsInv' /\ ObjectsKept(objs, objs')
  BY <1>3, SameObjects
<1>5. CASE /\ c = Second(d)
           /\ Gets(c) /\ Returns
           /\ Becomes(<<d, c>>, 0)
  <2>1. c # EOF
    BY <1>5 DEF Second, Doubling, EOF
  <2>2. at' = "idle" /\ first' = first
    BY <1>5 DEF Returns
  <2>3. Append(Current, c) = <<d, c>>
    BY <1>2, TwoCharacters, Zenon
  <2>4. <<d, c>> \notin Kinds /\ IsSpelled(<<d, c>>, <<d, c>>)
    BY NoKind, SpelledAsItself
  <2>5. \A e \in Chars : IsLongest(<<d, c>>, <<d, c>>, e)
    <3>1. Len(<<d, c>>) = 2 /\ <<d, c>>[1] = d /\ d \notin Letters /\ <<d, c>> # <<"/">>
      BY DEF Doubling, Letters
    <3> QED
      BY <2>4, <3>1 DEF IsLongest, Kinds
  <2>6. <<d, c>> \notin {T_EOF, T_INT, T_IDENT, T_STRING}
    BY <2>4 DEF Kinds
  <2> QED
    BY <1>1, <1>4, <1>5, <2>1, <2>2, <2>3, <2>4, <2>5, <2>6, TokenTaken
<1>6. CASE /\ c # Second(d)
           /\ LooksAt(c, "idle") /\ UNCHANGED <<lex, first, is_putback>>
           /\ Becomes(<<d>>, 0)
  <2>1. at' = "idle" /\ first' = first
    BY <1>6, WhereItGoes
  <2>2. <<d>> \notin Kinds /\ IsSpelled(<<d>>, <<d>>)
    BY NoKind, SpelledAsItself
  <2>3. IsLongest(<<d>>, <<d>>, c)
    <3>1. Len(<<d>>) = 1 /\ <<d>>[1] = d /\ d \notin Letters /\ <<d>> # <<"/">>
      BY DEF Doubling, Letters
    <3> QED
      BY <1>6, <2>2, <3>1 DEF IsLongest, Kinds
  <2>4. <<d>> \notin {T_EOF, T_INT, T_IDENT, T_STRING}
    BY <2>2 DEF Kinds
  <2> QED
    BY <1>1, <1>2, <1>4, <1>6, <2>1, <2>2, <2>3, <2>4, TokenSeen
<1> QED
  BY <1>3, <1>5, <1>6

(* A comment, or a token with more to come, goes on.                       *)
LEMMA GoesOnWithin ==
  ASSUME InputInv', OthersStay', GapBefore', Start' \in 1..(Position' + 1), at' \in Within, LexInv'
  PROVE  ScanInv'
<1>1. at' # "idle" /\ at' # "skip"
  BY DEF Within
<1>2. GapInv'
  BY <1>1 DEF GapInv
<1> QED
  BY <1>2 DEF ScanInv, OthersStay

(* What was read is to be skipped.                                         *)
LEMMA GoesOnSkipping ==
  ASSUME InputInv', OthersStay', Start' \in 1..(Position' + 1), at' = "skip",
         Blank(text', Start', Position', over')
  PROVE  ScanInv'
<1>1. at' \notin Within
  BY DEF Within
<1>2. GapInv' /\ LexInv'
  BY <1>1 DEF GapInv, LexInv
<1> QED
  BY <1>2 DEF ScanInv, OthersStay

(* The process ends.                                                       *)
LEMMA GoesOnFailing ==
  ASSUME InputInv', OthersStay', Start' \in 1..(Position' + 1), at' = "failed"
  PROVE  ScanInv'
<1>1. at' \notin Within
  BY DEF Within
<1>2. GapInv' /\ LexInv'
  BY <1>1 DEF GapInv, LexInv
<1> QED
  BY <1>2 DEF ScanInv, OthersStay

(* ReadSlash begins a comment or delivers the slash.                       *)
LEMMA SlashStep ==
  ASSUME ScanInv, InputInv', CharsAssumption, ReadSlash
  PROVE  ScanInv'
<1>1. at = "slash" /\ at \in Within /\ lex = <<"/">> /\ Current = <<"/">>
  BY DEF ReadSlash, Within, ScanInv, LexInv
<1>2. PICK c \in CharOrEOF :
       \/ c = "/" /\ Gets(c) /\ GoOn("line_comment")
       \/ c = "*" /\ Gets(c) /\ GoOn("block")
       \/ /\ c \notin {"/", "*"}
          /\ LooksAt(c, "idle") /\ UNCHANGED <<lex, first, is_putback>>
          /\ Becomes(lex, 0) /\ UNCHANGED objs
  BY DEF ReadSlash
<1>3. CASE c = "/" /\ Gets(c) /\ GoOn("line_comment")
  <2>1. at' = "line_comment" /\ first' = first /\ UNCHANGED tokenVars /\ c # EOF
    BY <1>3 DEF GoOn, EOF
  <2>2. /\ OthersStay' /\ GapBefore' /\ Start' \in 1..(Position' + 1)
        /\ c \in Chars /\ Current' = Append(Current, c) /\ Current \in Seq(Chars)
    BY <1>1, <1>3, <2>1, GoingOn
  <2>3. Current' = <<"/", "/">> /\ Current' \in Seq(Chars)
    BY <1>1, <1>3, <2>2, TwoCharacters, AppendProperties, Zenon
  <2>4. OpenLine(Current')
    BY <2>3, LineCommentBegins
  <2>5. LexInv'
    BY <2>1, <2>4 DEF LexInv
  <2> QED
    BY <2>1, <2>2, <2>5, GoesOnWithin DEF Within
<1>4. CASE c = "*" /\ Gets(c) /\ GoOn("block")
  <2>1. at' = "block" /\ first' = first /\ UNCHANGED tokenVars /\ c # EOF
    BY <1>4 DEF GoOn, EOF
  <2>2. /\ OthersStay' /\ GapBefore' /\ Start' \in 1..(Position' + 1)
        /\ c \in Chars /\ Current' = Append(Current, c) /\ Current \in Seq(Chars)
    BY <1>1, <1>4, <2>1, GoingOn
  <2>3. Current' = <<"/", "*">> /\ Current' \in Seq(Chars)
    BY <1>1, <1>4, <2>2, TwoCharacters, AppendProperties, Zenon
  <2>4. OpenBlock(Current', 0)
    BY <2>3, BlockCommentBegins
  <2>5. LexInv'
    BY <2>1, <2>4 DEF LexInv
  <2> QED
    BY <2>1, <2>2, <2>5, GoesOnWithin DEF Within
<1>5. CASE /\ c \notin {"/", "*"}
           /\ LooksAt(c, "idle") /\ UNCHANGED <<lex, first, is_putback>>
           /\ Becomes(lex, 0) /\ UNCHANGED objs
  <2> DEFINE s == <<"/">>
  <2>0. s = lex /\ s = Current /\ s[1] = "/" /\ Len(s) = 1 /\ s \notin Kinds
    BY <1>1, NoKind
  <2> HIDE DEF s
  <2>1. at' = "idle" /\ first' = first
    BY <1>5, WhereItGoes
  <2>2. IsSpelled(s, s)
    BY <2>0, SpelledAsItself
  <2>3. IsLongest(s, s, c)
    <3>1. s = <<"/">> /\ "/" \notin Letters /\ "/" \notin Doubling
      BY DEF s, Letters, Doubling
    <3> QED
      BY <1>5, <2>0, <3>1 DEF IsLongest, Kinds
  <2>4. s \notin {T_EOF, T_INT, T_IDENT, T_STRING} /\ Becomes(s, 0)
    BY <1>5, <2>0 DEF Kinds
  <2>5. ObjectsInv' /\ ObjectsKept(objs, objs')
    BY <1>5, SameObjects
  <2> QED
    BY <1>1, <1>5, <2>0, <2>1, <2>2, <2>3, <2>4, <2>5, TokenSeen
<1> QED
  BY <1>2, <1>3, <1>4, <1>5

(* SkipLine ends a line comment where the properties say it ends.          *)
LEMMA LineStep ==
  ASSUME ScanInv, InputInv', CharsAssumption, SkipLine
  PROVE  ScanInv'
<1>1. at = "line_comment" /\ at \in Within /\ OpenLine(Current)
  BY DEF SkipLine, Within, ScanInv, LexInv
<1>2. PICK c \in CharOrEOF : Gets(c) /\ GoOn(IF c \in {NL, EOF} THEN "skip" ELSE at)
  BY DEF SkipLine
<1>3. at' = (IF c \in {NL, EOF} THEN "skip" ELSE at) /\ first' = first /\ UNCHANGED tokenVars
  BY <1>2 DEF GoOn
<1>4. /\ OthersStay' /\ GapBefore' /\ Start' \in 1..(Position' + 1)
      /\ Start' \in Nat \ {0} /\ first' \in Nat \ {0} /\ Position' \in Nat /\ first' \in Start'..Position'
      /\ Current \in Seq(Chars) /\ Current # <<>>
      /\ over' = (over \/ c = EOF) /\ over \in BOOLEAN
      /\ c = EOF => Current' = Current
      /\ c # EOF => c \in Chars /\ over' = FALSE /\ Current' = Append(Current, c)
  BY <1>1, <1>2, <1>3, GoingOn
<1>5. CASE c \in Chars /\ c # NL /\ c # EOF
  <2>1. OpenLine(Current')
    BY <1>1, <1>4, <1>5, LineCommentGoesOn
  <2>2. at' = "line_comment"
    BY <1>1, <1>3, <1>5
  <2>3. LexInv'
    BY <2>1, <2>2 DEF LexInv
  <2> QED
    BY <1>4, <2>2, <2>3, GoesOnWithin DEF Within
<1>6. CASE c = NL \/ c = EOF
  <2>1. IsLineComment(Current', over')
    <3>1. CASE c = EOF
      <4>1. over' = TRUE /\ Current' = Current
        BY <1>4, <3>1
      <4>2. IsLineComment(Current, TRUE)
        <5>1. \E d : d \in Chars
          BY <1>4
        <5> QED
          BY <1>1, <1>4, <5>1, LineCommentGoesOn
      <4> QED
        BY <4>1, <4>2
    <3>2. CASE c # EOF
      <4>1. c = NL /\ c \in Chars /\ over' = FALSE /\ Current' = Append(Current, c)
        BY <1>4, <1>6, <3>2
      <4>2. IsLineComment(Append(Current, c), FALSE)
        BY <1>1, <1>4, <4>1, LineCommentGoesOn
      <4> QED
        BY <4>1, <4>2
    <3> QED
      BY <3>1, <3>2
  <2>2. Blank(text', Start', Position', over')
    <3>1. Blank(text', Start', first' - 1, FALSE)
      BY <1>4 DEF GapBefore
    <3>2. IsLineComment(SubSeq(text', first', Position'), over')
      BY <2>1 DEF Current
    <3>3. text' \in Seq(Chars)
      BY DEF InputInv, BufferIsLast
    <3> QED
      BY <1>4, <3>1, <3>2, <3>3, CommentIsBlank
  <2> QED
    BY <1>3, <1>4, <1>6, <2>2, GoesOnSkipping
<1> QED
  BY <1>2, <1>4, <1>5, <1>6 DEF CharOrEOF

(* SkipBlock and SkipBlockStar end a block comment where it ends.          *)
LEMMA BlockStep ==
  ASSUME ScanInv, InputInv', CharsAssumption, SkipBlock \/ SkipBlockStar
  PROVE  ScanInv'
<1>1. PICK odd \in {0, 1} : /\ at = IF odd = 1 THEN "block_star" ELSE "block"
                            /\ odd = 1 => SkipBlockStar
                            /\ odd = 0 => SkipBlock
  BY DEF SkipBlock, SkipBlockStar
<1>2. at \in Within /\ (over \/ OpenBlock(Current, odd))
  BY <1>1 DEF Within, ScanInv, LexInv
<1>3. PICK c \in CharOrEOF : /\ Gets(c)
                             /\ odd = 1 => GoOn(IF c = "/" THEN "skip" ELSE "block")
                             /\ odd = 0 => GoOn(IF c = "*" THEN "block_star" ELSE "block")
  BY <1>1 DEF SkipBlock, SkipBlockStar
<1>4. /\ odd = 1 => at' = IF c = "/" THEN "skip" ELSE "block"
      /\ odd = 0 => at' = IF c = "*" THEN "block_star" ELSE "block"
      /\ first' = first /\ UNCHANGED tokenVars
  BY <1>1, <1>3 DEF GoOn
<1>5. /\ OthersStay' /\ GapBefore' /\ Start' \in 1..(Position' + 1)
      /\ Start' \in Nat \ {0} /\ first' \in Nat \ {0} /\ Position' \in Nat /\ first' \in Start'..Position'
      /\ Current \in Seq(Chars) /\ Current # <<>>
      /\ over' = (over \/ c = EOF) /\ over \in BOOLEAN
      /\ c = EOF => Current' = Current
      /\ c # EOF => c \in Chars /\ over' = FALSE /\ Current' = Append(Current, c)
  BY <1>2, <1>3, <1>4, GoingOn
<1>6. c # EOF => OpenBlock(Current, odd)
  BY <1>2, <1>5
<1>7. CASE c = EOF
  <2>1. c # "/" /\ c # "*" /\ over'
    BY <1>5, <1>7 DEF EOF
  <2>2. at' = "block"
    BY <1>4, <2>1
  <2>3. LexInv'
    BY <2>1, <2>2 DEF LexInv
  <2> QED
    BY <1>5, <2>2, <2>3, GoesOnWithin DEF Within
<1>8. CASE c # EOF /\ odd = 1 /\ c = "/"
  <2>1. IsBlockComment(Current')
    BY <1>5, <1>6, <1>8, BlockCommentGoesOn
  <2>2. Blank(text', Start', Position', over')
    <3>1. Blank(text', Start', first' - 1, FALSE)
      BY <1>5 DEF GapBefore
    <3>2. IsBlockComment(SubSeq(text', first', Position'))
      BY <2>1 DEF Current
    <3>3. text' \in Seq(Chars)
      BY DEF InputInv, BufferIsLast
    <3> QED
      BY <1>5, <3>1, <3>2, <3>3, CommentIsBlank
  <2> QED
    BY <1>4, <1>5, <1>8, <2>2, GoesOnSkipping
<1>9. CASE c # EOF /\ odd = 1 /\ c # "/"
  <2>1. OpenBlock(Current', 0)
    BY <1>5, <1>6, <1>9, BlockCommentGoesOn
  <2>2. at' = "block"
    BY <1>4, <1>9
  <2>3. LexInv'
    BY <2>1, <2>2 DEF LexInv
  <2> QED
    BY <1>5, <2>2, <2>3, GoesOnWithin DEF Within
<1>10. CASE c # EOF /\ odd = 0
  <2>1. OpenBlock(Current', IF c = "*" THEN 1 ELSE 0)
    BY <1>5, <1>6, <1>10, BlockCommentGoesOn
  <2>2. at' = IF c = "*" THEN "block_star" ELSE "block"
    BY <1>4, <1>10
  <2>3. LexInv'
    BY <2>1, <2>2 DEF LexInv
  <2> QED
    BY <1>5, <2>2, <2>3, GoesOnWithin DEF Within
<1> QED
  BY <1>7, <1>8, <1>9, <1>10

(* ReadBang delivers != or ends the process.                               *)
LEMMA BangStep ==
  ASSUME ScanInv, InputInv', CharsAssumption, ReadBang
  PROVE  ScanInv'
<1>1. at = "bang" /\ at \in Within /\ Current = <<"!">>
  BY DEF ReadBang, Within, ScanInv, LexInv
<1>2. PICK c \in CharOrEOF :
        /\ Gets(c)
        /\ \/ c = "=" /\ Returns /\ Becomes(<<"!", c>>, 0) /\ UNCHANGED objs
           \/ c # "=" /\ GoOn("failed")
  BY DEF ReadBang
<1>3. CASE c = "=" /\ Returns /\ Becomes(<<"!", c>>, 0) /\ UNCHANGED objs
  <2> DEFINE s == <<"!", c>>
  <2>0. s \notin Kinds /\ Len(s) = 2 /\ s[1] = "!"
    BY NoKind
  <2>1. c # EOF /\ at' = "idle" /\ first' = first
    BY <1>3 DEF Returns, EOF
  <2>2. s = Append(Current, c)
    BY <1>1, TwoCharacters, Zenon
  <2>3. s # <<"/">> /\ "!" \notin Letters
    BY <2>0 DEF Letters
  <2>4. Becomes(s, 0)
    BY <1>3
  <2> HIDE DEF s
  <2>5. IsSpelled(s, s)
    BY <2>0, SpelledAsItself
  <2>6. \A d \in Chars : IsLongest(s, s, d)
    BY <2>0, <2>3 DEF IsLongest, Kinds
  <2>7. s \notin {T_EOF, T_INT, T_IDENT, T_STRING}
    BY <2>0 DEF Kinds
  <2>8. ObjectsInv' /\ ObjectsKept(objs, objs')
    BY <1>3, SameObjects
  <2> QED
    BY <1>1, <1>2, <2>1, <2>2, <2>4, <2>5, <2>6, <2>7, <2>8, TokenTaken
<1>4. CASE c # "=" /\ GoOn("failed")
  <2>1. at' = "failed" /\ first' = first /\ UNCHANGED tokenVars
    BY <1>4 DEF GoOn
  <2>2. OthersStay' /\ Start' \in 1..(Position' + 1)
    BY <1>1, <1>2, <2>1, GoingOn
  <2> QED
    BY <2>1, <2>2, GoesOnFailing
<1> QED
  BY <1>2, <1>3, <1>4

-----------------------------------------------------------------------------
(* Strings *)

(* A string that goes on                                                   *)
LEMMA StringGoesOn ==
  ASSUME NEW s \in Seq(Chars), NEW word, NEW escaped, OpenString(s, word, escaped), NEW c \in Chars
  PROVE  /\ Append(s, c) # <<>> /\ Append(s, c)[1] = "\""
         /\ ReadOf(Tail(Append(s, c))) = Unescape([word |-> word, escaped |-> escaped], c)
         /\ word \in Seq(TextChars) /\ escaped \in BOOLEAN
<1>1. s # <<>> /\ s[1] = "\"" /\ ReadOf(Tail(s)) = [word |-> word, escaped |-> escaped]
  BY DEF OpenString
<1>2. /\ Append(s, c) # <<>> /\ Append(s, c)[1] = s[1]
      /\ Tail(Append(s, c)) = Append(Tail(s), c) /\ Tail(s) \in Seq(Chars)
  <2>1. Len(s) \in Nat \ {0}
    BY <1>1, EmptySeq
  <2>a. Append(s, c) # <<>> /\ \A i \in 1..Len(s) : Append(s, c)[i] = s[i]
    BY AppendProperties
  <2>2. Tail(Append(s, c)) = Append(Tail(s), c) /\ Tail(s) \in Seq(Chars)
    BY <1>1, HeadTailAppend, HeadTailProperties
  <2> QED
    BY <2>1, <2>a, <2>2
<1>3. ReadOf(Append(Tail(s), c)) = Unescape(ReadOf(Tail(s)), c) /\ ReadOf(Tail(s)) \in Readings
  BY <1>2, UnescapingFolds
<1>4. [word |-> word, escaped |-> escaped] \in Readings
  BY <1>1, <1>3
<1>5. word \in Seq(TextChars) /\ escaped \in BOOLEAN
  BY <1>4 DEF Readings
<1> QED
  BY <1>1, <1>2, <1>3, <1>5

(* What lies between the quotes                                            *)
LEMMA BetweenQuotes ==
  ASSUME NEW t \in Seq(Chars), NEW f \in Nat \ {0}, NEW k \in Nat, f <= k, k <= Len(t)
  PROVE  Tail(SubSeq(t, f, k)) = SubSeq(t, f + 1, k)
<1>1. f \in 1..Len(t) /\ k \in f..Len(t)
  OBVIOUS
<1> QED
  BY <1>1, HeadTailOfSubSeq

(* ReadString keeps what the characters mean.                              *)
LEMMA StringStep ==
  ASSUME ScanInv, InputInv', CharsAssumption, ReadString
  PROVE  ScanInv'
<1>1. at = "string" /\ at \in Within /\ OpenString(Current, lex, FALSE)
  BY DEF ReadString, Within, ScanInv, LexInv
<1>2. PICK c \in CharOrEOF :
       \/ /\ c \in {"\"", EOF}
          /\ LooksAt(c, "close") /\ UNCHANGED <<lex, first, is_putback, tokenVars>>
       \/ c = "\\" /\ Gets(c) /\ GoOn("escape")
       \/ c \notin {"\"", EOF, "\\"} /\ Gets(c) /\ Keep(<<c>>)
  BY DEF ReadString
<1>3. CASE LooksAt(c, "close") /\ UNCHANGED <<lex, first, is_putback, tokenVars>>
  <2>1. at' = "close" /\ first' = first /\ lex' = lex /\ UNCHANGED tokenVars
    BY <1>3, WhereItGoes
  <2>2. Grows(c) /\ Position' = Position /\ Position \in Nat
    BY <1>3, TextSeen DEF ScanInv, Grows
  <2>3. Position' >= Position
    BY <2>2
  <2>4. OthersStay' /\ Start' = Start
    BY <2>1, <2>2, NoneDelivered
  <2>5. /\ Start \in 1..(Position' + 1) /\ first \in Start..Position'
        /\ Blank(text', Start, first - 1, FALSE) /\ Current' = Current
    BY <1>1, <2>1, <2>2, <2>3, PlaceInside
  <2>6. GapBefore' /\ Start' \in 1..(Position' + 1)
    BY <2>1, <2>4, <2>5 DEF GapBefore
  <2>7. OpenString(Current', lex', FALSE)
    BY <1>1, <2>1, <2>5
  <2>8. LexInv'
    BY <2>1, <2>7 DEF LexInv
  <2> QED
    BY <2>1, <2>4, <2>6, <2>8, GoesOnWithin DEF Within
<1>4. CASE c = "\\" /\ Gets(c) /\ GoOn("escape")
  <2>1. at' = "escape" /\ first' = first /\ lex' = lex /\ UNCHANGED tokenVars /\ c # EOF
    BY <1>4 DEF GoOn, EOF
  <2>2. /\ OthersStay' /\ GapBefore' /\ Start' \in 1..(Position' + 1)
        /\ c \in Chars /\ Current' = Append(Current, c) /\ Current \in Seq(Chars)
    BY <1>1, <1>4, <2>1, GoingOn
  <2>3. /\ Current' # <<>> /\ Current'[1] = "\""
        /\ ReadOf(Tail(Current')) = Unescape([word |-> lex, escaped |-> FALSE], c)
    BY <1>1, <2>2, StringGoesOn, ZenonT(60)
  <2>4. Unescape([word |-> lex, escaped |-> FALSE], c) = [word |-> lex, escaped |-> TRUE]
    BY <1>4 DEF Unescape
  <2>5. OpenString(Current', lex', TRUE)
    BY <2>1, <2>3, <2>4 DEF OpenString
  <2>6. LexInv'
    BY <2>1, <2>5 DEF LexInv
  <2> QED
    BY <2>1, <2>2, <2>6, GoesOnWithin DEF Within
<1>5. CASE c \notin {"\"", EOF, "\\"} /\ Gets(c) /\ Keep(<<c>>)
  <2>1. at' = "string" /\ first' = first /\ lex' = lex \o <<c>> /\ UNCHANGED tokenVars /\ c # EOF /\ c # "\\"
    BY <1>1, <1>5 DEF Keep
  <2>2. /\ OthersStay' /\ GapBefore' /\ Start' \in 1..(Position' + 1)
        /\ c \in Chars /\ Current' = Append(Current, c) /\ Current \in Seq(Chars)
    BY <1>1, <1>5, <2>1, GoingOn
  <2>3. /\ Current' # <<>> /\ Current'[1] = "\""
        /\ ReadOf(Tail(Current')) = Unescape([word |-> lex, escaped |-> FALSE], c)
        /\ lex \in Seq(TextChars)
    BY <1>1, <2>2, StringGoesOn, ZenonT(60)
  <2>4. Unescape([word |-> lex, escaped |-> FALSE], c) = [word |-> Append(lex, c), escaped |-> FALSE]
    BY <2>1 DEF Unescape
  <2>5. lex' = Append(lex, c)
    <3>1. c \in TextChars /\ lex \in Seq(TextChars)
      BY <2>2, <2>3 DEF TextChars
    <3>2. Append(lex, c) = lex \o <<c>>
      BY <3>1, AppendIsConcat
    <3> QED
      BY <2>1, <3>2
  <2>6. OpenString(Current', lex', FALSE)
    BY <2>3, <2>4, <2>5 DEF OpenString
  <2>7. LexInv'
    BY <2>1, <2>6 DEF LexInv
  <2> QED
    BY <2>1, <2>2, <2>7, GoesOnWithin DEF Within
<1> QED
  BY <1>2, <1>3, <1>4, <1>5

(* ReadEscape keeps what the character behind the backslash means.         *)
LEMMA EscapeStep ==
  ASSUME ScanInv, InputInv', CharsAssumption, ReadEscape
  PROVE  ScanInv'
<1>1. at = "escape" /\ at \in Within /\ OpenString(Current, lex, TRUE)
  BY DEF ReadEscape, Within, ScanInv, LexInv
<1>2. PICK c \in CharOrEOF :
        /\ Gets(c)
        /\ \/ /\ c \in Escapes
              /\ at' = "string" /\ lex' = Append(lex, Escape(c))
              /\ UNCHANGED <<first, is_putback, tokenVars>>
           \/ c \notin Escapes /\ GoOn("failed")
  BY DEF ReadEscape
<1>3. CASE /\ c \in Escapes
           /\ at' = "string" /\ lex' = Append(lex, Escape(c))
           /\ UNCHANGED <<first, is_putback, tokenVars>>
  <2>1. first' = first /\ UNCHANGED tokenVars /\ c # EOF
    BY <1>3 DEF Escapes, EOF
  <2>2. /\ OthersStay' /\ GapBefore' /\ Start' \in 1..(Position' + 1)
        /\ c \in Chars /\ Current' = Append(Current, c) /\ Current \in Seq(Chars)
    BY <1>1, <1>2, <2>1, GoingOn
  <2>3. /\ Current' # <<>> /\ Current'[1] = "\""
        /\ ReadOf(Tail(Current')) = Unescape([word |-> lex, escaped |-> TRUE], c)
    BY <1>1, <2>2, StringGoesOn
  <2>4. Unescape([word |-> lex, escaped |-> TRUE], c) = [word |-> Append(lex, Escape(c)), escaped |-> FALSE]
    BY DEF Unescape
  <2>5. OpenString(Current', lex', FALSE)
    BY <1>3, <2>3, <2>4 DEF OpenString
  <2>6. LexInv'
    BY <1>3, <2>5 DEF LexInv
  <2> QED
    BY <1>3, <2>2, <2>6, GoesOnWithin DEF Within
<1>4. CASE c \notin Escapes /\ GoOn("failed")
  <2>1. at' = "failed" /\ first' = first /\ UNCHANGED tokenVars
    BY <1>4 DEF GoOn
  <2>2. OthersStay' /\ Start' \in 1..(Position' + 1)
    BY <1>1, <1>2, <2>1, GoingOn
  <2> QED
    BY <2>1, <2>2, GoesOnFailing
<1> QED
  BY <1>2, <1>3, <1>4

(* The object of a word: the one there is, or a new one                    *)
LEMMA ObjectOf ==
  ASSUME ScanInv, NEW kind \in {T_IDENT, T_STRING}, NEW str \in Seq(TextChars \union WordChars),
         FindOrMake(kind, str)
  PROVE  \E data : /\ Becomes(kind, data) /\ ObjectsInv' /\ ObjectsKept(objs, objs')
                   /\ data \in DOMAIN objs' /\ objs'[data] = [kind |-> kind, str |-> str]
<1> DEFINE obj   == [kind |-> kind, str |-> str]
           found == {i \in DOMAIN objs : objs[i] = obj}
<1>1. objs \in Seq(Object) /\ \A i, j \in DOMAIN objs : objs[i] = objs[j] => i = j
  BY DEF ScanInv, ObjectsInv
<1>2. obj \in Object
  BY DEF Object
<1>3. CASE found # {}
  <2>1. UNCHANGED objs /\ Becomes(kind, CHOOSE i \in found : TRUE)
    BY <1>3 DEF FindOrMake
  <2>2. (CHOOSE i \in found : TRUE) \in found
    BY <1>3
  <2>3. PICK data : data = CHOOSE i \in found : TRUE
    OBVIOUS
  <2>4. Becomes(kind, data) /\ data \in found
    BY <2>1, <2>2, <2>3
  <2>5. ObjectsInv' /\ ObjectsKept(objs, objs')
    BY <2>1, SameObjects
  <2>6. data \in DOMAIN objs' /\ objs'[data] = obj
    BY <2>1, <2>4
  <2> QED
    BY <2>4, <2>5, <2>6
<1>4. CASE found = {}
  <2>1. objs' = Append(objs, obj) /\ Becomes(kind, Len(objs'))
    BY <1>4 DEF FindOrMake
  <2> HIDE DEF obj
  <2>2. /\ objs' \in Seq(Object) /\ Len(objs') = Len(objs) + 1
        /\ \A i \in 1..Len(objs) : objs'[i] = objs[i]
        /\ objs'[Len(objs) + 1] = obj
    BY <1>1, <1>2, <2>1, AppendProperties
  <2>3. Len(objs) \in Nat /\ DOMAIN objs = 1..Len(objs) /\ DOMAIN objs' = 1..(Len(objs) + 1)
    BY <1>1, <2>2
  <2>4. \A i \in DOMAIN objs : objs[i] # obj
    BY <1>4
  <2>5. ObjectsInv'
    BY <1>1, <2>2, <2>3, <2>4 DEF ObjectsInv
  <2>6. ObjectsKept(objs, objs')
    BY <2>2, <2>3 DEF ObjectsKept
  <2>7. Len(objs') \in DOMAIN objs' /\ objs'[Len(objs')] = obj
    BY <2>2, <2>3
  <2> QED
    BY <2>1, <2>5, <2>6, <2>7 DEF obj
<1> QED
  BY <1>3, <1>4

(* CloseString delivers the object of the string.                          *)
LEMMA CloseStep ==
  ASSUME ScanInv, InputInv', CharsAssumption, CloseString
  PROVE  ScanInv'
<1>1. at = "close" /\ at \in Within /\ OpenString(Current, lex, FALSE)
  BY DEF CloseString, Within, ScanInv, LexInv
<1>2. PICK c \in CharOrEOF :
        /\ Gets(c)
        /\ \/ c = "\"" /\ Returns /\ FindOrMake(T_STRING, lex)
           \/ c # "\"" /\ GoOn("failed")
  BY DEF CloseString
<1>3. CASE c = "\"" /\ Returns /\ FindOrMake(T_STRING, lex)
  <2>1. at' = "idle" /\ first' = first /\ c # EOF
    BY <1>3 DEF Returns, EOF
  <2>2. Grows(c) /\ Position' = Position + 1 /\ Position \in Nat /\ Position <= Len(text)
    <3>1. InputInv /\ EndOfInput
      BY DEF ScanInv
    <3>2. Grows(c) /\ Position' = IF c = EOF THEN Position ELSE Position + 1
      BY <1>2, <3>1, TextTaken
    <3>3. Position \in Nat /\ Position <= Len(text)
      BY <3>2 DEF Grows
    <3> QED
      BY <2>1, <3>2, <3>3
  <2>3. c \in Chars /\ Extends(text', text)
    BY <2>1, <2>2 DEF Grows
  <2>4. Current \in Seq(Chars) /\ first \in Nat \ {0} /\ first <= Position
    <3>1. Position' >= Position
      BY <2>2
    <3>2. Current \in Seq(Chars) /\ first \in Nat \ {0}
      BY <1>1, <2>1, <2>2, <3>1, PlaceInside
    <3>3. first \in Start..Position
      BY <1>1 DEF ScanInv, GapInv, GapBefore
    <3> QED
      BY <3>2, <3>3
  <2>5. lex \in Seq(TextChars)
    BY <1>1, <2>3, <2>4, StringGoesOn
  <2>6. PICK data : /\ Becomes(T_STRING, data) /\ ObjectsInv' /\ ObjectsKept(objs, objs')
                    /\ data \in DOMAIN objs' /\ objs'[data] = [kind |-> T_STRING, str |-> lex]
    <3>1. lex \in Seq(TextChars \union WordChars)
      BY <2>5, SeqMonotonic
    <3> QED
      BY <1>3, <3>1, ObjectOf
  <2>7. SubSeq(text', first + 1, Position) = Tail(Current)
    <3>1. text \in Seq(Chars)
      BY <2>3 DEF Extends
    <3>2. Tail(Current) = SubSeq(text, first + 1, Position)
      BY <2>2, <2>4, <3>1, BetweenQuotes DEF Current
    <3>3. first + 1 \in Nat \ {0}
      BY <2>4
    <3> QED
      BY <2>2, <2>3, <3>2, <3>3, PartStays, ZenonT(60)
  <2>8. Unescaped(SubSeq(text', first + 1, Position)) = lex
    <3>1. ReadOf(Tail(Current)) = [word |-> lex, escaped |-> FALSE]
      BY <1>1 DEF OpenString
    <3>2. ReadOf(Tail(Current)).word = lex
      BY <3>1
    <3> QED
      BY <2>7, <3>2, UnescapedIsRead
  <2> DEFINE s == Append(Current, c)
  <2>9. Len(s) > 1 /\ s[1] = "\"" /\ s[Len(s)] = "\""
    <3>1. Current # <<>> /\ Current[1] = "\""
      BY <1>1 DEF OpenString
    <3>2. Len(Current) \in Nat \ {0}
      BY <2>4, <3>1, EmptySeq
    <3>3. /\ Len(s) = Len(Current) + 1 /\ s[Len(Current) + 1] = c
          /\ \A i \in 1..Len(Current) : s[i] = Current[i]
      BY <2>3, <2>4, AppendProperties
    <3>4. \A n \in Nat \ {0} : 1 \in 1..n /\ n + 1 > 1
      OBVIOUS
    <3> QED
      BY <1>3, <3>1, <3>2, <3>3, <3>4
  <2> HIDE DEF s
  <2>10. IsSpelled(T_STRING, s)
    BY <2>9 DEF IsSpelled, T_STRING, T_EOF, T_INT, T_IDENT
  <2>11. \A d \in Chars : IsLongest(T_STRING, s, d)
    <3>1. "\"" \notin Letters /\ "\"" \notin Doubling
      BY DEF Letters, Doubling
    <3>a. Len(<<"/">>) = 1
      OBVIOUS
    <3>b. s # <<"/">>
      <4> SUFFICES ASSUME s = <<"/">> PROVE FALSE
        OBVIOUS
      <4>1. Len(s) = 1
        BY <3>a, Zenon
      <4> QED
        BY <2>9, <4>1
    <3>2. T_STRING # T_INT /\ T_STRING # T_IDENT
      BY DEF T_STRING, T_INT, T_IDENT
    <3> QED
      BY <2>9, <3>1, <3>b, <3>2 DEF IsLongest
  <2>12. T_STRING \notin {T_EOF, T_INT}
    BY DEF T_STRING, T_EOF, T_INT
  <2>13. s = Append(Current, c)
    BY DEF s
  <2>14. objs'[data] = [kind |-> T_STRING, str |-> Unescaped(SubSeq(text', first + 1, Position))]
    BY <2>6, <2>8
  <2> QED
    BY <1>1, <1>2, <2>1, <2>6, <2>10, <2>11, <2>12, <2>13, <2>14, TokenTaken
<1>4. CASE c # "\"" /\ GoOn("failed")
  <2>1. at' = "failed" /\ first' = first /\ UNCHANGED tokenVars
    BY <1>4 DEF GoOn
  <2>2. OthersStay' /\ Start' \in 1..(Position' + 1)
    BY <1>1, <1>2, <2>1, GoingOn
  <2> QED
    BY <2>1, <2>2, GoesOnFailing
<1> QED
  BY <1>2, <1>3, <1>4

(* ReadInt delivers the number of all the digits.                          *)
LEMMA IntStep ==
  ASSUME ScanInv, InputInv', CharsAssumption, ReadInt
  PROVE  ScanInv'
<1>1. at = "int" /\ at \in Within /\ lex = Current /\ lex \in Seq(Digits)
  BY DEF ReadInt, Within, ScanInv, LexInv
<1>2. PICK c \in CharOrEOF :
       \/ c \in Digits /\ Gets(c) /\ Keep(<<c>>)
       \/ /\ c \notin Digits
          /\ LooksAt(c, "idle") /\ UNCHANGED <<lex, first, is_putback>>
          /\ Becomes(T_INT, IntOf(lex)) /\ UNCHANGED objs
  BY DEF ReadInt
<1>3. CASE c \in Digits /\ Gets(c) /\ Keep(<<c>>)
  <2>1. at' = "int" /\ first' = first /\ lex' = lex \o <<c>> /\ UNCHANGED tokenVars /\ c # EOF
    BY <1>1, <1>3 DEF Keep, Digits, EOF
  <2>2. /\ OthersStay' /\ GapBefore' /\ Start' \in 1..(Position' + 1)
        /\ Current' = Append(Current, c)
    BY <1>1, <1>3, <2>1, GoingOn
  <2>3. Append(lex, c) = lex \o <<c>> /\ Append(lex, c) \in Seq(Digits)
    BY <1>1, <1>3, AppendIsConcat, AppendProperties
  <2>4. lex' = Current' /\ lex' \in Seq(Digits)
    BY <1>1, <2>1, <2>2, <2>3
  <2>5. LexInv'
    BY <2>1, <2>4 DEF LexInv
  <2> QED
    BY <2>1, <2>2, <2>5, GoesOnWithin DEF Within
<1>4. CASE /\ c \notin Digits
           /\ LooksAt(c, "idle") /\ UNCHANGED <<lex, first, is_putback>>
           /\ Becomes(T_INT, IntOf(lex)) /\ UNCHANGED objs
  <2>1. at' = "idle" /\ first' = first
    BY <1>4, WhereItGoes
  <2>2. T_INT # T_EOF /\ T_INT # T_IDENT /\ T_INT # T_STRING
    BY DEF T_INT, T_EOF, T_IDENT, T_STRING
  <2>3. \A i \in DOMAIN lex : lex[i] \in Digits
    BY <1>1
  <2>4. IsSpelled(T_INT, lex)
    BY <2>2, <2>3 DEF IsSpelled
  <2>5. c \in Chars => IsLongest(T_INT, lex, c)
    <3>1. lex # <<>> => lex[1] \in Digits /\ lex[1] \notin Letters /\ lex[1] # "/" /\ lex[1] \notin Doubling
      <4>1. lex # <<>> => 1 \in DOMAIN lex
        BY <1>1, EmptySeq
      <4> QED
        BY <2>3, <4>1 DEF Digits, Letters, Doubling
    <3>2. Len(lex) = 1 => lex # <<>>
      OBVIOUS
    <3>3. lex # <<"/">>
      BY <3>1
    <3> QED
      BY <1>4, <2>2, <3>1, <3>2, <3>3 DEF IsLongest
  <2>6. ObjectsInv' /\ ObjectsKept(objs, objs')
    BY <1>4, SameObjects
  <2> QED
    BY <1>1, <1>4, <2>1, <2>2, <2>4, <2>5, <2>6, TokenSeen
<1> QED
  BY <1>2, <1>3, <1>4

(* ReadWord delivers a keyword or the object of the identifier.            *)
LEMMA WordStep ==
  ASSUME ScanInv, InputInv', CharsAssumption, ScannerAssumption, ReadWord
  PROVE  ScanInv'
<1>1. /\ at = "word" /\ at \in Within /\ lex = Current /\ lex \in Words
      /\ lex # <<>> /\ lex[1] \in Letters /\ Len(lex) < WORD_SIZE
  BY DEF ReadWord, Within, ScanInv, LexInv
<1>2. Len(lex) \in Nat /\ WORD_SIZE \in Nat
  BY <1>1 DEF Words, ScannerAssumption
<1> DEFINE isRead(c) == c \in WordChars /\ Len(lex) < WORD_SIZE - 1
<1>3. PICK c \in CharOrEOF :
       \/ isRead(c) /\ Gets(c) /\ Keep(<<c>>)
       \/ /\ ~isRead(c)
          /\ LooksAt(c, "idle") /\ UNCHANGED <<lex, first, is_putback>>
          /\ \/ TypeOfWord(lex) = T_IDENT /\ FindOrMake(TypeOfWord(lex), lex)
             \/ TypeOfWord(lex) # T_IDENT /\ Becomes(TypeOfWord(lex), 0) /\ UNCHANGED objs
  BY DEF ReadWord
<1>4. CASE isRead(c) /\ Gets(c) /\ Keep(<<c>>)
  <2>1. at' = "word" /\ first' = first /\ lex' = lex \o <<c>> /\ UNCHANGED tokenVars /\ c # EOF
    BY <1>1, <1>4 DEF Keep, WordChars, Letters, Digits, EOF
  <2>2. /\ OthersStay' /\ GapBefore' /\ Start' \in 1..(Position' + 1)
        /\ Current' = Append(Current, c)
    BY <1>1, <1>4, <2>1, GoingOn
  <2>3. /\ Append(lex, c) = lex \o <<c>> /\ Append(lex, c) \in Words /\ Append(lex, c) # <<>>
        /\ Len(Append(lex, c)) = Len(lex) + 1
        /\ \A i \in 1..Len(lex) : Append(lex, c)[i] = lex[i]
    BY <1>1, <1>4, AppendIsConcat, AppendProperties DEF Words
  <2>4. Len(lex) + 1 < WORD_SIZE /\ 1 \in 1..Len(lex)
    <3>1. \A n, m \in Nat : n < m - 1 => n + 1 < m
      OBVIOUS
    <3>2. Len(lex) \in Nat \ {0}
      BY <1>1, EmptySeq DEF Words
    <3>3. \A n \in Nat \ {0} : 1 \in 1..n
      OBVIOUS
    <3> QED
      BY <1>2, <1>4, <3>1, <3>2, <3>3
  <2>5. lex' = Append(lex, c)
    BY <2>1, <2>3
  <2>6. /\ lex' = Current' /\ lex' \in Words /\ lex' # <<>>
        /\ lex'[1] \in Letters /\ Len(lex') < WORD_SIZE
    BY <1>1, <2>2, <2>3, <2>4, <2>5
  <2>7. LexInv'
    BY <2>1, <2>6 DEF LexInv
  <2> QED
    BY <2>1, <2>2, <2>7, GoesOnWithin DEF Within
<1>5. CASE /\ ~isRead(c)
           /\ LooksAt(c, "idle") /\ UNCHANGED <<lex, first, is_putback>>
           /\ \/ TypeOfWord(lex) = T_IDENT /\ FindOrMake(TypeOfWord(lex), lex)
              \/ TypeOfWord(lex) # T_IDENT /\ Becomes(TypeOfWord(lex), 0) /\ UNCHANGED objs
  <2>1. at' = "idle" /\ first' = first
    BY <1>5, WhereItGoes
  <2>2. lex \notin {T_EOF, T_INT, T_IDENT, T_STRING}
    BY <1>1, WordIsNoKind DEF Kinds
  <2>3. c \notin WordChars \/ Len(lex) = WORD_SIZE - 1
    <3>1. \A n, m \in Nat : n < m /\ ~(n < m - 1) => n = m - 1
      OBVIOUS
    <3> QED
      BY <1>1, <1>2, <1>5, <3>1
  <2>4. lex # <<"/">>
    <3>1. "/" \notin Letters
      BY DEF Letters
    <3> QED
      BY <1>1, <3>1
  <2>5. lex[1] \notin Doubling
    BY <1>1 DEF Letters, Doubling
  <2>6. CASE TypeOfWord(lex) = T_IDENT /\ FindOrMake(TypeOfWord(lex), lex)
    <3>1. lex \notin Range(Keywords)
      BY <1>1, <2>2, <2>6, KeywordsAreFound
    <3>2. \A i \in DOMAIN Keywords : Keywords[i] # lex
      BY <3>1 DEF Range
    <3>3. T_IDENT # T_EOF /\ T_IDENT # T_INT /\ T_IDENT # T_STRING
      BY DEF T_INT, T_EOF, T_IDENT, T_STRING
    <3>4. \A i \in DOMAIN lex : lex[i] \in WordChars
      BY <1>1 DEF Words
    <3>5. IsSpelled(T_IDENT, lex)
      BY <1>1, <3>2, <3>3, <3>4 DEF IsSpelled
    <3>6. IsLongest(T_IDENT, lex, c)
      BY <2>3, <2>4, <2>5, <3>3 DEF IsLongest
    <3>7. lex \in Seq(TextChars \union WordChars)
      BY <1>1, SeqMonotonic DEF Words
    <3>8. PICK data : /\ Becomes(T_IDENT, data) /\ ObjectsInv' /\ ObjectsKept(objs, objs')
                      /\ data \in DOMAIN objs' /\ objs'[data] = [kind |-> T_IDENT, str |-> lex]
      BY <2>6, <3>7, ObjectOf
    <3> QED
      BY <1>1, <1>5, <2>1, <3>3, <3>5, <3>6, <3>8, TokenSeen
  <2>7. CASE TypeOfWord(lex) # T_IDENT /\ Becomes(TypeOfWord(lex), 0) /\ UNCHANGED objs
    <3>1. TypeOfWord(lex) = lex
      BY <1>1, <2>7, KeywordsAreFound
    <3>2. IsSpelled(lex, lex)
      BY <2>2, SpelledAsItself DEF Kinds
    <3>3. IsLongest(lex, lex, c)
      BY <1>1, <2>2, <2>3, <2>4, <2>5 DEF IsLongest
    <3>4. ObjectsInv' /\ ObjectsKept(objs, objs')
      BY <2>7, SameObjects
    <3>5. Becomes(lex, 0)
      BY <2>7, <3>1
    <3> QED
      BY <1>1, <1>5, <2>1, <2>2, <3>2, <3>3, <3>4, <3>5, TokenSeen
  <2> QED
    BY <1>5, <2>6, <2>7
<1> QED
  BY <1>3, <1>4, <1>5

(* The first character of what comes next                                  *)
LEMMA FirstCharacter ==
  ASSUME ScanInv, CharsAssumption, at = "skip", NEW c, c # EOF, Gets(c), first' = Len(text')
  PROVE  /\ Grows(c) /\ c \in Chars /\ over' = FALSE
         /\ Position \in Nat /\ Position' = Position + 1 /\ Position' = Len(text') /\ first' = Position'
         /\ Start \in Nat \ {0} /\ Start \in 1..(Position + 1)
         /\ Blank(text', Start, Position, FALSE)
         /\ SubSeq(text', first', Position') = <<c>>
         /\ text'[Position + 1] = c /\ text' \in Seq(Chars)
<1>1. InputInv /\ EndOfInput
  BY DEF ScanInv
<1>2. Grows(c) /\ Position' = IF c = EOF THEN Position ELSE Position + 1
  BY <1>1, TextTaken
<1>3. /\ Position \in Nat /\ Position <= Len(text) /\ Extends(text', text)
      /\ c \in Chars /\ Len(text') = Position + 1 /\ text'[Position + 1] = c
      /\ over' = (over \/ c = EOF) /\ (over => c = EOF)
  BY <1>2 DEF Grows
<1>4. over = FALSE /\ over' = FALSE
  BY <1>1, <1>3 DEF EndOfInput
<1>5. Position' = Position + 1 /\ Position' = Len(text') /\ first' = Position'
  BY <1>2, <1>3
<1>6. Start \in 1..(Position + 1) /\ Blank(text, Start, Position, FALSE)
  BY <1>4 DEF ScanInv, GapInv
<1>7. Start \in Nat \ {0}
  BY <1>3, <1>6
<1>8. Blank(text', Start, Position, FALSE)
  BY <1>3, <1>6, <1>7, BlankStays
<1>9. text' \in Seq(Chars)
  BY <1>3 DEF Extends
<1>10. SubSeq(text', Position + 1, Position + 1) = <<c>>
  <2>1. Position + 1 \in 1..Len(text')
    BY <1>3
  <2> QED
    BY <1>3, <1>9, <2>1, OneCharacter
<1>11. SubSeq(text', first', Position') = <<c>>
  BY <1>5, <1>10
<1> QED
  BY <1>2, <1>3, <1>4, <1>5, <1>6, <1>7, <1>8, <1>9, <1>11

(* A token of one character, or of none at the end of the text             *)
LEMMA TokenAtOnce ==
  ASSUME ScanInv, InputInv', at' = "idle", NEW c, Grows(c),
         NEW type, Becomes(type, 0), type \notin {T_INT, T_IDENT, T_STRING},
         ObjectsInv', ObjectsKept(objs, objs'),
         type = T_EOF => c = EOF /\ Position' = Len(text'),
         Start \in Nat \ {0}, first' \in Nat, Start <= first', first' <= Position' + 1,
         Blank(text', Start, first' - 1, type = T_EOF),
         IsSpelled(type, SubSeq(text', first', Position')),
         \/ \A d \in Chars : IsLongest(type, SubSeq(text', first', Position'), d)
         \/ over' /\ Position' = Len(text')
  PROVE  ScanInv'
<1> DEFINE t == [type |-> type, data |-> 0, first |-> first', last |-> Position']
<1>1. t.type = type /\ t.data = 0 /\ t.first = first' /\ t.last = Position'
  OBVIOUS
<1>2. t = [type |-> type, data |-> 0, first |-> first', last |-> Position']
  OBVIOUS
<1> HIDE DEF t
<1>3. Position' \in Nat /\ Position' <= Len(text')
  BY DEF Grows
<1>4. Start - 1 \in Nat /\ Start - 1 < first' /\ (Start - 1) + 1 = Start
  OBVIOUS
<1>5. IsToken(text', over', t, Start - 1)
  BY <1>1, <1>3, <1>4 DEF IsToken
<1>6. HasData(text', objs', t)
  BY <1>1 DEF HasData
<1> QED
  BY <1>2, <1>5, <1>6, Delivering

(* Skip delivers the end of the file, however often it is asked.           *)
LEMMA EndStep ==
  ASSUME ScanInv, InputInv', CharsAssumption, at = "skip", Gets(EOF),
         first' = Len(text) + 1, at' = "idle", Becomes(T_EOF, 0), UNCHANGED objs
  PROVE  ScanInv'
<1>1. InputInv /\ EndOfInput
  BY DEF ScanInv
<1>2. Grows(EOF) /\ Position' = Position
  BY <1>1, TextTaken
<1>3. /\ Position \in Nat /\ text' = text /\ Position = Len(text)
      /\ over' = TRUE /\ text \in Seq(Chars)
  BY <1>2 DEF Grows, Extends
<1>4. Start \in 1..(Position + 1) /\ Blank(text, Start, Position, over)
  BY DEF ScanInv, GapInv
<1>5. /\ Start \in Nat \ {0} /\ first' \in Nat /\ Start <= first' /\ first' <= Position' + 1
      /\ first' - 1 = Position
  BY <1>2, <1>3, <1>4
<1>6. Blank(text', Start, first' - 1, T_EOF = T_EOF)
  <2>1. CASE over
    <3>1. over = TRUE /\ (T_EOF = T_EOF) = TRUE
      BY <1>1, <2>1 DEF EndOfInput
    <3>2. Blank(text, Start, Position, TRUE)
      BY <1>4, <3>1
    <3> QED
      BY <1>3, <1>5, <3>1, <3>2
  <2>2. CASE ~over
    <3>1. over = FALSE
      BY <1>1, <2>2 DEF EndOfInput
    <3>2. Blank(text, Start, Position, FALSE)
      BY <1>4, <3>1
    <3>3. Blank(text, Start, Position, T_EOF = T_EOF)
      BY <3>2, BlankAtTheEnd
    <3> QED
      BY <1>3, <1>5, <3>3
  <2> QED
    BY <2>1, <2>2
<1>7. SubSeq(text', first', Position') = <<>>
  <2>1. SubSeq(text, Position + 1, Position) = <<>>
    BY <1>3, SubSeqEmpty
  <2>2. first' = Position + 1
    BY <1>3
  <2> QED
    BY <1>2, <1>3, <2>1, <2>2
<1>8. IsSpelled(T_EOF, SubSeq(text', first', Position'))
  BY <1>7 DEF IsSpelled, T_EOF, T_INT, T_IDENT, T_STRING
<1>9. T_EOF \notin {T_INT, T_IDENT, T_STRING}
  BY DEF T_EOF, T_INT, T_IDENT, T_STRING
<1>10. ObjectsInv' /\ ObjectsKept(objs, objs')
  BY SameObjects
<1>11. over' /\ Position' = Len(text')
  BY <1>2, <1>3
<1> QED
  BY <1>2, <1>5, <1>6, <1>8, <1>9, <1>10, <1>11, TokenAtOnce

(* Skip delivers a token of one character.                                 *)
LEMMA PunctuationStep ==
  ASSUME ScanInv, InputInv', CharsAssumption, at = "skip", NEW c \in Punctuation, Gets(c),
         first' = Len(text'), at' = "idle", Becomes(<<c>>, 0), UNCHANGED objs
  PROVE  ScanInv'
<1>1. c # EOF
  BY DEF Punctuation, EOF
<1>2. /\ Grows(c) /\ c \in Chars /\ over' = FALSE
      /\ Position \in Nat /\ Position' = Position + 1 /\ Position' = Len(text') /\ first' = Position'
      /\ Start \in Nat \ {0} /\ Start \in 1..(Position + 1)
      /\ Blank(text', Start, Position, FALSE)
      /\ SubSeq(text', first', Position') = <<c>>
  BY <1>1, FirstCharacter
<1> DEFINE s == <<c>>
<1>3. s \notin Kinds /\ IsSpelled(s, s) /\ s # <<"/">> /\ s[1] = c
  BY NoKind, SpelledAsItself DEF Punctuation
<1>4. SubSeq(text', first', Position') = s /\ Becomes(s, 0)
  BY <1>2
<1> HIDE DEF s
<1>5. s \notin {T_INT, T_IDENT, T_STRING} /\ s # T_EOF
  BY <1>3 DEF Kinds
<1>6. \A d \in Chars : IsLongest(s, s, d)
  <2>1. c \notin Letters /\ c \notin Doubling
    BY DEF Punctuation, Letters, Doubling
  <2> QED
    BY <1>3, <1>5, <2>1 DEF IsLongest
<1>7. first' \in Nat /\ Start <= first' /\ first' <= Position' + 1 /\ first' - 1 = Position
  <2>1. \A p \in Nat, i \in Nat \ {0} :
          i \in 1..(p + 1) => p + 1 \in Nat /\ i <= p + 1 /\ p + 1 <= (p + 1) + 1 /\ (p + 1) - 1 = p
    OBVIOUS
  <2> QED
    BY <1>2, <2>1
<1>8. Blank(text', Start, first' - 1, s = T_EOF)
  <2>1. Blank(text', Start, Position, s = T_EOF)
    BY <1>2, BlankAtTheEnd
  <2> QED
    BY <1>7, <2>1
<1>9. ObjectsInv' /\ ObjectsKept(objs, objs')
  BY SameObjects
<1> QED
  BY <1>2, <1>3, <1>4, <1>5, <1>6, <1>7, <1>8, <1>9, TokenAtOnce

(* Where a first character leads                                           *)
LEMMA Branches ==
  ASSUME NEW c
  PROVE  /\ c \in Spaces => Branch(c) = "skip"
         /\ c \in Digits => Branch(c) = "int"
         /\ c \in Letters => Branch(c) = "word"
         /\ c \in Doubling => Branch(c) = "second"
         /\ c = "/" => Branch(c) = "slash"
         /\ c = "#" => Branch(c) = "line_comment"
         /\ c = "!" => Branch(c) = "bang"
         /\ c = "\"" => Branch(c) = "string"
         /\ c \notin Spaces \union Digits \union Letters \union Doubling \union {"/", "#", "!", "\""} =>
              Branch(c) = "failed"
<1> USE DEF Spaces, Digits, Letters, Doubling, NL
<1>1. c \in Spaces => Branch(c) = "skip"
  BY DEF Branch
<1>2. c \in Digits => Branch(c) = "int"
  BY DEF Branch
<1>3. c \in Letters => Branch(c) = "word"
  BY DEF Branch
<1>4. c \in Doubling => Branch(c) = "second"
  BY DEF Branch
<1>5. c = "/" => Branch(c) = "slash"
  BY DEF Branch
<1>6. c = "#" => Branch(c) = "line_comment"
  BY DEF Branch
<1>7. c = "!" => Branch(c) = "bang"
  BY DEF Branch
<1>8. c = "\"" => Branch(c) = "string"
  BY DEF Branch
<1>9. c \notin Spaces \union Digits \union Letters \union Doubling \union {"/", "#", "!", "\""} =>
              Branch(c) = "failed"
  BY DEF Branch
<1> QED
  BY <1>1, <1>2, <1>3, <1>4, <1>5, <1>6, <1>7, <1>8, <1>9

(* What is kept of the first character                                     *)
FirstKept(c) == IF c = "\"" THEN <<>> ELSE <<c>>

(* Skip skips a space, or begins a token or a comment.                     *)
LEMMA BranchStep ==
  ASSUME ScanInv, InputInv', CharsAssumption, ScannerAssumption, at = "skip", NEW c, c # EOF, Gets(c),
         first' = Len(text'), lex' = FirstKept(c),
         at' = Branch(c), UNCHANGED tokenVars
  PROVE  ScanInv'
<1>1. /\ Grows(c) /\ c \in Chars /\ over' = FALSE
      /\ Position \in Nat /\ Position' = Position + 1 /\ Position' = Len(text') /\ first' = Position'
      /\ Start \in Nat \ {0} /\ Start \in 1..(Position + 1)
      /\ Blank(text', Start, Position, FALSE)
      /\ SubSeq(text', first', Position') = <<c>>
      /\ text'[Position + 1] = c /\ text' \in Seq(Chars)
  BY FirstCharacter
<1>2. OthersStay' /\ Start' = Start
  BY <1>1, NoneDelivered
<1>3. Start' \in 1..(Position' + 1) /\ first' \in Start'..Position' /\ first' - 1 = Position
  <2>1. /\ Position \in Nat /\ Start \in Nat \ {0} /\ Start \in 1..(Position + 1)
        /\ Position' = Position + 1 /\ first' = Position + 1 /\ Start' = Start
    BY <1>1, <1>2
  <2>2. \A p \in Nat, i \in Nat \ {0} : i \in 1..(p + 1) => i \in 1..((p + 1) + 1)
    OBVIOUS
  <2>3. \A p \in Nat, i \in Nat \ {0} : i \in 1..(p + 1) => p + 1 \in i..(p + 1)
    OBVIOUS
  <2>4. \A p \in Nat : (p + 1) - 1 = p
    OBVIOUS
  <2> QED
    BY <2>1, <2>2, <2>3, <2>4
<1>4. GapBefore'
  BY <1>1, <1>2, <1>3 DEF GapBefore
<1>5. Current' = <<c>>
  BY <1>1 DEF Current
<1>6. CASE c \in Spaces
  <2>1. at' = "skip"
    BY <1>6, Branches
  <2>2. Blank(text', Start', Position', over')
    <3>1. IsPart(text', Position + 1, Position + 1, FALSE)
      BY <1>1, <1>6 DEF IsPart
    <3>a. \A p \in Nat, i \in Nat \ {0} :
            i \in 1..(p + 1) => p + 1 \in Nat /\ p < p + 1 /\ i <= p + 1
      OBVIOUS
    <3>2. /\ Position + 1 \in Nat /\ Position < Position + 1 /\ Start <= Position + 1
      BY <1>1, <3>a
    <3>3. Blank(text', Start, Position + 1, FALSE)
      BY <1>1, <3>1, <3>2, BlankGoesOn
    <3> QED
      BY <1>1, <1>2, <3>3
  <2> QED
    BY <1>2, <1>3, <2>1, <2>2, GoesOnSkipping
<1>7. CASE c \in Digits
  <2>1. at' = "int"
    BY <1>7, Branches
  <2>a. lex' = <<c>>
    BY <1>7 DEF FirstKept, Digits
  <2>b. <<c>> \in Seq(Digits)
    BY <1>7
  <2>2. lex' = Current' /\ lex' \in Seq(Digits)
    BY <1>5, <2>a, <2>b
  <2>3. LexInv'
    BY <2>1, <2>2 DEF LexInv
  <2> QED
    BY <1>2, <1>3, <1>4, <2>1, <2>3, GoesOnWithin DEF Within
<1>8. CASE c \in Letters
  <2>1. at' = "word"
    BY <1>8, Branches
  <2>2. lex' = <<c>>
    BY <1>8 DEF FirstKept, Letters
  <2>3. <<c>> \in Words /\ <<c>> # <<>> /\ <<c>>[1] \in Letters /\ Len(<<c>>) < WORD_SIZE
    <3>1. c \in WordChars
      BY <1>8 DEF WordChars
    <3>2. <<c>> \in Seq(WordChars) /\ <<c>> # <<>> /\ <<c>>[1] = c /\ Len(<<c>>) = 1
      BY <3>1
    <3>3. 1 < WORD_SIZE
      BY DEF ScannerAssumption
    <3> QED
      BY <1>8, <3>2, <3>3 DEF Words
  <2>4. /\ lex' = Current' /\ lex' \in Words /\ lex' # <<>>
        /\ lex'[1] \in Letters /\ Len(lex') < WORD_SIZE
    BY <1>5, <2>2, <2>3
  <2>5. LexInv'
    BY <2>1, <2>4 DEF LexInv
  <2> QED
    BY <1>2, <1>3, <1>4, <2>1, <2>5, GoesOnWithin DEF Within
<1>9. CASE c \in Doubling
  <2>1. at' = "second"
    BY <1>9, Branches
  <2>2. lex' = <<c>> /\ lex' = Current'
    BY <1>5, <1>9 DEF FirstKept, Doubling
  <2>3. LexInv'
    BY <1>9, <2>1, <2>2 DEF LexInv
  <2> QED
    BY <1>2, <1>3, <1>4, <2>1, <2>3, GoesOnWithin DEF Within
<1>10. CASE c = "/"
  <2>1. at' = "slash"
    BY <1>10, Branches
  <2>2. lex' = Current' /\ lex' = <<"/">>
    BY <1>5, <1>10 DEF FirstKept
  <2>3. LexInv'
    BY <2>1, <2>2 DEF LexInv
  <2> QED
    BY <1>2, <1>3, <1>4, <2>1, <2>3, GoesOnWithin DEF Within
<1>11. CASE c = "#"
  <2>1. at' = "line_comment"
    BY <1>11, Branches
  <2>2. OpenLine(Current')
    <3>1. <<"#">> \in Seq(Chars)
      BY <1>1, <1>11
    <3> QED
      BY <1>5, <1>11, <3>1, LineCommentBegins
  <2>3. LexInv'
    BY <2>1, <2>2 DEF LexInv
  <2> QED
    BY <1>2, <1>3, <1>4, <2>1, <2>3, GoesOnWithin DEF Within
<1>12. CASE c = "!"
  <2>1. at' = "bang"
    BY <1>12, Branches
  <2>2. LexInv'
    BY <1>5, <1>12, <2>1 DEF LexInv
  <2> QED
    BY <1>2, <1>3, <1>4, <2>1, <2>2, GoesOnWithin DEF Within
<1>13. CASE c = "\""
  <2>1. at' = "string"
    BY <1>13, Branches
  <2>2. OpenString(Current', lex', FALSE)
    <3>0. Tail(<<c>>) = <<>>
      <4>1. <<c>> \in Seq({c}) /\ <<c>> # <<>> /\ Len(<<c>>) = 1
        OBVIOUS
      <4>2. Tail(<<c>>) = SubSeq(<<c>>, 2, Len(<<c>>))
        BY <4>1, TailIsSubSeq
      <4> QED
        BY <4>1, <4>2, SubSeqEmpty
    <3>1. Tail(<<c>>) = <<>> /\ <<c>> # <<>> /\ <<c>>[1] = "\""
      BY <1>13, <3>0
    <3>2. ReadOf(<<>>) = [word |-> <<>>, escaped |-> FALSE]
      BY UnescapingFolds DEF NothingRead
    <3>3. lex' = <<>>
      BY <1>13 DEF FirstKept
    <3> QED
      BY <1>5, <3>1, <3>2, <3>3 DEF OpenString
  <2>3. LexInv'
    BY <2>1, <2>2 DEF LexInv
  <2> QED
    BY <1>2, <1>3, <1>4, <2>1, <2>3, GoesOnWithin DEF Within
<1>14. CASE c \notin Spaces \union Digits \union Letters \union Doubling \union {"/", "#", "!", "\""}
  <2>1. at' = "failed"
    BY <1>14, Branches
  <2> QED
    BY <1>2, <1>3, <2>1, GoesOnFailing
<1> QED
  BY <1>6, <1>7, <1>8, <1>9, <1>10, <1>11, <1>12, <1>13, <1>14

(* Skip, in all its cases                                                  *)
LEMMA SkipStep ==
  ASSUME ScanInv, InputInv', CharsAssumption, ScannerAssumption, Skip
  PROVE  ScanInv'
<1>1. PICK c \in CharOrEOF :
       /\ Gets(c)
       /\ first' = IF c = EOF THEN Len(text) + 1 ELSE Len(text')
       /\ lex' = FirstKept(c)
       /\ \/ /\ c \in Punctuation
             /\ at' = "idle" /\ Becomes(<<c>>, 0) /\ UNCHANGED objs
          \/ /\ c = EOF
             /\ at' = "idle" /\ Becomes(T_EOF, 0) /\ UNCHANGED objs
          \/ /\ c \notin Punctuation \union {EOF}
             /\ at' = Branch(c) /\ UNCHANGED tokenVars
  BY DEF Skip, FirstKept
<1>2. at = "skip" /\ EOF \notin Punctuation
  BY DEF Skip, Punctuation, EOF
<1> QED
  BY <1>1, <1>2, EndStep, PunctuationStep, BranchStep

(* A step that reads nothing                                               *)
LEMMA RestingStep ==
  ASSUME ScanInv, InputInv',
         UNCHANGED <<text, over, buf, lex, first, tok, objs, toks>>,
         at' = at \/ (at = "idle" /\ at' = "skip")
  PROVE  ScanInv'
<1>1. Position' = Position /\ Start' = Start
  BY DEF Position, Start
<1>2. Current' = Current
  BY <1>1 DEF Current
<1>3. EndOfInput' /\ EndOfTokens' /\ ObjectsInv'
  BY <1>1 DEF ScanInv, EndOfInput, EndOfTokens, ObjectsInv
<1>4. TokensInv'
  BY DEF ScanInv, TokensInv, Before
<1>5. GapBefore' <=> GapBefore
  BY <1>1 DEF GapBefore
<1>6. CASE at' = at
  <2>1. GapInv'
    BY <1>1, <1>5, <1>6 DEF ScanInv, GapInv
  <2>2. LexInv'
    BY <1>2, <1>6 DEF ScanInv, LexInv
  <2> QED
    BY <1>3, <1>4, <2>1, <2>2 DEF ScanInv
<1>7. CASE at = "idle" /\ at' = "skip"
  <2>1. Start = Position + 1 /\ Start \in 1..(Position + 1)
    BY <1>7 DEF ScanInv, GapInv
  <2>2. Position \in Nat
    BY <2>1 DEF Position, ScanInv, InputInv, BufferIsLast
  <2>3. Blank(text, Position + 1, Position, over)
    BY <2>2, NothingIsBlank
  <2>4. Blank(text', Start', Position', over')
    BY <1>1, <2>1, <2>3
  <2> QED
    BY <1>1, <1>3, <1>4, <1>7, <2>1, <2>4, GoesOnSkipping DEF OthersStay
<1> QED
  BY <1>6, <1>7

(* Every step of the scanner preserves the invariant.                      *)
LEMMA ScanStep ==
  ASSUME ScanInv, CharsAssumption, ScannerAssumption, [Next]_scannerVars
  PROVE  ScanInv'
<1>1. InputInv'
  BY Stepping DEF ScanInv
<1>2. CASE NextToken \/ PutBackToken
  BY <1>1, <1>2, RestingStep DEF NextToken, PutBackToken, inputVars, tokenVars
<1>3. CASE Exited \/ UNCHANGED scannerVars
  BY <1>1, <1>3, RestingStep DEF Exited, scannerVars, inputVars, tokenVars
<1>4. CASE Read
  BY <1>1, <1>4, SkipStep, SecondStep, SlashStep, LineStep, BlockStep, BangStep, StringStep,
     EscapeStep, CloseStep, IntStep, WordStep DEF Read
<1> QED
  BY <1>2, <1>3, <1>4 DEF Next

(* The invariant holds before anything is read.                            *)
LEMMA ScanBegins ==
  ASSUME Init
  PROVE  ScanInv
<1>1. InputInv
  BY Initially
<1>2. Position = 0 /\ Start = 1
  BY DEF Init, Position, Start
<1>3. GapInv /\ LexInv
  BY <1>2 DEF Init, GapInv, LexInv, Within
<1>4. EndOfInput /\ EndOfTokens
  BY DEF Init, EndOfInput, EndOfTokens, EOF
<1>5. ObjectsInv /\ TokensInv
  <2>1. <<>> \in Seq(Object) /\ DOMAIN <<>> = {}
    OBVIOUS
  <2> QED
    BY <2>1 DEF Init, ObjectsInv, TokensInv
<1> QED
  BY <1>1, <1>3, <1>4, <1>5 DEF ScanInv

(* The invariant holds in every reachable state.                           *)
LEMMA ScanInvariant == Spec => []ScanInv
<1>1. Init => ScanInv
  BY ScanBegins
<1>2. ScanInv /\ [Next]_scannerVars => ScanInv'
  BY ScanStep, CharsAssumption, ScannerAssumption
<1> QED
  BY <1>1, <1>2, PTL DEF Spec

(* The last token                                                          *)
LEMMA LastToken ==
  ASSUME ScanInv
  PROVE  TokensAreTheText
<1> SUFFICES ASSUME toks # <<>> PROVE TokensAreTheText
  BY DEF TokensAreTheText
<1> DEFINE n == Len(toks)
           t == toks[n]
           s == SubSeq(text, t.first, t.last)
<1>1. n \in DOMAIN toks /\ n \in Nat \ {0}
  <2>1. PICK S : toks \in Seq(S)
    BY DEF ScanInv, TokensInv
  <2>2. n \in Nat \ {0} /\ DOMAIN toks = 1..n
    BY <2>1, EmptySeq
  <2>3. \A m \in Nat \ {0} : m \in 1..m
    OBVIOUS
  <2> QED
    BY <2>2, <2>3
<1>2. IsToken(text, over, t, Before(n))
  BY <1>1 DEF ScanInv, TokensInv
<1>3. text \in Seq(Chars) /\ Len(text) \in Nat
  BY DEF ScanInv, InputInv, BufferIsLast
<1> DEFINE before == IF n = 1 THEN 0 ELSE toks[n - 1].last
<1>4. Before(n) = before
  BY DEF Before
<1> HIDE DEF n, t, before
<1>5. /\ before \in Nat /\ t.first \in Nat /\ t.last \in Nat
      /\ before < t.first /\ t.first <= t.last + 1 /\ t.last <= Len(text)
      /\ Blank(text, before + 1, t.first - 1, t.type = T_EOF)
      /\ IsSpelled(t.type, s)
      /\ \/ \A c \in Chars : IsLongest(t.type, s, c)
         \/ t.last < Len(text) /\ IsLongest(t.type, s, text[t.last + 1])
         \/ over /\ t.last = Len(text)
  BY <1>2, <1>4 DEF IsToken
<1>6. IsBlank(SubSeq(text, before + 1, t.first - 1), t.type = T_EOF)
  <2>1. /\ before + 1 \in Nat \ {0} /\ t.first - 1 \in Nat
        /\ before + 1 <= (t.first - 1) + 1 /\ t.first - 1 <= Len(text)
    BY <1>3, <1>5
  <2> QED
    BY <1>3, <1>5, <2>1, CutsMakeBlank
<1>7. ASSUME t.last < Len(text) PROVE IsLongest(t.type, s, text[t.last + 1])
  <2>1. t.last + 1 \in 1..Len(text)
    BY <1>3, <1>5, <1>7
  <2>2. text[t.last + 1] \in Chars
    BY <1>3, <2>1
  <2>3. t.last # Len(text)
    BY <1>3, <1>5, <1>7
  <2> QED
    BY <1>5, <2>2, <2>3
<1> QED
  BY <1>5, <1>6, <1>7 DEF TokensAreTheText, Spelling, n, t, before

(* One object for a meaning, and one meaning for an object                 *)
LEMMA TokensHaveData ==
  ASSUME ScanInv
  PROVE  DataFollowsSpelling
<1>1. \A i \in DOMAIN toks : HasData(text, objs, toks[i])
  BY DEF ScanInv, TokensInv
<1>2. \A i, j \in DOMAIN objs : objs[i] = objs[j] => i = j
  BY DEF ScanInv, ObjectsInv
<1>3. \A t : Meaning(t) = MeaningIn(text, t)
  BY DEF Meaning, MeaningIn, Spelling
<1>4. ASSUME NEW i \in DOMAIN toks, NEW j \in DOMAIN toks,
             {toks[i].type, toks[j].type} \subseteq {T_IDENT, T_STRING}
      PROVE  (toks[i].data = toks[j].data) <=>
                (toks[i].type = toks[j].type /\ Meaning(toks[i]) = Meaning(toks[j]))
  <2>1. /\ toks[i].data \in DOMAIN objs
        /\ objs[toks[i].data] = [kind |-> toks[i].type, str |-> Meaning(toks[i])]
    BY <1>1, <1>3, <1>4 DEF HasData
  <2>2. /\ toks[j].data \in DOMAIN objs
        /\ objs[toks[j].data] = [kind |-> toks[j].type, str |-> Meaning(toks[j])]
    BY <1>1, <1>3, <1>4 DEF HasData
  <2>3. objs[toks[i].data] = objs[toks[j].data] <=> toks[i].data = toks[j].data
    BY <1>2, <2>1, <2>2
  <2> QED
    BY <2>1, <2>2, <2>3
<1>5. ASSUME NEW i \in DOMAIN toks, toks[i].type = T_INT, Decimal(Spelling(toks[i])) <= INT_MAX
      PROVE  toks[i].data = Decimal(Spelling(toks[i]))
  <2>1. /\ Spelling(toks[i]) \in Seq(Digits)
        /\ toks[i].data = IntOf(Spelling(toks[i]))
    BY <1>1, <1>5 DEF HasData, Spelling
  <2> QED
    BY <1>5, <2>1, IntIsDecimal
<1> QED
  BY <1>4, <1>5 DEF DataFollowsSpelling

(* For every text, every set of keywords and every size of the buffer of a *)
(* word, the tokens scanner_next_token delivers are the text: between two  *)
(* of them there are only spaces and comments, every one is spelled as its *)
(* type is and is as long as it can be.                                    *)
THEOREM TokensAreAlwaysTheText == Spec => []TokensAreTheText
<1>1. ScanInv => TokensAreTheText
  BY LastToken
<1> QED
  BY <1>1, ScanInvariant, PTL

(* Two identifiers, or two strings, have one object exactly when they mean *)
(* the same word, however far apart they stand, so that the machine may    *)
(* compare names by address; and a number that fits an int is the number   *)
(* that is written.                                                        *)
THEOREM DataAlwaysFollowSpelling == Spec => []DataFollowsSpelling
<1>1. ScanInv => DataFollowsSpelling
  BY TokensHaveData
<1> QED
  BY <1>1, ScanInvariant, PTL
=============================================================================
