----------------------------- MODULE ChunkProofs -----------------------------
(***************************************************************************)
(* Proof that the buffers of bytecode.c read back what was written, for    *)
(* any sizes of the types, any capacity and any number of writes and       *)
(* patches, as long as no buffer outgrew its first block.                  *)
(***************************************************************************)
EXTENDS Chunk, SequenceTheorems, WellFoundedInduction, TLAPS

(* A buffer: in its first block the bytes written are those below size.    *)
Sound(ch) ==
  /\ ch = [capacity |-> ch.capacity, size |-> ch.size, bytes |-> ch.bytes]
  /\ ch.capacity \in Nat /\ ch.capacity >= CHUNK_BASE_CAPACITY
  /\ ch.size \in Nat
  /\ ~Grown(ch) => DOMAIN ch.bytes = 0..(ch.size - 1)

Entry == [kind : {"op", "constant", "value"}, off : Nat, line : Nat,
          item : Items, index : Nat]

(* The bytes of code of an entry. *)
Width(e) == IF e.kind = "op" THEN 1 ELSE INT_BYTES

(* Entries lie one behind the other, so a patch of one leaves the others   *)
(* alone, and there is one line for every byte of code.                    *)
Layout ==
  /\ ~Grown(codeChunk) =>
       \A n \in DOMAIN log :
         /\ log[n].off + Width(log[n]) <= codeChunk.size
         /\ \A m \in DOMAIN log : n < m => log[n].off + Width(log[n]) <= log[m].off
  /\ ~Grown(codeChunk) /\ ~Grown(lineChunk) =>
       lineChunk.size = INT_BYTES * codeChunk.size

ChunkInv == /\ Sound(codeChunk) /\ Sound(dataChunk) /\ Sound(lineChunk)
            /\ log \in Seq(Entry)
            /\ Layout
            /\ FirstBlocksReadBack

-----------------------------------------------------------------------------
(* One write *)

(* What was in the buffer before is in it still, at the same place.        *)
Keeps(old, new) == \A o \in DOMAIN old.bytes :
                     o \in DOMAIN new.bytes /\ new.bytes[o] = old.bytes[o]

(* A write that leaves the buffer in its first block puts its bytes where  *)
(* the size said and touches no other.                                     *)
LEMMA WriteReads ==
  ASSUME NEW ch, Sound(ch), NEW item, NEW width \in Nat
  PROVE  /\ Sound(Write(ch, item, width))
         /\ ~Grown(Write(ch, item, width)) =>
              /\ ~Grown(ch)
              /\ Write(ch, item, width).size = ch.size + width
              /\ Keeps(ch, Write(ch, item, width))
              /\ Reads(Write(ch, item, width), ch.size, width, item)
<1> DEFINE w == Write(ch, item, width)
           c == IF ch.capacity < ch.size + width THEN Realloc(ch) ELSE ch
<1>1. /\ ch.capacity \in Nat /\ ch.capacity >= CHUNK_BASE_CAPACITY /\ ch.size \in Nat
      /\ CHUNK_BASE_CAPACITY \in Nat \ {0}
      /\ ch = [capacity |-> ch.capacity, size |-> ch.size, bytes |-> ch.bytes]
  BY ChunkAssumption DEF Sound
<1>2. /\ c.capacity \in Nat /\ c.capacity >= CHUNK_BASE_CAPACITY /\ c.size \in Nat
      /\ c.bytes = ch.bytes
      /\ c = [capacity |-> c.capacity, size |-> c.size, bytes |-> c.bytes]
      /\ c = ch \/ c.capacity > CHUNK_BASE_CAPACITY
  <2>1. CASE ch.capacity < ch.size + width
    <3> DEFINE newsize == ch.capacity + CHUNK_BASE_CAPACITY
               size == IF ch.size > newsize THEN ch.size ELSE newsize
    <3>1. c = Realloc(ch)
      BY <2>1
    <3>2. Realloc(ch) = [capacity |-> newsize, size |-> size, bytes |-> ch.bytes]
      <4>1. Realloc(ch) = [ch EXCEPT !.capacity = newsize, !.size = size]
        BY <1>1 DEF Realloc
      <4> HIDE DEF newsize, size
      <4> QED  BY <4>1, <1>1
    <3>3. newsize \in Nat /\ newsize > CHUNK_BASE_CAPACITY /\ size \in Nat
      BY <1>1
    <3> HIDE DEF newsize, size, c
    <3> QED  BY <3>1, <3>2, <3>3, <1>1
  <2>2. CASE ~(ch.capacity < ch.size + width)
    BY <2>2, <1>1
  <2> QED  BY <2>1, <2>2
<1> DEFINE bytes == Overlay(c.bytes, c.size, item, width)
<1>3. w = [c EXCEPT !.bytes = bytes, !.size = c.size + width]
  <2>1. [c EXCEPT !.bytes = bytes].size = c.size
    <3> HIDE DEF c, bytes
    <3> QED  BY <1>2
  <2> HIDE DEF bytes
  <2> QED  BY <2>1 DEF Write, bytes
<1> HIDE DEF w, c
<1>4. /\ w.capacity = c.capacity /\ w.bytes = bytes /\ w.size = c.size + width
      /\ w = [capacity |-> w.capacity, size |-> w.size, bytes |-> w.bytes]
  <2> HIDE DEF bytes
  <2> QED  BY <1>2, <1>3
<1>5. /\ DOMAIN w.bytes = DOMAIN ch.bytes \union (c.size..(c.size + width - 1))
      /\ \A o \in c.size..(c.size + width - 1) :
           w.bytes[o] = [item |-> item, byte |-> o - c.size]
      /\ \A o \in DOMAIN ch.bytes : o \notin c.size..(c.size + width - 1) =>
           w.bytes[o] = ch.bytes[o]
  BY <1>2, <1>4 DEF Overlay
<1>6. ASSUME ~Grown(w)
      PROVE  c = ch /\ ~Grown(ch) /\ w.size = ch.size + width
  BY <1>1, <1>2, <1>4, <1>6 DEF Grown
<1>7. Sound(w)
  <2>1. ASSUME ~Grown(w) PROVE DOMAIN w.bytes = 0..(w.size - 1)
    <3>1. DOMAIN ch.bytes = 0..(ch.size - 1)
      BY <1>6, <2>1 DEF Sound
    <3>2. DOMAIN w.bytes = (0..(ch.size - 1)) \union (ch.size..(ch.size + width - 1))
      BY <1>5, <1>6, <2>1, <3>1
    <3>3. w.size - 1 = ch.size + width - 1
      BY <1>1, <1>6, <2>1
    <3>4. (0..(ch.size - 1)) \union (ch.size..(ch.size + width - 1)) = 0..(ch.size + width - 1)
      BY <1>1
    <3> QED  BY <3>2, <3>3, <3>4
  <2>2. w.capacity \in Nat /\ w.capacity >= CHUNK_BASE_CAPACITY /\ w.size \in Nat
    BY <1>2, <1>4
  <2> QED  BY <1>4, <2>1, <2>2 DEF Sound
<1>8. ASSUME ~Grown(w) PROVE Keeps(ch, w)
  <2>1. DOMAIN ch.bytes = 0..(ch.size - 1) /\ c = ch
    BY <1>6, <1>8 DEF Sound
  <2>2. \A o \in DOMAIN ch.bytes : o \notin c.size..(c.size + width - 1)
    BY <1>1, <2>1
  <2> QED  BY <1>5, <2>2 DEF Keeps
<1>9. ASSUME ~Grown(w) PROVE Reads(w, ch.size, width, item)
  <2>1. c = ch
    BY <1>6, <1>9
  <2>2. \A k \in 0..(width - 1) : /\ ch.size + k \in ch.size..(ch.size + width - 1)
                                  /\ (ch.size + k) - ch.size = k
    BY <1>1
  <2> QED  BY <1>5, <2>1, <2>2 DEF Reads
<1> QED  BY <1>6, <1>7, <1>8, <1>9 DEF w

(* What can be read from a buffer can be read from one that keeps it.      *)
LEMMA KeptReads ==
  ASSUME NEW old, NEW new, Keeps(old, new), NEW off, NEW width, NEW item,
         Reads(old, off, width, item)
  PROVE  Reads(new, off, width, item)
BY DEF Keeps, Reads

(* Every nonempty set of numbers has a least one.                          *)
LEMMA LeastOne ==
  ASSUME NEW S, S \subseteq Nat, S # {}
  PROVE  \E m \in S : \A k \in S : m <= k
<1>1. PICK m \in S : \A k \in S : ~(<<k, m>> \in OpToRel(<, Nat))
  BY NatLessThanWellFounded, WFMin
<1>2. ASSUME NEW k \in S PROVE m <= k
  <2>1. k \in Nat /\ m \in Nat
    OBVIOUS
  <2>2. <<k, m>> \in OpToRel(<, Nat) <=> <<k, m>> \in Nat \X Nat /\ k < m
    BY DEF OpToRel
  <2>3. ~(k < m)
    BY <1>1, <2>1, <2>2, Zenon
  <2> QED BY <2>1, <2>3
<1> QED BY <1>2

-----------------------------------------------------------------------------
(* A line for every byte *)

(* What k lines written behind ch leave. *)
LinesWritten(ch, line, k, new) ==
  /\ Sound(new)
  /\ ~Grown(new) =>
       /\ ~Grown(ch)
       /\ new.size = ch.size + INT_BYTES * k
       /\ Keeps(ch, new)
       /\ \A j \in 0..(k - 1) : Reads(new, ch.size + INT_BYTES * j, INT_BYTES, line)

(* One more line number is written behind the last.                        *)
LEMMA OneMoreLine ==
  ASSUME NEW ch, Sound(ch), NEW line, NEW k \in Nat, NEW new,
         LinesWritten(ch, line, k, new)
  PROVE  LinesWritten(ch, line, k + 1, Write(new, line, INT_BYTES))
<1> DEFINE w == Write(new, line, INT_BYTES)
<1>1. INT_BYTES \in Nat
  BY ChunkAssumption
<1>2. /\ Sound(w)
      /\ ~Grown(w) => /\ ~Grown(new)
                      /\ w.size = new.size + INT_BYTES
                      /\ Keeps(new, w)
                      /\ Reads(w, new.size, INT_BYTES, line)
  BY <1>1, WriteReads DEF LinesWritten
<1> HIDE DEF w
<1>3. ASSUME ~Grown(w)
      PROVE  /\ ~Grown(ch)
             /\ w.size = ch.size + INT_BYTES * (k + 1)
             /\ Keeps(ch, w)
             /\ \A j \in 0..((k + 1) - 1) : Reads(w, ch.size + INT_BYTES * j, INT_BYTES, line)
  <2>1. /\ ~Grown(ch)
        /\ new.size = ch.size + INT_BYTES * k
        /\ Keeps(ch, new)
        /\ \A j \in 0..(k - 1) : Reads(new, ch.size + INT_BYTES * j, INT_BYTES, line)
    BY <1>2, <1>3 DEF LinesWritten
  <2>2. w.size = ch.size + INT_BYTES * (k + 1)
    <3>1. ch.size \in Nat
      BY DEF Sound
    <3>2. INT_BYTES * (k + 1) = INT_BYTES * k + INT_BYTES /\ INT_BYTES * k \in Nat
      BY <1>1
    <3> QED  BY <1>1, <1>2, <1>3, <2>1, <3>1, <3>2
  <2>3. Keeps(ch, w)
    BY <1>2, <1>3, <2>1 DEF Keeps
  <2>4. ASSUME NEW j \in 0..((k + 1) - 1)
        PROVE  Reads(w, ch.size + INT_BYTES * j, INT_BYTES, line)
    <3>1. CASE j \in 0..(k - 1)
      <4>1. Reads(new, ch.size + INT_BYTES * j, INT_BYTES, line)
        BY <2>1, <3>1
      <4> QED  BY <1>2, <1>3, <4>1, KeptReads
    <3>2. CASE j = k
      BY <1>2, <1>3, <2>1, <3>2
    <3> QED  BY <3>1, <3>2
  <2> QED  BY <2>1, <2>2, <2>3, <2>4
<1>4. LinesWritten(ch, line, k + 1, w)
  BY <1>2, <1>3 DEF LinesWritten
<1> QED  BY <1>4 DEF w

(* The loop of the line writes exists as a function of the lines written,  *)
(* and its last value is what n writes leave.                              *)
LEMMA WriteLinesReads ==
  ASSUME NEW ch, Sound(ch), NEW line, NEW n \in Nat
  PROVE  LinesWritten(ch, line, n, WriteLines(ch, line, n))
<1> DEFINE Step(g, k) == IF k = 0 THEN ch ELSE Write(g[k - 1], line, INT_BYTES)
           IsLoop(g, m) == g = [k \in 0..m |-> Step(g, k)]
<1>1. \E g : IsLoop(g, n)
  <2> DEFINE bad == {m \in 0..n : ~\E g : IsLoop(g, m)}
  <2>1. bad = {}
    <3> SUFFICES ASSUME bad # {} PROVE FALSE
      OBVIOUS
    <3>1. bad \subseteq Nat
      OBVIOUS
    <3>2. PICK m \in bad : \A k \in bad : m <= k
      <4> HIDE DEF bad
      <4> QED  BY <3>1, LeastOne
    <3>3. m \in 0..n /\ ~\E g : IsLoop(g, m)
      OBVIOUS
    <3>4. m # 0
      <4>1. ASSUME m = 0 PROVE IsLoop([k \in 0..0 |-> ch], m)
        BY <4>1
      <4> QED  BY <3>3, <4>1
    <3>5. m - 1 \in 0..n /\ m - 1 \notin bad
      BY <3>2, <3>3, <3>4
    <3>6. PICK f : IsLoop(f, m - 1)
      BY <3>5
    <3> DEFINE g == [k \in 0..m |-> IF k = m THEN Write(f[m - 1], line, INT_BYTES) ELSE f[k]]
    <3>7. ASSUME NEW k \in 0..m PROVE g[k] = Step(g, k)
      <4>1. CASE k = 0
        <5>1. 0 \in 0..(m - 1) /\ 0 # m
          BY <3>3, <3>4
        <5>2. f[0] = Step(f, 0)
          BY <3>6, <5>1
        <5> QED  BY <4>1, <5>1, <5>2
      <4>2. CASE k # 0 /\ k # m
        <5>1. k \in 0..(m - 1) /\ k - 1 \in 0..m /\ k - 1 # m /\ k - 1 \in 0..(m - 1)
          BY <3>3, <4>2
        <5>2. f[k] = Step(f, k)
          BY <3>6, <5>1
        <5>3. g[k] = f[k] /\ g[k - 1] = f[k - 1]
          BY <4>2, <5>1
        <5> HIDE DEF g
        <5> QED  BY <4>2, <5>2, <5>3
      <4>3. CASE k = m
        <5>1. m \in 0..m /\ m - 1 \in 0..m /\ m - 1 # m
          BY <3>3, <3>4
        <5>2. g[m] = Write(f[m - 1], line, INT_BYTES) /\ g[m - 1] = f[m - 1]
          BY <5>1
        <5> HIDE DEF g
        <5> QED  BY <3>4, <4>3, <5>2
      <4> QED  BY <4>1, <4>2, <4>3
    <3>8. IsLoop(g, m)
      <4>1. g = [k \in 0..m |-> g[k]]
        OBVIOUS
      <4> HIDE DEF g, Step
      <4> QED  BY <3>7, <4>1
    <3> HIDE DEF g, IsLoop
    <3> QED  BY <3>3, <3>8
  <2>2. n \in 0..n
    OBVIOUS
  <2> HIDE DEF IsLoop
  <2> QED  BY <2>1, <2>2
<1>2. PICK h : h = CHOOSE g : IsLoop(g, n)
  OBVIOUS
<1>3. IsLoop(h, n)
  <2> HIDE DEF IsLoop
  <2> QED  BY <1>1, <1>2
<1>4. WriteLines(ch, line, n) = h[n]
  BY <1>2 DEF WriteLines
<1>5. \A k \in 0..n : h[k] = Step(h, k)
  BY <1>3
<1>6. LinesWritten(ch, line, n, h[n])
  <2> DEFINE bad == {m \in 0..n : ~LinesWritten(ch, line, m, h[m])}
  <2>1. bad = {}
    <3> SUFFICES ASSUME bad # {} PROVE FALSE
      OBVIOUS
    <3>1. bad \subseteq Nat
      OBVIOUS
    <3>2. PICK m \in bad : \A k \in bad : m <= k
      <4> HIDE DEF bad
      <4> QED  BY <3>1, LeastOne
    <3>3. m \in 0..n /\ ~LinesWritten(ch, line, m, h[m])
      OBVIOUS
    <3>4. m # 0
      <4>1. h[0] = ch
        BY <1>5
      <4>2. ch.size \in Nat /\ INT_BYTES \in Nat
        BY ChunkAssumption DEF Sound
      <4>3. LinesWritten(ch, line, 0, ch)
        BY <4>2 DEF LinesWritten, Keeps
      <4> QED  BY <3>3, <4>1, <4>3
    <3>5. m - 1 \in 0..n /\ m - 1 \in Nat /\ m - 1 \notin bad /\ (m - 1) + 1 = m
      BY <3>2, <3>3, <3>4
    <3>6. LinesWritten(ch, line, m - 1, h[m - 1])
      BY <3>5
    <3>7. h[m] = Write(h[m - 1], line, INT_BYTES)
      BY <1>5, <3>3, <3>4
    <3>8. LinesWritten(ch, line, (m - 1) + 1, Write(h[m - 1], line, INT_BYTES))
      <4> HIDE DEF bad
      <4> QED  BY <3>5, <3>6, OneMoreLine
    <3> QED  BY <3>3, <3>5, <3>7, <3>8
  <2>2. n \in 0..n /\ n \notin bad
    <3> HIDE DEF bad
    <3> QED  BY <2>1
  <2> QED  BY <2>2
<1> QED  BY <1>4, <1>6

-----------------------------------------------------------------------------
(* The invariant *)

(* An instruction that writes code and its lines keeps what was logged and *)
(* can be read back itself.  The three write operations share this.        *)
LEMMA CodeWritten ==
  ASSUME ChunkInv, NEW item, NEW width \in {1, INT_BYTES},
         codeChunk' = Write(codeChunk, item, width),
         lineChunk' = WriteLines(lineChunk, Line, width)
  PROVE  /\ Sound(codeChunk') /\ Sound(lineChunk')
         /\ ~Grown(codeChunk') =>
              /\ ~Grown(codeChunk)
              /\ codeChunk'.size = codeChunk.size + width
              /\ Keeps(codeChunk, codeChunk')
              /\ Reads(codeChunk', codeChunk.size, width, item)
         /\ ~Grown(codeChunk') /\ ~Grown(lineChunk') =>
              /\ ~Grown(lineChunk)
              /\ lineChunk'.size = INT_BYTES * codeChunk'.size
              /\ Keeps(lineChunk, lineChunk')
              /\ \A j \in 0..(width - 1) :
                   Reads(lineChunk', INT_BYTES * (codeChunk.size + j), INT_BYTES, Line)
<1>1. width \in Nat /\ INT_BYTES \in Nat /\ codeChunk.size \in Nat
  BY ChunkAssumption DEF ChunkInv, Sound
<1>2. /\ Sound(codeChunk')
      /\ ~Grown(codeChunk') =>
           /\ ~Grown(codeChunk)
           /\ codeChunk'.size = codeChunk.size + width
           /\ Keeps(codeChunk, codeChunk')
           /\ Reads(codeChunk', codeChunk.size, width, item)
  BY <1>1, WriteReads DEF ChunkInv
<1>3. LinesWritten(lineChunk, Line, width, lineChunk')
  BY <1>1, WriteLinesReads DEF ChunkInv
<1>4. ASSUME ~Grown(codeChunk'), ~Grown(lineChunk')
      PROVE  /\ ~Grown(lineChunk)
             /\ lineChunk'.size = INT_BYTES * codeChunk'.size
             /\ Keeps(lineChunk, lineChunk')
             /\ \A j \in 0..(width - 1) :
                  Reads(lineChunk', INT_BYTES * (codeChunk.size + j), INT_BYTES, Line)
  <2>1. /\ ~Grown(lineChunk)
        /\ lineChunk'.size = lineChunk.size + INT_BYTES * width
        /\ Keeps(lineChunk, lineChunk')
        /\ \A j \in 0..(width - 1) :
             Reads(lineChunk', lineChunk.size + INT_BYTES * j, INT_BYTES, Line)
    BY <1>3, <1>4 DEF LinesWritten
  <2>2. lineChunk.size = INT_BYTES * codeChunk.size
    BY <1>2, <1>4, <2>1 DEF ChunkInv, Layout
  <2>3. \A j \in Nat : INT_BYTES * codeChunk.size + INT_BYTES * j
                         = INT_BYTES * (codeChunk.size + j)
    BY <1>1
  <2>4. \A j \in 0..(width - 1) : lineChunk.size + INT_BYTES * j
                                    = INT_BYTES * (codeChunk.size + j)
    BY <1>1, <2>2, <2>3
  <2>5. lineChunk'.size = INT_BYTES * codeChunk'.size
    BY <1>1, <1>2, <1>4, <2>1, <2>2, <2>3
  <2> QED  BY <2>1, <2>4, <2>5
<1> QED  BY <1>2, <1>3, <1>4 DEF LinesWritten

(* The same reads, of given buffers: what FirstBlocksReadBack says of the   *)
(* state, in a form that can be stated of the buffers after a step.        *)
CodeIn(cc, x) ==
  Reads(cc, x.off, Width(x), IF x.kind = "value" THEN x.index ELSE x.item)

ValueIn(dc, x) == x.kind = "value" => Reads(dc, x.index, VALUE_BYTES, x.item)

LinesIn(lc, x) == \A j \in 0..(Width(x) - 1) :
                    Reads(lc, INT_BYTES * (x.off + j), INT_BYTES, x.line)

ReadBackIn(l, cc, dc, lc) ==
  \A n \in DOMAIN l : /\ ~Grown(cc) => CodeIn(cc, l[n])
                      /\ ~Grown(dc) => ValueIn(dc, l[n])
                      /\ ~Grown(cc) /\ ~Grown(lc) => LinesIn(lc, l[n])

(* Both forms say the same of a log of entries.                            *)
LEMMA SameReads ==
  log \in Seq(Entry) =>
    (FirstBlocksReadBack <=> ReadBackIn(log, codeChunk, dataChunk, lineChunk))
<1> SUFFICES ASSUME log \in Seq(Entry)
             PROVE  FirstBlocksReadBack <=> ReadBackIn(log, codeChunk, dataChunk, lineChunk)
  OBVIOUS
<1>1. ASSUME NEW n \in DOMAIN log
      PROVE  /\ CodeReads(log[n]) <=> CodeIn(codeChunk, log[n])
             /\ ValueReads(log[n]) <=> ValueIn(dataChunk, log[n])
             /\ LineReads(log[n]) <=> LinesIn(lineChunk, log[n])
  <2> DEFINE x == log[n]
  <2>1. x \in Entry
    BY <1>1
  <2> HIDE DEF x
  <2>2. x.kind \in {"op", "constant", "value"}
    BY <2>1 DEF Entry
  <2>3. CodeReads(x) <=> CodeIn(codeChunk, x)
    BY <2>2 DEF CodeReads, CodeIn, Width
  <2>4. ValueReads(x) <=> ValueIn(dataChunk, x)
    BY DEF ValueReads, ValueIn
  <2>5. Width(x) - 1 = IF x.kind = "op" THEN 0 ELSE INT_BYTES - 1
    BY DEF Width
  <2>6. LineReads(x) <=> LinesIn(lineChunk, x)
    BY <2>5 DEF LineReads, LinesIn
  <2> QED  BY <2>3, <2>4, <2>6 DEF x
<1> QED  BY <1>1 DEF FirstBlocksReadBack, ReadBackIn

(* The log grows by an entry for what was written.                         *)
LEMMA EntryLogged ==
  ASSUME ChunkInv, NEW e, e \in Entry, log' = Append(log, e),
         Width(e) \in {1, INT_BYTES}, NEW item,
         codeChunk' = Write(codeChunk, item, Width(e)),
         lineChunk' = WriteLines(lineChunk, Line, Width(e)),
         e.off = codeChunk.size, e.line = Line,
         item = IF e.kind = "value" THEN e.index ELSE e.item,
         Sound(dataChunk'),
         ~Grown(dataChunk') => ~Grown(dataChunk) /\ Keeps(dataChunk, dataChunk'),
         ~Grown(dataChunk') /\ e.kind = "value" =>
           Reads(dataChunk', e.index, VALUE_BYTES, e.item)
  PROVE  ChunkInv'
<1> DEFINE n == Len(log)
           width == Width(e)
<1>1. /\ Sound(codeChunk') /\ Sound(lineChunk')
      /\ ~Grown(codeChunk') =>
           /\ ~Grown(codeChunk)
           /\ codeChunk'.size = codeChunk.size + width
           /\ Keeps(codeChunk, codeChunk')
           /\ Reads(codeChunk', codeChunk.size, width, item)
      /\ ~Grown(codeChunk') /\ ~Grown(lineChunk') =>
           /\ ~Grown(lineChunk)
           /\ lineChunk'.size = INT_BYTES * codeChunk'.size
           /\ Keeps(lineChunk, lineChunk')
           /\ \A j \in 0..(width - 1) :
                Reads(lineChunk', INT_BYTES * (codeChunk.size + j), INT_BYTES, Line)
  <2> HIDE DEF width
  <2> QED  BY CodeWritten DEF width
<1>2. /\ log \in Seq(Entry) /\ n \in Nat /\ DOMAIN log = 1..n
      /\ codeChunk.size \in Nat /\ width \in Nat
  BY ChunkAssumption DEF ChunkInv, Sound, Width
<1>3. /\ log' \in Seq(Entry) /\ DOMAIN log' = 1..(n + 1)
      /\ \A m \in 1..n : log'[m] = log[m]
      /\ log'[n + 1] = e
  BY <1>2
<1>4. Layout'
  <2>1. ASSUME ~Grown(codeChunk'), NEW k \in 1..(n + 1)
        PROVE  /\ log'[k].off + Width(log'[k]) <= codeChunk'.size
               /\ \A m \in 1..(n + 1) : k < m => log'[k].off + Width(log'[k]) <= log'[m].off
    <3>1. CASE k = n + 1
      <4>1. log'[k].off + Width(log'[k]) = codeChunk'.size
        BY <1>1, <1>3, <2>1, <3>1
      <4>2. codeChunk'.size \in Nat
        BY <1>1, <1>2, <2>1
      <4>3. \A m \in 1..(n + 1) : ~(k < m)
        BY <1>2, <3>1
      <4> QED  BY <4>1, <4>2, <4>3
    <3>2. CASE k \in 1..n
      <4> DEFINE end == log[k].off + Width(log[k])
      <4>1. log'[k] = log[k] /\ end \in Nat
        <5>1. log[k] \in Entry
          BY <1>2, <3>2
        <5>2. log[k].off \in Nat /\ Width(log[k]) \in Nat
          BY <5>1, ChunkAssumption DEF Entry, Width
        <5> QED  BY <1>3, <3>2, <5>2
      <4>2. end <= codeChunk.size /\ \A m \in 1..n : k < m => end <= log[m].off
        BY <1>1, <1>2, <2>1, <3>2 DEF ChunkInv, Layout
      <4>3. end <= codeChunk'.size
        <5> HIDE DEF end, width
        <5> QED  BY <1>1, <1>2, <2>1, <4>1, <4>2
      <4>4. ASSUME NEW m \in 1..(n + 1), k < m PROVE end <= log'[m].off
        <5>1. CASE m \in 1..n
          BY <1>3, <4>2, <4>4, <5>1
        <5>2. CASE m = n + 1
          BY <1>3, <4>2, <5>2
        <5> QED  BY <1>2, <5>1, <5>2
      <4> QED  BY <4>1, <4>3, <4>4
    <3> QED  BY <1>2, <3>1, <3>2
  <2> QED  BY <1>1, <1>3, <2>1 DEF Layout
<1>5. ReadBackIn(log', codeChunk', dataChunk', lineChunk')
  <2> SUFFICES ASSUME NEW k \in 1..(n + 1)
               PROVE  /\ ~Grown(codeChunk') => CodeIn(codeChunk', log'[k])
                      /\ ~Grown(dataChunk') => ValueIn(dataChunk', log'[k])
                      /\ ~Grown(codeChunk') /\ ~Grown(lineChunk') => LinesIn(lineChunk', log'[k])
    BY <1>3 DEF ReadBackIn
  <2>1. CASE k \in 1..n
    <3> DEFINE x == log[k]
    <3>1. log'[k] = x
      BY <1>3, <2>1
    <3>2. /\ ~Grown(codeChunk) => CodeIn(codeChunk, x)
          /\ ~Grown(dataChunk) => ValueIn(dataChunk, x)
          /\ ~Grown(codeChunk) /\ ~Grown(lineChunk) => LinesIn(lineChunk, x)
      BY <1>2, <2>1, SameReads DEF ChunkInv, ReadBackIn
    <3> HIDE DEF x
    <3>3. ASSUME ~Grown(codeChunk') PROVE CodeIn(codeChunk', x)
      BY <1>1, <3>2, <3>3, KeptReads DEF CodeIn
    <3>4. ASSUME ~Grown(dataChunk') PROVE ValueIn(dataChunk', x)
      BY <3>2, <3>4, KeptReads DEF ValueIn
    <3>5. ASSUME ~Grown(codeChunk'), ~Grown(lineChunk') PROVE LinesIn(lineChunk', x)
      BY <1>1, <3>2, <3>5, KeptReads DEF LinesIn
    <3> QED  BY <3>1, <3>3, <3>4, <3>5
  <2>2. CASE k = n + 1
    <3>1. log'[k] = e
      BY <1>3, <2>2
    <3>2. ~Grown(codeChunk') => CodeIn(codeChunk', e)
      BY <1>1 DEF CodeIn
    <3>3. ~Grown(codeChunk') /\ ~Grown(lineChunk') => LinesIn(lineChunk', e)
      BY <1>1 DEF LinesIn
    <3>4. ~Grown(dataChunk') => ValueIn(dataChunk', e)
      BY DEF ValueIn
    <3> QED  BY <3>1, <3>2, <3>3, <3>4
  <2> QED  BY <1>2, <2>1, <2>2
<1>6. (log \in Seq(Entry) =>
        (FirstBlocksReadBack <=> ReadBackIn(log, codeChunk, dataChunk, lineChunk)))'
  BY SameReads, PTL
<1>7. FirstBlocksReadBack'
  BY <1>3, <1>5, <1>6
<1> QED  BY <1>1, <1>3, <1>4, <1>7 DEF ChunkInv

(* Each write logs the entry of what it wrote.                             *)
LEMMA WritesKeepChunkInv ==
  ASSUME ChunkInv, NEW item \in Items,
         WriteSimpleOp(item) \/ WriteConstant(item) \/ WriteValue(item)
  PROVE  ChunkInv'
<1>1. /\ Line \in Nat /\ codeChunk.size \in Nat /\ dataChunk.size \in Nat
      /\ INT_BYTES \in Nat /\ VALUE_BYTES \in Nat
      /\ Sound(dataChunk)
  BY ChunkAssumption DEF ChunkInv, Sound, Line
<1> DEFINE e(kind) == [kind |-> kind, off |-> codeChunk.size, line |-> Line,
                       item |-> item, index |-> dataChunk.size]
<1>2. Keeps(dataChunk, dataChunk)
  BY DEF Keeps
<1>3. CASE WriteSimpleOp(item)
  <2>1. /\ e("op") \in Entry /\ Width(e("op")) = 1 /\ log' = Append(log, e("op"))
        /\ e("op").kind # "value"
    BY <1>1, <1>3 DEF Entry, Width, WriteSimpleOp, Log
  <2>2. /\ e("op").off = codeChunk.size /\ e("op").line = Line /\ e("op").item = item
    OBVIOUS
  <2> HIDE DEF e
  <2> QED  BY <1>1, <1>2, <1>3, <2>1, <2>2, EntryLogged DEF WriteSimpleOp
<1>4. CASE WriteConstant(item)
  <2>1. /\ e("constant") \in Entry /\ Width(e("constant")) = INT_BYTES
        /\ log' = Append(log, e("constant")) /\ e("constant").kind # "value"
    BY <1>1, <1>4 DEF Entry, Width, WriteConstant, Log
  <2>2. /\ e("constant").off = codeChunk.size /\ e("constant").line = Line
        /\ e("constant").item = item
    OBVIOUS
  <2> HIDE DEF e
  <2> QED  BY <1>1, <1>2, <1>4, <2>1, <2>2, EntryLogged DEF WriteConstant
<1>5. CASE WriteValue(item)
  <2>1. /\ e("value") \in Entry /\ Width(e("value")) = INT_BYTES
        /\ log' = Append(log, e("value")) /\ e("value").kind = "value"
    BY <1>1, <1>5 DEF Entry, Width, WriteValue, Log
  <2>2. /\ e("value").off = codeChunk.size /\ e("value").line = Line
        /\ e("value").item = item /\ e("value").index = dataChunk.size
    OBVIOUS
  <2>3. /\ Sound(dataChunk')
        /\ ~Grown(dataChunk') =>
             /\ ~Grown(dataChunk) /\ Keeps(dataChunk, dataChunk')
             /\ Reads(dataChunk', dataChunk.size, VALUE_BYTES, item)
    BY <1>1, <1>5, WriteReads DEF WriteValue
  <2> HIDE DEF e
  <2> QED  BY <1>1, <1>5, <2>1, <2>2, <2>3, EntryLogged DEF WriteValue
<1> QED  BY <1>3, <1>4, <1>5

-----------------------------------------------------------------------------
(* A patch lies within the bytes of its own entry: the layout keeps it off *)
(* all others, before and behind.                                          *)
LEMMA RewriteKeepsChunkInv ==
  ASSUME ChunkInv, NEW n \in DOMAIN log, NEW item \in Items, RewriteConstant(n, item)
  PROVE  ChunkInv'
<1> DEFINE off == log[n].off
           bytes == Overlay(codeChunk.bytes, off, item, INT_BYTES)
<1>1. /\ log \in Seq(Entry) /\ DOMAIN log = 1..Len(log) /\ Len(log) \in Nat
      /\ log[n] \in Entry /\ off \in Nat /\ n \in Nat
      /\ INT_BYTES \in Nat /\ INT_BYTES # 0
  <2>1. log \in Seq(Entry) /\ INT_BYTES \in Nat /\ INT_BYTES # 0
    BY ChunkAssumption DEF ChunkInv
  <2>2. DOMAIN log = 1..Len(log) /\ Len(log) \in Nat /\ n \in Nat /\ log[n] \in Entry
    BY <2>1
  <2>3. log[n].off \in Nat
    BY <2>2 DEF Entry
  <2> QED  BY <2>1, <2>2, <2>3
<1>2. /\ log[n].kind = "constant"
      /\ codeChunk' = [codeChunk EXCEPT !.bytes = bytes]
      /\ log' = [log EXCEPT ![n].item = item]
      /\ dataChunk' = dataChunk /\ lineChunk' = lineChunk
  BY DEF RewriteConstant
<1> HIDE DEF off, bytes
<1>3. /\ codeChunk = [capacity |-> codeChunk.capacity, size |-> codeChunk.size,
                      bytes |-> codeChunk.bytes]
      /\ codeChunk.capacity \in Nat /\ codeChunk.capacity >= CHUNK_BASE_CAPACITY
      /\ codeChunk.size \in Nat
  BY DEF ChunkInv, Sound
<1>4. /\ codeChunk'.capacity = codeChunk.capacity /\ codeChunk'.size = codeChunk.size
      /\ codeChunk'.bytes = bytes
      /\ codeChunk' = [capacity |-> codeChunk.capacity, size |-> codeChunk.size,
                       bytes |-> bytes]
  BY <1>2, <1>3
<1>5. Grown(codeChunk') <=> Grown(codeChunk)
  BY <1>4 DEF Grown
<1>6. /\ DOMAIN bytes = DOMAIN codeChunk.bytes \union (off..(off + INT_BYTES - 1))
      /\ \A o \in off..(off + INT_BYTES - 1) :
           bytes[o] = [item |-> item, byte |-> o - off]
      /\ \A o \in DOMAIN codeChunk.bytes : o \notin off..(off + INT_BYTES - 1) =>
           bytes[o] = codeChunk.bytes[o]
  BY DEF Overlay, bytes
<1>7. /\ log' \in Seq(Entry) /\ DOMAIN log' = DOMAIN log
      /\ \A m \in DOMAIN log : m # n => log'[m] = log[m]
      /\ log'[n] = [log[n] EXCEPT !.item = item]
  <2>1. [log[n] EXCEPT !.item = item] \in Entry
    BY <1>1 DEF Entry
  <2> QED  BY <1>1, <1>2, <2>1
<1>8. /\ log'[n] \in Entry
      /\ log'[n].kind = "constant" /\ log'[n].off = off /\ log'[n].line = log[n].line
      /\ log'[n].item = item
  <2>1. log'[n] \in Entry
    BY <1>1, <1>7, SMTT(40)
  <2>2. /\ log[n] = [kind |-> log[n].kind, off |-> log[n].off, line |-> log[n].line,
                     item |-> log[n].item, index |-> log[n].index]
    BY <1>1 DEF Entry
  <2>3. log'[n] = [kind |-> log[n].kind, off |-> log[n].off, line |-> log[n].line,
                   item |-> item, index |-> log[n].index]
    BY <1>7, <2>2
  <2> QED  BY <1>2, <2>1, <2>3 DEF off
<1>9. \A m \in DOMAIN log : log'[m].off = log[m].off /\ Width(log'[m]) = Width(log[m])
  BY <1>2, <1>7, <1>8 DEF Width, off
<1>10. ASSUME ~Grown(codeChunk)
       PROVE  off + INT_BYTES <= codeChunk.size /\ DOMAIN codeChunk.bytes = 0..(codeChunk.size - 1)
  <2>1. Width(log[n]) = INT_BYTES
    BY <1>2 DEF Width
  <2> QED  BY <1>10, <2>1 DEF ChunkInv, Layout, Sound, off
<1>11. Sound(codeChunk')
  <2>1. ASSUME ~Grown(codeChunk) PROVE DOMAIN bytes = 0..(codeChunk.size - 1)
    <3>1. off..(off + INT_BYTES - 1) \subseteq 0..(codeChunk.size - 1)
      BY <1>1, <1>3, <1>10, <2>1
    <3> QED  BY <1>6, <1>10, <2>1, <3>1
  <2> QED  BY <1>3, <1>4, <1>5, <2>1 DEF Sound
<1>12. Layout'
  BY <1>2, <1>4, <1>5, <1>7, <1>9, SMTT(40) DEF ChunkInv, Layout
<1>13. ReadBackIn(log, codeChunk, dataChunk, lineChunk)
  BY SameReads DEF ChunkInv
<1>14. ASSUME NEW m \in DOMAIN log, ~Grown(codeChunk) PROVE CodeIn(codeChunk', log'[m])
  <2>1. CASE m = n
    <3>1. \A k \in 0..(INT_BYTES - 1) : /\ off + k \in off..(off + INT_BYTES - 1)
                                       /\ (off + k) - off = k
      BY <1>1
    <3>2. Reads(codeChunk', off, INT_BYTES, item)
      BY <1>4, <1>6, <3>1 DEF Reads
    <3>3. Width(log'[n]) = INT_BYTES
      BY <1>8 DEF Width
    <3> QED  BY <1>8, <2>1, <3>2, <3>3 DEF CodeIn
  <2>2. CASE m # n
    <3> DEFINE x == log[m]
               value == IF x.kind = "value" THEN x.index ELSE x.item
    <3>1. x \in Entry /\ log'[m] = x /\ m \in Nat
      BY <1>1, <1>7, <2>2
    <3>2. x.off \in Nat /\ Width(x) \in Nat
      BY <3>1, ChunkAssumption DEF Entry, Width
    <3>3. x.off + Width(x) <= off \/ off + INT_BYTES <= x.off
      <4>1. Width(log[n]) = INT_BYTES
        BY <1>2 DEF Width
      <4>2. m < n \/ n < m
        BY <1>1, <2>2, <3>1
      <4> QED  BY <1>14, <4>1, <4>2 DEF ChunkInv, Layout, off
    <3>4. Reads(codeChunk, x.off, Width(x), value)
      BY <1>13, <1>14 DEF ReadBackIn, CodeIn
    <3> HIDE DEF x, value
    <3>5. \A k \in 0..(Width(x) - 1) : x.off + k \notin off..(off + INT_BYTES - 1)
      BY <1>1, <3>2, <3>3
    <3>6. Reads(codeChunk', x.off, Width(x), value)
      BY <1>4, <1>6, <3>4, <3>5 DEF Reads
    <3> QED  BY <3>1, <3>6 DEF CodeIn, value
  <2> QED  BY <2>1, <2>2
<1>15. ReadBackIn(log', codeChunk', dataChunk', lineChunk')
  <2>1. ASSUME NEW m \in DOMAIN log, ~Grown(dataChunk) PROVE ValueIn(dataChunk, log'[m])
    <3>1. CASE m = n
      BY <1>8, <3>1 DEF ValueIn
    <3>2. CASE m # n
      BY <1>7, <1>13, <2>1, <3>2 DEF ReadBackIn
    <3> QED  BY <3>1, <3>2
  <2>2. ASSUME NEW m \in DOMAIN log, ~Grown(codeChunk), ~Grown(lineChunk)
        PROVE  LinesIn(lineChunk, log'[m])
    <3>1. LinesIn(lineChunk, log[m])
      BY <1>13, <2>2 DEF ReadBackIn
    <3>2. log'[m].line = log[m].line
      BY <1>7, <1>8
    <3> QED  BY <1>9, <3>1, <3>2 DEF LinesIn
  <2> QED  BY <1>2, <1>5, <1>7, <1>14, <2>1, <2>2 DEF ReadBackIn
<1>16. (log \in Seq(Entry) =>
         (FirstBlocksReadBack <=> ReadBackIn(log, codeChunk, dataChunk, lineChunk)))'
  BY SameReads, PTL
<1>17. Sound(dataChunk') /\ Sound(lineChunk')
  BY <1>2 DEF ChunkInv
<1> QED  BY <1>7, <1>11, <1>12, <1>15, <1>16, <1>17 DEF ChunkInv

-----------------------------------------------------------------------------
(* Until a buffer outgrows its first block, every write is read back at    *)
(* the offset, the index and the line noted when it was made, whatever was *)
(* written or patched since: bcchunk_write_simple_op, bcchunk_write_value, *)
(* bcchunk_write_constant and bcchunk_rewrite_constant, for any sizes of   *)
(* int and of a value, any first capacity, any constants and any number of *)
(* writes.                                                                 *)
THEOREM FirstBlocksAreReadBack == Spec => []FirstBlocksReadBack
<1>1. Init => ChunkInv
  <2> SUFFICES ASSUME Init PROVE ChunkInv
    OBVIOUS
  <2>1. Sound(NewChunk)
    <3>1. 0..(0 - 1) = {}
      OBVIOUS
    <3> QED  BY <3>1, ChunkAssumption DEF Sound, NewChunk
  <2>2. log = <<>> /\ log \in Seq(Entry) /\ DOMAIN log = {}
    BY DEF Init
  <2>3. lineChunk.size = INT_BYTES * codeChunk.size
    BY ChunkAssumption DEF Init, NewChunk
  <2> QED  BY <2>1, <2>2, <2>3 DEF Init, ChunkInv, Layout, FirstBlocksReadBack
<1>2. ChunkInv /\ [Next]_chunkVars => ChunkInv'
  <2> SUFFICES ASSUME ChunkInv, [Next]_chunkVars PROVE ChunkInv'
    OBVIOUS
  <2>1. ASSUME NEW item \in Items,
               WriteSimpleOp(item) \/ WriteConstant(item) \/ WriteValue(item)
        PROVE  ChunkInv'
    BY <2>1, WritesKeepChunkInv
  <2>2. ASSUME NEW n \in DOMAIN log, NEW item \in Items, RewriteConstant(n, item)
        PROVE  ChunkInv'
    BY <2>2, RewriteKeepsChunkInv
  <2>3. CASE UNCHANGED chunkVars
    BY <2>3 DEF chunkVars, ChunkInv, Layout, FirstBlocksReadBack, CodeReads, ValueReads,
                LineReads
  <2> QED  BY <2>1, <2>2, <2>3 DEF Next
<1>3. ChunkInv => FirstBlocksReadBack
  BY DEF ChunkInv
<1> QED  BY <1>1, <1>2, <1>3, PTL DEF Spec
=============================================================================
