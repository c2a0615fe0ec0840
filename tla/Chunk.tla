------------------------------- MODULE Chunk --------------------------------
(***************************************************************************)
(* The byte buffers of bytecode.c: three growing arrays, the code, the     *)
(* data its operands index and a line number for every byte of code.       *)
(* Offsets into them are taken before a write (bcchunk_get_codesize,       *)
(* chunk->_data.size) and used after it, so a write must put its bytes     *)
(* where the size said.  Module Bytecode abstracts these buffers by a      *)
(* function from offsets to instructions; this module says when that is    *)
(* right.                                                                  *)
(***************************************************************************)
EXTENDS Integers, Sequences

CONSTANTS CHUNK_BASE_CAPACITY,
          INT_BYTES,     \* sizeof(int)
          VALUE_BYTES,   \* sizeof(union _inner_value_t)
          Items,         \* constants and values of the program
          MAX_WRITES     \* bound on the writes, for model checking

ASSUME ChunkAssumption ==
  /\ {CHUNK_BASE_CAPACITY, INT_BYTES, VALUE_BYTES} \subseteq Nat \ {0}
  /\ MAX_WRITES \in Nat

VARIABLES codeChunk,   \* chunk->_code
          dataChunk,   \* chunk->_data
          lineChunk,   \* chunk->_line_data
          log          \* history: what was written, where the caller put it

chunkVars == <<codeChunk, dataChunk, lineChunk, log>>

(* bytes maps an offset to the byte there: which item it is part of, and   *)
(* which byte of it.  Bytes written past capacity are outside the block.   *)
NewChunk == [capacity |-> CHUNK_BASE_CAPACITY, size |-> 0,
             bytes |-> [o \in {} |-> 0]]

Grown(ch) == ch.capacity > CHUNK_BASE_CAPACITY

(* chunk_realloc: size becomes the new capacity unless it is larger.       *)
Realloc(ch) ==
  LET newsize == ch.capacity + CHUNK_BASE_CAPACITY
  IN  [ch EXCEPT !.capacity = newsize,
                 !.size = IF @ > newsize THEN @ ELSE newsize]

Overlay(bytes, off, item, width) ==
  [o \in DOMAIN bytes \union (off..(off + width - 1)) |->
     IF o \in off..(off + width - 1) THEN [item |-> item, byte |-> o - off]
     ELSE bytes[o]]

(* chunk_write, chunk_write_number, chunk_write_value *)
Write(ch, item, width) ==
  LET c == IF ch.capacity < ch.size + width THEN Realloc(ch) ELSE ch
  IN  [c EXCEPT !.bytes = Overlay(@, c.size, item, width), !.size = @ + width]

(* Seeded bug: an instruction gets one line, not a line for every byte. *)
WriteOneLine(ch, line, n) == Write(ch, line, INT_BYTES)

(* A line for each of n bytes of code. *)
WriteLines(ch, line, n) ==
  LET written[k \in 0..n] == IF k = 0 THEN ch ELSE Write(written[k - 1], line, INT_BYTES)
  IN  written[n]

(* Each write has a line of its own. *)
Line == Len(log) + 1

Log(kind, item) ==
  log' = Append(log, [kind |-> kind, off |-> codeChunk.size, line |-> Line,
                      item |-> item, index |-> dataChunk.size])

Init == /\ codeChunk = NewChunk
        /\ dataChunk = NewChunk
        /\ lineChunk = NewChunk
        /\ log = <<>>

(* bcchunk_write_simple_op *)
WriteSimpleOp(op) ==
  /\ codeChunk' = Write(codeChunk, op, 1)
  /\ lineChunk' = WriteLines(lineChunk, Line, 1)
  /\ Log("op", op)
  /\ UNCHANGED dataChunk

(* bcchunk_write_constant *)
WriteConstant(num) ==
  /\ codeChunk' = Write(codeChunk, num, INT_BYTES)
  /\ lineChunk' = WriteLines(lineChunk, Line, INT_BYTES)
  /\ Log("constant", num)
  /\ UNCHANGED dataChunk

(* bcchunk_write_value: the operand is the size of _data before the write. *)
WriteValue(value) ==
  /\ codeChunk' = Write(codeChunk, dataChunk.size, INT_BYTES)
  /\ lineChunk' = WriteLines(lineChunk, Line, INT_BYTES)
  /\ dataChunk' = Write(dataChunk, value, VALUE_BYTES)
  /\ Log("value", value)

(* bcchunk_rewrite_constant, at the offset noted when it was written.      *)
RewriteConstant(n, num) ==
  /\ log[n].kind = "constant"
  /\ log[n].item # num
  /\ codeChunk' = [codeChunk EXCEPT !.bytes = Overlay(@, log[n].off, num, INT_BYTES)]
  /\ log' = [log EXCEPT ![n].item = num]
  /\ UNCHANGED <<dataChunk, lineChunk>>

Next == \/ /\ Len(log) < MAX_WRITES
           /\ \E item \in Items :
                WriteSimpleOp(item) \/ WriteConstant(item) \/ WriteValue(item)
        \/ \E n \in DOMAIN log, item \in Items : RewriteConstant(n, item)

Spec == Init /\ [][Next]_chunkVars

-----------------------------------------------------------------------------
(* Properties *)

(* What reading width bytes at off yields: an item, if they are the bytes  *)
(* of one item in order.                                                   *)
Reads(ch, off, width, item) ==
  \A k \in 0..(width - 1) :
    /\ off + k \in DOMAIN ch.bytes
    /\ ch.bytes[off + k] = [item |-> item, byte |-> k]

CodeReads(e) ==
  CASE e.kind = "op"       -> Reads(codeChunk, e.off, 1, e.item)
    [] e.kind = "constant" -> Reads(codeChunk, e.off, INT_BYTES, e.item)
    [] e.kind = "value"    -> Reads(codeChunk, e.off, INT_BYTES, e.index)

ValueReads(e) == e.kind = "value" => Reads(dataChunk, e.index, VALUE_BYTES, e.item)

(* get_vm_codeline indexes the lines as an array of int by code offset.    *)
LineReads(e) ==
  \A k \in 0..(IF e.kind = "op" THEN 0 ELSE INT_BYTES - 1) :
    Reads(lineChunk, INT_BYTES * (e.off + k), INT_BYTES, e.line)

(* Until a chunk outgrows its first block, whatever was written is read    *)
(* back at the offset, the index and the line it was written under, after  *)
(* any writes and patches in between (bytecode.c:241-257).                 *)
FirstBlocksReadBack ==
  \A n \in DOMAIN log :
    /\ ~Grown(codeChunk) => CodeReads(log[n])
    /\ ~Grown(dataChunk) => ValueReads(log[n])
    /\ ~Grown(codeChunk) /\ ~Grown(lineChunk) => LineReads(log[n])
=============================================================================
