------------------------------ MODULE Scanner ------------------------------
(***************************************************************************)
(* The scanner of scanner.c: one action per turn of a loop over the input, *)
(* with the look-up of a word among the keywords (symtable_procword) and   *)
(* the interning of identifiers and strings (symtable_findstr,             *)
(* stringtable_findstr).  The caller asks for the next token or puts the   *)
(* last one back.                                                          *)
(*                                                                         *)
(* The text is whatever getc delivers, chosen as it is read.  A word is a  *)
(* sequence of characters.  Objects are numbered as they are made; a table *)
(* holds the objects of its kind.  The native functions, whose names are   *)
(* in the symbol table from the start, are not words of the runs.          *)
(***************************************************************************)
EXTENDS Integers, Sequences, SequencesExt, FiniteSets, Trie

CONSTANTS Chars,          \* the characters texts are made of
          Keywords,       \* the words added to the trie, in that order
          WORD_SIZE,      \* of the buffer of a word
          INPUT_BUF_SZ,   \* of the buffer of characters put back
          INT_MAX,        \* the largest int
          MAX_CHARS       \* bound on the characters of a text

ASSUME ScannerAssumption ==
  /\ WORD_SIZE \in Nat /\ WORD_SIZE > 1
  /\ INPUT_BUF_SZ \in Nat \ {0}
  /\ INT_MAX \in Nat /\ MAX_CHARS \in Nat

EOF == "end of file"

ASSUME CharsAssumption == EOF \notin Chars

NL == "\n"

Spaces      == {" ", NL}
Digits      == {"0", "1", "9"}
Letters     == {"n", "o", "r", "x"}
WordChars   == Letters \union Digits \union {"_"}

(* tr_hash_char has an index for every character of a keyword. *)
ASSUME KeywordsAssumption == Keywords \in Seq(Seq(WordChars))

Punctuation == {"*", ":", ".", "(", ")", ";", "{", "}", ","}

DigitValue == [d \in Digits |-> CASE d = "0" -> 0 [] d = "1" -> 1 [] d = "9" -> 9]

(* Of characters that are a token alone and with another one behind them,  *)
(* that other one.                                                         *)
Second(c) == CASE c \in {"+", "-"} -> c [] c \in {"=", ">", "<"} -> "="

Doubling == {"+", "-", "=", ">", "<"}

(* What a backslash and a character stand for. *)
Escapes   == {"\\", "n", "\""}
Escape(c) == IF c = "n" THEN NL ELSE c

(* A token that is not spelled as its type. *)
T_EOF    == <<"end">>
T_INT    == <<"number">>
T_IDENT  == <<"identifier">>
T_STRING == <<"string">>

-----------------------------------------------------------------------------
VARIABLES text,        \* history: the characters getc has delivered
          over,        \* history: getc has delivered EOF
          buf,         \* _input_buf, the last character is the top
          line,        \* line_counter
          at,          \* the loop or test that reads the next character
          lex,         \* the characters kept of the token being read
          first,       \* history: where that token begins
          tok,         \* cur_token
          is_putback,
          objs,        \* the objects of symtable and stringtable
          toks         \* history: the tokens delivered

inputVars   == <<text, over, buf, line>>
tokenVars   == <<tok, objs, toks>>
scannerVars == <<inputVars, at, lex, first, is_putback, tokenVars>>

NoToken == [type |-> T_EOF, data |-> 0]

Init == /\ text = <<>> /\ over = FALSE
        /\ buf = <<>>
        /\ line = 1
        /\ at = "idle"
        /\ lex = <<>> /\ first = 0
        /\ tok = NoToken
        /\ is_putback = FALSE
        /\ objs = <<>>
        /\ toks = <<>>

-----------------------------------------------------------------------------
(* Characters *)

Available == IF buf # <<>> THEN {buf[Len(buf)]}
             ELSE IF over \/ Len(text) >= MAX_CHARS THEN {EOF}
             ELSE Chars \union {EOF}

CharOrEOF == Chars \union {EOF}

(* Seeded bug: the character taken from the buffer stays in it. *)
RestKept == buf

(* What is left in the buffer when a character has been taken. *)
Rest == IF buf = <<>> THEN buf ELSE SubSeq(buf, 1, Len(buf) - 1)

LineBehind(c)  == IF c = NL THEN line + 1 ELSE line

(* Seeded bug: a newline that is put back stays counted. *)
LineBeforeCounting(l, c) == l

LineBefore(l, c) == IF c = NL THEN l - 1 ELSE l

Reads(c) == /\ c \in Available
            /\ text' = IF buf = <<>> /\ c # EOF THEN Append(text, c) ELSE text
            /\ over' = (over \/ c = EOF)

(* c is _get() and stays read. *)
Gets(c) == /\ Reads(c)
           /\ buf' = Rest
           /\ line' = LineBehind(c)

(* c is _get() and is put back; the process ends if the buffer is full.    *)
LooksAt(c, where) ==
  /\ Reads(c)
  /\ buf' = Append(Rest, c)
  /\ line' = LineBefore(LineBehind(c), c)
  /\ at' = IF Len(Rest) >= INPUT_BUF_SZ THEN "fatal" ELSE where

(* The characters behind the last one that was read. *)
Position == IF buf # <<>> /\ buf[1] # EOF THEN Len(text) - 1 ELSE Len(text)

-----------------------------------------------------------------------------
(* Tokens *)

keywords == FoldLeft(LAMBDA trie, word : Add(trie, word, word), EmptyTrie, Keywords)

(* symtable_procword *)
TypeOfWord(word) ==
  LET node == Find(keywords, word)
  IN  IF node # NULL THEN keywords[node].data ELSE T_IDENT

(* cur_token is set and scanner_next_token returns; the history has the    *)
(* end of the file once.                                                   *)
Becomes(type, data) ==
  /\ tok' = [type |-> type, data |-> data]
  /\ toks' = IF type = T_EOF /\ toks # <<>> /\ tok.type = T_EOF THEN toks
             ELSE Append(toks, [type |-> type, data |-> data,
                                first |-> first', last |-> Position'])

(* Seeded bug: a new object for every string. *)
FindOrMakeAlways(kind, str) ==
  /\ objs' = Append(objs, [kind |-> kind, str |-> str])
  /\ Becomes(kind, Len(objs'))

(* symtable_findstr and stringtable_findstr: the object of that spelling   *)
(* in the table of its kind, made and inserted if there is none.           *)
FindOrMake(kind, str) ==
  LET obj   == [kind |-> kind, str |-> str]
      found == {i \in DOMAIN objs : objs[i] = obj}
  IN  IF found # {} THEN UNCHANGED objs /\ Becomes(kind, CHOOSE i \in found : TRUE)
      ELSE objs' = Append(objs, obj) /\ Becomes(kind, Len(objs'))

(* The value wraps where it overflows, as the build computes it. *)
Wrapped(n) == LET width == 2 * (INT_MAX + 1)
              IN  ((n + INT_MAX + 1) % width) - (INT_MAX + 1)

(* _readint *)
IntOf(digits) == FoldLeft(LAMBDA val, d : Wrapped(val * 10 + DigitValue[d]), 0, digits)

Returns == at' = "idle" /\ UNCHANGED <<lex, first, is_putback>>

GoOn(where) == at' = where /\ UNCHANGED <<lex, first, is_putback, tokenVars>>

Keep(cs) == lex' = lex \o cs /\ UNCHANGED <<at, first, is_putback, tokenVars>>

-----------------------------------------------------------------------------
(* scanner_next_token *)

NextToken ==
  /\ at = "idle"
  /\ \/ is_putback /\ is_putback' = FALSE /\ UNCHANGED at
     \/ ~is_putback /\ at' = "skip" /\ UNCHANGED is_putback
  /\ UNCHANGED <<inputVars, lex, first, tokenVars>>

(* scanner_putback_token *)
PutBackToken ==
  /\ at = "idle" /\ toks # <<>> /\ ~is_putback
  /\ is_putback' = TRUE
  /\ UNCHANGED <<inputVars, at, lex, first, tokenVars>>

(* Where the switch goes for a character that is no token by itself. *)
Branch(c) == CASE c \in Spaces   -> "skip"
               [] c \in Digits   -> "int"
               [] c \in Letters  -> "word"
               [] c \in Doubling -> "second"
               [] c = "/"        -> "slash"
               [] c = "#"        -> "line_comment"
               [] c = "!"        -> "bang"
               [] c = "\""       -> "string"
               [] OTHER          -> "failed"

(* A turn of _skip; the first character that is no space decides. *)
Skip ==
  /\ at = "skip"
  /\ \E c \in CharOrEOF :
       /\ Gets(c)
       /\ first' = IF c = EOF THEN Len(text) + 1 ELSE Len(text')
       /\ lex' = IF c = "\"" THEN <<>> ELSE <<c>>
       /\ UNCHANGED is_putback
       /\ \/ /\ c \in Punctuation
             /\ at' = "idle" /\ Becomes(<<c>>, 0) /\ UNCHANGED objs
          \/ /\ c = EOF
             /\ at' = "idle" /\ Becomes(T_EOF, 0) /\ UNCHANGED objs
          \/ /\ c \notin Punctuation \union {EOF}
             /\ at' = Branch(c) /\ UNCHANGED tokenVars

(* ++, --, ==, >= and <=, or the one character *)
ReadSecond ==
  /\ at = "second"
  /\ \E c \in CharOrEOF :
       \/ /\ c = Second(lex[1])
          /\ Gets(c) /\ Returns
          /\ Becomes(<<lex[1], c>>, 0) /\ UNCHANGED objs
       \/ /\ c # Second(lex[1])
          /\ LooksAt(c, "idle") /\ UNCHANGED <<lex, first, is_putback>>
          /\ Becomes(lex, 0) /\ UNCHANGED objs

ReadSlash ==
  /\ at = "slash"
  /\ \E c \in CharOrEOF :
       \/ c = "/" /\ Gets(c) /\ GoOn("line_comment")
       \/ c = "*" /\ Gets(c) /\ GoOn("block")
       \/ /\ c \notin {"/", "*"}
          /\ LooksAt(c, "idle") /\ UNCHANGED <<lex, first, is_putback>>
          /\ Becomes(lex, 0) /\ UNCHANGED objs

(* Seeded bug: the end of the text does not end the comment. *)
SkipLineAndMore ==
  /\ at = "line_comment"
  /\ \E c \in CharOrEOF : Gets(c) /\ GoOn(IF c = NL THEN "skip" ELSE at)

(* _skip_until('\n') *)
SkipLine ==
  /\ at = "line_comment"
  /\ \E c \in CharOrEOF : Gets(c) /\ GoOn(IF c \in {NL, EOF} THEN "skip" ELSE at)

(* The condition of the loop takes two characters when the first one is a  *)
(* star; nothing ends it at the end of the text.                           *)
SkipBlock ==
  /\ at = "block"
  /\ \E c \in CharOrEOF : Gets(c) /\ GoOn(IF c = "*" THEN "block_star" ELSE at)

SkipBlockStar ==
  /\ at = "block_star"
  /\ \E c \in CharOrEOF : Gets(c) /\ GoOn(IF c = "/" THEN "skip" ELSE "block")

ReadBang ==
  /\ at = "bang"
  /\ \E c \in CharOrEOF :
       /\ Gets(c)
       /\ \/ c = "=" /\ Returns /\ Becomes(<<"!", c>>, 0) /\ UNCHANGED objs
          \/ c # "=" /\ GoOn("failed")

(* A turn of _readstring *)
ReadString ==
  /\ at = "string"
  /\ \E c \in CharOrEOF :
       \/ /\ c \in {"\"", EOF}
          /\ LooksAt(c, "close") /\ UNCHANGED <<lex, first, is_putback, tokenVars>>
       \/ c = "\\" /\ Gets(c) /\ GoOn("escape")
       \/ c \notin {"\"", EOF, "\\"} /\ Gets(c) /\ Keep(<<c>>)

ReadEscape ==
  /\ at = "escape"
  /\ \E c \in CharOrEOF :
       /\ Gets(c)
       /\ \/ /\ c \in Escapes
             /\ at' = "string" /\ lex' = Append(lex, Escape(c))
             /\ UNCHANGED <<first, is_putback, tokenVars>>
          \/ c \notin Escapes /\ GoOn("failed")

CloseString ==
  /\ at = "close"
  /\ \E c \in CharOrEOF :
       /\ Gets(c)
       /\ \/ c = "\"" /\ Returns /\ FindOrMake(T_STRING, lex)
          \/ c # "\"" /\ GoOn("failed")

(* _readint *)
ReadInt ==
  /\ at = "int"
  /\ \E c \in CharOrEOF :
       \/ c \in Digits /\ Gets(c) /\ Keep(<<c>>)
       \/ /\ c \notin Digits
          /\ LooksAt(c, "idle") /\ UNCHANGED <<lex, first, is_putback>>
          /\ Becomes(T_INT, IntOf(lex)) /\ UNCHANGED objs

(* _readword; a word that fills the buffer ends there. *)
ReadWord ==
  /\ at = "word"
  /\ \E c \in CharOrEOF :
       LET isRead == c \in WordChars /\ Len(lex) < WORD_SIZE - 1
           type   == TypeOfWord(lex)
       IN  \/ isRead /\ Gets(c) /\ Keep(<<c>>)
           \/ /\ ~isRead
              /\ LooksAt(c, "idle") /\ UNCHANGED <<lex, first, is_putback>>
              /\ \/ type = T_IDENT /\ FindOrMake(type, lex)
                 \/ type # T_IDENT /\ Becomes(type, 0) /\ UNCHANGED objs

Read == \/ Skip \/ ReadSecond \/ ReadSlash \/ SkipLine \/ SkipBlock \/ SkipBlockStar
        \/ ReadBang \/ ReadString \/ ReadEscape \/ CloseString \/ ReadInt \/ ReadWord

Exited == at \in {"failed", "fatal"} /\ UNCHANGED scannerVars

Next == NextToken \/ PutBackToken \/ Read \/ Exited

(* A call runs on by itself; the next one is the caller's affair. *)
Spec == Init /\ [][Next]_scannerVars /\ WF_scannerVars(Read)

-----------------------------------------------------------------------------
(* Properties *)

(* What lies between two tokens: spaces and comments.  A block comment     *)
(* ends at the first slash behind an odd number of stars.                  *)
Stars(s, k) == Cardinality({i \in 1..k : \A j \in i..k : s[j] = "*"})

EndsBlock(s, k) == s[k] = "/" /\ Stars(SubSeq(s, 3, k - 1), k - 3) % 2 = 1

IsBlockComment(s) ==
  /\ Len(s) >= 4 /\ s[1] = "/" /\ s[2] = "*"
  /\ EndsBlock(s, Len(s))
  /\ \A k \in 4..(Len(s) - 1) : ~EndsBlock(s, k)

IsLineComment(s, isLast) ==
  /\ s # <<>> /\ (s[1] = "#" \/ (Len(s) > 1 /\ s[1] = "/" /\ s[2] = "/"))
  /\ \A k \in 1..(Len(s) - 1) : s[k] # NL
  /\ s[Len(s)] = NL \/ isLast

IsBlank(s, isLast) ==
  LET isPart(i, k) == \/ i = k /\ s[i] \in Spaces
                      \/ IsBlockComment(SubSeq(s, i, k))
                      \/ IsLineComment(SubSeq(s, i, k), isLast /\ k = Len(s))
      from[i \in 1..(Len(s) + 1)] ==
        i = Len(s) + 1 \/ \E k \in i..Len(s) : isPart(i, k) /\ from[k + 1]
  IN  from[1]

Spelling(t) == SubSeq(text, t.first, t.last)

(* The spelling of a token is one of its type. *)
IsSpelled(type, s) ==
  CASE type = T_EOF  -> s = <<>>
    [] type = T_INT    -> \A i \in DOMAIN s : s[i] \in Digits
    [] type = T_STRING -> Len(s) > 1 /\ s[1] = "\"" /\ s[Len(s)] = "\""
    [] type = T_IDENT  -> /\ s[1] \in Letters /\ \A i \in DOMAIN s : s[i] \in WordChars
                          /\ \A i \in DOMAIN Keywords : Keywords[i] # s
    [] OTHER           -> type = s

(* Behind it is no character that belongs to it; only a word that fills    *)
(* its buffer is cut.                                                      *)
IsLongest(type, s, c) ==
  CASE type \in {T_EOF, T_STRING} -> TRUE
    [] type = T_INT                -> c \notin Digits
    [] type = T_IDENT \/ (s # <<>> /\ s[1] \in Letters)
                                   -> c \notin WordChars \/ Len(s) = WORD_SIZE - 1
    [] s = <<"/">>              -> c \notin {"/", "*"}
    [] Len(s) = 1 /\ s[1] \in Doubling -> c # Second(s[1])
    [] OTHER                    -> TRUE

(* The tokens are the text: between two of them there are only spaces and  *)
(* comments, every one is spelled as its type is, a word is a keyword only *)
(* as a whole, and none could have been longer.                            *)
TokensAreTheText ==
  toks # <<>> =>
    LET t      == toks[Len(toks)]
        before == IF Len(toks) = 1 THEN 0 ELSE toks[Len(toks) - 1].last
    IN  /\ IsBlank(SubSeq(text, before + 1, t.first - 1), t.type = T_EOF)
        /\ IsSpelled(t.type, Spelling(t))
        /\ t.last < Len(text) => IsLongest(t.type, Spelling(t), text[t.last + 1])

(* The buffer of characters put back, of INPUT_BUF_SZ, holds at most the   *)
(* one read last, so that no text ends the process there.                  *)
PutBackFits == at # "fatal" /\ Len(buf) <= 1

(* line_counter, printed with every error and kept with every instruction, *)
(* is the line of the next character: a newline counts when it is read,    *)
(* once, however often it was put back and wherever it stands.             *)
LinesAreCounted ==
  line = 1 + Cardinality({i \in 1..Position : text[i] = NL})

(* A text between quotes without its backslashes, each of which makes the  *)
(* character behind it mean another one                                    *)
Unescape(read, c) ==
  CASE read.escaped               -> [word |-> Append(read.word, Escape(c)), escaped |-> FALSE]
    [] ~read.escaped /\ c = "\\" -> [read EXCEPT !.escaped = TRUE]
    [] ~read.escaped /\ c # "\\" -> [read EXCEPT !.word = Append(@, c)]

Unescaped(s) == FoldLeft(Unescape, [word |-> <<>>, escaped |-> FALSE], s).word

Meaning(t) == IF t.type = T_STRING THEN Unescaped(SubSeq(text, t.first + 1, t.last - 1))
              ELSE Spelling(t)

Decimal(s) == FoldLeft(LAMBDA n, d : 10 * n + DigitValue[d], 0, s)

(* What the parser gets with a token follows from its spelling alone.  The *)
(* machine compares names and strings by their address: two tokens have    *)
(* one object exactly when they are of one kind and mean the same word,    *)
(* whatever lies between them.  A number that fits an int is that number.  *)
DataFollowsSpelling ==
  /\ \A i, j \in DOMAIN toks :
       LET a == toks[i]
           b == toks[j]
       IN  {a.type, b.type} \subseteq {T_IDENT, T_STRING} =>
             ((a.data = b.data) <=> (a.type = b.type /\ Meaning(a) = Meaning(b)))
  /\ \A i \in DOMAIN toks :
       LET a == toks[i]
       IN  a.type = T_INT /\ Decimal(Spelling(a)) <= INT_MAX => a.data = Decimal(Spelling(a))

(* A call of scanner_next_token comes back, or the process ends with a     *)
(* message, whatever the text: only a block comment may be read for ever.  *)
HangsOnlyInBlockComment ==
  at # "idle" ~> at \in {"idle", "failed", "fatal", "block", "block_star"}
=============================================================================
