-------------------------------- MODULE Trie --------------------------------
(***************************************************************************)
(* The trie of trie.c.  A node is its number in the order of tr_alloc, the *)
(* root is 1; children maps a node and a character to a node, or to NULL.  *)
(* A word is the sequence of its characters, all of which tr_hash_char     *)
(* has an index for.                                                       *)
(***************************************************************************)
EXTENDS Naturals, Sequences, SequencesExt

NULL == 0

(* tr_init *)
NewNode == [children |-> <<>>, is_final |-> FALSE, data |-> <<>>]

EmptyTrie == <<NewNode>>

Child(trie, node, c) ==
  IF node # NULL /\ c \in DOMAIN trie[node].children
  THEN trie[node].children[c] ELSE NULL

(* The children of a node, with that for c added. *)
Hung(children, c, node) ==
  [d \in DOMAIN children \union {c} |-> IF d = c THEN node ELSE children[d]]

(* One turn of the loop of tr_add: at is the trie and the node reached.    *)
Descend(at, c) ==
  LET next == Child(at.trie, at.node, c)
      new  == Len(at.trie) + 1
  IN  IF next # NULL THEN [at EXCEPT !.node = next]
      ELSE [trie |-> Append([at.trie EXCEPT ![at.node].children = Hung(@, c, new)], NewNode),
            node |-> new]

(* tr_add *)
Add(trie, word, data) ==
  LET end == FoldLeft(Descend, [trie |-> trie, node |-> 1], word)
  IN  [end.trie EXCEPT ![end.node].is_final = TRUE, ![end.node].data = data]

(* Seeded bug: a word that is the beginning of a keyword is found. *)
FindPrefix(trie, word) ==
  FoldLeft(LAMBDA node, c : Child(trie, node, c), 1, word)

(* tr_find: the final node of the word, or NULL *)
Find(trie, word) ==
  LET end == FoldLeft(LAMBDA node, c : Child(trie, node, c), 1, word)
  IN  IF end # NULL /\ trie[end].is_final THEN end ELSE NULL
=============================================================================
