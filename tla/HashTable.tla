----------------------------- MODULE HashTable ------------------------------
(***************************************************************************)
(* hash_table.c: open addressing with linear probing, tombstones and       *)
(* doubling.  One action is one turn of a loop of the C code, so the       *)
(* states in the middle of a probe and in the middle of table_grow, where  *)
(* the entries are spread over the old and the new array, are states here. *)
(*                                                                         *)
(* A key stands for an interned string: equal contents are the same        *)
(* pointer, which is what symtable.c makes of this table.  table_unset is  *)
(* offered by the header and has no caller in the interpreter yet.         *)
(***************************************************************************)
EXTENDS Integers, FiniteSets

CONSTANTS Keys,                 \* interned strings
          Values,               \* may hold NONE and TRUE_VALUE too
          NULL,                 \* the key of an entry not in use
          HashOf,               \* key -> int32 hash
          TABLE_BASE_CAPACITY,
          MAX_CAPACITY          \* bound on the growth, for model checking

ASSUME TableAssumption ==
  /\ NULL \notin Keys
  /\ HashOf \in [Keys -> Int]
  /\ TABLE_BASE_CAPACITY \in Nat \ {0, 1}
  /\ MAX_CAPACITY \in Nat

NONE       == "none"
TRUE_VALUE == "true"

VARIABLES entries,    \* t->entries
          capacity,   \* t->capacity
          count,      \* t->count
          old,        \* table_grow: the array being emptied
          moved,      \* table_grow: its loop index i; NotGrowing outside it
          pc,         \* where the call under way stands
          call,       \* the call of the table's user: name, key, value
          idx,        \* find_entry, table_find_string: the loop index
          tombstone,  \* find_entry: the tombstone seen last, NoIndex if none
          answer      \* what the last call returned

tableVars == <<entries, capacity, count, old, moved, pc, call, idx, tombstone, answer>>

NoIndex    == -1
NotGrowing == -1
NoEntries  == [j \in {} |-> NULL]

Entry(key, value) == [key |-> key, value |-> value]
Empty     == Entry(NULL, NONE)

(* Seeded bug: a deleted entry looks like one never used. *)
TombstoneIsEmpty == Entry(NULL, NONE)

Tombstone == Entry(NULL, TRUE_VALUE)

(* entries_init *)
FreshEntries(n) == [j \in 0..(n - 1) |-> Empty]

Growing == moved # NotGrowing

NoCall == [name |-> "none", key |-> NULL, value |-> NONE]

Init == /\ entries = FreshEntries(TABLE_BASE_CAPACITY)
        /\ capacity = TABLE_BASE_CAPACITY
        /\ count = 0
        /\ old = NoEntries
        /\ moved = NotGrowing
        /\ pc = "idle"
        /\ call = NoCall
        /\ idx = 0
        /\ tombstone = NoIndex
        /\ answer = [found |-> FALSE]

(* The key the probe looks for: the caller's, or one table_grow moves.     *)
Target == IF Growing THEN old[moved].key ELSE call.key
Stored == IF Growing THEN old[moved].value ELSE call.value

Home(key, cap) == HashOf[key] % cap

StartProbe(key, cap) == /\ pc' = "probe"
                        /\ idx' = Home(key, cap)
                        /\ tombstone' = NoIndex

(* Seeded bug: the table grows only when it is full. *)
MustGrowFull == capacity < count + 1

(* capacity * LOAD_RATIO < count + 1 *)
MustGrow == capacity < 2 * (count + 1)

(* Seeded bug: count is not reset, so moving the entries counts them again. *)
StartGrowKeepingCount == /\ old' = entries
                         /\ moved' = 0
                         /\ capacity' = 2 * capacity
                         /\ entries' = FreshEntries(2 * capacity)
                         /\ UNCHANGED count
                         /\ pc' = "grow"

(* table_grow up to its loop *)
StartGrow == /\ old' = entries
             /\ moved' = 0
             /\ capacity' = 2 * capacity
             /\ entries' = FreshEntries(2 * capacity)
             /\ count' = 0
             /\ pc' = "grow"

(* table_set up to find_entry *)
CallSet(key, value) ==
  /\ pc = "idle"
  /\ call' = [name |-> "set", key |-> key, value |-> value]
  /\ \/ /\ ~MustGrow
        /\ StartProbe(key, capacity)
        /\ UNCHANGED <<entries, capacity, count, old, moved>>
     \/ /\ MustGrow
        /\ 2 * capacity <= MAX_CAPACITY
        /\ StartGrow
        /\ UNCHANGED <<idx, tombstone>>
  /\ UNCHANGED answer

(* table_check, table_unset and table_find_string go straight to the probe. *)
CallOther(name, key) ==
  /\ pc = "idle"
  /\ call' = [name |-> name, key |-> key, value |-> NONE]
  /\ StartProbe(key, capacity)
  /\ UNCHANGED <<entries, capacity, count, old, moved, answer>>

(* One turn of the loop of table_grow. *)
GrowStep ==
  /\ pc = "grow"
  /\ \/ /\ moved \notin DOMAIN old
        /\ old' = NoEntries
        /\ moved' = NotGrowing
        /\ StartProbe(call.key, capacity)
     \/ /\ moved \in DOMAIN old
        /\ old[moved].key = NULL
        /\ moved' = moved + 1
        /\ UNCHANGED <<old, pc, idx, tombstone>>
     \/ /\ moved \in DOMAIN old
        /\ old[moved].key # NULL
        /\ StartProbe(old[moved].key, capacity)
        /\ UNCHANGED <<old, moved>>
  /\ UNCHANGED <<entries, capacity, count, call, answer>>

(* Seeded bug: the probe looks at every other entry. *)
AdvanceByTwo == idx' = (idx + 2) % capacity

Advance == idx' = (idx + 1) % capacity

(* One turn of the loop of find_entry. *)
FindEntryStep ==
  /\ pc = "probe"
  /\ Growing \/ call.name # "find_string"
  /\ LET e == entries[idx]
     IN  \/ /\ e.key = Target
            /\ pc' = "at"
            /\ UNCHANGED <<idx, tombstone>>
         \/ /\ e.key # Target
            /\ e = Tombstone
            /\ tombstone' = idx
            /\ Advance
            /\ UNCHANGED pc
         \/ /\ e.key # Target
            /\ e = Empty
            /\ idx' = IF tombstone # NoIndex THEN tombstone ELSE idx
            /\ pc' = "at"
            /\ UNCHANGED tombstone
         \/ /\ e.key \notin {Target, NULL}
            /\ Advance
            /\ UNCHANGED <<pc, tombstone>>
  /\ UNCHANGED <<entries, capacity, count, old, moved, call, answer>>

(* One turn of the loop of table_find_string, which compares contents. *)
FindStringStep ==
  /\ pc = "probe"
  /\ ~Growing
  /\ call.name = "find_string"
  /\ LET e == entries[idx]
     IN  \/ /\ e.key = Target
            /\ answer' = [found |-> TRUE, key |-> e.key]
            /\ pc' = "idle"
            /\ UNCHANGED idx
         \/ /\ e = Empty
            /\ answer' = [found |-> FALSE]
            /\ pc' = "idle"
            /\ UNCHANGED idx
         \/ /\ e # Empty
            /\ e.key # Target
            /\ Advance
            /\ UNCHANGED <<pc, answer>>
  /\ UNCHANGED <<entries, capacity, count, old, moved, call, tombstone>>

(* Seeded bug: a key that is there keeps its value. *)
NewEntryUnlessPresent ==
  IF entries[idx].key = NULL THEN Entry(Target, Stored) ELSE entries[idx]

NewEntry == Entry(Target, Stored)

(* The rest of table_set, for the caller or for table_grow.  A reused      *)
(* tombstone is counted again: table_unset has not uncounted it.           *)
SetStep ==
  /\ pc = "at"
  /\ Growing \/ call.name = "set"
  /\ LET isNew == entries[idx].key = NULL
     IN  /\ entries' = [entries EXCEPT ![idx] = NewEntry]
         /\ count' = IF isNew THEN count + 1 ELSE count
         /\ IF Growing
            THEN moved' = moved + 1 /\ pc' = "grow" /\ UNCHANGED answer
            ELSE answer' = [found |-> isNew] /\ pc' = "idle" /\ UNCHANGED moved
  /\ UNCHANGED <<capacity, old, call, idx, tombstone>>

(* The rest of table_unset. *)
UnsetStep ==
  /\ pc = "at"
  /\ ~Growing
  /\ call.name = "unset"
  /\ LET found == entries[idx].key # NULL
     IN  /\ entries' = IF found THEN [entries EXCEPT ![idx] = Tombstone] ELSE entries
         /\ answer' = [found |-> found]
  /\ pc' = "idle"
  /\ UNCHANGED <<capacity, count, old, moved, call, idx, tombstone>>

(* The rest of table_check. *)
CheckStep ==
  /\ pc = "at"
  /\ ~Growing
  /\ call.name = "check"
  /\ answer' = IF entries[idx].key = NULL THEN [found |-> FALSE]
               ELSE [found |-> TRUE, value |-> entries[idx].value]
  /\ pc' = "idle"
  /\ UNCHANGED <<entries, capacity, count, old, moved, call, idx, tombstone>>

Calls == \E key \in Keys :
           \/ \E value \in Values : CallSet(key, value)
           \/ \E name \in {"check", "unset", "find_string"} : CallOther(name, key)

(* The turns of a call that has begun. *)
Work == GrowStep \/ FindEntryStep \/ FindStringStep \/ SetStep \/ UnsetStep \/ CheckStep

Next == Calls \/ Work

(* A call runs to its end in one thread; nothing is assumed of the caller. *)
Spec == Init /\ [][Next]_tableVars /\ WF_tableVars(Work)

-----------------------------------------------------------------------------
(* Properties *)

Slots == 0..(capacity - 1)

Occupied == {j \in Slots : entries[j] # Empty}

(* count never falls below the entries a probe cannot stop at, tombstones  *)
(* included, and they never fill more than half of the array: an empty     *)
(* entry ends every probe (hash_table.c:29-51, 69-85).                     *)
EveryProbeMeetsAnEmptyEntry ==
  /\ Cardinality(Occupied) <= count
  /\ 2 * count <= capacity

(* The entries a probe for key passes before it gets to j. *)
PassedBefore(key, j) ==
  LET h == Home(key, capacity)
  IN  IF h <= j THEN h..(j - 1) ELSE (h..(capacity - 1)) \union (0..(j - 1))

(* Every key in use is found by its probe: no empty entry lies between its *)
(* hash and its place, in the middle of growing too, and no key is stored  *)
(* twice.                                                                  *)
KeysReachableAndUnique ==
  \A j \in Slots : entries[j].key # NULL =>
    /\ \A i \in PassedBefore(entries[j].key, j) : entries[i] # Empty
    /\ \A i \in Slots : entries[i].key = entries[j].key => i = j

(* table_set, called by table_grow, never grows the table a second time    *)
(* under the loop (hash_table.c:123-127).                                  *)
GrowingNeverNests ==
  pc = "grow" /\ moved \in DOMAIN old /\ old[moved].key # NULL => ~MustGrow

(* The table as a dictionary.  While it grows, what is not moved yet is    *)
(* still in the old array.                                                 *)
NotMoved == {j \in DOMAIN old : j >= moved /\ old[j].key # NULL}
InUse    == {j \in Slots : entries[j].key # NULL}

KeysInTable == {entries[j].key : j \in InUse} \union {old[j].key : j \in NotMoved}

ValueOf(key) ==
  IF \E j \in InUse : entries[j].key = key
  THEN entries[CHOOSE j \in InUse : entries[j].key = key].value
  ELSE old[CHOOSE j \in NotMoved : old[j].key = key].value

Dict == INSTANCE Dictionary
          WITH map  <- [key \in KeysInTable |-> ValueOf(key)],
               busy <- pc # "idle"

(* hash_table.c implements the dictionary: growing and probing change      *)
(* nothing a caller sees, and every answer is the dictionary's.            *)
ImplementsDictionary == Dict!DictSpec

(* Every call returns: neither a probe nor table_grow runs in circles.     *)
CallsReturn == pc # "idle" ~> pc = "idle"
=============================================================================
