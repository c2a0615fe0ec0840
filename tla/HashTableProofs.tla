-------------------------- MODULE HashTableProofs --------------------------
(***************************************************************************)
(* Theorems about the hash table, for every set of keys, every hash        *)
(* function, every first capacity and any number of calls: there is always *)
(* an entry a probe can end at, growing never happens inside growing,      *)
(* every key is found by its probe and stored once, and the table is the   *)
(* dictionary it promises to be.                                           *)
(***************************************************************************)
EXTENDS HashTable, FiniteSetTheorems, TLAPS

(* The arrays and the counters have their shape, and a turn of a loop      *)
(* stands where its call has brought it.                                   *)
ShapeInv ==
  /\ capacity \in Nat /\ capacity > 1
  /\ DOMAIN entries = Slots
  /\ entries = [j \in Slots |-> entries[j]]
  /\ count \in Nat
  /\ pc \in {"idle", "grow", "probe", "at"}
  /\ pc = "idle" => ~Growing
  /\ pc = "grow" => Growing
  /\ Growing => /\ moved \in Nat
                /\ \E n \in 1..capacity : capacity = 2 * n /\ DOMAIN old = 0..(n - 1)
                /\ pc # "grow" => moved \in DOMAIN old /\ old[moved].key # NULL

(* While the table grows, a quarter of the new array has room for the      *)
(* entries moved and the ones to be moved: half of the old one.            *)
GrowthInv ==
  Growing => /\ capacity > 3
             /\ 4 * (count + Cardinality(NotMoved)) <= capacity

(* table_set has made room before it probes. *)
RoomInv ==
  pc \in {"probe", "at"} /\ ~Growing /\ call.name = "set" => 2 * (count + 1) <= capacity

OccupancyInv ==
  /\ ShapeInv
  /\ EveryProbeMeetsAnEmptyEntry
  /\ GrowthInv
  /\ RoomInv

(* The sets whose sizes are compared are finite. *)
LEMMA OccupiedFinite ==
  ASSUME ShapeInv
  PROVE  /\ IsFiniteSet(Occupied)
         /\ Cardinality(Occupied) \in Nat
<1>1. IsFiniteSet(Slots)
  BY FS_Interval DEF ShapeInv, Slots
<1>2. IsFiniteSet(Occupied)
  BY <1>1, FS_Subset DEF Occupied
<1> QED
  BY <1>2, FS_CardinalityType

(* As long as the table grows, what is left of the old array is finite.    *)
LEMMA NotMovedFinite ==
  ASSUME ShapeInv, Growing
  PROVE  /\ IsFiniteSet(NotMoved)
         /\ Cardinality(NotMoved) \in Nat
<1>1. PICK n \in Int : DOMAIN old = 0..(n - 1)
  BY DEF ShapeInv
<1>2. IsFiniteSet(DOMAIN old)
  BY <1>1, FS_Interval
<1>3. IsFiniteSet(NotMoved)
  BY <1>2, FS_Subset DEF NotMoved
<1> QED
  BY <1>3, FS_CardinalityType

(* The place a key is written to was counted if it held a key before. *)
LEMMA WritingOccupies ==
  ASSUME ShapeInv, NEW e, entries' = [entries EXCEPT ![idx] = e], capacity' = capacity
  PROVE  /\ DOMAIN entries' = Slots
         /\ entries' = [j \in Slots |-> entries'[j]]
         /\ Occupied' \subseteq Occupied \union {idx}
         /\ entries[idx].key # NULL => Occupied' \subseteq Occupied
<1>1. Slots' = Slots
  BY DEF Slots
<1>2. \A j \in Slots : j # idx => entries'[j] = entries[j]
  BY DEF ShapeInv
<1>3. Empty.key = NULL
  BY DEF Empty, Entry
<1>4. Occupied' \subseteq Occupied \union {idx}
  BY <1>1, <1>2 DEF Occupied
<1>5. entries[idx].key # NULL => Occupied' \subseteq Occupied
  <2>1. SUFFICES ASSUME entries[idx].key # NULL, idx \in Slots PROVE idx \in Occupied
    BY <1>1, <1>4 DEF Occupied
  <2> QED
    BY <1>3, <2>1 DEF Occupied
<1>6. DOMAIN entries' = Slots
  BY DEF ShapeInv
<1>7. entries' = [j \in Slots |-> entries'[j]]
  BY <1>6 DEF ShapeInv
<1> QED
  BY <1>4, <1>5, <1>6, <1>7

(* Nothing changes. *)
LEMMA StepStutter ==
  ASSUME OccupancyInv, UNCHANGED tableVars
  PROVE  OccupancyInv'
BY DEF OccupancyInv, ShapeInv, GrowthInv, RoomInv, EveryProbeMeetsAnEmptyEntry,
       Occupied, Slots, NotMoved, Growing, tableVars

(* Starting to grow empties the array and leaves its entries to be moved,  *)
(* no more than there were counted.                                        *)
LEMMA StepCallSet ==
  ASSUME OccupancyInv, NEW key, NEW value, CallSet(key, value)
  PROVE  OccupancyInv'
<1>1. CASE ~MustGrow /\ StartProbe(key, capacity) /\ UNCHANGED <<entries, capacity, count, old, moved>>
  BY <1>1 DEF CallSet, StartProbe, MustGrow, OccupancyInv, ShapeInv, GrowthInv, RoomInv,
              EveryProbeMeetsAnEmptyEntry, Occupied, Slots, NotMoved, Growing
<1>2. CASE StartGrow
  <2> USE DEF NotGrowing, Growing
  <2>1. /\ capacity \in Nat /\ capacity > 1 /\ capacity' = 2 * capacity
        /\ entries' = [j \in 0..(capacity' - 1) |-> Empty]
        /\ DOMAIN old' = 0..(capacity - 1) /\ old' = entries
        /\ moved' = 0 /\ count' = 0 /\ pc' = "grow"
        /\ count \in Nat
    BY <1>2 DEF StartGrow, FreshEntries, OccupancyInv, ShapeInv, Slots
  <2>2. Occupied' = {}
    BY <2>1 DEF Occupied, Slots
  <2>3. Cardinality(Occupied') = 0
    BY <2>2, FS_EmptySet
  <2>4. NotMoved' \subseteq Occupied
    BY <2>1 DEF NotMoved, Occupied, Slots, Empty, Entry
  <2>5. Cardinality(NotMoved') \in Nat /\ Cardinality(NotMoved') <= Cardinality(Occupied)
    BY <2>4, OccupiedFinite, FS_Subset, FS_CardinalityType DEF OccupancyInv
  <2>6. 4 * (count' + Cardinality(NotMoved')) <= capacity'
    BY <2>1, <2>5, OccupiedFinite DEF OccupancyInv, EveryProbeMeetsAnEmptyEntry
  <2>7. ShapeInv'
    BY <2>1 DEF ShapeInv, Slots
  <2> QED
    BY <2>1, <2>3, <2>6, <2>7 DEF OccupancyInv, EveryProbeMeetsAnEmptyEntry, GrowthInv, RoomInv
<1> QED
  BY <1>1, <1>2 DEF CallSet

(* The calls that do not write touch no entry. *)
LEMMA StepCallOther ==
  ASSUME OccupancyInv, NEW name \in {"check", "unset", "find_string"}, NEW key, CallOther(name, key)
  PROVE  OccupancyInv'
BY DEF CallOther, StartProbe, OccupancyInv, ShapeInv, GrowthInv, RoomInv,
       EveryProbeMeetsAnEmptyEntry, Occupied, Slots, NotMoved, Growing

(* When nothing is left to move, the quarter that is free has room for the *)
(* entry table_set was called with.                                        *)
LEMMA StepGrow ==
  ASSUME OccupancyInv, GrowStep
  PROVE  OccupancyInv'
<1> USE DEF Growing
<1>1. /\ Growing /\ ShapeInv /\ capacity \in Nat /\ capacity > 3 /\ count \in Nat
      /\ moved \in Nat
      /\ 4 * (count + Cardinality(NotMoved)) <= capacity
      /\ Cardinality(NotMoved) \in Nat
      /\ UNCHANGED <<entries, capacity, count, call, answer>>
  BY NotMovedFinite DEF OccupancyInv, ShapeInv, GrowthInv, GrowStep
<1>2. EveryProbeMeetsAnEmptyEntry'
  BY <1>1 DEF OccupancyInv, EveryProbeMeetsAnEmptyEntry, Occupied, Slots
<1>3. CASE moved' = NotGrowing /\ StartProbe(call.key, capacity)
  <2>1. 2 * (count + 1) <= capacity
    BY <1>1
  <2>2. ShapeInv'
    BY <1>1, <1>3 DEF ShapeInv, StartProbe, Slots
  <2> QED
    BY <1>1, <1>2, <1>3, <2>1, <2>2 DEF OccupancyInv, GrowthInv, RoomInv, StartProbe
<1>4. CASE /\ moved \in DOMAIN old /\ old[moved].key = NULL
           /\ moved' = moved + 1 /\ UNCHANGED <<old, pc, idx, tombstone>>
  <2>1. NotMoved' = NotMoved
    <3>1. \A j \in DOMAIN old : j \in Int
      BY <1>1 DEF ShapeInv
    <3>2. \A j \in DOMAIN old :
            (j >= moved + 1 /\ old[j].key # NULL) <=> (j >= moved /\ old[j].key # NULL)
      BY <1>1, <1>4, <3>1
    <3>3. NotMoved' = {j \in DOMAIN old : j >= moved + 1 /\ old[j].key # NULL}
      BY <1>4 DEF NotMoved
    <3> QED
      BY <3>2, <3>3 DEF NotMoved
  <2>2. ShapeInv'
    BY <1>1, <1>4, SMTT(40) DEF ShapeInv, Slots, GrowStep, NotGrowing
  <2> QED
    BY <1>1, <1>2, <1>4, <2>1, <2>2 DEF OccupancyInv, GrowthInv, RoomInv, GrowStep, NotGrowing
<1>5. CASE /\ moved \in DOMAIN old /\ old[moved].key # NULL
           /\ StartProbe(old[moved].key, capacity) /\ UNCHANGED <<old, moved>>
  <2>1. NotMoved' = NotMoved
    BY <1>5 DEF NotMoved
  <2>2. ShapeInv'
    BY <1>1, <1>5 DEF ShapeInv, Slots, StartProbe
  <2> QED
    BY <1>1, <1>2, <1>5, <2>1, <2>2 DEF OccupancyInv, GrowthInv, RoomInv, StartProbe
<1> QED
  BY <1>3, <1>4, <1>5 DEF GrowStep

(* A turn of a probe only moves its index or ends it. *)
LEMMA StepProbe ==
  ASSUME OccupancyInv, FindEntryStep \/ FindStringStep
  PROVE  OccupancyInv'
<1>1. /\ UNCHANGED <<entries, capacity, count, old, moved, call>>
      /\ pc = "probe" /\ pc' \in {"probe", "at", "idle"}
      /\ pc' = "idle" => ~Growing
  BY DEF FindEntryStep, FindStringStep
<1> QED
  BY <1>1 DEF OccupancyInv, ShapeInv, GrowthInv, RoomInv, EveryProbeMeetsAnEmptyEntry,
              Occupied, Slots, NotMoved, Growing

(* A write occupies at most one entry more, and then count goes up too.    *)
LEMMA StepSet ==
  ASSUME OccupancyInv, SetStep
  PROVE  OccupancyInv'
<1> USE DEF Growing
<1>1. /\ ShapeInv /\ capacity \in Nat /\ count \in Nat /\ pc = "at"
      /\ UNCHANGED <<capacity, old, call>>
      /\ entries' = [entries EXCEPT ![idx] = NewEntry]
      /\ count' = IF entries[idx].key = NULL THEN count + 1 ELSE count
  BY DEF OccupancyInv, ShapeInv, SetStep
<1>2. /\ DOMAIN entries' = Slots
      /\ entries' = [j \in Slots |-> entries'[j]]
      /\ Occupied' \subseteq Occupied \union {idx}
      /\ entries[idx].key # NULL => Occupied' \subseteq Occupied
  BY <1>1, WritingOccupies
<1>3. count' \in Nat /\ count' <= count + 1
  BY <1>1
<1>4. Cardinality(Occupied') <= count'
  <2>1. IsFiniteSet(Occupied) /\ Cardinality(Occupied) \in Nat /\ Cardinality(Occupied) <= count
    BY OccupiedFinite DEF OccupancyInv, EveryProbeMeetsAnEmptyEntry
  <2>2. CASE entries[idx].key # NULL
    <3>1. Cardinality(Occupied') \in Nat /\ Cardinality(Occupied') <= Cardinality(Occupied)
      BY <1>2, <2>1, <2>2, FS_Subset, FS_CardinalityType
    <3> QED
      BY <1>1, <2>1, <2>2, <3>1
  <2>3. CASE entries[idx].key = NULL
    <3>1. IsFiniteSet(Occupied \union {idx}) /\ Cardinality(Occupied \union {idx}) <= Cardinality(Occupied) + 1
      BY <2>1, FS_AddElement, FS_CardinalityType
    <3>2. Cardinality(Occupied') \in Nat /\ Cardinality(Occupied') <= Cardinality(Occupied \union {idx})
      BY <1>2, <3>1, FS_Subset, FS_CardinalityType
    <3>3. Cardinality(Occupied \union {idx}) \in Nat
      BY <3>1, FS_CardinalityType
    <3> QED
      BY <1>1, <2>1, <2>3, <3>1, <3>2, <3>3
  <2> QED
    BY <2>2, <2>3
<1>5. CASE Growing
  <2>1. /\ moved \in Nat /\ moved \in DOMAIN old /\ old[moved].key # NULL
        /\ moved' = moved + 1 /\ pc' = "grow"
    BY <1>1, <1>5 DEF ShapeInv, SetStep
  <2>2. NotMoved' = NotMoved \ {moved} /\ moved \in NotMoved
    BY <1>1, <1>5, <2>1 DEF NotMoved, ShapeInv
  <2>3. /\ IsFiniteSet(NotMoved) /\ Cardinality(NotMoved) \in Nat
    BY <1>1, <1>5, NotMovedFinite
  <2>4. Cardinality(NotMoved') = Cardinality(NotMoved) - 1 /\ Cardinality(NotMoved') \in Nat
    <3>1. IsFiniteSet(NotMoved') /\ Cardinality(NotMoved') = Cardinality(NotMoved) - 1
      BY <2>2, <2>3, FS_RemoveElement
    <3> QED
      BY <3>1, FS_CardinalityType
  <2>5. capacity > 3 /\ 4 * (count' + Cardinality(NotMoved')) <= capacity
    BY <1>1, <1>3, <1>5, <2>3, <2>4 DEF OccupancyInv, GrowthInv
  <2>6. EveryProbeMeetsAnEmptyEntry'
    BY <1>1, <1>3, <1>4, <2>4, <2>5 DEF EveryProbeMeetsAnEmptyEntry
  <2>7. ShapeInv'
    BY <1>1, <1>2, <1>3, <2>1, SMTT(40) DEF ShapeInv, Slots, NotGrowing
  <2> QED
    BY <1>1, <2>1, <2>5, <2>6, <2>7 DEF OccupancyInv, GrowthInv, RoomInv, NotGrowing
<1>6. CASE ~Growing
  <2>1. call.name = "set" /\ pc' = "idle" /\ UNCHANGED moved
    BY <1>6 DEF SetStep
  <2>2. 2 * count' <= capacity
    BY <1>1, <1>3, <1>6, <2>1 DEF OccupancyInv, RoomInv
  <2>3. ShapeInv'
    BY <1>1, <1>2, <1>3, <1>6, <2>1 DEF ShapeInv, Slots
  <2> QED
    BY <1>1, <1>4, <1>6, <2>1, <2>2, <2>3
       DEF OccupancyInv, EveryProbeMeetsAnEmptyEntry, GrowthInv, RoomInv
<1> QED
  BY <1>5, <1>6

(* A tombstone takes the place of a key that was counted. *)
LEMMA StepUnset ==
  ASSUME OccupancyInv, UnsetStep
  PROVE  OccupancyInv'
<1>1. /\ ShapeInv /\ ~Growing /\ capacity \in Nat /\ count \in Nat
      /\ UNCHANGED <<capacity, count, old, moved, call>> /\ pc' = "idle"
  BY DEF OccupancyInv, ShapeInv, UnsetStep
<1>2. /\ DOMAIN entries' = Slots
      /\ entries' = [j \in Slots |-> entries'[j]]
      /\ Occupied' \subseteq Occupied
  <2>1. CASE entries[idx].key # NULL
    BY <1>1, <2>1, WritingOccupies DEF UnsetStep
  <2>2. CASE entries[idx].key = NULL
    BY <1>1, <2>2 DEF UnsetStep, ShapeInv, Occupied, Slots
  <2> QED
    BY <2>1, <2>2
<1>3. Cardinality(Occupied') \in Nat /\ Cardinality(Occupied') <= Cardinality(Occupied)
  BY <1>1, <1>2, OccupiedFinite, FS_Subset, FS_CardinalityType
<1>4. EveryProbeMeetsAnEmptyEntry'
  BY <1>1, <1>3, OccupiedFinite DEF OccupancyInv, EveryProbeMeetsAnEmptyEntry
<1> QED
  BY <1>1, <1>2, <1>4 DEF OccupancyInv, ShapeInv, GrowthInv, RoomInv, Slots, Growing

(* table_check only answers. *)
LEMMA StepCheck ==
  ASSUME OccupancyInv, CheckStep
  PROVE  OccupancyInv'
BY DEF CheckStep, OccupancyInv, ShapeInv, GrowthInv, RoomInv, EveryProbeMeetsAnEmptyEntry,
       Occupied, Slots, NotMoved, Growing

(* A new table is all empty. *)
LEMMA InitOccupancy == Init => OccupancyInv
<1> SUFFICES ASSUME Init PROVE OccupancyInv
  OBVIOUS
<1>1. /\ capacity \in Nat /\ capacity > 1 /\ count = 0 /\ pc = "idle" /\ ~Growing
      /\ entries = [j \in Slots |-> Empty]
  BY TableAssumption DEF Init, FreshEntries, Slots, Growing
<1>2. Cardinality(Occupied) = 0
  <2>1. Occupied = {}
    BY <1>1 DEF Occupied
  <2> QED
    BY <2>1, FS_EmptySet
<1> QED
  BY <1>1, <1>2 DEF OccupancyInv, ShapeInv, EveryProbeMeetsAnEmptyEntry, GrowthInv, RoomInv

(* The invariant the two theorems rest on holds in every state. *)
THEOREM OccupancyIsKept == Spec => []OccupancyInv
<1>1. ASSUME OccupancyInv, [Next]_tableVars PROVE OccupancyInv'
  <2>1. ASSUME NEW key \in Keys, NEW value \in Values, CallSet(key, value) PROVE OccupancyInv'
    BY <1>1, <2>1, StepCallSet
  <2>2. ASSUME NEW key \in Keys, NEW name \in {"check", "unset", "find_string"}, CallOther(name, key)
        PROVE  OccupancyInv'
    BY <1>1, <2>2, StepCallOther
  <2>3. ASSUME Work PROVE OccupancyInv'
    BY <1>1, <2>3, StepGrow, StepProbe, StepSet, StepUnset, StepCheck DEF Work
  <2>4. CASE UNCHANGED tableVars
    BY <1>1, <2>4, StepStutter
  <2> QED
    BY <1>1, <2>1, <2>2, <2>3, <2>4 DEF Next, Calls
<1> QED
  BY <1>1, InitOccupancy, PTL DEF Spec

(* Whatever the keys and their hashes, and however often the table has     *)
(* been asked, at least half of its entries are empty, tombstones counted  *)
(* as used: every probe of hash_table.c:29-51 and 69-85 comes to an end.   *)
THEOREM ThereIsAlwaysAnEmptyEntry == Spec => []EveryProbeMeetsAnEmptyEntry
<1>1. OccupancyInv => EveryProbeMeetsAnEmptyEntry
  BY DEF OccupancyInv
<1> QED
  BY <1>1, OccupancyIsKept, PTL

(* No table_set that table_grow calls for an entry it moves begins to grow *)
(* the table itself (hash_table.c:123-127), which would free the array     *)
(* under the loop of the outer call.                                       *)
THEOREM GrowingIsNeverNested == Spec => []GrowingNeverNests
<1>1. OccupancyInv => GrowingNeverNests
  <2> SUFFICES ASSUME OccupancyInv, pc = "grow", moved \in DOMAIN old, old[moved].key # NULL
               PROVE  ~MustGrow
    BY DEF GrowingNeverNests
  <2>1. /\ Growing /\ ShapeInv /\ moved \in Nat /\ capacity \in Nat /\ count \in Nat
    BY DEF OccupancyInv, ShapeInv
  <2>2. moved \in NotMoved
    BY <2>1 DEF NotMoved
  <2>3. Cardinality(NotMoved) \in Nat /\ Cardinality(NotMoved) >= 1
    <3>1. IsFiniteSet(NotMoved) /\ Cardinality(NotMoved) \in Nat
      BY <2>1, NotMovedFinite
    <3>2. Cardinality(NotMoved) # 0
      BY <2>2, <3>1, FS_EmptySet
    <3> QED
      BY <3>1, <3>2
  <2> QED
    BY <2>1, <2>3 DEF OccupancyInv, GrowthInv, MustGrow
<1> QED
  BY <1>1, OccupancyIsKept, PTL

-----------------------------------------------------------------------------
(* What a probe finds *)

(* The tables hold keys, and a call under way is for one.                  *)
KeysInv ==
  /\ \A j \in Slots : entries[j].key \in Keys \union {NULL}
  /\ \A j \in DOMAIN old : old[j].key \in Keys \union {NULL}
  /\ pc # "idle" => call.key \in Keys
  /\ ~Growing => old = NoEntries

(* A probe has passed no empty entry and not its key; a tombstone it has   *)
(* seen is within reach of the key.                                        *)
ProbeInv ==
  pc = "probe" =>
    /\ idx \in Slots
    /\ \A i \in PassedBefore(Target, idx) : entries[i] # Empty /\ entries[i].key # Target
    /\ tombstone # NoIndex =>
         /\ tombstone \in Slots /\ entries[tombstone].key = NULL
         /\ \A i \in PassedBefore(Target, tombstone) : entries[i] # Empty

(* find_entry has come to the key, or to a place it can be put and found   *)
(* again, and then the key is nowhere in the table.                        *)
AtInv ==
  pc = "at" =>
    /\ idx \in Slots
    /\ entries[idx].key \in {Target, NULL}
    /\ entries[idx].key = NULL =>
         /\ \A j \in Slots : entries[j].key # Target
         /\ \A i \in PassedBefore(Target, idx) : entries[i] # Empty

(* A key to be moved is not in the new array, and only once in the old.    *)
MovesInv ==
  \A j \in NotMoved :
    /\ \A i \in Slots : entries[i].key # old[j].key
    /\ \A i \in NotMoved : old[i].key = old[j].key => i = j

ReachInv == KeysInv /\ KeysReachableAndUnique /\ ProbeInv /\ AtInv /\ MovesInv

(* The next index, wrapped round at the end of the array. *)
LEMMA Remainder ==
  ASSUME NEW n \in Nat, n > 1, NEW i \in 0..(n - 1)
  PROVE  (i + 1) % n = IF i + 1 = n THEN 0 ELSE i + 1
<1>1. CASE i + 1 = n
  BY <1>1, SMT
<1>2. CASE i + 1 # n
  BY <1>2, SMT
<1> QED
  BY <1>1, <1>2

(* A probe starts in the array, also where the hash is negative. *)
LEMMA HomeIsSlot ==
  ASSUME ShapeInv, NEW key \in Keys
  PROVE  Home(key, capacity) \in Slots
<1>1. HashOf[key] \in Int /\ capacity \in Nat /\ capacity > 0
  BY TableAssumption DEF ShapeInv
<1> QED
  BY <1>1 DEF Home, Slots

(* A probe passes slots, none before its first turn, and of two slots it   *)
(* comes to one first.                                                     *)
LEMMA PassedIsSlots ==
  ASSUME ShapeInv, NEW key \in Keys, NEW j \in Slots
  PROVE  /\ PassedBefore(key, j) \subseteq Slots
         /\ PassedBefore(key, Home(key, capacity)) = {}
         /\ \A i \in Slots : i # j => i \in PassedBefore(key, j) \/ j \in PassedBefore(key, i)
<1> DEFINE h == Home(key, capacity)
<1>1. h \in Slots /\ capacity \in Nat
  BY HomeIsSlot DEF ShapeInv
<1> HIDE DEF h
<1> QED
  BY <1>1 DEF PassedBefore, Slots, h

(* A turn of the probe adds the slot it was at to the ones passed, or, when *)
(* it has come round to its start, forgets them.                           *)
LEMMA PassedGrowsByOne ==
  ASSUME ShapeInv, NEW key \in Keys, NEW j \in Slots
  PROVE  /\ (j + 1) % capacity \in Slots
         /\ PassedBefore(key, (j + 1) % capacity) \subseteq PassedBefore(key, j) \union {j}
<1> DEFINE h == Home(key, capacity)
           next == IF j + 1 = capacity THEN 0 ELSE j + 1
<1>1. h \in Slots /\ capacity \in Nat /\ capacity > 1 /\ j \in 0..(capacity - 1)
  BY HomeIsSlot DEF ShapeInv, Slots
<1>2. (j + 1) % capacity = next
  BY <1>1, Remainder
<1>3. next \in Slots
  BY <1>1 DEF Slots
<1>4. PassedBefore(key, next) \subseteq PassedBefore(key, j) \union {j}
  <2> HIDE DEF h
  <2>1. CASE j + 1 = capacity
    BY <1>1, <2>1 DEF PassedBefore, Slots, h
  <2>2. CASE j + 1 # capacity
    BY <1>1, <2>2 DEF PassedBefore, Slots, h
  <2> QED
    BY <2>1, <2>2
<1> QED
  BY <1>2, <1>3, <1>4

(* What is looked for is a key. *)
LEMMA TargetIsKey ==
  ASSUME ShapeInv, KeysInv, pc \in {"probe", "at"}
  PROVE  Target \in Keys /\ Target # NULL
BY TableAssumption DEF ShapeInv, KeysInv, Target

(* A probe that begins has passed nothing. *)
LEMMA ProbeBegins ==
  ASSUME ShapeInv, NEW key \in Keys, key = Target', StartProbe(key, capacity),
         capacity' = capacity
  PROVE  ProbeInv' /\ AtInv'
<1>1. Home(key, capacity) \in Slots /\ PassedBefore(key, Home(key, capacity)) = {}
  BY HomeIsSlot, PassedIsSlots
<1>2. Slots' = Slots /\ PassedBefore(key, Home(key, capacity))' = {}
  BY <1>1 DEF Slots, PassedBefore
<1> QED
  BY <1>1, <1>2 DEF ProbeInv, AtInv, StartProbe, NoIndex

(* Nothing a probe does not touch tells the difference. *)
LEMMA ReachFrame ==
  ASSUME UNCHANGED <<entries, capacity>>
  PROVE  /\ Slots' = Slots
         /\ \A key, j : PassedBefore(key, j)' = PassedBefore(key, j)
         /\ KeysReachableAndUnique' = KeysReachableAndUnique
BY DEF Slots, PassedBefore, Home, KeysReachableAndUnique

(* A new array holds no key; all of them are to be moved. *)
LEMMA ReachCallSet ==
  ASSUME OccupancyInv, ReachInv, NEW key \in Keys, NEW value, CallSet(key, value)
  PROVE  ReachInv'
<1> USE DEF Growing
<1>0. ShapeInv /\ ~Growing /\ call'.key = key
  BY DEF OccupancyInv, ShapeInv, CallSet
<1>1. CASE ~MustGrow /\ StartProbe(key, capacity) /\ UNCHANGED <<entries, capacity, count, old, moved>>
  <2>1. Target' = key
    BY <1>0, <1>1 DEF Target
  <2>2. KeysInv' /\ MovesInv'
    BY <1>0, <1>1 DEF ReachInv, KeysInv, MovesInv, NotMoved, Slots
  <2> QED
    BY <1>0, <1>1, <2>1, <2>2, ProbeBegins, ReachFrame DEF ReachInv
<1>2. CASE StartGrow
  <2>1. /\ \A j \in Slots' : entries'[j] = Empty
        /\ old' = entries /\ DOMAIN old' = Slots /\ pc' = "grow" /\ moved' = 0
    BY <1>0, <1>2 DEF StartGrow, FreshEntries, Slots, ShapeInv
  <2>2. KeysInv' /\ ProbeInv' /\ AtInv' /\ KeysReachableAndUnique'
    BY <1>0, <2>1 DEF ReachInv, KeysInv, ProbeInv, AtInv, KeysReachableAndUnique, Empty, Entry,
                      NotGrowing
  <2>3. MovesInv'
    BY <2>1 DEF MovesInv, NotMoved, ReachInv, KeysReachableAndUnique, Empty, Entry
  <2> QED
    BY <2>2, <2>3 DEF ReachInv
<1> QED
  BY <1>1, <1>2 DEF CallSet

(* Nothing is moved, and the probe starts. *)
LEMMA ReachCallOther ==
  ASSUME OccupancyInv, ReachInv, NEW name, NEW key \in Keys, CallOther(name, key)
  PROVE  ReachInv'
<1> USE DEF Growing
<1>1. /\ ShapeInv /\ ~Growing /\ call'.key = key /\ StartProbe(key, capacity)
      /\ UNCHANGED <<entries, capacity, old, moved>>
  BY DEF OccupancyInv, ShapeInv, CallOther
<1>2. Target' = key
  BY <1>1 DEF Target
<1>3. KeysInv' /\ MovesInv'
  BY <1>1 DEF ReachInv, KeysInv, MovesInv, NotMoved, Slots
<1> QED
  BY <1>1, <1>2, <1>3, ProbeBegins, ReachFrame DEF ReachInv

(* table_grow goes on to its next entry, or back to table_set. *)
LEMMA ReachGrow ==
  ASSUME OccupancyInv, ReachInv, GrowStep
  PROVE  ReachInv'
<1> USE DEF Growing
<1>1. /\ Growing /\ ShapeInv /\ moved \in Nat /\ pc = "grow" /\ call.key \in Keys
      /\ UNCHANGED <<entries, capacity, call>>
  BY DEF OccupancyInv, ShapeInv, GrowStep, ReachInv, KeysInv
<1>2. KeysReachableAndUnique'
  BY <1>1, ReachFrame DEF ReachInv
<1>3. CASE old' = NoEntries /\ moved' = NotGrowing /\ StartProbe(call.key, capacity)
  <2>1. KeysInv' /\ MovesInv' /\ Target' = call.key
    BY <1>1, <1>3 DEF ReachInv, KeysInv, MovesInv, NotMoved, Slots, NoEntries, Target
  <2> QED
    BY <1>1, <1>2, <1>3, <2>1, ProbeBegins DEF ReachInv
<1>4. CASE /\ moved \in DOMAIN old /\ old[moved].key = NULL
           /\ moved' = moved + 1 /\ UNCHANGED <<old, pc, idx, tombstone>>
  <2>1. NotMoved' \subseteq NotMoved
    <3>1. \A j \in DOMAIN old : j \in Int
      BY <1>1 DEF ShapeInv
    <3> QED
      BY <1>1, <1>4, <3>1 DEF NotMoved
  <2> QED
    BY <1>1, <1>2, <1>4, <2>1 DEF ReachInv, KeysInv, MovesInv, ProbeInv, AtInv, Slots, NotGrowing
<1>5. CASE /\ moved \in DOMAIN old /\ old[moved].key # NULL
           /\ StartProbe(old[moved].key, capacity) /\ UNCHANGED <<old, moved>>
  <2>1. KeysInv' /\ MovesInv' /\ Target' = old[moved].key /\ old[moved].key \in Keys
    BY <1>1, <1>5 DEF ReachInv, KeysInv, MovesInv, NotMoved, Slots, Target
  <2> QED
    BY <1>1, <1>2, <1>5, <2>1, ProbeBegins DEF ReachInv
<1> QED
  BY <1>3, <1>4, <1>5 DEF GrowStep

(* An empty entry within reach of a key would have ended its probe, so the *)
(* key is nowhere: its own entry is not before, and lies not behind.       *)
LEMMA EmptyEndsProbe ==
  ASSUME ShapeInv, ReachInv, pc = "probe", entries[idx] = Empty
  PROVE  \A j \in Slots : entries[j].key # Target
<1> SUFFICES ASSUME NEW j \in Slots, entries[j].key = Target
             PROVE  FALSE
  OBVIOUS
<1>1. Target \in Keys /\ Target # NULL
  BY TargetIsKey DEF ReachInv
<1>2. idx \in Slots /\ j \notin PassedBefore(Target, idx)
  BY DEF ReachInv, ProbeInv
<1>3. j # idx
  BY <1>1 DEF Empty, Entry
<1>4. idx \in PassedBefore(Target, j)
  BY <1>1, <1>2, <1>3, PassedIsSlots
<1> QED
  BY <1>1, <1>4 DEF ReachInv, KeysReachableAndUnique

(* A turn of find_entry: on to the next slot, or the end of the probe.     *)
LEMMA ReachProbe ==
  ASSUME OccupancyInv, ReachInv, FindEntryStep
  PROVE  ReachInv'
<1> USE DEF Growing
<1>1. /\ ShapeInv /\ pc = "probe" /\ idx \in Slots
      /\ UNCHANGED <<entries, capacity, old, moved, call>>
  BY DEF OccupancyInv, FindEntryStep, ReachInv, ProbeInv
<1>2. Target \in Keys /\ Target # NULL
  BY <1>1, TargetIsKey DEF ReachInv
<1>3. Target' = Target
  BY <1>1 DEF Target
<1>4. KeysReachableAndUnique' /\ KeysInv' /\ MovesInv'
  <2>1. KeysReachableAndUnique'
    BY <1>1, ReachFrame DEF ReachInv
  <2>2. KeysInv' /\ MovesInv'
    BY <1>1 DEF ReachInv, KeysInv, MovesInv, NotMoved, Slots
  <2> QED
    BY <2>1, <2>2
<1>5. Slots' = Slots /\ \A j : PassedBefore(Target, j)' = PassedBefore(Target, j)
  BY <1>1, <1>3, ReachFrame
<1>6. ASSUME Advance, entries[idx] # Empty, entries[idx].key # Target, UNCHANGED pc,
             tombstone' = tombstone \/ (tombstone' = idx /\ entries[idx].key = NULL)
      PROVE  ProbeInv' /\ AtInv'
  <2>1. idx' \in Slots /\ PassedBefore(Target, idx') \subseteq PassedBefore(Target, idx) \union {idx}
    BY <1>1, <1>2, <1>6, PassedGrowsByOne DEF Advance
  <2>2. \A i \in PassedBefore(Target, idx') : entries[i] # Empty /\ entries[i].key # Target
    BY <1>1, <1>6, <2>1 DEF ReachInv, ProbeInv
  <2>3. tombstone' # NoIndex =>
          /\ tombstone' \in Slots /\ entries[tombstone'].key = NULL
          /\ \A i \in PassedBefore(Target, tombstone') : entries[i] # Empty
    BY <1>1, <1>6 DEF ReachInv, ProbeInv
  <2>4. PassedBefore(Target, idx)' = PassedBefore(Target, idx')
    BY <1>1, <1>3 DEF PassedBefore, Home
  <2>5. PassedBefore(Target, tombstone)' = PassedBefore(Target, tombstone')
    BY <1>1, <1>3 DEF PassedBefore, Home
  <2> QED
    BY <1>1, <1>3, <1>5, <1>6, <2>1, <2>2, <2>3, <2>4, <2>5 DEF ProbeInv, AtInv
<1>7. CASE entries[idx].key = Target /\ pc' = "at" /\ UNCHANGED <<idx, tombstone>>
  <2>1. ProbeInv' /\ AtInv'
    BY <1>1, <1>2, <1>3, <1>5, <1>7 DEF ProbeInv, AtInv
  <2> QED
    BY <1>4, <2>1 DEF ReachInv
<1>8. CASE entries[idx].key # Target /\ entries[idx] = Tombstone /\ tombstone' = idx /\ Advance /\ UNCHANGED pc
  <2>1. entries[idx] # Empty /\ entries[idx].key = NULL
    BY <1>8 DEF Tombstone, Empty, Entry, NONE, TRUE_VALUE
  <2> QED
    BY <1>4, <1>6, <1>8, <2>1 DEF ReachInv
<1>9. CASE /\ entries[idx].key # Target /\ entries[idx] = Empty
           /\ idx' = IF tombstone # NoIndex THEN tombstone ELSE idx
           /\ pc' = "at" /\ UNCHANGED tombstone
  <2>1. \A j \in Slots : entries[j].key # Target
    BY <1>1, <1>9, EmptyEndsProbe
  <2>2. /\ idx' \in Slots /\ entries[idx'].key = NULL
        /\ \A i \in PassedBefore(Target, idx') : entries[i] # Empty
    BY <1>1, <1>9 DEF ReachInv, ProbeInv, Empty, Entry
  <2>3. PassedBefore(Target, idx)' = PassedBefore(Target, idx')
    BY <1>1, <1>3 DEF PassedBefore, Home
  <2>4. ProbeInv' /\ AtInv'
    BY <1>1, <1>3, <1>5, <1>9, <2>1, <2>2, <2>3 DEF ProbeInv, AtInv
  <2> QED
    BY <1>4, <2>4 DEF ReachInv
<1>10. CASE entries[idx].key \notin {Target, NULL} /\ Advance /\ UNCHANGED <<pc, tombstone>>
  <2>1. entries[idx] # Empty
    BY <1>10 DEF Empty, Entry
  <2> QED
    BY <1>4, <1>6, <1>10, <2>1 DEF ReachInv
<1> QED
  BY <1>7, <1>8, <1>9, <1>10 DEF FindEntryStep

(* A turn of table_find_string. *)
LEMMA ReachFindString ==
  ASSUME OccupancyInv, ReachInv, FindStringStep
  PROVE  ReachInv'
<1> USE DEF Growing
<1>1. /\ ShapeInv /\ pc = "probe" /\ idx \in Slots /\ ~Growing
      /\ UNCHANGED <<entries, capacity, old, moved, call, tombstone>>
  BY DEF OccupancyInv, FindStringStep, ReachInv, ProbeInv
<1>2. Target \in Keys /\ Target' = Target
  BY <1>1, TargetIsKey DEF ReachInv, Target
<1>3. KeysReachableAndUnique' /\ KeysInv' /\ MovesInv'
  <2>1. KeysReachableAndUnique'
    BY <1>1, ReachFrame DEF ReachInv
  <2>2. KeysInv' /\ MovesInv'
    BY <1>1 DEF ReachInv, KeysInv, MovesInv, NotMoved, Slots
  <2> QED
    BY <2>1, <2>2
<1>4. CASE pc' = "idle"
  BY <1>3, <1>4 DEF ReachInv, ProbeInv, AtInv
<1>5. CASE entries[idx] # Empty /\ entries[idx].key # Target /\ Advance /\ UNCHANGED pc
  <2>1. idx' \in Slots /\ PassedBefore(Target, idx') \subseteq PassedBefore(Target, idx) \union {idx}
    BY <1>1, <1>2, <1>5, PassedGrowsByOne DEF Advance
  <2>2. \A i \in PassedBefore(Target, idx') : entries[i] # Empty /\ entries[i].key # Target
    BY <1>1, <1>5, <2>1 DEF ReachInv, ProbeInv
  <2>3. /\ PassedBefore(Target, idx)' = PassedBefore(Target, idx')
        /\ PassedBefore(Target, tombstone)' = PassedBefore(Target, tombstone)
        /\ Slots' = Slots
    BY <1>1, <1>2 DEF PassedBefore, Home, Slots
  <2>4. ProbeInv' /\ AtInv'
    BY <1>1, <1>2, <1>5, <2>1, <2>2, <2>3 DEF ReachInv, ProbeInv, AtInv
  <2> QED
    BY <1>3, <2>4 DEF ReachInv
<1> QED
  BY <1>4, <1>5 DEF FindStringStep

(* What a write changes: one entry, which holds the key then. *)
LEMMA WrittenEntry ==
  ASSUME OccupancyInv, ReachInv, SetStep
  PROVE  /\ idx \in Slots /\ Slots' = Slots
         /\ Target \in Keys /\ Target # NULL
         /\ entries'[idx] = Entry(Target, Stored)
         /\ \A j \in Slots : j # idx => entries'[j] = entries[j]
BY TargetIsKey DEF OccupancyInv, ShapeInv, ReachInv, AtInv, SetStep, NewEntry, Slots

(* The key written can be reached where it is written, and is nowhere else. *)
LEMMA WriteKeepsReach ==
  ASSUME OccupancyInv, ReachInv, SetStep
  PROVE  KeysReachableAndUnique'
<1>1. /\ idx \in Slots /\ Slots' = Slots
      /\ Target \in Keys /\ Target # NULL
      /\ entries'[idx] = Entry(Target, Stored)
      /\ \A j \in Slots : j # idx => entries'[j] = entries[j]
  BY WrittenEntry
<1>2. \A j \in Slots : entries[j] # Empty => entries'[j] # Empty
  BY <1>1 DEF Empty, Entry
<1>3. /\ pc = "at"
      /\ ShapeInv
      /\ \A key, j : PassedBefore(key, j)' = PassedBefore(key, j)
  BY DEF SetStep, PassedBefore, Home, OccupancyInv
<1>4. \A j \in Slots : entries'[j].key = Target => j = idx
  <2> SUFFICES ASSUME NEW j \in Slots, j # idx, entries[j].key = Target PROVE FALSE
    BY <1>1
  <2>1. CASE entries[idx].key = NULL
    BY <1>3, <2>1 DEF ReachInv, AtInv
  <2>2. CASE entries[idx].key = Target
    BY <1>1, <2>2 DEF ReachInv, KeysReachableAndUnique
  <2> QED
    BY <1>3, <2>1, <2>2 DEF ReachInv, AtInv
<1>5. \A i \in PassedBefore(Target, idx) : entries[i] # Empty
  <2>1. CASE entries[idx].key = NULL
    BY <1>3, <2>1 DEF ReachInv, AtInv
  <2>2. CASE entries[idx].key = Target
    BY <1>1, <2>2 DEF ReachInv, KeysReachableAndUnique
  <2> QED
    BY <1>3, <2>1, <2>2 DEF ReachInv, AtInv
<1>6. ASSUME NEW j \in Slots, entries'[j].key # NULL
      PROVE  \A i \in PassedBefore(entries'[j].key, j) : entries'[i] # Empty
  <2>1. PassedBefore(entries'[j].key, j) \subseteq Slots
    <3>1. entries'[j].key \in Keys
      BY <1>1, <1>6 DEF ReachInv, KeysInv, Entry
    <3> QED
      BY <1>3, <3>1, PassedIsSlots
  <2>2. \A i \in PassedBefore(entries'[j].key, j) : entries[i] # Empty
    <3>1. CASE j = idx
      BY <1>1, <1>5, <3>1 DEF Entry
    <3>2. CASE j # idx
      BY <1>1, <1>6, <3>2 DEF ReachInv, KeysReachableAndUnique
    <3> QED
      BY <3>1, <3>2
  <2> QED
    BY <1>2, <2>1, <2>2
<1>7. ASSUME NEW j \in Slots, entries'[j].key # NULL, NEW i \in Slots, entries'[i].key = entries'[j].key
      PROVE  i = j
  BY <1>1, <1>4, <1>7 DEF ReachInv, KeysReachableAndUnique, Entry
<1> QED
  BY <1>1, <1>3, <1>6, <1>7 DEF KeysReachableAndUnique

(* A key that has been moved is no longer to be moved. *)
LEMMA ReachSet ==
  ASSUME OccupancyInv, ReachInv, SetStep
  PROVE  ReachInv'
<1> USE DEF Growing
<1>1. /\ idx \in Slots /\ Slots' = Slots
      /\ Target \in Keys /\ Target # NULL
      /\ entries'[idx] = Entry(Target, Stored)
      /\ \A j \in Slots : j # idx => entries'[j] = entries[j]
  BY WrittenEntry
<1>2. ShapeInv /\ pc = "at" /\ pc' \in {"grow", "idle"} /\ UNCHANGED <<capacity, old, call>>
  BY DEF OccupancyInv, SetStep
<1>3. ProbeInv' /\ AtInv'
  BY <1>2 DEF ProbeInv, AtInv
<1>4. KeysInv'
  BY <1>1, <1>2 DEF ReachInv, KeysInv, Entry, SetStep, ShapeInv, NotGrowing
<1>5. MovesInv'
  <2>1. CASE ~Growing
    BY <1>2, <2>1 DEF MovesInv, NotMoved, ReachInv, KeysInv, NoEntries, SetStep
  <2>2. CASE Growing
    <3>1. /\ moved \in NotMoved /\ moved' = moved + 1 /\ Target = old[moved].key
      BY <1>2, <2>2 DEF ShapeInv, NotMoved, SetStep, Target
    <3>2. NotMoved' = NotMoved \ {moved}
      <4>1. \A j \in DOMAIN old : j \in Int
        BY <1>2, <2>2 DEF ShapeInv
      <4>2. moved \in Int
        BY <1>2, <2>2 DEF ShapeInv
      <4> QED
        BY <1>2, <3>1, <4>1, <4>2 DEF NotMoved
    <3>3. ASSUME NEW j \in NotMoved' PROVE \A i \in Slots : entries'[i].key # old[j].key
      <4>1. j \in NotMoved /\ old[j].key # Target
        BY <3>1, <3>2, <3>3 DEF ReachInv, MovesInv
      <4> QED
        BY <1>1, <4>1 DEF ReachInv, MovesInv, Entry
    <3> QED
      BY <1>1, <1>2, <3>2, <3>3 DEF ReachInv, MovesInv
  <2> QED
    BY <2>1, <2>2
<1> QED
  BY <1>3, <1>4, <1>5, WriteKeepsReach DEF ReachInv

(* A tombstone is no empty entry: the probes of other keys go on past it.  *)
LEMMA ReachUnset ==
  ASSUME OccupancyInv, ReachInv, UnsetStep
  PROVE  ReachInv'
<1> USE DEF Growing
<1>1. /\ ShapeInv /\ pc = "at" /\ pc' = "idle" /\ ~Growing /\ idx \in Slots
      /\ UNCHANGED <<capacity, old, moved, call>> /\ old = NoEntries /\ Slots' = Slots
      /\ \A key, j : PassedBefore(key, j)' = PassedBefore(key, j)
  BY DEF OccupancyInv, UnsetStep, ReachInv, AtInv, KeysInv, Slots, PassedBefore, Home
<1>2. Tombstone # Empty /\ Tombstone.key = NULL
  BY DEF Tombstone, Empty, Entry, NONE, TRUE_VALUE
<1>3. \A j \in Slots : entries'[j] = entries[j] \/ entries'[j] = Tombstone
  BY <1>1 DEF UnsetStep, ShapeInv
<1>4. KeysInv' /\ MovesInv' /\ ProbeInv' /\ AtInv'
  BY <1>1, <1>2, <1>3 DEF ReachInv, KeysInv, MovesInv, ProbeInv, AtInv, NotMoved, NoEntries
<1>5. KeysReachableAndUnique'
  <2>1. ASSUME NEW j \in Slots, entries'[j].key # NULL
        PROVE  /\ entries'[j] = entries[j]
               /\ PassedBefore(entries[j].key, j) \subseteq Slots
    <3>1. entries'[j] = entries[j]
      BY <1>2, <1>3, <2>1
    <3>2. entries[j].key \in Keys
      BY <2>1, <3>1 DEF ReachInv, KeysInv
    <3> QED
      BY <1>1, <3>1, <3>2, PassedIsSlots
  <2> QED
    BY <1>1, <1>2, <1>3, <2>1 DEF ReachInv, KeysReachableAndUnique
<1> QED
  BY <1>4, <1>5 DEF ReachInv

(* No entry changes. *)
LEMMA ReachOther ==
  ASSUME OccupancyInv, ReachInv, CheckStep \/ UNCHANGED tableVars
  PROVE  ReachInv'
<1>1. CASE CheckStep
  BY <1>1 DEF CheckStep, ReachInv, KeysInv, MovesInv, ProbeInv, AtInv, NotMoved, Slots, Growing,
              KeysReachableAndUnique, PassedBefore, Home
<1>2. CASE UNCHANGED tableVars
  BY <1>2 DEF tableVars, ReachInv, KeysInv, MovesInv, ProbeInv, AtInv, NotMoved, Slots, Growing,
              KeysReachableAndUnique, PassedBefore, Home, Target
<1> QED
  BY <1>1, <1>2

(* No key is in the table. *)
LEMMA InitReach == Init => ReachInv
<1> SUFFICES ASSUME Init PROVE ReachInv
  OBVIOUS
<1>1. /\ pc = "idle" /\ ~Growing /\ old = NoEntries
      /\ \A j \in Slots : entries[j].key = NULL
  BY DEF Init, FreshEntries, Slots, Growing, Empty, Entry
<1> QED
  BY <1>1 DEF ReachInv, KeysInv, MovesInv, ProbeInv, AtInv, NotMoved, NoEntries,
              KeysReachableAndUnique

(* Every step keeps the invariant. *)
LEMMA ReachStep ==
  ASSUME OccupancyInv, ReachInv, [Next]_tableVars
  PROVE  ReachInv'
<1>1. ASSUME NEW key \in Keys, NEW value \in Values, CallSet(key, value) PROVE ReachInv'
  BY <1>1, ReachCallSet
<1>2. ASSUME NEW key \in Keys, NEW name \in {"check", "unset", "find_string"}, CallOther(name, key)
      PROVE  ReachInv'
  BY <1>2, ReachCallOther
<1>3. ASSUME Work PROVE ReachInv'
  BY <1>3, ReachGrow, ReachProbe, ReachFindString, ReachSet, ReachUnset, ReachOther DEF Work
<1>4. CASE UNCHANGED tableVars
  BY <1>4, ReachOther
<1> QED
  BY <1>1, <1>2, <1>3, <1>4 DEF Next, Calls

(* The invariant of the probes holds in every state. *)
THEOREM ReachIsKept == Spec => []ReachInv
<1>1. OccupancyInv /\ ReachInv /\ [Next]_tableVars => ReachInv'
  BY ReachStep
<1> QED
  BY <1>1, InitReach, OccupancyIsKept, PTL DEF Spec

(* Every key that was put into the table and not deleted since is found by *)
(* its probe (hash_table.c:29-51, 69-85), in the middle of growing and     *)
(* behind any number of tombstones, and no key is there twice.             *)
THEOREM KeysStayReachable == Spec => []KeysReachableAndUnique
<1>1. ReachInv => KeysReachableAndUnique
  BY DEF ReachInv
<1> QED
  BY <1>1, ReachIsKept, PTL

-----------------------------------------------------------------------------
(* The hash table implements the dictionary: the map of the dictionary is  *)
(* what the array holds, together with what table_grow has still to move.  *)

(* The map of the refinement, and its graph: which value is stored for     *)
(* which key, in the array or still in the old one.                        *)
TheMap == [key \in KeysInTable |-> ValueOf(key)]

Holds(key, value) ==
  \/ \E j \in InUse : entries[j] = Entry(key, value)
  \/ \E j \in NotMoved : old[j] = Entry(key, value)

(* Entries are records of a key and a value.                               *)
RecordsInv ==
  /\ \A j \in Slots : entries[j] = Entry(entries[j].key, entries[j].value)
  /\ \A j \in DOMAIN old : old[j] = Entry(old[j].key, old[j].value)

DictInv == OccupancyInv /\ ReachInv /\ RecordsInv

(* The graph is the map's: a key is in one entry of one of the two arrays. *)
LEMMA MapGraph ==
  DictInv => \A key, value : Holds(key, value) <=> key \in DOMAIN TheMap /\ TheMap[key] = value
<1> SUFFICES ASSUME DictInv, NEW key, NEW value
             PROVE  Holds(key, value) <=> key \in DOMAIN TheMap /\ TheMap[key] = value
  OBVIOUS
<1>0. /\ \A j \in Slots : entries[j] = Entry(entries[j].key, entries[j].value)
      /\ \A j \in DOMAIN old : old[j] = Entry(old[j].key, old[j].value)
      /\ KeysReachableAndUnique /\ MovesInv
      /\ InUse \subseteq Slots /\ NotMoved \subseteq DOMAIN old
  BY DEF DictInv, RecordsInv, ReachInv, InUse, NotMoved
<1>1. key \in DOMAIN TheMap <=> (\E j \in InUse : entries[j].key = key) \/ (\E j \in NotMoved : old[j].key = key)
  BY DEF TheMap, KeysInTable
<1>2. ASSUME NEW j \in InUse, entries[j].key = key
      PROVE  ValueOf(key) = entries[j].value
  <2>1. \A i \in InUse : entries[i].key = key => i = j
    BY <1>0, <1>2 DEF KeysReachableAndUnique, InUse
  <2>2. (CHOOSE i \in InUse : entries[i].key = key) = j
    BY <1>2, <2>1
  <2> QED
    BY <1>2, <2>2 DEF ValueOf
<1>3. ASSUME NEW j \in NotMoved, old[j].key = key
      PROVE  ValueOf(key) = old[j].value /\ \A i \in InUse : entries[i].key # key
  <2>1. \A i \in InUse : entries[i].key # key
    BY <1>0, <1>3 DEF MovesInv
  <2>2. \A i \in NotMoved : old[i].key = key => i = j
    BY <1>0, <1>3 DEF MovesInv
  <2>3. (CHOOSE i \in NotMoved : old[i].key = key) = j
    BY <1>3, <2>2
  <2> QED
    BY <1>3, <2>1, <2>3 DEF ValueOf
<1>4. key \in DOMAIN TheMap => TheMap[key] = ValueOf(key)
  BY DEF TheMap
<1>5. \A j \in InUse : entries[j] = Entry(key, value) <=> entries[j].key = key /\ entries[j].value = value
  BY <1>0 DEF Entry
<1>6. \A j \in NotMoved : old[j] = Entry(key, value) <=> old[j].key = key /\ old[j].value = value
  BY <1>0 DEF Entry
<1> QED
  BY <1>1, <1>2, <1>3, <1>4, <1>5, <1>6 DEF Holds

(* Two maps of one graph are one map. *)
LEMMA MapKept ==
  ASSUME DictInv, DictInv', \A key, value : Holds(key, value)' <=> Holds(key, value)
  PROVE  TheMap' = TheMap
<1>1. \A key, value : Holds(key, value) <=> key \in DOMAIN TheMap /\ TheMap[key] = value
  BY MapGraph
<1>2. (\A key, value : Holds(key, value) <=> key \in DOMAIN TheMap /\ TheMap[key] = value)'
  BY MapGraph, PTL
<1>3. DOMAIN TheMap' = DOMAIN TheMap
  BY <1>1, <1>2
<1>4. \A key \in DOMAIN TheMap : TheMap'[key] = TheMap[key]
  BY <1>1, <1>2
<1>5. TheMap = [key \in DOMAIN TheMap |-> TheMap[key]] /\ TheMap' = [key \in DOMAIN TheMap' |-> TheMap'[key]]
  BY DEF TheMap
<1> QED
  BY <1>3, <1>4, <1>5

(* Every write is of a record. *)
LEMMA RecordsStep ==
  ASSUME DictInv, [Next]_tableVars
  PROVE  RecordsInv'
<1> USE DEF DictInv, OccupancyInv, ShapeInv, RecordsInv, Slots, Growing
<1>1. ASSUME NEW key, NEW value, CallSet(key, value) PROVE RecordsInv'
  <2>1. CASE UNCHANGED <<entries, capacity, old>>
    BY <2>1
  <2>2. CASE StartGrow
    <3>1. old' = entries /\ \A j \in Slots' : entries'[j] = Entry(NULL, NONE)
      BY <2>2 DEF StartGrow, FreshEntries, Empty
    <3> QED
      BY <3>1 DEF Entry
  <2> QED
    BY <1>1, <2>1, <2>2 DEF CallSet
<1>2. ASSUME NEW key, NEW name, CallOther(name, key) PROVE RecordsInv'
  BY <1>2 DEF CallOther
<1>3. CASE GrowStep
  BY <1>3 DEF GrowStep, NoEntries
<1>4. CASE FindEntryStep \/ FindStringStep \/ CheckStep
  BY <1>4 DEF FindEntryStep, FindStringStep, CheckStep
<1>5. CASE SetStep
  BY <1>5 DEF SetStep, NewEntry, Entry
<1>6. CASE UnsetStep
  BY <1>6 DEF UnsetStep, Tombstone, Entry
<1>7. CASE UNCHANGED tableVars
  BY <1>7 DEF tableVars
<1> QED
  BY <1>1, <1>2, <1>3, <1>4, <1>5, <1>6, <1>7 DEF Next, Calls, Work

(* The invariants hold at the start. *)
LEMMA InitDict == Init => DictInv
<1>1. Init => RecordsInv
  BY DEF Init, RecordsInv, FreshEntries, Slots, Empty, Entry, NoEntries
<1> QED
  BY <1>1, InitOccupancy, InitReach DEF DictInv

(* A step that leaves the entries where they are leaves the map as it is.  *)
LEMMA GraphFrame ==
  ASSUME UNCHANGED <<entries, capacity, old>>, NotMoved' = NotMoved
  PROVE  \A key, value : Holds(key, value)' <=> Holds(key, value)
BY DEF Holds, InUse, Slots

(* A call begins; a new array holds the map in the old one still.          *)
LEMMA DictCallSet ==
  ASSUME DictInv, DictInv', NEW key \in Keys, NEW value \in Values, CallSet(key, value)
  PROVE  Dict!Begin
<1> USE DEF Growing
<1>1. /\ ShapeInv /\ ~Growing /\ pc = "idle" /\ pc' # "idle" /\ old = NoEntries
      /\ call' = [name |-> "set", key |-> key, value |-> value]
      /\ UNCHANGED answer
  BY DEF DictInv, OccupancyInv, ShapeInv, ReachInv, KeysInv, CallSet, StartGrow, StartProbe
<1>2. \A k, v : Holds(k, v)' <=> Holds(k, v)
  <2>1. CASE UNCHANGED <<entries, capacity, count, old, moved>>
    BY <2>1, GraphFrame DEF NotMoved
  <2>2. CASE StartGrow
    <3>1. NotMoved = {} /\ InUse' = {}
      BY <1>1, <2>2 DEF NotMoved, NoEntries, InUse, StartGrow, FreshEntries, Slots, ShapeInv, Empty, Entry
    <3>2. NotMoved' = InUse /\ old' = entries
      BY <1>1, <2>2 DEF NotMoved, InUse, StartGrow, ShapeInv, Slots
    <3> QED
      BY <3>1, <3>2 DEF Holds
  <2> QED
    BY <2>1, <2>2 DEF CallSet
<1>3. TheMap' = TheMap
  BY <1>2, MapKept
<1> QED
  BY <1>1, <1>3 DEF Dict!Begin, TheMap

(* A call begins. *)
LEMMA DictCallOther ==
  ASSUME DictInv, DictInv', NEW key \in Keys, NEW name \in {"check", "unset", "find_string"},
         CallOther(name, key)
  PROVE  Dict!Begin
<1>1. /\ pc = "idle" /\ pc' # "idle"
      /\ call' = [name |-> name, key |-> key, value |-> NONE]
      /\ UNCHANGED answer /\ NotMoved' = NotMoved
  BY DEF CallOther, StartProbe, NotMoved
<1>2. TheMap' = TheMap
  BY GraphFrame, MapKept, <1>1 DEF CallOther
<1> QED
  BY <1>1, <1>2 DEF Dict!Begin, TheMap

(* The loop of table_grow is not seen from outside. *)
LEMMA DictGrow ==
  ASSUME DictInv, DictInv', GrowStep
  PROVE  UNCHANGED Dict!dictVars
<1> USE DEF Growing
<1>1. /\ ShapeInv /\ Growing /\ moved \in Nat /\ pc = "grow" /\ pc' # "idle"
      /\ UNCHANGED <<entries, capacity, call, answer>>
  BY DEF DictInv, OccupancyInv, ShapeInv, GrowStep, StartProbe
<1>2. \A k, v : Holds(k, v)' <=> Holds(k, v)
  <2>0. PICK n \in Nat : DOMAIN old = 0..(n - 1)
    BY <1>1 DEF ShapeInv
  <2>1. CASE moved \notin DOMAIN old /\ old' = NoEntries
    <3>1. NotMoved = {} /\ NotMoved' = {}
      BY <1>1, <2>0, <2>1 DEF NotMoved, NoEntries
    <3> QED
      BY <1>1, <3>1 DEF Holds, InUse, Slots
  <2>2. CASE moved \in DOMAIN old /\ old[moved].key = NULL /\ moved' = moved + 1 /\ old' = old
    <3>1. NotMoved' = NotMoved
      BY <1>1, <2>0, <2>2 DEF NotMoved
    <3> QED
      BY <1>1, <2>2, <3>1, GraphFrame
  <2>3. CASE UNCHANGED <<old, moved>>
    BY <1>1, <2>3, GraphFrame DEF NotMoved
  <2> QED
    BY <2>1, <2>2, <2>3 DEF GrowStep
<1>3. TheMap' = TheMap
  BY <1>2, MapKept
<1> QED
  BY <1>1, <1>3 DEF Dict!dictVars, TheMap

(* Nor is the loop of find_entry. *)
LEMMA DictProbe ==
  ASSUME DictInv, DictInv', FindEntryStep
  PROVE  UNCHANGED Dict!dictVars
<1>1. /\ pc = "probe" /\ pc' # "idle"
      /\ UNCHANGED <<entries, capacity, old, moved, call, answer>>
  BY DEF FindEntryStep
<1>2. TheMap' = TheMap
  BY <1>1, GraphFrame, MapKept DEF NotMoved
<1> QED
  BY <1>1, <1>2 DEF Dict!dictVars, TheMap

(* What a call finds at the end of its probe is what the map has. *)
LEMMA PresentIsHeld ==
  ASSUME DictInv, NEW key
  PROVE  /\ Dict!Present(key) <=> key \in DOMAIN TheMap
         /\ Dict!Present(key) <=> \E value : Holds(key, value)
BY MapGraph DEF Dict!Present, TheMap

(* Outside table_grow there is one array. *)
LEMMA NothingToMove ==
  ASSUME DictInv, ~Growing
  PROVE  NotMoved = {}
BY DEF DictInv, ReachInv, KeysInv, NotMoved, NoEntries

(* A key in no entry is not in the map. *)
LEMMA NotInMap ==
  ASSUME DictInv, ~Growing, NEW key, \A j \in Slots : entries[j].key # key
  PROVE  ~Dict!Present(key)
<1> SUFFICES ASSUME NEW value, Holds(key, value) PROVE FALSE
  BY PresentIsHeld
<1>1. PICK j \in InUse : entries[j] = Entry(key, value)
  BY NothingToMove DEF Holds
<1> QED
  BY <1>1 DEF InUse, Entry

(* table_find_string answers whether the key is in the map, and which.     *)
LEMMA DictFindString ==
  ASSUME DictInv, DictInv', FindStringStep
  PROVE  Dict!FindString \/ UNCHANGED Dict!dictVars
<1>1. /\ pc = "probe" /\ ~Growing /\ call.name = "find_string" /\ Target = call.key /\ idx \in Slots
      /\ UNCHANGED <<entries, capacity, old, moved, call>> /\ ShapeInv /\ ReachInv
      /\ Target # NULL
  BY TargetIsKey DEF FindStringStep, DictInv, ReachInv, ProbeInv, Target, OccupancyInv
<1>2. TheMap' = TheMap
  BY <1>1, GraphFrame, MapKept DEF NotMoved
<1>3. CASE entries[idx].key = Target /\ answer' = [found |-> TRUE, key |-> entries[idx].key] /\ pc' = "idle"
  <2>1. idx \in InUse /\ entries[idx] = Entry(call.key, entries[idx].value)
    BY <1>1, <1>3 DEF InUse, DictInv, RecordsInv
  <2>2. Dict!Present(call.key)
    BY <2>1, PresentIsHeld DEF Holds
  <2> QED
    BY <1>1, <1>2, <1>3, <2>2 DEF Dict!FindString, Dict!Returns, Dict!Key, TheMap
<1>4. CASE entries[idx] = Empty /\ answer' = [found |-> FALSE] /\ pc' = "idle"
  <2>1. \A j \in Slots : entries[j].key # call.key
    BY <1>1, <1>4, EmptyEndsProbe
  <2>2. ~Dict!Present(call.key)
    BY <1>1, <2>1, NotInMap
  <2> QED
    BY <1>1, <1>2, <1>4, <2>2 DEF Dict!FindString, Dict!Returns, Dict!No, TheMap
<1>5. CASE UNCHANGED <<pc, answer>>
  BY <1>1, <1>2, <1>5 DEF Dict!dictVars, TheMap
<1> QED
  BY <1>3, <1>4, <1>5 DEF FindStringStep

(* Where a call of table_set, table_unset or table_check stands when its   *)
(* probe is over: at the key's entry, or the key is not in the map.        *)
LEMMA WhereTheProbeEnds ==
  ASSUME DictInv, pc = "at", ~Growing
  PROVE  /\ idx \in Slots /\ Target = call.key /\ call.key # NULL
         /\ entries[idx].key # NULL => /\ entries[idx].key = call.key
                                       /\ Holds(call.key, entries[idx].value)
                                       /\ Dict!Present(call.key)
         /\ entries[idx].key = NULL => ~Dict!Present(call.key)
<1>1. /\ idx \in Slots /\ Target = call.key /\ call.key # NULL
      /\ entries[idx].key \in {Target, NULL}
      /\ entries[idx].key = NULL => \A j \in Slots : entries[j].key # call.key
  BY TargetIsKey DEF DictInv, ReachInv, AtInv, Target, OccupancyInv
<1>2. ASSUME entries[idx].key # NULL PROVE Holds(call.key, entries[idx].value)
  BY <1>1, <1>2 DEF Holds, InUse, DictInv, RecordsInv
<1>3. ASSUME entries[idx].key = NULL PROVE ~Dict!Present(call.key)
  BY <1>1, <1>3, NotInMap
<1> QED
  BY <1>1, <1>2, <1>3, PresentIsHeld

(* table_check answers the value of the key. *)
LEMMA DictCheck ==
  ASSUME DictInv, DictInv', CheckStep
  PROVE  Dict!Check
<1>1. /\ pc = "at" /\ ~Growing /\ call.name = "check" /\ pc' = "idle"
      /\ UNCHANGED <<entries, capacity, old, moved, call>>
  BY DEF CheckStep
<1>2. TheMap' = TheMap
  BY <1>1, GraphFrame, MapKept DEF NotMoved
<1>3. CASE entries[idx].key = NULL
  BY <1>1, <1>2, <1>3, WhereTheProbeEnds DEF CheckStep, Dict!Check, Dict!Returns, Dict!No, TheMap
<1>4. CASE entries[idx].key # NULL
  <2>1. Dict!Present(call.key) /\ TheMap[call.key] = entries[idx].value
    BY <1>1, <1>4, WhereTheProbeEnds, MapGraph
  <2> QED
    BY <1>1, <1>2, <1>4, <2>1 DEF CheckStep, Dict!Check, Dict!Returns, Dict!Value, TheMap
<1> QED
  BY <1>3, <1>4

(* table_set for an entry of the old array moves it and changes no value.  *)
LEMMA DictMove ==
  ASSUME DictInv, DictInv', SetStep, Growing
  PROVE  UNCHANGED Dict!dictVars
<1>1. /\ ShapeInv /\ pc = "at" /\ pc' = "grow" /\ moved' = moved + 1
      /\ UNCHANGED <<capacity, old, call, answer>>
      /\ Target = old[moved].key /\ Stored = old[moved].value
  BY DEF DictInv, OccupancyInv, SetStep, Target, Stored
<1>2. /\ idx \in Slots /\ Slots' = Slots
      /\ entries'[idx] = Entry(Target, Stored)
      /\ \A j \in Slots : j # idx => entries'[j] = entries[j]
      /\ Target # NULL
  BY WrittenEntry DEF DictInv
<1>3. PICK n \in Nat : DOMAIN old = 0..(n - 1)
  BY <1>1 DEF ShapeInv
<1>4. moved \in NotMoved /\ moved \in Int /\ NotMoved' = NotMoved \ {moved}
  <2>1. moved \in NotMoved /\ moved \in Int
    BY <1>1 DEF ShapeInv, NotMoved
  <2> QED
    BY <1>1, <1>3, <2>1 DEF NotMoved
<1>5. entries[idx].key = NULL
  BY <1>1, <1>4 DEF DictInv, ReachInv, AtInv, MovesInv
<1>6. InUse' = InUse \union {idx} /\ idx \notin InUse
  BY <1>2, <1>5 DEF InUse, Entry
<1>7. old[moved] = entries'[idx]
  BY <1>1, <1>2, <1>4 DEF DictInv, RecordsInv, NotMoved
<1>8. \A k, v : Holds(k, v)' <=> Holds(k, v)
  <2> TAKE k, v
  <2>1. (\E j \in InUse' : entries'[j] = Entry(k, v))
          <=> (\E j \in InUse : entries[j] = Entry(k, v)) \/ entries'[idx] = Entry(k, v)
    BY <1>2, <1>6 DEF InUse
  <2>2. (\E j \in NotMoved : old[j] = Entry(k, v))
          <=> (\E j \in NotMoved' : old'[j] = Entry(k, v)) \/ old[moved] = Entry(k, v)
    BY <1>1, <1>4
  <2> QED
    BY <1>7, <2>1, <2>2 DEF Holds
<1>9. TheMap' = TheMap
  BY <1>8, MapKept
<1> QED
  BY <1>1, <1>9 DEF Dict!dictVars, TheMap

(* For a caller it stores the value under the key, and answers whether the *)
(* key is new.                                                             *)
LEMMA DictSet ==
  ASSUME DictInv, DictInv', SetStep, ~Growing
  PROVE  Dict!Set
<1>1. /\ ShapeInv /\ pc = "at" /\ pc' = "idle" /\ call.name = "set"
      /\ UNCHANGED <<capacity, old, call, moved>>
      /\ Target = call.key /\ Stored = call.value
      /\ answer' = [found |-> entries[idx].key = NULL]
  BY DEF DictInv, OccupancyInv, SetStep, Target, Stored
<1>2. /\ idx \in Slots /\ Slots' = Slots
      /\ entries'[idx] = Entry(call.key, call.value)
      /\ \A j \in Slots : j # idx => entries'[j] = entries[j]
  BY <1>1, WrittenEntry DEF DictInv
<1>3. entries[idx].key = NULL <=> ~Dict!Present(call.key)
  BY <1>1, WhereTheProbeEnds
<1>4. NotMoved = {} /\ NotMoved' = {}
  BY <1>1, NothingToMove DEF NotMoved
<1>5. \A k, v : Holds(k, v)' <=> IF k = call.key THEN v = call.value ELSE Holds(k, v)
  <2> TAKE k, v
  <2>1. Holds(k, v)' <=> \E j \in Slots : entries'[j].key # NULL /\ entries'[j] = Entry(k, v)
    BY <1>2, <1>4 DEF Holds, InUse
  <2>2. Holds(k, v) <=> \E j \in Slots : entries[j].key # NULL /\ entries[j] = Entry(k, v)
    BY <1>4 DEF Holds, InUse
  <2>3. call.key # NULL
    BY <1>1, WhereTheProbeEnds
  <2>4. CASE k = call.key
    <3>1. \A j \in Slots : j # idx => entries'[j].key # k
      BY <1>2, <2>3, <2>4, WriteKeepsReach DEF KeysReachableAndUnique, Entry, DictInv
    <3>2. entries'[idx] = Entry(k, v) <=> v = call.value
      BY <1>2, <2>4 DEF Entry
    <3>3. entries'[idx].key = k
      BY <1>2, <2>4 DEF Entry
    <3> QED
      BY <1>2, <2>1, <2>3, <2>4, <3>1, <3>2, <3>3 DEF Entry
  <2>5. CASE k # call.key
    <3>1. entries'[idx] # Entry(k, v)
      BY <1>2, <2>5 DEF Entry
    <3>2. entries[idx].key # NULL => entries[idx] # Entry(k, v)
      BY <1>1, <2>5, WhereTheProbeEnds DEF Entry
    <3> QED
      BY <1>2, <2>1, <2>2, <2>5, <3>1, <3>2
  <2> QED
    BY <2>4, <2>5
<1>6. TheMap' = [k \in DOMAIN TheMap \union {call.key} |-> IF k = call.key THEN call.value ELSE TheMap[k]]
  <2>1. \A key, value : Holds(key, value) <=> key \in DOMAIN TheMap /\ TheMap[key] = value
    BY MapGraph
  <2>2. (\A key, value : Holds(key, value) <=> key \in DOMAIN TheMap /\ TheMap[key] = value)'
    BY MapGraph, PTL
  <2>3. DOMAIN TheMap' = DOMAIN TheMap \union {call.key}
    BY <1>5, <2>1, <2>2
  <2>4. \A k \in DOMAIN TheMap' : TheMap'[k] = IF k = call.key THEN call.value ELSE TheMap[k]
    BY <1>5, <2>1, <2>2
  <2>5. TheMap' = [k \in DOMAIN TheMap' |-> TheMap'[k]]
    BY DEF TheMap
  <2> QED
    BY <2>3, <2>4, <2>5
<1> QED
  BY <1>1, <1>3, <1>6 DEF Dict!Set, Dict!Returns, Dict!Yes, Dict!No, TheMap

(* table_unset takes the key out of the map. *)
LEMMA DictUnset ==
  ASSUME DictInv, DictInv', UnsetStep
  PROVE  Dict!Unset
<1>1. /\ ShapeInv /\ pc = "at" /\ ~Growing /\ pc' = "idle" /\ call.name = "unset"
      /\ UNCHANGED <<capacity, old, call, moved>> /\ Slots' = Slots
      /\ answer' = [found |-> entries[idx].key # NULL]
      /\ idx \in Slots /\ call.key # NULL
  BY WhereTheProbeEnds DEF DictInv, OccupancyInv, UnsetStep, Slots
<1>2. entries[idx].key = NULL <=> ~Dict!Present(call.key)
  BY <1>1, WhereTheProbeEnds
<1>3. NotMoved = {} /\ NotMoved' = {}
  BY <1>1, NothingToMove DEF NotMoved
<1>4. \A k, v : Holds(k, v)' <=> k # call.key /\ Holds(k, v)
  <2> TAKE k, v
  <2>1. Holds(k, v)' <=> \E j \in Slots : entries'[j].key # NULL /\ entries'[j] = Entry(k, v)
    BY <1>1, <1>3 DEF Holds, InUse
  <2>2. Holds(k, v) <=> \E j \in Slots : entries[j].key # NULL /\ entries[j] = Entry(k, v)
    BY <1>3 DEF Holds, InUse
  <2>3. CASE entries[idx].key = NULL
    <3>1. entries' = entries /\ ~Dict!Present(call.key)
      BY <1>2, <2>3 DEF UnsetStep
    <3>2. ~Holds(call.key, v)
      BY <3>1, PresentIsHeld
    <3> QED
      BY <2>1, <2>2, <3>1, <3>2
  <2>4. CASE entries[idx].key # NULL
    <3>1. /\ entries'[idx].key = NULL
          /\ \A j \in Slots : j # idx => entries'[j] = entries[j]
      BY <1>1, <2>4 DEF UnsetStep, Tombstone, Entry, ShapeInv
    <3>2. \A j \in Slots : j # idx => entries[j].key # call.key
      BY <1>1, <2>4, WhereTheProbeEnds DEF DictInv, ReachInv, KeysReachableAndUnique
    <3>3. entries[idx].key = call.key
      BY <1>1, <2>4, WhereTheProbeEnds
    <3>4. \A j \in Slots : entries[j] = Entry(k, v) => entries[j].key = k
      BY DEF Entry
    <3> QED
      BY <2>1, <2>2, <3>1, <3>2, <3>3, <3>4
  <2> QED
    BY <2>3, <2>4
<1>5. TheMap' = [k \in DOMAIN TheMap \ {call.key} |-> TheMap[k]]
  <2>1. \A key, value : Holds(key, value) <=> key \in DOMAIN TheMap /\ TheMap[key] = value
    BY MapGraph
  <2>2. (\A key, value : Holds(key, value) <=> key \in DOMAIN TheMap /\ TheMap[key] = value)'
    BY MapGraph, PTL
  <2>3. DOMAIN TheMap' = DOMAIN TheMap \ {call.key}
    BY <1>4, <2>1, <2>2
  <2>4. \A k \in DOMAIN TheMap' : TheMap'[k] = TheMap[k]
    BY <1>4, <2>1, <2>2
  <2>5. TheMap' = [k \in DOMAIN TheMap' |-> TheMap'[k]]
    BY DEF TheMap
  <2> QED
    BY <2>3, <2>4, <2>5
<1> QED
  BY <1>1, <1>2, <1>5 DEF Dict!Unset, Dict!Returns, Dict!Yes, Dict!No, TheMap

(* Every step is a step of the dictionary, or none. *)
LEMMA DictStep ==
  ASSUME DictInv, DictInv', [Next]_tableVars
  PROVE  [Dict!DictNext]_Dict!dictVars
<1> USE DEF Dict!DictNext
<1>1. ASSUME NEW key \in Keys, NEW value \in Values, CallSet(key, value) PROVE Dict!Begin
  BY <1>1, DictCallSet
<1>2. ASSUME NEW key \in Keys, NEW name \in {"check", "unset", "find_string"}, CallOther(name, key)
      PROVE  Dict!Begin
  BY <1>2, DictCallOther
<1>3. ASSUME Work PROVE [Dict!DictNext]_Dict!dictVars
  BY <1>3, DictGrow, DictProbe, DictFindString, DictMove, DictSet, DictUnset, DictCheck DEF Work
<1>4. CASE UNCHANGED tableVars
  <2>1. TheMap' = TheMap
    BY <1>4, GraphFrame, MapKept DEF tableVars, NotMoved
  <2> QED
    BY <1>4, <2>1 DEF tableVars, Dict!dictVars, TheMap
<1> QED
  BY <1>1, <1>2, <1>3, <1>4 DEF Next, Calls

(* The three invariants hold in every state. *)
LEMMA DictInvIsKept == Spec => []DictInv
<1>1. DictInv /\ OccupancyInv' /\ [Next]_tableVars => DictInv'
  BY RecordsStep, ReachStep DEF DictInv
<1> QED
  BY <1>1, InitDict, OccupancyIsKept, PTL DEF Spec

(* hash_table.c implements a dictionary: whatever the hashes, the deleted  *)
(* entries and the growing, each call has the effect and the answer of the *)
(* same call on a partial function, at one moment between its beginning    *)
(* and its end, and nothing else changes what a caller can see.            *)
THEOREM TableIsDictionary == Spec => ImplementsDictionary
<1>1. Init => Dict!DictInit
  BY DEF Init, Dict!DictInit, Dict!No, KeysInTable, InUse, NotMoved, FreshEntries, Slots, Empty, Entry,
         NoEntries
<1>2. DictInv /\ DictInv' /\ [Next]_tableVars => [Dict!DictNext]_Dict!dictVars
  BY DictStep
<1> QED
  BY <1>1, <1>2, DictInvIsKept, PTL DEF Spec, ImplementsDictionary, Dict!DictSpec
=============================================================================
