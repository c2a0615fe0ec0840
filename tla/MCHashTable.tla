---------------------------- MODULE MCHashTable -----------------------------
(* Hashes for the runs of HashTable: three keys that collide in small      *)
(* tables, two of them in every table of the run, and a negative hash.     *)
EXTENDS HashTable

Hashes == [k \in Keys |-> CASE k = "a" -> 1
                            [] k = "b" -> -3
                            [] k = "c" -> 9
                            [] OTHER   -> 2]
=============================================================================
