------------------------------ MODULE Objects -------------------------------
(***************************************************************************)
(* What the language means by an instance: a record of named fields, each  *)
(* holding what was stored in it last, or nothing yet.                     *)
(***************************************************************************)
EXTENDS Naturals, Sequences

CONSTANTS FieldIds, Values, UNINIT

VARIABLES objects,   \* every instance made, as a function on its field names
          access,    \* the instance and the field accessed last
          answer     \* what the last field access or call yielded

objectVars == <<objects, access, answer>>

ObjectsInit == objects = <<>> /\ answer = UNINIT

New == \E fields \in SUBSET FieldIds :
         /\ objects' = Append(objects, [f \in fields |-> UNINIT])
         /\ answer' = UNINIT
         /\ UNCHANGED access

(* Only the field named changes, in that instance only. *)
SetField(i, f, value) == /\ f \in DOMAIN objects[i]
                         /\ objects' = [objects EXCEPT ![i][f] = value]
                         /\ access' = <<i, f>>
                         /\ answer' = value

GetField(i, f) == /\ f \in DOMAIN objects[i]
                  /\ access' = <<i, f>>
                  /\ answer' = objects[i][f]
                  /\ UNCHANGED objects

ObjectsNext == \/ New
               \/ \E i \in DOMAIN objects, f \in FieldIds :
                    \/ \E value \in Values : SetField(i, f, value)
                    \/ GetField(i, f)

ObjectsSpec == ObjectsInit /\ [][ObjectsNext]_objectVars
=============================================================================
