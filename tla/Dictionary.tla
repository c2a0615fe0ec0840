----------------------------- MODULE Dictionary -----------------------------
(***************************************************************************)
(* What hash_table.h promises of a table: a partial function from keys to  *)
(* values, whatever the hashes, the probing and the growing.               *)
(***************************************************************************)
CONSTANTS Keys, Values

VARIABLES map,     \* the keys in the table and their values
          call,    \* the call under way, or the last one: name, key, value
          busy,    \* a call is under way
          answer   \* what the last call returned

dictVars == <<map, call, busy, answer>>

Present(key) == key \in DOMAIN map

Yes      == [found |-> TRUE]
No       == [found |-> FALSE]
Value(v) == [found |-> TRUE, value |-> v]
Key(k)   == [found |-> TRUE, key |-> k]

DictInit == /\ map = [k \in {} |-> No]
            /\ ~busy
            /\ answer = No

Begin == /\ ~busy
         /\ busy'
         /\ call'.name \in {"set", "unset", "check", "find_string"}
         /\ call'.key \in Keys
         /\ call'.name = "set" => call'.value \in Values
         /\ UNCHANGED <<map, answer>>

(* A call takes effect and returns at once. *)
Returns(name) == /\ busy
                 /\ call.name = name
                 /\ ~busy'
                 /\ UNCHANGED call

(* "return true if new entry was added" *)
Set == /\ Returns("set")
       /\ map' = [k \in DOMAIN map \union {call.key} |->
                    IF k = call.key THEN call.value ELSE map[k]]
       /\ answer' = IF Present(call.key) THEN No ELSE Yes

(* "return true if the entry was successfully deleted" *)
Unset == /\ Returns("unset")
         /\ map' = [k \in DOMAIN map \ {call.key} |-> map[k]]
         /\ answer' = IF Present(call.key) THEN Yes ELSE No

(* "return true if the entry is in the table and write its value" *)
Check == /\ Returns("check")
         /\ answer' = IF Present(call.key) THEN Value(map[call.key]) ELSE No
         /\ UNCHANGED map

FindString == /\ Returns("find_string")
              /\ answer' = IF Present(call.key) THEN Key(call.key) ELSE No
              /\ UNCHANGED map

DictNext == Begin \/ Set \/ Unset \/ Check \/ FindString

DictSpec == DictInit /\ [][DictNext]_dictVars
=============================================================================
