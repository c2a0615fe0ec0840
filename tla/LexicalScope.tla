---------------------------- MODULE LexicalScope ----------------------------
(***************************************************************************)
(* What the scope of a compiler for a block-structured language promises,  *)
(* without the flat array, the depths and the limits of scope.c.  Blocks   *)
(* nest; each holds the variables declared in it, in order; a name means   *)
(* the variable of the innermost open block that declares it; leaving a    *)
(* block forgets its variables and nothing else.                           *)
(*                                                                         *)
(* A lookup answers a slot of the running function's frame: the variables  *)
(* of the open blocks occupy slots 0, 1, 2, ... in the order of their      *)
(* declaration, the parameters slots -3, -4, ..., and -1 means "neither".  *)
(* Which of a parameter and a variable of the same name wins is left open  *)
(* here; scope.c lets the parameter win.                                   *)
(***************************************************************************)
EXTENDS Integers, SequencesExt

CONSTANT Ids

VARIABLES frames,   \* the open blocks, outermost first
          params,   \* the parameters of the function
          asked,    \* the name the last lookup was for
          answer,   \* the slot the last lookup answered
          refused   \* a declaration or a lookup was refused

lexVars == <<frames, params, asked, answer, refused>>

NoSlot == -1

Holding(id) == {f \in 1..Len(frames) : Contains(frames[f], id)}

Innermost(id) == {f \in Holding(id) : \A g \in Holding(id) : g <= f}

VariableSlots(id) ==
  UNION {{Len(FlattenSeq(SubSeq(frames, 1, f - 1))) + i - 1 :
            i \in {j \in 1..Len(frames[f]) : frames[f][j] = id}} :
         f \in Innermost(id)}

ParamSlots(id) == {-i - 2 : i \in {j \in 1..Len(params) : params[j] = id}}

Visible(id) == VariableSlots(id) \union ParamSlots(id)

Init == /\ frames = <<>>
        /\ params = <<>>
        /\ asked \notin Ids
        /\ answer = NoSlot
        /\ refused = FALSE

Open == /\ frames' = Append(frames, <<>>)
        /\ UNCHANGED <<params, asked, answer, refused>>

Close == /\ frames # <<>>
         /\ frames' = Front(frames)
         /\ params' = IF Len(frames) = 1 THEN <<>> ELSE params
         /\ UNCHANGED <<asked, answer, refused>>

Param(id) == /\ frames # <<>>
             /\ ~Contains(params, id)
             /\ params' = Append(params, id)
             /\ UNCHANGED <<frames, asked, answer, refused>>

Variable(id) == /\ frames # <<>>
                /\ ~Contains(Last(frames), id)
                /\ frames' = [frames EXCEPT ![Len(frames)] = Append(@, id)]
                /\ UNCHANGED <<params, asked, answer, refused>>

Lookup(id) == /\ asked' = id
              /\ answer' \in IF Visible(id) = {} THEN {NoSlot} ELSE Visible(id)
              /\ UNCHANGED <<frames, params, refused>>

Refuse == /\ refused' = TRUE
          /\ UNCHANGED <<frames, params, asked, answer>>

Next == /\ ~refused
        /\ \/ Open
           \/ Close
           \/ Refuse
           \/ \E id \in Ids : Param(id) \/ Variable(id) \/ Lookup(id)

LexSpec == Init /\ [][Next]_lexVars
=============================================================================
