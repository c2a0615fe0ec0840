----------------------------- MODULE MCMethods -----------------------------
(* Names for the runs of Methods. *)
EXTENDS Methods

CONSTANTS A, B, get, put

Names == {"main", A, B, get, put}

OneParam == <<"p">>

(* No definition chooses between classes or between methods. *)
NameSymmetry == Permutations(ClassIds) \union Permutations(MethodIds)
=============================================================================
