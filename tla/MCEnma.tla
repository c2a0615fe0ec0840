------------------------------- MODULE MCEnma -------------------------------
(* Parameter names for the runs of Enma. *)
EXTENDS Enma

NoParams == <<>>
\* The third one cannot be declared.
ParamNames == <<"p", "q", "p">>
=============================================================================
