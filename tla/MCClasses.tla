------------------------------ MODULE MCClasses ------------------------------
(* Classes for TLC: names of classes and of fields are interchangeable.     *)
EXTENDS Classes, TLC

Symmetry == Permutations(ClassIds) \union Permutations(FieldIds)
==============================================================================
