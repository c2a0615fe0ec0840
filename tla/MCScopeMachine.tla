--------------------------- MODULE MCScopeMachine ---------------------------
(* Two names, blocks nested three deep, arrays small enough to fill up.    *)
EXTENDS ScopeMachine

CONSTANTS x, y
MCIds == {x, y}
=============================================================================
