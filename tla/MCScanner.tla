----------------------------- MODULE MCScanner -----------------------------
(* Characters and keywords for the run of Scanner. *)
EXTENDS Scanner

SomeChars == {"o", "r", "1", "=", "!", "/", "*", "\"", "\\", "#", NL}

SomeKeywords == <<<<"o", "r">>, <<"r", "o", "r">>>>
=============================================================================
