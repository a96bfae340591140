------------------------------ MODULE MCCallViews ------------------------------
(* One call: its CallInfo over six half seconds; its record, changed twice by *)
(* two goroutines and read by one browser over a channel of two events.       *)
EXTENDS CallViews, TLC

MCReasons == {"user_ended", "timeout"}
Symmetry == Permutations(Writers)
===============================================================================
