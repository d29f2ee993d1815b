--------------------------- MODULE MCActionContract ---------------------------
(***************************************************************************)
(* The small instances of ActionExecution, with the contract it keeps.     *)
(***************************************************************************)
EXTENDS MCActionExecution, ActionRefinement
===============================================================================
