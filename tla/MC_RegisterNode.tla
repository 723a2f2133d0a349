-------------------------- MODULE MC_RegisterNode --------------------------
(* The default of register-tee, the command deployment-steps.md gives for re-runs, and *)
(* a promotion with the id of an earlier check (-i).                                   *)
EXTENDS RegisterNode

MCCommands == {{"r", "a", "p"}, {"r", "R", "a", "p"}, {"p"}}
Default    == {{"r", "a", "p"}}
Both       == BOOLEAN
Resumed    == {TRUE}
=============================================================================
