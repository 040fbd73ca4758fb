----------------------------- MODULE MCModuleGate ------------------------------
(***************************************************************************)
(* Instances of ModuleGate for TLC.                                        *)
(***************************************************************************)
EXTENDS ModuleGate, TLC

Alike == Permutations(Calls) \cup Permutations(Keys) \cup Permutations(Cards)
================================================================================
