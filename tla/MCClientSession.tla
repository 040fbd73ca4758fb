---------------------------- MODULE MCClientSession ---------------------------
(***************************************************************************)
(* Instances of ClientSession for TLC.                                     *)
(***************************************************************************)
EXTENDS ClientSession, TLC
CallsAlike == Permutations(Calls)
=============================================================================
