---------------------------- MODULE MCVoiceSession -----------------------------
(***************************************************************************)
(* VoiceSession for TLC; the bounds are in the configurations.             *)
(***************************************************************************)
EXTENDS VoiceSession
================================================================================
