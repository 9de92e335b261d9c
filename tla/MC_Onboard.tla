---------------------------- MODULE MC_Onboard ----------------------------
(* Small instances of Onboard for TLC. *)
EXTENDS Onboard
============================================================================
