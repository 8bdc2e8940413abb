----------------------------- MODULE MCHostRun -----------------------------
(***************************************************************************)
(* Model-checking instance of HostRun.                                     *)
(***************************************************************************)
EXTENDS HostRun, MCGuestCode
=============================================================================
