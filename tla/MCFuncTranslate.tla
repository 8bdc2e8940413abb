-------------------------- MODULE MCFuncTranslate --------------------------
(***************************************************************************)
(* Model-checking instance of FuncTranslate.                               *)
(***************************************************************************)
EXTENDS FuncTranslate, MCGuestCode
=============================================================================
