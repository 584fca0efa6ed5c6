---------------------------- MODULE MCWellFormed ----------------------------
(***************************************************************************)
(* Instance of WellFormedTexts.tla.                                         *)
(***************************************************************************)
EXTENDS WellFormedTexts, MCTexts
=============================================================================
