--------------------------- MODULE MCLegitScript ---------------------------
(***************************************************************************)
(* Instance of LegitScript.tla, for a host that calls the C++ class.        *)
(***************************************************************************)
EXTENDS LegitScript, MCTexts
=============================================================================
