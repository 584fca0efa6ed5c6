----------------------------- MODULE MCJsonApi -----------------------------
(***************************************************************************)
(* Instances of JsonApi.tla.                                                *)
(***************************************************************************)
EXTENDS JsonApi, MCTexts

RendergraphDroppedTexts == {OnePass, NoRendergraph}
RendergraphHalfLoadedTexts == {OnePass, SecondRendergraphBad}
OverloadedPassTexts == {Overloads}
=============================================================================
