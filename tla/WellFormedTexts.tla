-------------------------- MODULE WellFormedTexts --------------------------
(***************************************************************************)
(* The texts for which the JSON interface serves what it describes: one     *)
(* render graph block and no two passes of one name, in every text that     *)
(* reaches the compilation of its blocks, and images only of the formats    *)
(* the enum names.  Nothing is asked of texts that are rejected before      *)
(* that, and a text may still be rejected later.                            *)
(***************************************************************************)
EXTENDS JsonApi

ASSUME OneRendergraphAssumption ==
    \A t \in Texts : t.parses /\ t.includes = "ok" =>
        \E only \in DOMAIN t.blocks : RendergraphBlocks(t) = {only}

ASSUME DistinctPassesAssumption ==
    \A t \in Texts : \A i, j \in DOMAIN PassDecls(t) :
        PassDecls(t)[i].name = PassDecls(t)[j].name => i = j

ASSUME NamedFormatsAssumption == Formats \subseteq PixelFormats
=============================================================================
