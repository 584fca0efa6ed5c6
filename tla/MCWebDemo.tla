------------------------------ MODULE MCWebDemo ------------------------------
(***************************************************************************)
(* Instances of WebDemo.tla: texts that are accepted and texts rejected     *)
(* before and while their render graph is compiled, one whose frames do not *)
(* fit its descriptions, and one without a render graph, which leaves the   *)
(* program of an earlier text.                                              *)
(***************************************************************************)
EXTENDS WebDemo, MCTexts

DemoTexts ==
    {OnePass, Overloads, NoRendergraph, Text(<<Pass(SliderInt), Rendergraph>>), SyntaxError}
=============================================================================
