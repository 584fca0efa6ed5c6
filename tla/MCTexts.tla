------------------------------ MODULE MCTexts ------------------------------
(***************************************************************************)
(* Small texts of every shape LoadScript treats differently, for the runs   *)
(* of LegitScript.tla and JsonApi.tla.                                      *)
(***************************************************************************)

Pod(type, access) == [kind |-> "pod", type |-> type, access |-> access]
Sampler == [kind |-> "sampler", type |-> "sampler2D", access |-> "in"]
Image == [kind |-> "image", type |-> "image2D", access |-> "in"]

Decl(name, args) == [name |-> name, args |-> args]

Blur == Decl("Blur", <<Pod("float", "in"), Sampler, Pod("vec4", "out")>>)
BlurVec == Decl("Blur", <<Pod("vec2", "in"), Sampler, Pod("vec4", "out")>>)
BlurUint == Decl("Blur", <<Pod("uint", "in"), Sampler, Pod("vec4", "out")>>)
BlurTwo == Decl("Blur", <<Pod("float", "in"), Pod("int", "inout")>>)
Fill == Decl("Fill", <<Pod("vec4", "out")>>)
Store == Decl("Store", <<Image>>)
VoidArg == Decl("Blur", <<Pod("void", "in"), Sampler>>)
SliderInt == Decl("SliderInt", <<Pod("int", "in")>>)
Main == Decl("RenderGraphMain", <<>>)

Pass(decl) == [rendergraph |-> FALSE, declared |-> TRUE, decl |-> decl]
Library == [rendergraph |-> FALSE, declared |-> FALSE, decl |-> Main]
Rendergraph == [rendergraph |-> TRUE, declared |-> TRUE, decl |-> Main]
RendergraphNoDecl == [rendergraph |-> TRUE, declared |-> FALSE, decl |-> Main]

Text(blocks) == [parses |-> TRUE, includes |-> "ok", blocks |-> blocks]
SyntaxError == [parses |-> FALSE, includes |-> "ok", blocks |-> <<>>]
MissingInclude == [parses |-> TRUE, includes |-> "missing", blocks |-> <<Rendergraph>>]
CyclicInclude == [parses |-> TRUE, includes |-> "too_deep", blocks |-> <<Rendergraph>>]

MCBuiltins == {[name |-> "SliderInt", args |-> <<"int">>]}

\* One render graph, passes of distinct names; and texts no load accepts.
OneRendergraphTexts ==
    {Text(<<Pass(Blur), Pass(Fill), Rendergraph>>),
     Text(<<Rendergraph, Library, Pass(BlurVec)>>),
     Text(<<Pass(BlurTwo), Pass(Store), Rendergraph>>),
     Text(<<Pass(SliderInt), Rendergraph>>),
     Text(<<Pass(VoidArg), Rendergraph>>),
     Text(<<Pass(BlurUint), RendergraphNoDecl>>),
     SyntaxError, MissingInclude, CyclicInclude}

NoRendergraph == Text(<<Pass(BlurTwo)>>)
NoRendergraphVoid == Text(<<Pass(VoidArg)>>)
TwoRendergraphs == Text(<<Pass(BlurVec), Rendergraph, Rendergraph>>)
SecondRendergraphBad == Text(<<Pass(BlurVec), Rendergraph, RendergraphNoDecl>>)
Overloads == Text(<<Pass(Blur), Pass(BlurVec), Rendergraph>>)
SamePassTwice == Text(<<Pass(Blur), Pass(Blur), Rendergraph>>)
OnePass == Text(<<Pass(Blur), Rendergraph>>)
TwoPasses == Text(<<Pass(Fill), Rendergraph>>)

AllTexts ==
    {NoRendergraph, NoRendergraphVoid, TwoRendergraphs, SecondRendergraphBad,
     Overloads, SamePassTwice, OnePass, TwoPasses,
     SyntaxError, MissingInclude, CyclicInclude,
     Text(<<Pass(SliderInt), Library, Rendergraph>>)}

=============================================================================
