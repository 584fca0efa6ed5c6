--------------------------- MODULE MCIncludeGraph ---------------------------
(***************************************************************************)
(* Instance of IncludeGraph.tla: every script of up to three blocks that    *)
(* declare A, B or nothing and include at most two names, one of which no   *)
(* block may declare.                                                       *)
(***************************************************************************)
EXTENDS IncludeGraph

Block(names, includes) == [names |-> names, includes |-> includes]

IncludeLists == {<<>>, <<"A">>, <<"B">>, <<"C">>, <<"A", "B">>, <<"B", "C">>, <<"B", "B">>}

SmallScripts ==
    {<<Block({"A"}, a), Block({"B"}, b), Block({n}, c)>> :
        a, b, c \in IncludeLists, n \in {"A", "C"}}

NamelessScripts ==
    {<<Block({"A"}, a), Block({}, b)>> : a, b \in IncludeLists}

MCScripts == SmallScripts \cup NamelessScripts
=============================================================================
