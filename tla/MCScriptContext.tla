--------------------------- MODULE MCScriptContext ---------------------------
(***************************************************************************)
(* Instance of ScriptContext.tla: a name that sliders, checkboxes and       *)
(* references of two types share, and the two reserved names.               *)
(***************************************************************************)
EXTENDS ScriptContext

MCTypes == {"int", "float", "uvec2"}
MCNames == {"a", "@time", "@swapchain_size"}
MCReferences == {<<"int", "a">>, TimeCell}

Input(name, type, value) == [name |-> name, type |-> type, value |-> value, ok |-> TRUE]
BadInput == [name |-> "a", type |-> "int", value |-> Zero, ok |-> FALSE]

MCInputLists ==
    {<<>>,
     <<Input("@time", "float", 1)>>,
     <<Input("@swapchain_size", "uvec2", 1)>>,
     <<Input("a", "int", 1), Input("a", "int", Zero)>>,
     <<Input("a", "float", 1), BadInput>>,
     <<Input("a", "int", 1), Input("a", "LoadedImage", 1)>>}
=============================================================================
