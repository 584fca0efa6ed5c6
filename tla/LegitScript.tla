----------------------------- MODULE LegitScript -----------------------------
(***************************************************************************)
(* LegitScript::Impl (LegitScript/source/LegitScript.cpp): LoadScript cuts *)
(* a text into blocks and gives every render graph block to the script     *)
(* host of RenderGraphScript.tla; RunScript runs the entry function of the *)
(* last one.  Both may throw at many points, each of which leaves the      *)
(* object with a part of the old program and a part of the new one.        *)
(*                                                                         *)
(* pc is the place reached inside the call, "idle" between calls.  A text  *)
(* is what the parser makes of it: [parses, includes, blocks], where       *)
(* includes tells what becomes of its include graph (IncludeGraph.tla) and *)
(* a block is [rendergraph, declared, decl].  Every rendergraph block that *)
(* is compiled is identified by [load, block], the call and its position.  *)
(***************************************************************************)
EXTENDS RenderGraphScript

CONSTANTS
    Texts,            \* the texts a host may load
    MaxLoads,         \* bound: number of LoadScript calls
    MaxInvocations    \* bound: passes one run of main() invokes

ASSUME BoundsAssumption == MaxLoads \in Nat /\ MaxInvocations \in Nat

ASSUME TextsAssumption ==
    \A t \in Texts : Len(t.blocks) \in Nat /\ DOMAIN t.blocks = 1..Len(t.blocks)

VARIABLES
    pc,
    load,               \* number of LoadScript calls so far
    text,               \* {} or the text of the LoadScript call in progress
    block_idx,          \* loop counter of LoadScript
    source_assembler,   \* {} or the rendergraph block it was assembled for
    result              \* what the last call returned or threw

ls_vars == <<pc, load, text, block_idx, source_assembler, result>>
vars == <<rg_vars, ls_vars>>

Exceptions == {"script_exception", "exception"}

-----------------------------------------------------------------------------
(* What LoadScript collects from the blocks before it compiles any of them. *)

IsPass(block) == ~block.rendergraph /\ block.declared

PassDecls(t) ==
    LET passes == SelectSeq(t.blocks, IsPass)
    IN  [i \in DOMAIN passes |-> passes[i].decl]

\* SelectSeq keeps a sequence a sequence (its recursive definition is opaque to
\* the provers).
ASSUME PassDeclsAssumption ==
    \A t \in Texts :
        /\ Len(PassDecls(t)) \in Nat
        /\ DOMAIN PassDecls(t) = 1..Len(PassDecls(t))

\* Variant: out parameters are described as uniforms too.
CreateShaderDescOfPods(decl) ==
    LET IsPod(arg) == arg.kind = "pod"
        pods == SelectSeq(decl.args, IsPod)
    IN  [name |-> decl.name, uniforms |-> [i \in DOMAIN pods |-> pods[i].type]]

\* The part of a shader description that RunScript's answer is matched with.
CreateShaderDesc(decl) ==
    [name |-> decl.name,
     uniforms |-> [i \in DOMAIN Uniforms(decl) |-> Uniforms(decl)[i].type]]

ShaderDescs(t) ==
    LET decls == PassDecls(t)
    IN  [i \in DOMAIN decls |-> CreateShaderDesc(decls[i])]

-----------------------------------------------------------------------------
Init ==
    /\ RGInit
    /\ pc = "idle"
    /\ load = 0
    /\ text = {}
    /\ block_idx = 0
    /\ source_assembler = {}
    /\ result = "none"

Goto(label) ==
    /\ pc' = label
    /\ UNCHANGED <<load, text, block_idx, source_assembler, result>>

Leave(label, outcome) ==
    /\ pc' = label
    /\ result' = outcome
    /\ UNCHANGED <<load, text, block_idx, source_assembler>>

NextBlock ==
    /\ pc' = "blocks"
    /\ block_idx' = block_idx + 1
    /\ UNCHANGED <<load, text, source_assembler, result>>

Id == [load |-> load, block |-> block_idx]

-----------------------------------------------------------------------------
(* LoadScript *)

CallLoadScript ==
    /\ pc = "idle"
    /\ load < MaxLoads
    /\ \E t \in Texts : text' = {t}
    /\ load' = load + 1
    /\ pc' = "parse"
    /\ UNCHANGED <<rg_vars, block_idx, source_assembler, result>>

\* The grammar's logger throws a ScriptParserException, which is translated;
\* a parse that fails without a message is a std::runtime_error.
ParseThrows ==
    /\ pc = "parse"
    /\ \E t \in text : ~t.parses
    /\ \E e \in Exceptions : Leave("load_returned", e)
    /\ UNCHANGED rg_vars

Parse ==
    /\ pc = "parse"
    /\ \E t \in text : t.parses
    /\ Goto("include_graph")
    /\ UNCHANGED rg_vars

BuildBlockDirectGraphThrows ==
    /\ pc = "include_graph"
    /\ \E t \in text : t.includes = "missing"
    /\ Leave("load_returned", "script_exception")
    /\ UNCHANGED rg_vars

FlattenGraphThrows ==
    /\ pc = "include_graph"
    /\ \E t \in text : t.includes = "too_deep"
    /\ Leave("load_returned", "exception")
    /\ UNCHANGED rg_vars

BuildIncludeGraph ==
    /\ pc = "include_graph"
    /\ \E t \in text : t.includes = "ok"
    /\ pc' = "blocks"
    /\ block_idx' = 1
    /\ UNCHANGED <<rg_vars, load, text, source_assembler, result>>

SkipBlock ==
    /\ pc = "blocks"
    /\ \E t \in text : block_idx \in DOMAIN t.blocks /\ ~t.blocks[block_idx].rendergraph
    /\ NextBlock
    /\ UNCHANGED rg_vars

RendergraphWithoutDeclarationThrows ==
    /\ pc = "blocks"
    /\ \E t \in text :
          /\ block_idx \in DOMAIN t.blocks
          /\ t.blocks[block_idx].rendergraph
          /\ ~t.blocks[block_idx].declared
    /\ Leave("load_returned", "script_exception")
    /\ UNCHANGED rg_vars

\* Variant: the assembler is a local variable, the member keeps its value.
AssembleLocally ==
    /\ pc = "blocks"
    /\ \E t \in text :
          /\ block_idx \in DOMAIN t.blocks
          /\ t.blocks[block_idx].rendergraph
          /\ t.blocks[block_idx].declared
    /\ pc' = "recreate"
    /\ UNCHANGED <<rg_vars, load, text, block_idx, source_assembler, result>>

AssembleSource ==
    /\ pc = "blocks"
    /\ \E t \in text :
          /\ block_idx \in DOMAIN t.blocks
          /\ t.blocks[block_idx].rendergraph
          /\ t.blocks[block_idx].declared
    /\ source_assembler' = {Id}
    /\ pc' = "recreate"
    /\ UNCHANGED <<rg_vars, load, text, block_idx, result>>

RecreateEngine ==
    /\ pc = "recreate"
    /\ RecreateAsScriptEngine(Id)
    /\ Goto("register")

RegisterPass ==
    /\ pc = "register"
    /\ \E t \in text, engine \in as_script_engine :
          /\ Len(engine.passes) + 1 \in DOMAIN PassDecls(t)
          /\ RegisterAsScriptPassFunction(engine, PassDecls(t)[Len(engine.passes) + 1])
    /\ Goto("register")

\* Variant: a pass that cannot be registered is reported and left out.
RegisterPassGivesUp ==
    /\ pc = "register"
    /\ \E t \in text, engine \in as_script_engine :
          /\ Len(engine.passes) + 1 \in DOMAIN PassDecls(t)
          /\ ~Registrable(engine, PassDecls(t)[Len(engine.passes) + 1])
    /\ Goto("build")
    /\ UNCHANGED rg_vars

RegisterPassThrows ==
    /\ pc = "register"
    /\ \E t \in text, engine \in as_script_engine :
          /\ Len(engine.passes) + 1 \in DOMAIN PassDecls(t)
          /\ ~Registrable(engine, PassDecls(t)[Len(engine.passes) + 1])
    /\ Leave("load_returned", "script_exception")
    /\ UNCHANGED rg_vars

PassesRegistered ==
    /\ pc = "register"
    /\ \E t \in text, engine \in as_script_engine :
          Len(engine.passes) + 1 \notin DOMAIN PassDecls(t)
    /\ Goto("build")
    /\ UNCHANGED rg_vars

\* Variant: the function is set before the build is known to have succeeded.
BuildThrowsAfterMain ==
    /\ pc = "build"
    /\ \E engine \in as_script_engine : GetMainFunction(engine, TRUE)
    /\ \E e \in Exceptions : Leave("load_returned", e)

BuildThrows ==
    /\ pc = "build"
    /\ \E e \in Exceptions : Leave("load_returned", e)
    /\ UNCHANGED rg_vars

\* Build runs the initialisers of the global variables that included blocks
\* declare, and an initialiser may call a pass like any other function, and
\* request images.
CallPassWhileBuilding ==
    /\ pc = "build"
    /\ Len(script_events) < MaxInvocations
    /\ \E engine \in as_script_engine :
          \E i \in DOMAIN engine.passes : InvokePass(engine.passes[i])
    /\ Goto("build")

RequestImageWhileBuilding ==
    /\ pc = "build"
    /\ \E format \in Formats : RequestImage(format)
    /\ Goto("build")

Build ==
    /\ pc = "build"
    /\ \E engine \in as_script_engine, main \in BOOLEAN : GetMainFunction(engine, main)
    /\ NextBlock

\* Variant: the loop stops before the last block.
LoadScriptReturnsEarly ==
    /\ pc = "blocks"
    /\ \E t \in text : block_idx + 1 \notin DOMAIN t.blocks
    /\ Leave("load_returned", "contents")
    /\ UNCHANGED rg_vars

LoadScriptReturns ==
    /\ pc = "blocks"
    /\ \E t \in text : block_idx \notin DOMAIN t.blocks
    /\ Leave("load_returned", "contents")
    /\ UNCHANGED rg_vars

LoadScript ==
    \/ ParseThrows \/ Parse
    \/ BuildBlockDirectGraphThrows \/ FlattenGraphThrows \/ BuildIncludeGraph
    \/ SkipBlock \/ RendergraphWithoutDeclarationThrows \/ AssembleSource
    \/ RecreateEngine \/ RegisterPass \/ RegisterPassThrows \/ PassesRegistered
    \/ CallPassWhileBuilding \/ RequestImageWhileBuilding
    \/ BuildThrows \/ Build \/ LoadScriptReturns

-----------------------------------------------------------------------------
(* RunScript *)

\* Variant: the events recorded before the run are kept.
CallRunScriptKeepingEvents ==
    /\ pc = "idle"
    /\ Goto("run")
    /\ UNCHANGED rg_vars

CallRunScript ==
    /\ pc = "idle"
    /\ ResetScriptEvents
    /\ Goto("run")

NoScriptLoadedThrows ==
    /\ pc = "run"
    /\ as_script_func = {}
    /\ Leave("run_returned", "exception")
    /\ UNCHANGED rg_vars

\* Prepare reports a null function as an engine error, and the engine's
\* message callback throws a RenderGraphBuildException nobody translates.
PrepareNullMainThrows ==
    /\ pc = "run"
    /\ \E func \in as_script_func : ~func.main
    /\ Leave("run_returned", "exception")
    /\ UNCHANGED rg_vars

PrepareMain ==
    /\ pc = "run"
    /\ \E func \in as_script_func : func.main
    /\ Goto("main")
    /\ UNCHANGED rg_vars

CallPass ==
    /\ pc = "main"
    /\ Len(script_events) < MaxInvocations
    /\ \E func \in as_script_func, engine \in as_script_engine :
          /\ func.engine = engine.id
          /\ \E i \in DOMAIN engine.passes : InvokePass(engine.passes[i])
    /\ Goto("main")

RequestImageInMain ==
    /\ pc = "main"
    /\ \E format \in Formats : RequestImage(format)
    /\ Goto("main")

\* Any registered function may throw: a render target of more than one mip, an
\* image argument, an image the script does not own, or main() itself.
MainThrows ==
    /\ pc = "main"
    /\ Leave("run_returned", "script_exception")
    /\ UNCHANGED rg_vars

MainReturns ==
    /\ pc = "main"
    /\ Leave("run_returned", "events")
    /\ UNCHANGED rg_vars

RunScript ==
    \/ NoScriptLoadedThrows \/ PrepareNullMainThrows \/ PrepareMain
    \/ CallPass \/ RequestImageInMain \/ MainThrows \/ MainReturns

-----------------------------------------------------------------------------
Return ==
    /\ pc \in {"load_returned", "run_returned"}
    /\ pc' = "idle"
    /\ text' = {}
    /\ UNCHANGED <<rg_vars, load, block_idx, source_assembler, result>>

Next == CallLoadScript \/ LoadScript \/ CallRunScript \/ RunScript \/ Return

Spec == Init /\ [][Next]_vars

-----------------------------------------------------------------------------
(* Properties *)

Labels ==
    {"idle", "parse", "include_graph", "blocks", "recreate", "register",
     "build", "load_returned", "run", "main", "run_returned", "dead"}

Ids == [load : Nat, block : Nat]

AllPassDecls == UNION {{PassDecls(t)[i] : i \in DOMAIN PassDecls(t)} : t \in Texts}

PassFunctions == {decl \in AllPassDecls : ~TakesVoid(decl)}

AtMostOne(S) == \A x, y \in S : x = y

\* Type invariant: every optional holds at most one value of its kind, and the
\* host never runs more passes than the texts it was given declare.
TypeOK ==
    /\ pc \in Labels
    /\ load \in 0..MaxLoads
    /\ block_idx \in Nat
    /\ result \in {"none", "contents", "events"} \cup Exceptions
    /\ text \subseteq Texts /\ AtMostOne(text)
    /\ source_assembler \subseteq Ids /\ AtMostOne(source_assembler)
    /\ as_script_engine \subseteq [id : Ids, passes : Seq(PassFunctions)]
    /\ AtMostOne(as_script_engine)
    /\ as_script_func \subseteq [engine : Ids, main : BOOLEAN]
    /\ AtMostOne(as_script_func)
    /\ script_events \in Seq({ShaderInvocation(decl) : decl \in PassFunctions})
    /\ Len(script_events) <= MaxInvocations
    /\ requested_formats \subseteq Formats

\* The entry function is a raw pointer into the engine.  Whatever a failed
\* load left behind, a pointer that is kept points into the engine that is
\* alive, so that RunScript never prepares a function of a destroyed engine.
FuncOfLiveEngine ==
    \A func \in as_script_func :
        \E engine \in as_script_engine : engine.id = func.engine

\* RunScript translates the line of a runtime error with source_assembler: while
\* a function can be run, the assembler is the one its source came from.
SourceMapOfFunc ==
    pc # "recreate" =>
        \A func \in as_script_func : source_assembler = {func.engine}

\* A render graph that compiled has every pass of its text: registration never
\* stops halfway and leaves a function that can be run.
FuncSeesAllPasses ==
    pc = "build" =>
        \A t \in text, engine \in as_script_engine :
            engine.passes = PassDecls(t)

\* The events of a run are invocations of passes the running program was built
\* with: what earlier programs recorded, in their runs or while they were built,
\* is gone when the run starts.
EventsOfThisProgram ==
    pc = "main" \/ (pc = "run_returned" /\ result = "events") =>
        \A n \in DOMAIN script_events : \A engine \in as_script_engine :
            \E i \in DOMAIN engine.passes :
                script_events[n] = ShaderInvocation(engine.passes[i])

\* A text that is accepted runs the last of its render graph blocks, whatever
\* blocks before and after it did to the engine.
RendergraphBlocks(t) == {i \in DOMAIN t.blocks : t.blocks[i].rendergraph}

LastRendergraphWins ==
    pc = "load_returned" /\ result = "contents" =>
        \A t \in text : \A last \in RendergraphBlocks(t) :
            (\A i \in RendergraphBlocks(t) : i <= last) =>
                \E func \in as_script_func :
                    func.engine = [load |-> load, block |-> last]

\* A load that throws while it compiles a block disarms the object: what can
\* still be run is the program of an earlier load, untouched, or a render graph
\* block of the same text that compiled before the block that failed.
ThrownLoadKeepsOrDisarms ==
    pc = "load_returned" /\ result \in Exceptions =>
        \A func \in as_script_func :
            func.engine.load = load => func.engine.block < block_idx
=============================================================================
