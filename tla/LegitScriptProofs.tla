------------------------ MODULE LegitScriptProofs ------------------------
(***************************************************************************)
(* Proofs about LegitScript.tla, and about JsonApi.tla over it, for every   *)
(* set of texts and every bound.                                            *)
(*                                                                         *)
(* The properties speak of the points where a call ends; the inductive      *)
(* invariant says what holds at every step of LoadScript: which load and    *)
(* block the function still held comes from (FuncAge), what the block that  *)
(* is being compiled has replaced already (Compiling), and that the         *)
(* function is the one of the last render graph block passed (Compiled).    *)
(*                                                                         *)
(* The steps JsonApi adds leave the loader's variables alone or end the     *)
(* process, so the invariant holds behind the interface too (LoaderInv),    *)
(* and a function of the load the host has the descriptions of was built    *)
(* with exactly the passes described (OwnDescriptions).                     *)
(***************************************************************************)
EXTENDS JsonApi, SequenceTheorems, TLAPS

FuncAge ==
    /\ \A func \in as_script_func : func.engine.load <= load
    /\ pc \in {"parse", "include_graph"} =>
          \A func \in as_script_func : func.engine.load < load
    /\ pc \in {"blocks", "recreate"} =>
          \A func \in as_script_func :
              func.engine.load = load => func.engine.block < block_idx
    /\ pc \in {"blocks", "recreate", "register", "build"} => block_idx # 0

Compiling ==
    /\ pc \in {"recreate", "register", "build"} =>
          /\ source_assembler = {Id}
          /\ \A t \in text : block_idx \in RendergraphBlocks(t)
    /\ pc \in {"register", "build"} =>
          /\ as_script_func = {}
          /\ \A engine \in as_script_engine : engine.id = Id

Compiled ==
    pc = "blocks" =>
        \A t \in text : \A last \in RendergraphBlocks(t) :
            /\ last < block_idx
            /\ \A i \in RendergraphBlocks(t) : i < block_idx => i <= last
            => \E func \in as_script_func :
                   func.engine = [load |-> load, block |-> last]

Inv ==
    /\ TypeOK
    /\ FuncAge /\ Compiling /\ Compiled
    /\ FuncOfLiveEngine /\ SourceMapOfFunc /\ LastRendergraphWins
    /\ ThrownLoadKeepsOrDisarms

-----------------------------------------------------------------------------
LEMMA InitInv == Init => Inv
<1> SUFFICES ASSUME Init
             PROVE  Inv
  OBVIOUS
<1> USE BoundsAssumption DEF Init, RGInit
<1>1. TypeOK
  BY DEF TypeOK, Labels, AtMostOne, Exceptions
<1>2. FuncAge /\ Compiling /\ Compiled
  BY DEF FuncAge, Compiling, Compiled
<1> QED
  BY <1>1, <1>2 DEF Inv, FuncOfLiveEngine, SourceMapOfFunc, LastRendergraphWins,
                    ThrownLoadKeepsOrDisarms, Exceptions

\* The kinds of the optionals, for use in a step.
LEMMA Kinds ==
    ASSUME Inv
    PROVE  /\ load \in Nat /\ block_idx \in Nat
           /\ \A func \in as_script_func :
                 /\ func.engine \in Ids
                 /\ func.engine.load \in Nat /\ func.engine.block \in Nat
           /\ \A t \in text : /\ t \in Texts
                              /\ Len(t.blocks) \in Nat
                              /\ DOMAIN t.blocks = 1..Len(t.blocks)
                              /\ RendergraphBlocks(t) \subseteq 1..Len(t.blocks)
BY BoundsAssumption, TextsAssumption
   DEF Inv, TypeOK, Ids, RendergraphBlocks

-----------------------------------------------------------------------------
(* The steps that leave the script host as it is.                           *)

LEMMA CallLoadScriptInv ==
    ASSUME Inv, CallLoadScript
    PROVE  Inv'
<1>1. PICK t \in Texts : text' = {t}
  BY DEF CallLoadScript
<1>2. /\ pc = "idle" /\ load < MaxLoads /\ load' = load + 1 /\ pc' = "parse"
      /\ block_idx' = block_idx /\ source_assembler' = source_assembler
      /\ result' = result /\ as_script_engine' = as_script_engine
      /\ as_script_func' = as_script_func /\ script_events' = script_events
      /\ requested_formats' = requested_formats
  BY DEF CallLoadScript, rg_vars
<1>3. TypeOK'
  BY <1>1, <1>2, BoundsAssumption DEF Inv, TypeOK, AtMostOne, Labels
<1>4. FuncAge'
  BY <1>2, Kinds DEF Inv, FuncAge
<1>5. Compiling' /\ Compiled' /\ LastRendergraphWins' /\ ThrownLoadKeepsOrDisarms'
  BY <1>2 DEF Compiling, Compiled, LastRendergraphWins, ThrownLoadKeepsOrDisarms
<1>6. FuncOfLiveEngine' /\ SourceMapOfFunc'
  BY <1>2 DEF Inv, FuncOfLiveEngine, SourceMapOfFunc
<1> QED
  BY <1>3, <1>4, <1>5, <1>6 DEF Inv

\* LoadScript goes on to another place before it has compiled anything.
LEMMA ParseInv ==
    ASSUME Inv, Parse \/ BuildIncludeGraph
    PROVE  Inv'
<1>1. /\ load' = load /\ text' = text /\ source_assembler' = source_assembler
      /\ result' = result /\ as_script_engine' = as_script_engine
      /\ as_script_func' = as_script_func /\ script_events' = script_events
      /\ requested_formats' = requested_formats
      /\ \/ pc = "parse" /\ pc' = "include_graph" /\ block_idx' = block_idx
         \/ pc = "include_graph" /\ pc' = "blocks" /\ block_idx' = 1
  BY DEF Parse, BuildIncludeGraph, Goto, rg_vars
<1>2. TypeOK'
  BY <1>1 DEF Inv, TypeOK, AtMostOne, Labels
<1>3. FuncAge'
  BY <1>1, Kinds DEF Inv, FuncAge
<1>4. Compiled'
  <2>1. ASSUME pc' = "blocks", NEW t \in text, NEW last \in RendergraphBlocks(t), last < 1
        PROVE  FALSE
    BY <2>1, Kinds
  <2> QED
    BY <1>1, <2>1 DEF Compiled, RendergraphBlocks
<1>5. Compiling' /\ LastRendergraphWins' /\ ThrownLoadKeepsOrDisarms'
  BY <1>1 DEF Compiling, LastRendergraphWins, ThrownLoadKeepsOrDisarms
<1>6. FuncOfLiveEngine' /\ SourceMapOfFunc'
  BY <1>1 DEF Inv, FuncOfLiveEngine, SourceMapOfFunc
<1> QED
  BY <1>2, <1>3, <1>4, <1>5, <1>6 DEF Inv

\* Every place where LoadScript throws.
LEMMA LoadThrowsInv ==
    ASSUME Inv,
           \/ ParseThrows \/ BuildBlockDirectGraphThrows \/ FlattenGraphThrows
           \/ RendergraphWithoutDeclarationThrows \/ RegisterPassThrows \/ BuildThrows
    PROVE  Inv'
<1>1. /\ load' = load /\ text' = text /\ source_assembler' = source_assembler
      /\ block_idx' = block_idx /\ as_script_engine' = as_script_engine
      /\ as_script_func' = as_script_func /\ script_events' = script_events
      /\ requested_formats' = requested_formats
      /\ pc \in {"parse", "include_graph", "blocks", "register", "build"}
      /\ pc' = "load_returned" /\ result' \in Exceptions
  BY DEF ParseThrows, BuildBlockDirectGraphThrows, FlattenGraphThrows,
         RendergraphWithoutDeclarationThrows, RegisterPassThrows, BuildThrows,
         Leave, rg_vars, Exceptions
<1>2. TypeOK'
  BY <1>1 DEF Inv, TypeOK, AtMostOne, Labels
<1>3. FuncAge' /\ Compiling' /\ Compiled'
  BY <1>1 DEF Inv, FuncAge, Compiling, Compiled
<1>4. FuncOfLiveEngine' /\ SourceMapOfFunc'
  BY <1>1 DEF Inv, FuncOfLiveEngine, SourceMapOfFunc
<1>5. LastRendergraphWins'
  BY <1>1 DEF LastRendergraphWins, Exceptions
<1>6. ThrownLoadKeepsOrDisarms'
  <2>1. ASSUME NEW func \in as_script_func, func.engine.load = load
        PROVE  func.engine.block < block_idx
    <3>1. CASE pc \in {"parse", "include_graph"}
      BY <2>1, <3>1, Kinds DEF Inv, FuncAge
    <3>2. CASE pc = "blocks"
      BY <2>1, <3>2 DEF Inv, FuncAge
    <3>3. CASE pc \in {"register", "build"}
      BY <2>1, <3>3 DEF Inv, Compiling
    <3> QED
      BY <1>1, <3>1, <3>2, <3>3
  <2> QED
    BY <1>1, <2>1 DEF ThrownLoadKeepsOrDisarms
<1> QED
  BY <1>2, <1>3, <1>4, <1>5, <1>6 DEF Inv

LEMMA SkipBlockInv ==
    ASSUME Inv, SkipBlock
    PROVE  Inv'
<1>1. /\ load' = load /\ text' = text /\ source_assembler' = source_assembler
      /\ result' = result /\ as_script_engine' = as_script_engine
      /\ as_script_func' = as_script_func /\ script_events' = script_events
      /\ requested_formats' = requested_formats
      /\ pc = "blocks" /\ pc' = "blocks" /\ block_idx' = block_idx + 1
  BY DEF SkipBlock, NextBlock, rg_vars
<1>2. \E t \in text : block_idx \notin RendergraphBlocks(t)
  BY DEF SkipBlock, RendergraphBlocks
<1>3. \A t, u \in text : t = u
  BY DEF Inv, TypeOK, AtMostOne
<1>4. TypeOK'
  BY <1>1 DEF Inv, TypeOK, AtMostOne, Labels
<1>5. FuncAge'
  BY <1>1, Kinds DEF Inv, FuncAge
<1>6. Compiled'
  <2>1. ASSUME NEW t \in text, NEW last \in RendergraphBlocks(t), last < block_idx + 1,
               \A i \in RendergraphBlocks(t) : i < block_idx + 1 => i <= last
        PROVE  \E func \in as_script_func : func.engine = [load |-> load, block |-> last]
    <3>1. last # block_idx
      BY <1>2, <1>3
    <3>2. last < block_idx /\ \A i \in RendergraphBlocks(t) : i < block_idx => i <= last
      BY <2>1, <3>1, Kinds
    <3> QED
      BY <1>1, <3>2 DEF Inv, Compiled
  <2> QED
    BY <1>1, <2>1 DEF Compiled, RendergraphBlocks
<1>7. Compiling' /\ LastRendergraphWins' /\ ThrownLoadKeepsOrDisarms'
  BY <1>1 DEF Compiling, LastRendergraphWins, ThrownLoadKeepsOrDisarms
<1>8. FuncOfLiveEngine' /\ SourceMapOfFunc'
  BY <1>1 DEF Inv, FuncOfLiveEngine, SourceMapOfFunc
<1> QED
  BY <1>4, <1>5, <1>6, <1>7, <1>8 DEF Inv

LEMMA LoadScriptReturnsInv ==
    ASSUME Inv, LoadScriptReturns
    PROVE  Inv'
<1>1. /\ load' = load /\ text' = text /\ source_assembler' = source_assembler
      /\ block_idx' = block_idx /\ as_script_engine' = as_script_engine
      /\ as_script_func' = as_script_func /\ script_events' = script_events
      /\ requested_formats' = requested_formats
      /\ pc = "blocks" /\ pc' = "load_returned" /\ result' = "contents"
  BY DEF LoadScriptReturns, Leave, rg_vars
<1>2. TypeOK'
  BY <1>1 DEF Inv, TypeOK, AtMostOne, Labels
<1>3. FuncAge' /\ Compiling' /\ Compiled'
  BY <1>1 DEF Inv, FuncAge, Compiling, Compiled
<1>4. FuncOfLiveEngine' /\ SourceMapOfFunc'
  BY <1>1 DEF Inv, FuncOfLiveEngine, SourceMapOfFunc
<1>5. LastRendergraphWins'
  <2>1. \A t, u \in text : t = u
    BY DEF Inv, TypeOK, AtMostOne
  <2>2. PICK t \in text : block_idx \notin 1..Len(t.blocks)
    BY Kinds DEF LoadScriptReturns
  <2>3. block_idx # 0
    BY <1>1 DEF Inv, FuncAge
  <2>4. \A i \in RendergraphBlocks(t) : i < block_idx
    BY <2>2, <2>3, Kinds
  <2>5. \A last \in RendergraphBlocks(t) :
            (\A i \in RendergraphBlocks(t) : i <= last) =>
                \E func \in as_script_func : func.engine = [load |-> load, block |-> last]
    BY <1>1, <2>4 DEF Inv, Compiled
  <2> QED
    BY <1>1, <2>1, <2>5 DEF LastRendergraphWins, RendergraphBlocks
<1>6. ThrownLoadKeepsOrDisarms'
  BY <1>1 DEF ThrownLoadKeepsOrDisarms, Exceptions
<1> QED
  BY <1>2, <1>3, <1>4, <1>5, <1>6 DEF Inv

\* A call returns to its caller.
LEMMA ReturnInv ==
    ASSUME Inv, Return
    PROVE  Inv'
<1>1. /\ load' = load /\ text' = {} /\ source_assembler' = source_assembler
      /\ block_idx' = block_idx /\ as_script_engine' = as_script_engine
      /\ as_script_func' = as_script_func /\ script_events' = script_events
      /\ requested_formats' = requested_formats
      /\ result' = result
      /\ pc \in {"load_returned", "run_returned"} /\ pc' = "idle"
  BY DEF Return, rg_vars
<1>2. TypeOK'
  BY <1>1 DEF Inv, TypeOK, AtMostOne, Labels
<1>3. FuncAge' /\ Compiling' /\ Compiled'
  BY <1>1 DEF Inv, FuncAge, Compiling, Compiled
<1>4. FuncOfLiveEngine' /\ SourceMapOfFunc'
  BY <1>1 DEF Inv, FuncOfLiveEngine, SourceMapOfFunc
<1> QED
  BY <1>1, <1>2, <1>3, <1>4 DEF Inv, LastRendergraphWins, ThrownLoadKeepsOrDisarms

-----------------------------------------------------------------------------
(* The steps that compile a render graph block.                             *)

LEMMA AssembleSourceInv ==
    ASSUME Inv, AssembleSource
    PROVE  Inv'
<1>1. /\ load' = load /\ text' = text /\ source_assembler' = {Id}
      /\ block_idx' = block_idx /\ as_script_engine' = as_script_engine
      /\ as_script_func' = as_script_func /\ script_events' = script_events
      /\ requested_formats' = requested_formats
      /\ result' = result /\ pc = "blocks" /\ pc' = "recreate"
  BY DEF AssembleSource, rg_vars
<1>2. Id \in Ids
  BY Kinds DEF Id, Ids
<1>3. TypeOK'
  BY <1>1, <1>2 DEF Inv, TypeOK, AtMostOne, Labels
<1>4. FuncAge'
  BY <1>1 DEF Inv, FuncAge
<1>5. Compiling'
  <2>1. \A t \in text : block_idx \in RendergraphBlocks(t)
    BY DEF AssembleSource, RendergraphBlocks, Inv, TypeOK, AtMostOne
  <2>2. Id' = Id
    BY <1>1 DEF Id
  <2> QED
    BY <1>1, <2>1, <2>2 DEF Compiling, RendergraphBlocks
<1>6. FuncOfLiveEngine'
  BY <1>1 DEF Inv, FuncOfLiveEngine
<1> QED
  BY <1>1, <1>3, <1>4, <1>5, <1>6
     DEF Inv, Compiled, SourceMapOfFunc, LastRendergraphWins, ThrownLoadKeepsOrDisarms

LEMMA RecreateEngineInv ==
    ASSUME Inv, RecreateEngine
    PROVE  Inv'
<1>1. /\ load' = load /\ text' = text /\ source_assembler' = source_assembler
      /\ block_idx' = block_idx /\ as_script_engine' = {[id |-> Id, passes |-> <<>>]}
      /\ as_script_func' = {} /\ script_events' = script_events
      /\ requested_formats' = requested_formats
      /\ result' = result /\ pc = "recreate" /\ pc' = "register"
  BY DEF RecreateEngine, RecreateAsScriptEngine, Goto
<1>2. Id \in Ids /\ Id' = Id
  BY <1>1, Kinds DEF Id, Ids
<1>3. TypeOK'
  BY <1>1, <1>2 DEF Inv, TypeOK, AtMostOne, Labels
<1>4. FuncAge'
  BY <1>1 DEF Inv, FuncAge
<1>5. Compiling'
  BY <1>1, <1>2 DEF Inv, Compiling, RendergraphBlocks
<1> QED
  BY <1>1, <1>3, <1>4, <1>5
     DEF Inv, Compiled, FuncOfLiveEngine, SourceMapOfFunc, LastRendergraphWins,
         ThrownLoadKeepsOrDisarms

LEMMA RegisterPassInv ==
    ASSUME Inv, RegisterPass
    PROVE  Inv'
<1>1. PICK t \in text, engine \in as_script_engine :
          /\ Len(engine.passes) + 1 \in DOMAIN PassDecls(t)
          /\ RegisterAsScriptPassFunction(engine, PassDecls(t)[Len(engine.passes) + 1])
  BY DEF RegisterPass
<1> DEFINE decl == PassDecls(t)[Len(engine.passes) + 1]
<1>2. /\ load' = load /\ text' = text /\ source_assembler' = source_assembler
      /\ block_idx' = block_idx
      /\ as_script_engine' = {[engine EXCEPT !.passes = Append(@, decl)]}
      /\ as_script_func' = as_script_func /\ script_events' = script_events
      /\ requested_formats' = requested_formats
      /\ result' = result /\ pc = "register" /\ pc' = "register"
  BY <1>1 DEF RegisterPass, RegisterAsScriptPassFunction, Goto
<1>3. decl \in PassFunctions
  <2>1. t \in Texts
    BY Kinds
  <2>2. decl \in AllPassDecls
    BY <1>1, <2>1 DEF AllPassDecls
  <2>3. ~TakesVoid(decl)
    BY <1>1 DEF RegisterAsScriptPassFunction, Registrable
  <2> QED
    BY <2>2, <2>3 DEF PassFunctions
<1> HIDE DEF decl
<1>4. engine \in [id : Ids, passes : Seq(PassFunctions)]
  BY DEF Inv, TypeOK
<1>5. [engine EXCEPT !.passes = Append(@, decl)]
          \in [id : Ids, passes : Seq(PassFunctions)]
  BY <1>3, <1>4
<1>6. [engine EXCEPT !.passes = Append(@, decl)].id = engine.id
  BY <1>4
<1>7. TypeOK'
  BY <1>2, <1>5 DEF Inv, TypeOK, AtMostOne, Labels
<1>8. FuncAge'
  BY <1>2 DEF Inv, FuncAge
<1>9. as_script_func = {} /\ engine.id = Id /\ Id' = Id
  BY <1>2 DEF Inv, Compiling, Id
<1>10. Compiling'
  BY <1>2, <1>6, <1>9 DEF Inv, Compiling, RendergraphBlocks
<1> QED
  BY <1>2, <1>7, <1>8, <1>9, <1>10
     DEF Inv, Compiled, FuncOfLiveEngine, SourceMapOfFunc, LastRendergraphWins,
         ThrownLoadKeepsOrDisarms

LEMMA PassesRegisteredInv ==
    ASSUME Inv, PassesRegistered
    PROVE  Inv'
<1>1. /\ load' = load /\ text' = text /\ source_assembler' = source_assembler
      /\ block_idx' = block_idx /\ as_script_engine' = as_script_engine
      /\ as_script_func' = as_script_func /\ script_events' = script_events
      /\ requested_formats' = requested_formats
      /\ result' = result /\ pc = "register" /\ pc' = "build"
  BY DEF PassesRegistered, Goto, rg_vars
<1>2. TypeOK'
  BY <1>1 DEF Inv, TypeOK, AtMostOne, Labels
<1>3. FuncAge'
  BY <1>1 DEF Inv, FuncAge
<1>4. Id' = Id
  BY <1>1 DEF Id
<1>5. Compiling'
  BY <1>1, <1>4 DEF Inv, Compiling, RendergraphBlocks
<1>6. FuncOfLiveEngine' /\ SourceMapOfFunc'
  BY <1>1 DEF Inv, FuncOfLiveEngine, SourceMapOfFunc
<1> QED
  BY <1>1, <1>2, <1>3, <1>5, <1>6
     DEF Inv, Compiled, LastRendergraphWins, ThrownLoadKeepsOrDisarms

LEMMA BuildInv ==
    ASSUME Inv, Build
    PROVE  Inv'
<1>1. PICK engine \in as_script_engine, main \in BOOLEAN :
          as_script_func' = {[engine |-> engine.id, main |-> main]}
  BY DEF Build, GetMainFunction
<1>2. /\ load' = load /\ text' = text /\ source_assembler' = source_assembler
      /\ block_idx' = block_idx + 1 /\ as_script_engine' = as_script_engine
      /\ script_events' = script_events
      /\ requested_formats' = requested_formats
      /\ result' = result /\ pc = "build" /\ pc' = "blocks"
  BY DEF Build, GetMainFunction, NextBlock
<1>3. /\ engine.id = Id /\ source_assembler = {Id} /\ Id \in Ids
      /\ \A t \in text : block_idx \in RendergraphBlocks(t)
  BY <1>2, Kinds DEF Inv, Compiling, Id, Ids
<1>4. as_script_func' = {[engine |-> Id, main |-> main]}
  BY <1>1, <1>3
<1>5. TypeOK'
  BY <1>2, <1>3, <1>4 DEF Inv, TypeOK, AtMostOne, Labels
<1>6. FuncAge'
  BY <1>2, <1>4, Kinds DEF FuncAge, Id
<1>7. Compiled'
  <2>1. ASSUME NEW t \in text, NEW last \in RendergraphBlocks(t), last < block_idx + 1,
               \A i \in RendergraphBlocks(t) : i < block_idx + 1 => i <= last
        PROVE  last = block_idx
    BY <1>3, <2>1, Kinds
  <2> QED
    BY <1>2, <1>4, <2>1 DEF Compiled, RendergraphBlocks, Id
<1>8. FuncOfLiveEngine' /\ SourceMapOfFunc'
  BY <1>2, <1>3, <1>4 DEF FuncOfLiveEngine, SourceMapOfFunc
<1> QED
  BY <1>2, <1>5, <1>6, <1>7, <1>8
     DEF Inv, Compiling, LastRendergraphWins, ThrownLoadKeepsOrDisarms

\* What an invocation records is well typed, whoever calls the pass.
LEMMA InvokePassTypes ==
    ASSUME Inv, Len(script_events) < MaxInvocations,
           NEW engine \in as_script_engine, NEW i \in DOMAIN engine.passes,
           InvokePass(engine.passes[i])
    PROVE  /\ script_events' \in Seq({ShaderInvocation(decl) : decl \in PassFunctions})
           /\ Len(script_events') <= MaxInvocations
<1>1. engine.passes \in Seq(PassFunctions)
  BY DEF Inv, TypeOK
<1>2. PICK pass \in PassFunctions :
          script_events' = Append(script_events, ShaderInvocation(pass))
  BY <1>1 DEF InvokePass
<1>3. script_events \in Seq({ShaderInvocation(decl) : decl \in PassFunctions})
  BY DEF Inv, TypeOK
<1> QED
  BY <1>2, <1>3, BoundsAssumption

\* Initialisers change what the object recorded of the passes and images, only.
LEMMA InitialisersInv ==
    ASSUME Inv, CallPassWhileBuilding \/ RequestImageWhileBuilding
    PROVE  Inv'
<1>1. /\ load' = load /\ text' = text /\ source_assembler' = source_assembler
      /\ block_idx' = block_idx /\ as_script_engine' = as_script_engine
      /\ as_script_func' = as_script_func /\ result' = result
      /\ pc = "build" /\ pc' = "build"
  BY DEF CallPassWhileBuilding, RequestImageWhileBuilding, InvokePass, RequestImage, Goto
<1>2. /\ script_events' \in Seq({ShaderInvocation(decl) : decl \in PassFunctions})
      /\ Len(script_events') <= MaxInvocations
      /\ requested_formats' \subseteq Formats
  <2>1. CASE CallPassWhileBuilding
    BY <2>1, InvokePassTypes DEF CallPassWhileBuilding, InvokePass, Inv, TypeOK
  <2>2. CASE RequestImageWhileBuilding
    BY <2>2 DEF RequestImageWhileBuilding, RequestImage, Inv, TypeOK
  <2> QED
    BY <2>1, <2>2
<1>3. TypeOK'
  BY <1>1, <1>2 DEF Inv, TypeOK, AtMostOne, Labels
<1>4. Id' = Id
  BY <1>1 DEF Id
<1>5. FuncAge' /\ Compiling' /\ Compiled'
  BY <1>1, <1>4 DEF Inv, FuncAge, Compiling, Compiled, RendergraphBlocks
<1>6. FuncOfLiveEngine' /\ SourceMapOfFunc'
  BY <1>1 DEF Inv, FuncOfLiveEngine, SourceMapOfFunc
<1> QED
  BY <1>1, <1>3, <1>5, <1>6 DEF Inv, LastRendergraphWins, ThrownLoadKeepsOrDisarms

-----------------------------------------------------------------------------
(* RunScript moves pc, result, script_events and requested_formats only.    *)

LEMMA RunScriptInv ==
    ASSUME Inv, CallRunScript \/ RunScript
    PROVE  Inv'
<1>1. /\ load' = load /\ text' = text /\ source_assembler' = source_assembler
      /\ block_idx' = block_idx /\ as_script_engine' = as_script_engine
      /\ as_script_func' = as_script_func
      /\ pc \in {"idle", "run", "main"} /\ pc' \in {"run", "main", "run_returned"}
      /\ result' \in {result, "events"} \cup Exceptions
  BY DEF CallRunScript, RunScript, NoScriptLoadedThrows, PrepareNullMainThrows,
         PrepareMain, CallPass, RequestImageInMain, MainThrows, MainReturns,
         ResetScriptEvents, InvokePass, RequestImage, Goto, Leave, rg_vars, Exceptions
<1>2. /\ script_events' \in Seq({ShaderInvocation(decl) : decl \in PassFunctions})
      /\ Len(script_events') <= MaxInvocations
      /\ requested_formats' \subseteq Formats
  <2>1. CASE CallRunScript
    BY <2>1, BoundsAssumption DEF CallRunScript, ResetScriptEvents
  <2>2. CASE CallPass
    BY <2>2, InvokePassTypes DEF CallPass, InvokePass, Inv, TypeOK
  <2>3. CASE RequestImageInMain
    BY <2>3 DEF RequestImageInMain, RequestImage, Inv, TypeOK
  <2>4. CASE UNCHANGED <<script_events, requested_formats>>
    BY <2>4 DEF Inv, TypeOK
  <2> QED
    BY <2>1, <2>2, <2>3, <2>4
       DEF RunScript, NoScriptLoadedThrows, PrepareNullMainThrows, PrepareMain,
           MainThrows, MainReturns, rg_vars
<1>3. TypeOK'
  BY <1>1, <1>2 DEF Inv, TypeOK, AtMostOne, Labels
<1>4. FuncAge' /\ Compiling' /\ Compiled'
  BY <1>1 DEF Inv, FuncAge, Compiling, Compiled
<1>5. FuncOfLiveEngine' /\ SourceMapOfFunc'
  BY <1>1 DEF Inv, FuncOfLiveEngine, SourceMapOfFunc
<1> QED
  BY <1>1, <1>3, <1>4, <1>5 DEF Inv, LastRendergraphWins, ThrownLoadKeepsOrDisarms

-----------------------------------------------------------------------------
LEMMA StutterInv ==
    ASSUME Inv, UNCHANGED vars
    PROVE  Inv'
<1>1. /\ load' = load /\ text' = text /\ source_assembler' = source_assembler
      /\ block_idx' = block_idx /\ as_script_engine' = as_script_engine
      /\ as_script_func' = as_script_func /\ script_events' = script_events
      /\ requested_formats' = requested_formats
      /\ result' = result /\ pc' = pc
  BY DEF vars, ls_vars, rg_vars
<1>2. TypeOK'
  BY <1>1 DEF Inv, TypeOK
<1>3. Id' = Id
  BY <1>1 DEF Id
<1> QED
  BY <1>1, <1>2, <1>3
     DEF Inv, FuncAge, Compiling, Compiled, RendergraphBlocks, FuncOfLiveEngine,
         SourceMapOfFunc, LastRendergraphWins, ThrownLoadKeepsOrDisarms

LEMMA NextInv ==
    ASSUME Inv, [Next]_vars
    PROVE  Inv'
<1>1. CASE CallLoadScript
  BY <1>1, CallLoadScriptInv
<1>2. CASE LoadScript
  BY <1>2, ParseInv, LoadThrowsInv, SkipBlockInv, AssembleSourceInv, RecreateEngineInv,
     RegisterPassInv, PassesRegisteredInv, InitialisersInv, BuildInv,
     LoadScriptReturnsInv
     DEF LoadScript
<1>3. CASE CallRunScript \/ RunScript
  BY <1>3, RunScriptInv
<1>4. CASE Return
  BY <1>4, ReturnInv
<1>5. CASE UNCHANGED vars
  BY <1>5, StutterInv
<1> QED
  BY <1>1, <1>2, <1>3, <1>4, <1>5 DEF Next

-----------------------------------------------------------------------------
(* What the engine holds and what a run records.                            *)

\* Registration goes through the passes of the text in order: an engine of the
\* load in progress holds a prefix of them, and all of them once it is built.
PrefixOf(passes, t) ==
    \A i \in DOMAIN passes : i \in DOMAIN PassDecls(t) /\ passes[i] = PassDecls(t)[i]

EngineAge ==
    \A engine \in as_script_engine :
        /\ engine.id.load <= load
        /\ pc \in {"parse", "include_graph"} => engine.id.load < load

Registered ==
    /\ pc = "register" =>
          \A t \in text, engine \in as_script_engine : PrefixOf(engine.passes, t)
    /\ pc \in {"build", "blocks", "recreate"} \/ (pc = "load_returned" /\ result = "contents") =>
          \A t \in text, engine \in as_script_engine :
              engine.id.load = load => engine.passes = PassDecls(t)

FreshRun == pc = "run" => script_events = <<>>

PassInv == EngineAge /\ Registered /\ FreshRun /\ EventsOfThisProgram

LEMMA InitPassInv == Init => PassInv
BY DEF Init, RGInit, PassInv, EngineAge, Registered, FreshRun, EventsOfThisProgram

LEMMA EngineKinds ==
    ASSUME Inv
    PROVE  \A engine \in as_script_engine :
               /\ engine.id.load \in Nat
               /\ Len(engine.passes) \in Nat
               /\ DOMAIN engine.passes = 1..Len(engine.passes)
BY DEF Inv, TypeOK, Ids

\* Steps of a load that leave the engine and its passes alone.
LEMMA LoadScriptPassInv ==
    ASSUME Inv, PassInv,
           \/ CallLoadScript \/ ParseThrows \/ Parse \/ BuildBlockDirectGraphThrows
           \/ FlattenGraphThrows \/ BuildIncludeGraph \/ SkipBlock
           \/ RendergraphWithoutDeclarationThrows \/ AssembleSource
           \/ RegisterPassThrows \/ CallPassWhileBuilding
           \/ RequestImageWhileBuilding \/ BuildThrows \/ Build \/ LoadScriptReturns
    PROVE  PassInv'
<1>1. CASE CallLoadScript
  BY <1>1, EngineKinds, Kinds
     DEF CallLoadScript, rg_vars, PassInv, EngineAge, Registered, FreshRun,
         EventsOfThisProgram
<1>2. CASE Parse \/ BuildIncludeGraph \/ SkipBlock \/ AssembleSource
  <2>1. /\ load' = load /\ text' = text /\ as_script_engine' = as_script_engine
        /\ \/ pc = "parse" /\ pc' = "include_graph"
           \/ pc = "include_graph" /\ pc' = "blocks"
           \/ pc = "blocks" /\ pc' \in {"blocks", "recreate"}
    BY <1>2 DEF Parse, BuildIncludeGraph, SkipBlock, AssembleSource, Goto, NextBlock, rg_vars
  <2>2. EngineAge'
    BY <2>1 DEF PassInv, EngineAge
  <2>3. Registered'
    BY <2>1, EngineKinds, Kinds DEF PassInv, EngineAge, Registered
  <2> QED
    BY <2>1, <2>2, <2>3 DEF PassInv, FreshRun, EventsOfThisProgram
<1>3. CASE \/ ParseThrows \/ BuildBlockDirectGraphThrows \/ FlattenGraphThrows
           \/ RendergraphWithoutDeclarationThrows \/ RegisterPassThrows \/ BuildThrows
  <2>1. /\ load' = load /\ as_script_engine' = as_script_engine
        /\ pc' = "load_returned" /\ result' \in Exceptions
    BY <1>3 DEF ParseThrows, BuildBlockDirectGraphThrows, FlattenGraphThrows,
         RendergraphWithoutDeclarationThrows, RegisterPassThrows, BuildThrows,
         Leave, rg_vars, Exceptions
  <2> QED
    BY <2>1 DEF PassInv, EngineAge, Registered, FreshRun, EventsOfThisProgram, Exceptions
<1>4. CASE CallPassWhileBuilding \/ RequestImageWhileBuilding
  BY <1>4 DEF CallPassWhileBuilding, RequestImageWhileBuilding, InvokePass, RequestImage,
              Goto, PassInv, EngineAge, Registered, FreshRun, EventsOfThisProgram
<1>5. CASE Build
  BY <1>5 DEF Build, GetMainFunction, NextBlock, PassInv, EngineAge, Registered,
              FreshRun, EventsOfThisProgram
<1>6. CASE LoadScriptReturns
  BY <1>6 DEF LoadScriptReturns, Leave, rg_vars, PassInv, EngineAge, Registered,
              FreshRun, EventsOfThisProgram
<1> QED
  BY <1>1, <1>2, <1>3, <1>4, <1>5, <1>6

LEMMA RecreateEnginePassInv ==
    ASSUME Inv, PassInv, RecreateEngine
    PROVE  PassInv'
<1>1. /\ load' = load /\ as_script_engine' = {[id |-> Id, passes |-> <<>>]}
      /\ pc' = "register" /\ Id.load = load
  BY DEF RecreateEngine, RecreateAsScriptEngine, Goto, Id
<1>2. Registered'
  BY <1>1 DEF Registered, PrefixOf
<1> QED
  BY <1>1, <1>2, Kinds DEF PassInv, EngineAge, FreshRun, EventsOfThisProgram

LEMMA RegisterPassPassInv ==
    ASSUME Inv, PassInv, RegisterPass
    PROVE  PassInv'
<1>1. PICK t \in text, engine \in as_script_engine :
          /\ Len(engine.passes) + 1 \in DOMAIN PassDecls(t)
          /\ RegisterAsScriptPassFunction(engine, PassDecls(t)[Len(engine.passes) + 1])
  BY DEF RegisterPass
<1> DEFINE decl == PassDecls(t)[Len(engine.passes) + 1]
           passes == Append(engine.passes, decl)
<1>2. /\ load' = load /\ text' = text /\ pc = "register" /\ pc' = "register"
      /\ as_script_engine' = {[engine EXCEPT !.passes = passes]}
      /\ script_events' = script_events
      /\ requested_formats' = requested_formats
  BY <1>1 DEF RegisterPass, RegisterAsScriptPassFunction, Goto
<1>3. engine \in [id : Ids, passes : Seq(PassFunctions)]
  BY DEF Inv, TypeOK
<1>4. /\ [engine EXCEPT !.passes = passes].id = engine.id
      /\ [engine EXCEPT !.passes = passes].passes = passes
  BY <1>3
<1>5. PrefixOf(engine.passes, t)
  BY <1>2 DEF PassInv, Registered
<1>6. PrefixOf(passes, t)
  <2>1. ASSUME NEW i \in DOMAIN passes
        PROVE  i \in DOMAIN PassDecls(t) /\ passes[i] = PassDecls(t)[i]
    <3>1. CASE i \in DOMAIN engine.passes
      BY <3>1, <1>3, <1>5 DEF PrefixOf
    <3>2. CASE i \notin DOMAIN engine.passes
      <4>1. i = Len(engine.passes) + 1
        BY <3>2, <1>3
      <4> QED
        BY <4>1, <1>1, <1>3
    <3> QED
      BY <3>1, <3>2
  <2> QED
    BY <2>1 DEF PrefixOf
<1>7. \A u \in text : u = t
  BY DEF Inv, TypeOK, AtMostOne
<1> HIDE DEF passes, decl
<1>8. Registered'
  BY <1>2, <1>4, <1>6, <1>7 DEF Registered, PrefixOf
<1>9. EngineAge'
  BY <1>2, <1>4 DEF PassInv, EngineAge
<1> QED
  BY <1>2, <1>8, <1>9 DEF PassInv, FreshRun, EventsOfThisProgram

LEMMA PassesRegisteredPassInv ==
    ASSUME Inv, PassInv, PassesRegistered
    PROVE  PassInv'
<1>1. PICK t \in text, engine \in as_script_engine :
          Len(engine.passes) + 1 \notin DOMAIN PassDecls(t)
  BY DEF PassesRegistered
<1>2. /\ load' = load /\ text' = text /\ pc = "register" /\ pc' = "build"
      /\ as_script_engine' = as_script_engine
  BY DEF PassesRegistered, Goto, rg_vars
<1>3. /\ Len(PassDecls(t)) \in Nat
      /\ DOMAIN PassDecls(t) = 1..Len(PassDecls(t))
  BY Kinds, PassDeclsAssumption
<1>4. engine.passes \in Seq(PassFunctions)
  BY DEF Inv, TypeOK
<1>5. /\ \A i \in DOMAIN engine.passes : i \in DOMAIN PassDecls(t)
      /\ \A i \in DOMAIN engine.passes : engine.passes[i] = PassDecls(t)[i]
  BY <1>2 DEF PassInv, Registered, PrefixOf
<1>6. DOMAIN engine.passes = DOMAIN PassDecls(t)
  BY <1>1, <1>3, <1>4, <1>5
<1>7. engine.passes = PassDecls(t)
  BY <1>4, <1>5, <1>6 DEF PassDecls
<1>8. \A u \in text, e \in as_script_engine : u = t /\ e = engine
  BY DEF Inv, TypeOK, AtMostOne
<1>9. Registered'
  BY <1>2, <1>7, <1>8 DEF Registered
<1> QED
  BY <1>2, <1>9 DEF PassInv, EngineAge, FreshRun, EventsOfThisProgram

LEMMA RunScriptPassInv ==
    ASSUME Inv, PassInv, CallRunScript \/ RunScript \/ Return \/ UNCHANGED vars
    PROVE  PassInv'
<1>1. load' = load /\ as_script_engine' = as_script_engine
  BY DEF CallRunScript, RunScript, NoScriptLoadedThrows, PrepareNullMainThrows,
         PrepareMain, CallPass, RequestImageInMain, MainThrows, MainReturns,
         ResetScriptEvents, InvokePass, RequestImage, Goto, Leave, Return, vars,
         ls_vars, rg_vars
<1>2. CASE CallPass
  <2>1. PICK engine \in as_script_engine : \E i \in DOMAIN engine.passes :
            script_events' = Append(script_events, ShaderInvocation(engine.passes[i]))
    BY <1>2 DEF CallPass, InvokePass
  <2>2. PICK j \in DOMAIN engine.passes :
            script_events' = Append(script_events, ShaderInvocation(engine.passes[j]))
    BY <2>1
  <2>3. \A e \in as_script_engine : e = engine
    BY DEF Inv, TypeOK, AtMostOne
  <2>4. script_events \in Seq({ShaderInvocation(decl) : decl \in PassFunctions})
    BY DEF Inv, TypeOK
  <2>5. \A n \in DOMAIN script_events : \E i \in DOMAIN engine.passes :
            script_events[n] = ShaderInvocation(engine.passes[i])
    BY <1>2 DEF CallPass, PassInv, EventsOfThisProgram
  <2>6. ASSUME NEW n \in DOMAIN script_events'
        PROVE  \E i \in DOMAIN engine.passes :
                   script_events'[n] = ShaderInvocation(engine.passes[i])
    <3>1. CASE n \in DOMAIN script_events
      BY <3>1, <2>2, <2>4, <2>5
    <3>2. CASE n \notin DOMAIN script_events
      BY <3>2, <2>2, <2>4
    <3> QED
      BY <3>1, <3>2
  <2>7. EventsOfThisProgram'
    BY <1>1, <2>3, <2>6 DEF EventsOfThisProgram
  <2>8. pc = "main" /\ pc' = "main"
    BY <1>2 DEF CallPass, Goto
  <2> QED
    BY <1>1, <2>7, <2>8 DEF PassInv, EngineAge, Registered, FreshRun
<1>3. CASE CallRunScript
  BY <1>1, <1>3 DEF CallRunScript, ResetScriptEvents, Goto, PassInv, EngineAge,
                    Registered, FreshRun, EventsOfThisProgram
<1>4. CASE NoScriptLoadedThrows \/ PrepareNullMainThrows \/ MainThrows
  <2>1. pc' = "run_returned" /\ result' \in Exceptions
    BY <1>4 DEF NoScriptLoadedThrows, PrepareNullMainThrows, MainThrows, Leave, Exceptions
  <2> QED
    BY <1>1, <2>1 DEF PassInv, EngineAge, Registered, FreshRun, EventsOfThisProgram,
                      Exceptions
<1>5. CASE PrepareMain
  BY <1>1, <1>5 DEF PrepareMain, Goto, rg_vars, PassInv, EngineAge, Registered,
                    FreshRun, EventsOfThisProgram
<1>6. CASE MainReturns
  BY <1>1, <1>6 DEF MainReturns, Leave, rg_vars, PassInv, EngineAge, Registered,
                    FreshRun, EventsOfThisProgram
<1>7. CASE Return
  BY <1>1, <1>7 DEF Return, rg_vars, PassInv, EngineAge, Registered,
                    FreshRun, EventsOfThisProgram
<1>8. CASE UNCHANGED vars
  BY <1>8 DEF vars, ls_vars, rg_vars, PassInv, EngineAge, Registered, PrefixOf,
              FreshRun, EventsOfThisProgram
<1>9. CASE RequestImageInMain
  BY <1>1, <1>9 DEF RequestImageInMain, RequestImage, Goto, PassInv, EngineAge,
                    Registered, FreshRun, EventsOfThisProgram
<1> QED
  BY <1>2, <1>3, <1>4, <1>5, <1>6, <1>7, <1>8, <1>9 DEF RunScript

LEMMA NextPassInv ==
    ASSUME Inv, PassInv, [Next]_vars
    PROVE  PassInv'
BY LoadScriptPassInv, RecreateEnginePassInv, RegisterPassPassInv,
   PassesRegisteredPassInv, RunScriptPassInv
   DEF Next, LoadScript

\* While a block is built the engine is of this load, so Registered says that it
\* has all passes.
LEMMA PassesComplete ==
    ASSUME Inv, PassInv
    PROVE  FuncSeesAllPasses
BY DEF Inv, Compiling, PassInv, Registered, FuncSeesAllPasses, Id

-----------------------------------------------------------------------------
\* Wherever a load or a run stands or has thrown, its parts fit as Inv says.
THEOREM Invariance == Spec => []Inv
<1>1. Inv /\ [Next]_vars => Inv'
  BY NextInv
<1> QED
  BY <1>1, InitInv, PTL DEF Spec

\* The same for the passes an engine is registered with and its events.
THEOREM PassInvariance == Spec => [](Inv /\ PassInv)
<1>1. Inv /\ PassInv /\ [Next]_vars => Inv' /\ PassInv'
  BY NextInv, NextPassInv
<1> QED
  BY <1>1, InitInv, InitPassInv, PTL DEF Spec

\* The optionals hold at most one value each and every registered pass and
\* recorded invocation comes from a declaration of a loaded text.
THEOREM TypeCorrect == Spec => []TypeOK
<1>1. Inv => TypeOK
  BY DEF Inv
<1> QED
  BY <1>1, Invariance, PTL

\* Whatever was loaded and wherever it threw, RunScript never prepares a
\* function of an engine that has been destroyed.
THEOREM FuncNeverDangles == Spec => []FuncOfLiveEngine
<1>1. Inv => FuncOfLiveEngine
  BY DEF Inv
<1> QED
  BY <1>1, Invariance, PTL

\* The lines of a runtime error are translated with the source map of the
\* render graph that is running.
THEOREM ErrorsTranslatedWithOwnMap == Spec => []SourceMapOfFunc
<1>1. Inv => SourceMapOfFunc
  BY DEF Inv
<1> QED
  BY <1>1, Invariance, PTL

\* Of several render graph blocks the last one runs once the text is accepted.
THEOREM LastRendergraphRuns == Spec => []LastRendergraphWins
<1>1. Inv => LastRendergraphWins
  BY DEF Inv
<1> QED
  BY <1>1, Invariance, PTL

\* A load that throws leaves no function of a block it did not finish.
THEOREM ThrownLoadLeavesNoPart == Spec => []ThrownLoadKeepsOrDisarms
<1>1. Inv => ThrownLoadKeepsOrDisarms
  BY DEF Inv
<1> QED
  BY <1>1, Invariance, PTL

\* A render graph that compiled was built with every pass of its text.
THEOREM FuncHasAllPasses == Spec => []FuncSeesAllPasses
<1>1. Inv /\ PassInv => FuncSeesAllPasses
  BY PassesComplete
<1> QED
  BY <1>1, PassInvariance, PTL

\* A run answers with invocations of its own program's passes only.
THEOREM RunsRecordOwnPasses == Spec => []EventsOfThisProgram
<1>1. PassInv => EventsOfThisProgram
  BY DEF PassInv
<1> QED
  BY <1>1, PassInvariance, PTL
-----------------------------------------------------------------------------
(* The loader behind the JSON interface (JsonApi.tla), for all texts.       *)

\* pc inside LoadScript, and inside RunScript.
Loading == {"parse", "include_graph", "blocks", "recreate", "register", "build",
            "load_returned"}
Running == {"run", "main", "run_returned"}

\* The process ends.
Dies ==
    /\ pc \in {"idle", "run_returned"}
    /\ Goto("dead")
    /\ UNCHANGED rg_vars

LEMMA LoaderStep ==
    ASSUME [JsonNext]_json_vars
    PROVE  [Next]_vars \/ Dies
<1>1. CASE JsonLoadScript \/ JsonRunScript
  BY <1>1 DEF JsonLoadScript, JsonRunScript, Next
<1>2. CASE \/ JsonLoadScriptAccepts \/ JsonLoadScriptRejects \/ JsonRunScriptThrows
           \/ JsonRunScriptAnswers \/ JsonUnknownTypeThrows
  BY <1>2 DEF JsonLoadScriptAccepts, JsonLoadScriptRejects, JsonRunScriptThrows,
              JsonRunScriptAnswers, JsonUnknownTypeThrows, Next
<1>3. CASE LoadScript \/ RunScript
  BY <1>3 DEF Next
<1>4. CASE JsonRunScriptNoInstance
  BY <1>4 DEF JsonRunScriptNoInstance, Dies
<1>5. CASE JsonAssertFails
  BY <1>5 DEF JsonAssertFails, Dies, Next
<1>6. CASE JsonBadContextInputs \/ Dead \/ UNCHANGED json_vars
  BY <1>6 DEF JsonBadContextInputs, Dead, json_vars
<1> QED
  BY <1>1, <1>2, <1>3, <1>4, <1>5, <1>6 DEF JsonNext

LEMMA LoaderInv ==
    ASSUME Inv, PassInv, [JsonNext]_json_vars
    PROVE  Inv' /\ PassInv'
<1>1. CASE [Next]_vars
  BY <1>1, NextInv, NextPassInv
<1>2. CASE Dies
  <2>1. /\ load' = load /\ text' = text /\ source_assembler' = source_assembler
        /\ block_idx' = block_idx /\ as_script_engine' = as_script_engine
        /\ as_script_func' = as_script_func /\ script_events' = script_events
        /\ requested_formats' = requested_formats
        /\ result' = result /\ pc' = "dead"
    BY <1>2 DEF Dies, Goto, rg_vars
  <2>2. TypeOK'
    BY <2>1 DEF Inv, TypeOK, AtMostOne, Labels
  <2>3. Inv'
    BY <1>2, <2>1, <2>2
       DEF Dies, Inv, FuncAge, Compiling, Compiled, FuncOfLiveEngine, SourceMapOfFunc,
           LastRendergraphWins, ThrownLoadKeepsOrDisarms
  <2> QED
    BY <2>1, <2>3 DEF PassInv, EngineAge, Registered, FreshRun, EventsOfThisProgram
<1> QED
  BY <1>1, <1>2, LoaderStep

-----------------------------------------------------------------------------
(* The descriptions the host holds, for all texts.                          *)

\* The descriptions of the passes of an engine.
Described(passes) == [i \in DOMAIN passes |-> CreateShaderDesc(passes[i])]

\* A function of the load the host has the descriptions of was built with exactly
\* the passes described.
OwnDescriptions ==
    /\ script_contents.load \in Nat
    /\ \A func \in as_script_func : func.engine.load # 0
    /\ pc \in Loading => script_contents.load < load
    /\ script_contents.load <= load
    /\ \A func \in as_script_func, engine \in as_script_engine :
          func.engine.load = script_contents.load =>
              script_contents.shader_descs = Described(engine.passes)

FuncRan == pc = "main" \/ (pc = "run_returned" /\ result = "events") => as_script_func # {}

HostInv == Inv /\ PassInv /\ JsonTypeOK /\ OwnDescriptions /\ FuncRan

LEMMA FuncRanStep ==
    ASSUME FuncRan, [JsonNext]_json_vars
    PROVE  FuncRan'
<1>1. CASE CallLoadScript \/ LoadScript
  BY <1>1
     DEF FuncRan, CallLoadScript, LoadScript, ParseThrows, Parse,
         BuildBlockDirectGraphThrows, FlattenGraphThrows, BuildIncludeGraph, SkipBlock,
         RendergraphWithoutDeclarationThrows, AssembleSource, RecreateEngine, RegisterPass,
         RegisterPassThrows, PassesRegistered, CallPassWhileBuilding,
         RequestImageWhileBuilding, BuildThrows, Build, LoadScriptReturns, Goto, Leave,
         NextBlock
<1>2. CASE CallRunScript \/ RunScript
  BY <1>2
     DEF FuncRan, CallRunScript, RunScript, NoScriptLoadedThrows, PrepareNullMainThrows,
         PrepareMain, CallPass, RequestImageInMain, MainThrows, MainReturns,
         ResetScriptEvents, InvokePass, RequestImage, Goto, Leave, rg_vars, Exceptions
<1>3. CASE Return \/ Dies
  BY <1>3 DEF FuncRan, Return, Dies, Goto
<1>4. CASE UNCHANGED vars
  BY <1>4 DEF FuncRan, vars, ls_vars, rg_vars
<1> QED
  BY <1>1, <1>2, <1>3, <1>4, LoaderStep DEF Next

\* RunScript, and the answers of both calls but an accepted text's, leave the
\* program and the descriptions alone.
RunStep ==
    \/ JsonRunScriptNoInstance \/ JsonBadContextInputs \/ JsonRunScript
    \/ RunScript /\ UNCHANGED <<instance, script_contents, answer>>
    \/ JsonRunScriptThrows \/ JsonRunScriptAnswers \/ JsonUnknownTypeThrows
    \/ JsonAssertFails

LEMMA RunStepLeaves ==
    ASSUME RunStep
    PROVE  /\ load' = load /\ instance' = instance /\ script_contents' = script_contents
           /\ as_script_func' = as_script_func /\ as_script_engine' = as_script_engine
           /\ pc \notin Loading /\ pc' \notin Loading
<1>1. CASE JsonRunScript \/ (RunScript /\ UNCHANGED <<instance, script_contents, answer>>)
  BY <1>1 DEF JsonRunScript, CallRunScript, RunScript, NoScriptLoadedThrows,
              PrepareNullMainThrows, PrepareMain, CallPass, RequestImageInMain,
              MainThrows, MainReturns, ResetScriptEvents, InvokePass, RequestImage, Goto,
              Leave, rg_vars, Loading
<1>2. CASE JsonRunScriptNoInstance \/ JsonBadContextInputs
  BY <1>2 DEF JsonRunScriptNoInstance, JsonBadContextInputs, Goto, vars, ls_vars, rg_vars,
              Loading
<1>3. CASE \/ JsonRunScriptThrows \/ JsonRunScriptAnswers \/ JsonUnknownTypeThrows
           \/ JsonAssertFails
  BY <1>3 DEF JsonRunScriptThrows, JsonRunScriptAnswers, JsonUnknownTypeThrows,
              JsonAssertFails, Goto, Return, rg_vars, Loading
<1> QED
  BY <1>1, <1>2, <1>3 DEF RunStep

\* A load that gets on replaces the program by one of its own, which the host has
\* no descriptions of yet.
LEMMA LoadingDescriptions ==
    ASSUME Inv, OwnDescriptions, CallLoadScript \/ LoadScript, UNCHANGED script_contents
    PROVE  OwnDescriptions'
<1>1. CASE CallLoadScript
  <2>1. /\ pc = "idle" /\ pc' = "parse" /\ load' = load + 1
        /\ as_script_func' = as_script_func /\ as_script_engine' = as_script_engine
    BY <1>1 DEF CallLoadScript, rg_vars
  <2>2. script_contents.load <= load /\ load \in Nat /\ script_contents.load \in Nat
    BY Kinds DEF OwnDescriptions
  <2>3. script_contents.load < load + 1 /\ script_contents.load <= load + 1
    BY <2>2
  <2> QED
    BY <2>1, <2>2, <2>3 DEF OwnDescriptions, Loading
<1>2. CASE Build
  <2>1. PICK engine \in as_script_engine, main \in BOOLEAN :
            as_script_func' = {[engine |-> engine.id, main |-> main]}
    BY <1>2 DEF Build, GetMainFunction
  <2>2. engine.id = Id /\ Id.load = load
    BY <1>2 DEF Build, Inv, Compiling, Id
  <2>3. load' = load /\ pc \in Loading /\ pc' \in Loading
    BY <1>2 DEF Build, NextBlock, Loading
  <2>4. script_contents.load < load /\ script_contents.load \in Nat /\ load \in Nat
    BY <2>3, Kinds DEF OwnDescriptions
  <2>5. script_contents.load # load /\ load # 0
    BY <2>4
  <2>6. \A func \in as_script_func' : func.engine.load = load
    BY <2>1, <2>2
  <2> QED
    BY <2>3, <2>4, <2>5, <2>6 DEF OwnDescriptions
<1>3. CASE LoadScript /\ ~Build
  <2>1. /\ load' = load /\ pc \in Loading /\ pc' \in Loading
        /\ \/ as_script_func' = as_script_func /\ as_script_engine' = as_script_engine
           \/ as_script_func' = as_script_func /\ RegisterPass
           \/ as_script_func' = {}
    BY <1>3
       DEF Loading, LoadScript, ParseThrows, Parse, BuildBlockDirectGraphThrows,
           FlattenGraphThrows, BuildIncludeGraph, SkipBlock,
           RendergraphWithoutDeclarationThrows, AssembleSource, RecreateEngine,
           RecreateAsScriptEngine, RegisterPass, RegisterAsScriptPassFunction,
           RegisterPassThrows, PassesRegistered, CallPassWhileBuilding,
           RequestImageWhileBuilding, BuildThrows, LoadScriptReturns, InvokePass,
           RequestImage, Goto, Leave, NextBlock, rg_vars
  <2>2. RegisterPass => as_script_func = {}
    BY DEF RegisterPass, Inv, Compiling
  <2> QED
    BY <2>1, <2>2 DEF OwnDescriptions
<1> QED
  BY <1>1, <1>2, <1>3

\* The descriptions of an accepted text are those of the program it leaves, if it
\* leaves one of its own.
LEMMA AcceptDescriptions ==
    ASSUME Inv, PassInv, OwnDescriptions, JsonLoadScriptAccepts
    PROVE  /\ OwnDescriptions'
           /\ script_contents'.load = load
<1>1. PICK t \in text :
          script_contents' = [load |-> load, shader_descs |-> ShaderDescs(t)]
  BY DEF JsonLoadScriptAccepts
<1>2. /\ load' = load /\ pc = "load_returned" /\ result = "contents" /\ pc' = "idle"
      /\ as_script_func' = as_script_func /\ as_script_engine' = as_script_engine
  BY DEF JsonLoadScriptAccepts, Return, rg_vars
<1>3. ASSUME NEW func \in as_script_func, NEW engine \in as_script_engine,
             func.engine.load = load
      PROVE  script_contents'.shader_descs = Described(engine.passes)
  <2>1. engine.id = func.engine
    BY DEF Inv, FuncOfLiveEngine, TypeOK, AtMostOne
  <2>2. engine.passes = PassDecls(t)
    BY <1>2, <1>3, <2>1 DEF PassInv, Registered
  <2> QED
    BY <1>1, <2>2 DEF ShaderDescs, Described
<1>4. load \in Nat
  BY Kinds
<1>5. OwnDescriptions'
  BY <1>1, <1>2, <1>3, <1>4 DEF OwnDescriptions, Loading, Described
<1> QED
  BY <1>1, <1>5

LEMMA DescriptionsStep ==
    ASSUME Inv, PassInv, OwnDescriptions, [JsonNext]_json_vars
    PROVE  OwnDescriptions'
<1>1. CASE \/ JsonLoadScript
           \/ LoadScript /\ UNCHANGED <<instance, script_contents, answer>>
  BY <1>1, LoadingDescriptions DEF JsonLoadScript
<1>2. CASE JsonLoadScriptAccepts
  BY <1>2, AcceptDescriptions
<1>3. CASE JsonLoadScriptRejects
  BY <1>3 DEF JsonLoadScriptRejects, Return, rg_vars, OwnDescriptions, Loading
<1>4. CASE RunStep
  BY <1>4, RunStepLeaves DEF OwnDescriptions
<1>5. CASE Dead \/ UNCHANGED json_vars
  BY <1>5 DEF Dead, json_vars, vars, ls_vars, rg_vars, OwnDescriptions
<1> QED
  BY <1>1, <1>2, <1>3, <1>4, <1>5 DEF JsonNext, RunStep

LEMMA JsonTypeStep ==
    ASSUME Inv, PassInv, JsonTypeOK, OwnDescriptions, [JsonNext]_json_vars
    PROVE  JsonTypeOK'
<1>1. TypeOK'
  BY LoaderInv DEF Inv
<1>2. answer' \in Answers
  <2>1. CASE \/ JsonLoadScriptAccepts \/ JsonLoadScriptRejects \/ JsonRunScriptNoInstance
             \/ JsonBadContextInputs \/ JsonRunScript \/ JsonRunScriptThrows
             \/ JsonRunScriptAnswers \/ JsonUnknownTypeThrows \/ JsonAssertFails
             \/ JsonLoadScript
    BY <2>1, AssertOutcomesAssumption
       DEF JsonLoadScript, JsonLoadScriptAccepts, JsonLoadScriptRejects,
           JsonRunScriptNoInstance, JsonBadContextInputs, JsonRunScript,
           JsonRunScriptThrows, JsonRunScriptAnswers, JsonUnknownTypeThrows,
           JsonAssertFails, Dump, Answers, AssertFailures, Exceptions
  <2>2. CASE UNCHANGED answer
    BY <2>2 DEF JsonTypeOK
  <2> QED
    BY <2>1, <2>2 DEF JsonNext, Dead, json_vars
<1>3. instance' \in BOOLEAN /\ script_contents'.load \in 0..MaxLoads
  <2>1. CASE JsonLoadScript \/ JsonLoadScriptRejects
    BY <2>1 DEF JsonLoadScript, JsonLoadScriptRejects, JsonTypeOK
  <2>2. CASE JsonLoadScriptAccepts
    BY <2>2, AcceptDescriptions DEF JsonLoadScriptAccepts, JsonTypeOK, TypeOK
  <2>3. CASE RunStep
    BY <2>3, RunStepLeaves DEF JsonTypeOK
  <2>4. CASE UNCHANGED <<instance, script_contents>>
    BY <2>4 DEF JsonTypeOK
  <2> QED
    BY <2>1, <2>2, <2>3, <2>4 DEF JsonNext, RunStep, Dead, json_vars
<1> QED
  BY <1>1, <1>2, <1>3 DEF JsonTypeOK

LEMMA InitHostInv == JsonInit => HostInv
<1> SUFFICES ASSUME JsonInit
             PROVE  HostInv
  OBVIOUS
<1>1. Inv /\ PassInv
  BY InitInv, InitPassInv DEF JsonInit
<1>2. /\ pc = "idle" /\ load = 0 /\ as_script_engine = {} /\ as_script_func = {}
      /\ script_contents.load = 0
  BY DEF JsonInit, Init, RGInit
<1>3. OwnDescriptions /\ FuncRan
  BY <1>2 DEF OwnDescriptions, FuncRan, Loading
<1>4. JsonTypeOK
  <2>1. TypeOK
    BY <1>1 DEF Inv
  <2>2. instance = FALSE /\ answer = "none" /\ 0 \in 0..MaxLoads
    BY BoundsAssumption DEF JsonInit
  <2> QED
    BY <1>2, <2>1, <2>2 DEF JsonTypeOK, Answers
<1> QED
  BY <1>1, <1>3, <1>4 DEF HostInv

LEMMA NextHostInv ==
    ASSUME HostInv, [JsonNext]_json_vars
    PROVE  HostInv'
BY LoaderInv, JsonTypeStep, DescriptionsStep, FuncRanStep DEF HostInv

\* What a run of a described program with distinct pass names recorded fits the
\* descriptions.
LEMMA SerializesDescribed ==
    ASSUME Inv, PassInv, OwnDescriptions, FuncRan,
           pc = "run_returned", result = "events",
           \A func \in as_script_func : func.engine.load = script_contents.load,
           \A i, j \in DOMAIN script_contents.shader_descs :
               script_contents.shader_descs[i].name = script_contents.shader_descs[j].name
                   => i = j,
           NEW n \in DOMAIN script_events
    PROVE  /\ MatchingUniforms(script_contents.shader_descs, script_events[n].shader_name)
                  = CreateShaderDesc(script_events[n].decl).uniforms
           /\ AllJson(SerializeInvocation(script_events[n], script_contents.shader_descs))
<1> DEFINE descs == script_contents.shader_descs
<1>1. PICK func \in as_script_func : TRUE
  BY DEF FuncRan
<1>2. PICK engine \in as_script_engine : TRUE
  BY <1>1 DEF Inv, FuncOfLiveEngine
<1>3. descs = Described(engine.passes)
  BY DEF OwnDescriptions
<1>4. PICK i \in DOMAIN engine.passes : script_events[n] = ShaderInvocation(engine.passes[i])
  BY DEF PassInv, EventsOfThisProgram
<1> DEFINE decl == engine.passes[i]
<1>5. decl \in PassFunctions
  BY DEF Inv, TypeOK
<1>6. /\ script_events[n].shader_name = decl.name
      /\ script_events[n].decl = decl
      /\ script_events[n].uniform_values = UniformSizes(decl)
  BY <1>4 DEF ShaderInvocation
<1> DEFINE found == {k \in DOMAIN descs : descs[k].name = decl.name}
<1>7. found = {i}
  <2>1. i \in DOMAIN descs /\ descs[i].name = decl.name
    BY <1>3 DEF Described, CreateShaderDesc
  <2>2. \A k \in DOMAIN descs : descs[k].name = descs[i].name => k = i
    BY <2>1
  <2> QED
    BY <2>1, <2>2
<1>8. (CHOOSE k \in found : \A j \in found \ {k} : j < k) = i
  BY <1>7
<1>9. MatchingUniforms(descs, decl.name) = descs[i].uniforms
  BY <1>7, <1>8 DEF MatchingUniforms
<1>10. descs[i].uniforms = CreateShaderDesc(decl).uniforms
  BY <1>3 DEF Described, CreateShaderDesc
<1> DEFINE types == CreateShaderDesc(decl).uniforms
           sizes == UniformSizes(decl)
<1>11. /\ DOMAIN sizes = DOMAIN Uniforms(decl) /\ DOMAIN types = DOMAIN Uniforms(decl)
       /\ \A j \in DOMAIN Uniforms(decl) :
              sizes[j] = SizeOf(Uniforms(decl)[j].type) /\ types[j] = Uniforms(decl)[j].type
  BY DEF UniformSizes, CreateShaderDesc
<1>12. \A j \in DOMAIN Uniforms(decl) : Uniforms(decl)[j].type # "void"
  BY <1>5 DEF PassFunctions, TakesVoid
<1>13. \A j \in DOMAIN Uniforms(decl) : SerializeUniformVal(sizes[j], types[j]) = "json"
  BY <1>11, <1>12 DEF SerializeUniformVal
<1>14. AllJson(SerializeUniforms(sizes, types))
  BY <1>11, <1>13 DEF SerializeUniforms, AllJson
<1>15. SerializeInvocation(script_events[n], descs) = SerializeUniforms(sizes, types)
  BY <1>6, <1>9, <1>10 DEF SerializeInvocation
<1> QED
  BY <1>6, <1>9, <1>10, <1>14, <1>15

-----------------------------------------------------------------------------
\* Behind the interface, too, every part of the program fits, and it fits the
\* descriptions of its load.
THEOREM HostInvariance == JsonSpec => []HostInv
<1>1. HostInv /\ [JsonNext]_json_vars => HostInv'
  BY NextHostInv
<1> QED
  BY <1>1, InitHostInv, PTL DEF JsonSpec

\* The interface's globals and answers stay of their kinds.
THEOREM JsonTypeCorrect == JsonSpec => []JsonTypeOK
<1>1. HostInv => JsonTypeOK
  BY DEF HostInv
<1> QED
  BY <1>1, HostInvariance, PTL

\* For every set of texts a frame that cannot be serialised requested an image of
\* a format the enum does not name, or is one of a program the host has no
\* descriptions of, or of one with two passes of a name.
THEOREM DescribedFramesSerialize == JsonSpec => []SerializesOwnDescriptions
<1>1. HostInv => SerializesOwnDescriptions
  BY SerializesDescribed
     DEF HostInv, SerializesOwnDescriptions, Serializable, SerializeContextRequests
<1> QED
  BY <1>1, HostInvariance, PTL
=============================================================================
