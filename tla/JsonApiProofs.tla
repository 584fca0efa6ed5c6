--------------------------- MODULE JsonApiProofs ---------------------------
(***************************************************************************)
(* Proofs about JsonApi.tla for every set of well-formed texts, every bound *)
(* and every build: a frame is serialised with the descriptions of the      *)
(* program that made it, and the two calls implement ScriptService.tla.     *)
(*                                                                         *)
(* What holds of every host and every text is in LegitScriptProofs.tla      *)
(* (HostInv).  Pairing is the argument of this module: with one render      *)
(* graph to a text the function is of the load the host has the             *)
(* descriptions of, except while a load is in progress.                     *)
(***************************************************************************)
EXTENDS WellFormedTexts, LegitScriptProofs

\* The function of the load in progress is the one of a render graph block of
\* its text.
FuncBlock ==
    pc \in Loading =>
        \A t \in text, func \in as_script_func :
            func.engine.load = load => func.engine.block \in RendergraphBlocks(t)

\* A load is made of one text that reached this place.
TextReached ==
    /\ pc \in Loading => \E t \in Texts : text = {t}
    /\ pc = "include_graph" => \A t \in text : t.parses
    /\ pc \in {"blocks", "recreate", "register", "build"}
           \/ (pc = "load_returned" /\ result = "contents") =>
          \A t \in text : t.parses /\ t.includes = "ok"

\* A text that was rejected leaves no function of its own.
RejectedWithoutFunc ==
    pc = "load_returned" /\ result \in Exceptions =>
        \A func \in as_script_func : func.engine.load # load

ReturnedResult == pc = "load_returned" => result \in {"contents"} \cup Exceptions

TextInv == FuncBlock /\ TextReached /\ RejectedWithoutFunc /\ ReturnedResult

\* The program is the one described, except while a load is replacing it.
Pairing ==
    /\ pc \in Loading =>
          \A func \in as_script_func : func.engine.load \in {script_contents.load, load}
    /\ pc \notin Loading =>
          \A func \in as_script_func : func.engine.load = script_contents.load

\* The passes an engine holds have distinct names.
DistinctNames ==
    \A engine \in as_script_engine : \A i, j \in DOMAIN engine.passes :
        engine.passes[i].name = engine.passes[j].name => i = j

CallInProgress == pc \in Loading \cup Running => answer = "none"

JsonInv ==
    /\ HostInv /\ TextInv
    /\ Pairing /\ DistinctNames /\ CallInProgress
    /\ SerializeAssertionsHold /\ EventsDescribedByTheirPass
    /\ (answer = "events" => as_script_func # {} /\ pc = "idle")

-----------------------------------------------------------------------------
(* What a load knows of its text.                                           *)

LEMMA CompileTextInv ==
    ASSUME Inv, TextInv,
           \/ CallLoadScript \/ Parse \/ BuildIncludeGraph \/ SkipBlock \/ AssembleSource
           \/ RecreateEngine \/ RegisterPass \/ PassesRegistered
           \/ CallPassWhileBuilding \/ RequestImageWhileBuilding \/ Build
           \/ LoadScriptReturns
    PROVE  TextInv'
<1>1. CASE CallLoadScript
  <2>1. /\ pc' = "parse" /\ load' = load + 1 /\ as_script_func' = as_script_func
        /\ \E t \in Texts : text' = {t}
    BY <1>1 DEF CallLoadScript, rg_vars
  <2>2. \A func \in as_script_func : func.engine.load # load'
    BY <2>1, Kinds DEF Inv, FuncAge
  <2> QED
    BY <2>1, <2>2 DEF TextInv, FuncBlock, TextReached, RejectedWithoutFunc, ReturnedResult
<1>2. CASE Parse \/ BuildIncludeGraph
  <2>1. /\ load' = load /\ text' = text /\ as_script_func' = as_script_func
        /\ \/ pc = "parse" /\ pc' = "include_graph" /\ \E t \in text : t.parses
           \/ pc = "include_graph" /\ pc' = "blocks" /\ \E t \in text : t.includes = "ok"
    BY <1>2 DEF Parse, BuildIncludeGraph, Goto, rg_vars
  <2>2. \A t, u \in text : t = u
    BY DEF Inv, TypeOK, AtMostOne
  <2>3. TextReached'
    BY <2>1, <2>2 DEF TextInv, TextReached, Loading
  <2>4. FuncBlock'
    BY <2>1 DEF TextInv, FuncBlock, RendergraphBlocks, Loading
  <2> QED
    BY <2>1, <2>3, <2>4 DEF TextInv, RejectedWithoutFunc, ReturnedResult
<1>3. CASE Build
  <2>1. PICK engine \in as_script_engine, main \in BOOLEAN :
            as_script_func' = {[engine |-> engine.id, main |-> main]}
    BY <1>3 DEF Build, GetMainFunction
  <2>2. load' = load /\ text' = text /\ pc = "build" /\ pc' = "blocks"
    BY <1>3 DEF Build, NextBlock
  <2>3. engine.id = Id /\ \A t \in text : block_idx \in RendergraphBlocks(t)
    BY <2>2 DEF Inv, Compiling
  <2>4. FuncBlock'
    BY <2>1, <2>2, <2>3 DEF FuncBlock, RendergraphBlocks, Id
  <2> QED
    BY <2>2, <2>4 DEF TextInv, TextReached, RejectedWithoutFunc, ReturnedResult,
                      Loading
<1>4. CASE \/ SkipBlock \/ AssembleSource \/ RecreateEngine \/ RegisterPass
           \/ PassesRegistered \/ CallPassWhileBuilding
           \/ RequestImageWhileBuilding \/ LoadScriptReturns
  <2>1. /\ load' = load /\ text' = text /\ as_script_func' \in {as_script_func, {}}
        /\ pc \in {"blocks", "recreate", "register", "build"}
        /\ \/ pc' \in {"blocks", "recreate", "register", "build"}
           \/ pc' = "load_returned" /\ result' = "contents"
    BY <1>4 DEF SkipBlock, AssembleSource, RecreateEngine, RecreateAsScriptEngine,
                RegisterPass, RegisterAsScriptPassFunction, PassesRegistered,
                CallPassWhileBuilding, RequestImageWhileBuilding, InvokePass,
                RequestImage, LoadScriptReturns, NextBlock, Goto, Leave, rg_vars
  <2>2. FuncBlock'
    BY <2>1 DEF TextInv, FuncBlock, RendergraphBlocks, Loading
  <2>3. TextReached'
    BY <2>1 DEF TextInv, TextReached, Loading
  <2> QED
    BY <2>1, <2>2, <2>3 DEF TextInv, RejectedWithoutFunc, ReturnedResult,
                            Exceptions
<1> QED
  BY <1>1, <1>2, <1>3, <1>4

\* With one render graph in a text, a block that fails has no earlier one.
LEMMA LoadThrowsTextInv ==
    ASSUME Inv, TextInv,
           \/ ParseThrows \/ BuildBlockDirectGraphThrows \/ FlattenGraphThrows
           \/ RendergraphWithoutDeclarationThrows \/ RegisterPassThrows \/ BuildThrows
    PROVE  TextInv'
<1>1. /\ load' = load /\ text' = text /\ as_script_func' = as_script_func
      /\ block_idx' = block_idx
      /\ pc \in {"parse", "include_graph", "blocks", "register", "build"}
      /\ pc' = "load_returned" /\ result' \in Exceptions
  BY DEF ParseThrows, BuildBlockDirectGraphThrows, FlattenGraphThrows,
         RendergraphWithoutDeclarationThrows, RegisterPassThrows, BuildThrows,
         Leave, rg_vars, Exceptions
<1>2. RejectedWithoutFunc'
  <2>1. ASSUME NEW func \in as_script_func, func.engine.load = load
        PROVE  FALSE
    <3>1. CASE pc \in {"parse", "include_graph"}
      BY <2>1, <3>1, Kinds DEF Inv, FuncAge
    <3>2. CASE pc = "blocks"
      <4>1. RendergraphWithoutDeclarationThrows
        BY <3>2 DEF ParseThrows, BuildBlockDirectGraphThrows, FlattenGraphThrows,
                    RegisterPassThrows, BuildThrows
      <4>2. PICK t \in text : block_idx \in RendergraphBlocks(t)
        BY <4>1 DEF RendergraphWithoutDeclarationThrows, RendergraphBlocks
      <4>3. t \in Texts /\ t.parses /\ t.includes = "ok"
        BY <3>2, Kinds DEF TextInv, TextReached
      <4>4. func.engine.block \in RendergraphBlocks(t)
        BY <2>1, <3>2 DEF TextInv, FuncBlock, Loading
      <4>5. func.engine.block = block_idx
        BY <4>2, <4>3, <4>4, OneRendergraphAssumption
      <4> QED
        BY <2>1, <3>2, <4>5, Kinds DEF Inv, FuncAge
    <3>3. CASE pc \in {"register", "build"}
      BY <2>1, <3>3 DEF Inv, Compiling
    <3> QED
      BY <1>1, <3>1, <3>2, <3>3
  <2> QED
    BY <1>1, <2>1 DEF RejectedWithoutFunc
<1>3. FuncBlock' /\ TextReached'
  BY <1>1 DEF TextInv, FuncBlock, TextReached, RendergraphBlocks, Loading, Exceptions
<1> QED
  BY <1>1, <1>2, <1>3 DEF TextInv, ReturnedResult

LEMMA JsonTextInv ==
    ASSUME Inv, TextInv, [JsonNext]_json_vars
    PROVE  TextInv'
<1>1. CASE CallLoadScript \/ LoadScript
  BY <1>1, CompileTextInv, LoadThrowsTextInv DEF LoadScript
<1>2. CASE CallRunScript \/ RunScript
  <2>1. pc' \in {"run", "main", "run_returned"}
    BY <1>2 DEF CallRunScript, RunScript, NoScriptLoadedThrows, PrepareNullMainThrows,
                PrepareMain, CallPass, RequestImageInMain, MainThrows, MainReturns,
                ResetScriptEvents, InvokePass, RequestImage, Goto, Leave, rg_vars,
                Exceptions
  <2> QED
    BY <2>1 DEF TextInv, FuncBlock, TextReached, RejectedWithoutFunc, ReturnedResult,
                FuncRan, Loading
<1>3. CASE Return \/ Dies
  BY <1>3 DEF Return, Dies, Goto, rg_vars, TextInv, FuncBlock, TextReached,
              RejectedWithoutFunc, ReturnedResult, Loading
<1>4. CASE UNCHANGED vars
  BY <1>4 DEF vars, ls_vars, rg_vars, TextInv, FuncBlock, TextReached, RendergraphBlocks,
              RejectedWithoutFunc, ReturnedResult
<1> QED
  BY <1>1, <1>2, <1>3, <1>4, LoaderStep DEF Next

-----------------------------------------------------------------------------
(* The program and its descriptions.                                        *)

LEMMA DistinctNamesStep ==
    ASSUME Inv, PassInv, DistinctNames, [JsonNext]_json_vars
    PROVE  DistinctNames'
<1>1. CASE RegisterPass
  <2>1. PICK t \in text, engine \in as_script_engine :
            /\ Len(engine.passes) + 1 \in DOMAIN PassDecls(t)
            /\ RegisterAsScriptPassFunction(engine, PassDecls(t)[Len(engine.passes) + 1])
    BY <1>1 DEF RegisterPass
  <2> DEFINE passes == Append(engine.passes, PassDecls(t)[Len(engine.passes) + 1])
  <2>2. as_script_engine' = {[engine EXCEPT !.passes = passes]}
    BY <2>1 DEF RegisterAsScriptPassFunction
  <2>3. engine \in [id : Ids, passes : Seq(PassFunctions)]
    BY DEF Inv, TypeOK
  <2>4. PrefixOf(engine.passes, t)
    BY <1>1 DEF RegisterPass, PassInv, Registered
  <2>5. ASSUME NEW i \in DOMAIN passes
        PROVE  i \in DOMAIN PassDecls(t) /\ passes[i] = PassDecls(t)[i]
    <3>1. CASE i \in DOMAIN engine.passes
      BY <3>1, <2>3, <2>4 DEF PrefixOf
    <3>2. CASE i \notin DOMAIN engine.passes
      BY <3>2, <2>1, <2>3
    <3> QED
      BY <3>1, <3>2
  <2>6. t \in Texts
    BY Kinds
  <2> HIDE DEF passes
  <2>7. [engine EXCEPT !.passes = passes].passes = passes
    BY <2>3
  <2>8. \A i, j \in DOMAIN passes : passes[i].name = passes[j].name => i = j
    BY <2>5, <2>6, DistinctPassesAssumption
  <2> QED
    BY <2>2, <2>7, <2>8 DEF DistinctNames
<1>2. CASE RecreateEngine
  BY <1>2 DEF RecreateEngine, RecreateAsScriptEngine, DistinctNames
<1>3. CASE as_script_engine' = as_script_engine
  BY <1>3 DEF DistinctNames
<1>4. \/ RegisterPass \/ RecreateEngine \/ as_script_engine' = as_script_engine
  BY LoaderStep
     DEF Next, CallLoadScript, LoadScript, ParseThrows, Parse, BuildBlockDirectGraphThrows,
         FlattenGraphThrows, BuildIncludeGraph, SkipBlock,
         RendergraphWithoutDeclarationThrows, AssembleSource, RegisterPassThrows,
         PassesRegistered, CallPassWhileBuilding, RequestImageWhileBuilding, BuildThrows,
         Build, GetMainFunction, LoadScriptReturns, CallRunScript, RunScript,
         NoScriptLoadedThrows, PrepareNullMainThrows, PrepareMain, CallPass,
         RequestImageInMain, MainThrows, MainReturns, ResetScriptEvents, InvokePass,
         RequestImage, Goto, Leave, NextBlock, Return, Dies, vars, rg_vars
<1> QED
  BY <1>1, <1>2, <1>3, <1>4

\* A load has at most one program that is not the one described: its own.
LEMMA LoadingPairing ==
    ASSUME Inv, Pairing, CallLoadScript \/ LoadScript, UNCHANGED script_contents
    PROVE  Pairing'
<1>1. CASE CallLoadScript
  BY <1>1 DEF CallLoadScript, rg_vars, Pairing, Loading
<1>2. CASE Build
  <2>1. PICK engine \in as_script_engine, main \in BOOLEAN :
            as_script_func' = {[engine |-> engine.id, main |-> main]}
    BY <1>2 DEF Build, GetMainFunction
  <2>2. engine.id = Id /\ Id.load = load
    BY <1>2 DEF Build, Inv, Compiling, Id
  <2>3. load' = load /\ pc' \in Loading
    BY <1>2 DEF Build, NextBlock, Loading
  <2> QED
    BY <2>1, <2>2, <2>3 DEF Pairing
<1>3. CASE LoadScript /\ ~Build
  <2>1. /\ load' = load /\ pc \in Loading /\ pc' \in Loading
        /\ as_script_func' \in {as_script_func, {}}
    BY <1>3
       DEF Loading, LoadScript, ParseThrows, Parse, BuildBlockDirectGraphThrows,
           FlattenGraphThrows, BuildIncludeGraph, SkipBlock,
           RendergraphWithoutDeclarationThrows, AssembleSource, RecreateEngine,
           RecreateAsScriptEngine, RegisterPass, RegisterAsScriptPassFunction,
           RegisterPassThrows, PassesRegistered, CallPassWhileBuilding,
           RequestImageWhileBuilding, BuildThrows, LoadScriptReturns, InvokePass,
           RequestImage, Goto, Leave, NextBlock, rg_vars
  <2> QED
    BY <2>1 DEF Pairing
<1> QED
  BY <1>1, <1>2, <1>3

\* An accepted text arrives with the program of its render graph.
LEMMA AcceptPairing ==
    ASSUME Inv, PassInv, TextInv, OwnDescriptions, JsonLoadScriptAccepts
    PROVE  /\ Pairing'
           /\ script_contents'.load = load
           /\ as_script_func # {}
           /\ \A func \in as_script_func : func.engine.load = load
<1>1. PICK t \in text : TRUE
  BY DEF JsonLoadScriptAccepts
<1>2. /\ load' = load /\ pc = "load_returned" /\ result = "contents" /\ pc' = "idle"
      /\ as_script_func' = as_script_func
  BY DEF JsonLoadScriptAccepts, Return, rg_vars
<1>3. t \in Texts /\ t.parses /\ t.includes = "ok"
  BY <1>2, Kinds DEF TextInv, TextReached
<1>4. PICK only \in DOMAIN t.blocks : RendergraphBlocks(t) = {only}
  BY <1>3, OneRendergraphAssumption
<1>5. only <= only
  BY <1>3, Kinds
<1>6. \E func \in as_script_func : func.engine = [load |-> load, block |-> only]
  BY <1>2, <1>4, <1>5 DEF Inv, LastRendergraphWins
<1>7. \A func \in as_script_func : func.engine.load = load
  BY <1>6 DEF Inv, TypeOK, AtMostOne
<1>8. script_contents'.load = load
  BY AcceptDescriptions
<1>9. Pairing'
  BY <1>2, <1>7, <1>8 DEF Pairing, Loading
<1> QED
  BY <1>6, <1>7, <1>8, <1>9

LEMMA JsonPairing ==
    ASSUME Inv, PassInv, TextInv, OwnDescriptions, Pairing, [JsonNext]_json_vars
    PROVE  Pairing'
<1>1. CASE \/ JsonLoadScript
           \/ LoadScript /\ UNCHANGED <<instance, script_contents, answer>>
  BY <1>1, LoadingPairing DEF JsonLoadScript
<1>2. CASE JsonLoadScriptAccepts
  BY <1>2, AcceptPairing
<1>3. CASE JsonLoadScriptRejects
  BY <1>3
     DEF JsonLoadScriptRejects, Return, rg_vars, TextInv, RejectedWithoutFunc, Pairing,
         Loading
<1>4. CASE RunStep
  BY <1>4, RunStepLeaves DEF Pairing
<1>5. CASE Dead \/ UNCHANGED json_vars
  BY <1>5 DEF Dead, json_vars, vars, ls_vars, rg_vars, Pairing
<1> QED
  BY <1>1, <1>2, <1>3, <1>4, <1>5 DEF JsonNext, RunStep

\* What a run recorded fits the descriptions the host holds.
LEMMA SerializesOwn ==
    ASSUME HostInv, Pairing, DistinctNames,
           pc = "run_returned", result = "events",
           NEW n \in DOMAIN script_events
    PROVE  /\ MatchingUniforms(script_contents.shader_descs, script_events[n].shader_name)
                  = CreateShaderDesc(script_events[n].decl).uniforms
           /\ AllJson(SerializeInvocation(script_events[n], script_contents.shader_descs))
<1>1. \A func \in as_script_func : func.engine.load = script_contents.load
  BY DEF Pairing, Loading
<1>2. PICK func \in as_script_func : TRUE
  BY DEF HostInv, FuncRan
<1>3. PICK engine \in as_script_engine : TRUE
  BY <1>2 DEF HostInv, Inv, FuncOfLiveEngine
<1>4. script_contents.shader_descs = Described(engine.passes)
  BY <1>1 DEF HostInv, OwnDescriptions
<1>5. \A i \in DOMAIN engine.passes :
          /\ i \in DOMAIN Described(engine.passes)
          /\ Described(engine.passes)[i].name = engine.passes[i].name
  BY DEF Described, CreateShaderDesc
<1>6. DOMAIN Described(engine.passes) = DOMAIN engine.passes
  BY DEF Described
<1>7. \A i, j \in DOMAIN script_contents.shader_descs :
          script_contents.shader_descs[i].name = script_contents.shader_descs[j].name
              => i = j
  BY <1>4, <1>5, <1>6 DEF DistinctNames
<1> QED
  BY <1>1, <1>7, SerializesDescribed DEF HostInv

LEMMA NoAssertFails ==
    ASSUME HostInv, Pairing, DistinctNames
    PROVE  ~JsonAssertFails
<1> SUFFICES ASSUME JsonAssertFails
             PROVE  FALSE
  OBVIOUS
<1>1. pc = "run_returned" /\ result = "events"
  BY DEF JsonAssertFails
<1>2. SerializeContextRequests(requested_formats)
  BY NamedFormatsAssumption DEF SerializeContextRequests, HostInv, Inv, TypeOK
<1>3. FirstFailureIs("assert", script_events, script_contents.shader_descs)
  BY <1>2 DEF JsonAssertFails
<1>4. PICK n \in DOMAIN script_events :
          LET outcomes == SerializeInvocation(script_events[n], script_contents.shader_descs)
          IN  \E i \in DOMAIN outcomes : outcomes[i] = "assert"
  BY <1>3 DEF FirstFailureIs
<1>5. AllJson(SerializeInvocation(script_events[n], script_contents.shader_descs))
  BY <1>1, SerializesOwn
<1> QED
  BY <1>4, <1>5 DEF AllJson

-----------------------------------------------------------------------------
LEMMA InitJsonInv == JsonInit => JsonInv
<1> SUFFICES ASSUME JsonInit
             PROVE  JsonInv
  OBVIOUS
<1>1. HostInv
  BY InitHostInv
<1>2. /\ pc = "idle" /\ as_script_engine = {} /\ as_script_func = {} /\ answer = "none"
  BY DEF JsonInit, Init, RGInit
<1>3. TextInv
  BY <1>2 DEF TextInv, FuncBlock, TextReached, RejectedWithoutFunc, ReturnedResult, Loading
<1>4. Pairing /\ DistinctNames
  BY <1>2 DEF Pairing, DistinctNames, Loading
<1> QED
  BY <1>1, <1>2, <1>3, <1>4
     DEF JsonInv, CallInProgress, SerializeAssertionsHold, AssertFailures,
         EventsDescribedByTheirPass, Loading, Running

\* What the answer says.
AnswerInv ==
    /\ answer \in Answers
    /\ CallInProgress /\ SerializeAssertionsHold /\ EventsDescribedByTheirPass
    /\ (answer = "events" => as_script_func # {} /\ pc = "idle")

LEMMA JsonAnswerInv ==
    ASSUME JsonInv, [JsonNext]_json_vars
    PROVE  AnswerInv'
<1>1. CASE JsonRunScriptAnswers
  <2>1. /\ pc = "run_returned" /\ result = "events" /\ pc' = "idle"
        /\ script_events' = script_events /\ script_contents' = script_contents
        /\ as_script_func' = as_script_func /\ answer' \in {"events", "thrown"}
    BY <1>1 DEF JsonRunScriptAnswers, Dump, Return, rg_vars
  <2>2. \A n \in DOMAIN script_events :
            MatchingUniforms(script_contents.shader_descs, script_events[n].shader_name)
                = CreateShaderDesc(script_events[n].decl).uniforms
    BY <2>1, SerializesOwn DEF JsonInv
  <2>3. as_script_func # {}
    BY <2>1 DEF JsonInv, HostInv, FuncRan
  <2> QED
    BY <2>1, <2>2, <2>3
       DEF AnswerInv, Answers, AssertFailures, CallInProgress, Loading, Running,
           SerializeAssertionsHold, EventsDescribedByTheirPass
<1>2. CASE \/ JsonLoadScriptAccepts \/ JsonLoadScriptRejects \/ JsonRunScriptNoInstance
           \/ JsonBadContextInputs \/ JsonRunScriptThrows \/ JsonUnknownTypeThrows
  <2>1. /\ answer' \in {"contents", "thrown", "no_instance"} \cup Exceptions
        /\ pc' \in {"idle", "dead"}
    BY <1>2 DEF JsonLoadScriptAccepts, JsonLoadScriptRejects, JsonRunScriptNoInstance,
                JsonBadContextInputs, JsonRunScriptThrows, JsonUnknownTypeThrows,
                Dump, Return, Goto, Exceptions, vars, ls_vars
  <2> QED
    BY <2>1 DEF AnswerInv, Answers, AssertFailures, CallInProgress, Loading, Running,
                Exceptions, SerializeAssertionsHold, EventsDescribedByTheirPass
<1>3. CASE JsonLoadScript \/ JsonRunScript
  BY <1>3 DEF JsonLoadScript, JsonRunScript, AnswerInv, Answers, AssertFailures,
              CallInProgress, SerializeAssertionsHold, EventsDescribedByTheirPass
<1>4. CASE (LoadScript \/ RunScript) /\ UNCHANGED <<instance, script_contents, answer>>
  <2>1. pc \in Loading \cup Running
    BY <1>4
       DEF Loading, Running, LoadScript, ParseThrows, Parse, BuildBlockDirectGraphThrows,
           FlattenGraphThrows, BuildIncludeGraph, SkipBlock,
           RendergraphWithoutDeclarationThrows, AssembleSource, RecreateEngine,
           RegisterPass, RegisterPassThrows, PassesRegistered, CallPassWhileBuilding,
           RequestImageWhileBuilding, BuildThrows, Build, LoadScriptReturns, RunScript,
           NoScriptLoadedThrows, PrepareNullMainThrows, PrepareMain, CallPass,
           RequestImageInMain, MainThrows, MainReturns
  <2>2. answer' = "none"
    BY <1>4, <2>1 DEF JsonInv, CallInProgress
  <2> QED
    BY <2>2 DEF AnswerInv, Answers, AssertFailures, CallInProgress,
                SerializeAssertionsHold, EventsDescribedByTheirPass
<1>5. CASE Dead \/ UNCHANGED json_vars
  BY <1>5 DEF Dead, json_vars, vars, ls_vars, rg_vars, JsonInv, HostInv, JsonTypeOK, AnswerInv,
              CallInProgress, SerializeAssertionsHold, EventsDescribedByTheirPass
<1>6. ~JsonAssertFails
  BY NoAssertFails DEF JsonInv
<1> QED
  BY <1>1, <1>2, <1>3, <1>4, <1>5, <1>6 DEF JsonNext

LEMMA NextJsonInv ==
    ASSUME JsonInv, [JsonNext]_json_vars
    PROVE  JsonInv'
<1>1. HostInv'
  BY NextHostInv DEF JsonInv
<1>2. TextInv' /\ DistinctNames' /\ Pairing'
  BY JsonTextInv, DistinctNamesStep, JsonPairing DEF JsonInv, HostInv
<1>3. AnswerInv'
  BY JsonAnswerInv
<1> QED
  BY <1>1, <1>2, <1>3 DEF JsonInv, AnswerInv

\* The program and the descriptions are paired as JsonInv says after every step
\* of the two calls.
THEOREM JsonInvariance == JsonSpec => []JsonInv
<1>1. JsonInv /\ [JsonNext]_json_vars => JsonInv'
  BY NextJsonInv
<1> QED
  BY <1>1, InitJsonInv, PTL DEF JsonSpec

\* With one render graph, distinct pass names and images of the formats the enum
\* names, no serialiser assertion fails, whatever is loaded, rejected and run, in
\* any order.
THEOREM AssertionsHold == JsonSpec => []SerializeAssertionsHold
<1>1. JsonInv => SerializeAssertionsHold
  BY DEF JsonInv
<1> QED
  BY <1>1, JsonInvariance, PTL

\* Every invocation of a frame is serialised with the description of the very
\* pass that main() called.
THEOREM EventsDescribed == JsonSpec => []EventsDescribedByTheirPass
<1>1. JsonInv => EventsDescribedByTheirPass
  BY DEF JsonInv
<1> QED
  BY <1>1, JsonInvariance, PTL

\* Between calls the program that can be run is the one described.
THEOREM ServesDescribed == JsonSpec => []ServesWhatItDescribes
<1>1. JsonInv => ServesWhatItDescribes
  BY DEF JsonInv, Pairing, ServesWhatItDescribes, Loading
<1> QED
  BY <1>1, JsonInvariance, PTL

-----------------------------------------------------------------------------
(* The refinement of ScriptService.                                         *)

Served == IF LoadOfFunc = {script_contents.load} THEN script_contents.load ELSE 0

\* Steps seen by the service as one of its own: the answer is no frame, and the
\* program is the one described before or none.
LEMMA HiddenStep ==
    ASSUME script_contents' = script_contents, answer' # "events",
           \/ Served' = Served
           \/ Served' = 0 /\ answer' = answer
    PROVE  [Service!ServiceNext]_(Service!service_vars)
<1>1. CASE Served' = Served
  BY <1>1 DEF Service!ServiceNext, Service!NoFrame, Served
<1>2. CASE Served' = 0 /\ answer' = answer
  BY <1>2 DEF Service!ServiceNext, Service!Disarm, Served
<1> QED
  BY <1>1, <1>2

LEMMA RefinementStep ==
    ASSUME JsonInv, [JsonNext]_json_vars
    PROVE  [Service!ServiceNext]_(Service!service_vars)
<1>1. CASE JsonLoadScriptAccepts
  <2>1. /\ script_contents'.load = load /\ as_script_func # {}
        /\ \A func \in as_script_func : func.engine.load = load
    BY <1>1, AcceptPairing DEF JsonInv, HostInv
  <2>2. as_script_func' = as_script_func /\ answer' # "events" /\ pc = "load_returned"
    BY <1>1 DEF JsonLoadScriptAccepts, Dump, Return, rg_vars
  <2>3. LoadOfFunc' = {script_contents'.load}
    BY <2>1, <2>2 DEF LoadOfFunc
  <2>4. load > script_contents.load /\ load \in 1..MaxLoads
    BY <2>2 DEF JsonInv, HostInv, OwnDescriptions, Loading, Inv, TypeOK
  <2> QED
    BY <2>1, <2>2, <2>3, <2>4 DEF Service!ServiceNext, Service!Accept
<1>2. CASE JsonRunScriptAnswers /\ answer' = "events"
  <2>1. /\ script_contents' = script_contents /\ as_script_func' = as_script_func
        /\ pc = "run_returned" /\ result = "events"
    BY <1>2 DEF JsonRunScriptAnswers, Return, rg_vars
  <2>2. /\ as_script_func # {}
        /\ \A func \in as_script_func : func.engine.load = script_contents.load
        /\ script_contents.load # 0
    BY <2>1 DEF JsonInv, HostInv, FuncRan, OwnDescriptions, Pairing, Loading
  <2>3. LoadOfFunc = {script_contents.load} /\ LoadOfFunc' = LoadOfFunc
    BY <2>1, <2>2 DEF LoadOfFunc
  <2> QED
    BY <1>2, <2>1, <2>2, <2>3 DEF Service!ServiceNext, Service!Frame
<1>3. CASE RunStep /\ ~(JsonRunScriptAnswers /\ answer' = "events")
  <2>1. script_contents' = script_contents /\ as_script_func' = as_script_func
    BY <1>3, RunStepLeaves
  <2>2. answer' # "events"
    <3>1. CASE RunScript /\ UNCHANGED <<instance, script_contents, answer>>
      BY <3>1 DEF JsonInv, CallInProgress, Running, RunScript, NoScriptLoadedThrows,
                  PrepareNullMainThrows, PrepareMain, CallPass, RequestImageInMain,
                  MainThrows, MainReturns
    <3> QED
      BY <1>3, <3>1, NoAssertFails
         DEF RunStep, JsonInv, JsonRunScriptNoInstance, JsonBadContextInputs,
             JsonRunScript, JsonRunScriptThrows, JsonUnknownTypeThrows, Dump, Exceptions
  <2>3. Served' = Served
    BY <2>1 DEF Served, LoadOfFunc
  <2> QED
    BY <2>1, <2>2, <2>3, HiddenStep
<1>4. CASE JsonLoadScript \/ JsonLoadScriptRejects
  <2>1. /\ script_contents' = script_contents /\ as_script_func' = as_script_func
        /\ answer' # "events"
    BY <1>4 DEF JsonLoadScript, CallLoadScript, JsonLoadScriptRejects, Dump, Return,
                rg_vars, Exceptions
  <2>2. Served' = Served
    BY <2>1 DEF Served, LoadOfFunc
  <2> QED
    BY <2>1, <2>2, HiddenStep
<1>5. CASE LoadScript /\ UNCHANGED <<instance, script_contents, answer>>
  <2>1. /\ pc \in Loading
        /\ \/ as_script_func' = as_script_func
           \/ as_script_func' = {}
           \/ Build
    BY <1>5
       DEF Loading, LoadScript, ParseThrows, Parse, BuildBlockDirectGraphThrows,
           FlattenGraphThrows, BuildIncludeGraph, SkipBlock,
           RendergraphWithoutDeclarationThrows, AssembleSource, RecreateEngine,
           RecreateAsScriptEngine, RegisterPass, RegisterAsScriptPassFunction,
           RegisterPassThrows, PassesRegistered, CallPassWhileBuilding,
           RequestImageWhileBuilding, BuildThrows, Build, LoadScriptReturns, InvokePass,
           RequestImage, Goto, Leave, rg_vars
  <2>2. answer' # "events"
    BY <1>5, <2>1 DEF JsonInv, CallInProgress
  <2>3. CASE as_script_func' = as_script_func
    <3>1. Served' = Served
      BY <1>5, <2>3 DEF Served, LoadOfFunc
    <3> QED
      BY <1>5, <2>2, <3>1, HiddenStep
  <2>4. CASE as_script_func' = {}
    <3>1. Served' = 0
      BY <2>4 DEF Served, LoadOfFunc
    <3> QED
      BY <1>5, <2>2, <3>1, HiddenStep
  <2>5. CASE Build
    <3>1. PICK engine \in as_script_engine, main \in BOOLEAN :
              as_script_func' = {[engine |-> engine.id, main |-> main]}
      BY <2>5 DEF Build, GetMainFunction
    <3>2. engine.id = Id /\ Id.load = load
      BY <2>5 DEF Build, JsonInv, HostInv, Inv, Compiling, Id
    <3>3. LoadOfFunc' = {load}
      BY <3>1, <3>2 DEF LoadOfFunc
    <3>4. script_contents.load # load
      BY <2>1, Kinds DEF JsonInv, HostInv, OwnDescriptions
    <3>5. Served' = 0
      BY <1>5, <3>3, <3>4 DEF Served
    <3> QED
      BY <1>5, <2>2, <3>5, HiddenStep
  <2> QED
    BY <2>1, <2>3, <2>4, <2>5
<1>6. CASE Dead \/ UNCHANGED json_vars
  <2>1. /\ script_contents' = script_contents /\ as_script_func' = as_script_func
        /\ answer' = answer
    BY <1>6 DEF Dead, json_vars, vars, rg_vars
  <2>2. LoadOfFunc' = LoadOfFunc
    BY <2>1 DEF LoadOfFunc
  <2> QED
    BY <2>1, <2>2 DEF Service!service_vars
<1> QED
  BY <1>1, <1>2, <1>3, <1>4, <1>5, <1>6 DEF JsonNext, RunStep

LEMMA RefinementInit == JsonInit => Service!ServiceInit
BY DEF JsonInit, Init, RGInit, Service!ServiceInit, LoadOfFunc

\* The two calls of the interface implement the service: an editor always knows
\* which accepted text the events of a frame belong to.
THEOREM Implements == JsonSpec => ImplementsService
<1>1. JsonInv /\ [JsonNext]_json_vars => [Service!ServiceNext]_(Service!service_vars)
  BY RefinementStep
<1> QED
  BY <1>1, RefinementInit, JsonInvariance, PTL
     DEF JsonSpec, ImplementsService, Service!ServiceSpec
=============================================================================
