---------------------------- MODULE WebDemoProofs ----------------------------
(***************************************************************************)
(* Proofs about WebDemo.tla for every set of texts and of names, and every  *)
(* bound.                                                                   *)
(*                                                                         *)
(* The page calls the interface as JsonApi.tla lets a host call it, so what *)
(* LegitScriptProofs.tla shows of every host holds behind the page.  The    *)
(* invariant adds which task the library works for (Tasks), that the text   *)
(* it loads is the one the page gave it (TextCompiled), and what a green    *)
(* border means in every task that shows one (Green).                       *)
(***************************************************************************)
EXTENDS WebDemo, LegitScriptProofs, WellFoundedInduction

Tasks ==
    /\ pc \in Loading <=> js \in {"init", "compile"}
    /\ pc \in Running <=> js = "frame"
    /\ pc # "dead"
    /\ js = "module" => load = 0 /\ keyups = 0

TextCompiled == pc \in Loading => text = compiled

Shown ==
    /\ script_contents.load = load
    /\ \A t \in compiled :
        /\ script_contents.shader_descs = ShaderDescs(t)
        /\ RendergraphBlocks(t) # {} => LoadOfFunc = {load}

Green == js \in {"first_frame", "frame", "ready"} /\ border = "green" => Shown

DemoInv == HostInv /\ DemoTypeOK /\ Tasks /\ TextCompiled /\ Green

-----------------------------------------------------------------------------
(* The page as a host of the interface.                                     *)

LEMMA InterfaceStep ==
    ASSUME [DemoNext]_demo_vars
    PROVE  [JsonNext]_json_vars
<1>1. CASE Edit \/ UNCHANGED demo_vars
  BY <1>1 DEF Edit, demo_vars
<1>2. CASE ModuleReady \/ Keyup \/ Frame
  BY <1>2 DEF ModuleReady, Keyup, Compile, Frame, JsonNext
<1>3. CASE LibraryStep
  BY <1>3 DEF LibraryStep, JsonNext
<1>4. CASE CompileReturns
  BY <1>4 DEF CompileReturns, JsonNext
<1>5. CASE FrameShowsControls \/ FrameMeetsInheritedName \/ FrameShowsError \/ FrameThrows
  BY <1>5 DEF FrameShowsControls, FrameMeetsInheritedName, FrameShowsError, FrameThrows,
              AnswersError, JsonNext
<1> QED
  BY <1>1, <1>2, <1>3, <1>4, <1>5 DEF DemoNext, Calls

-----------------------------------------------------------------------------
(* What the calls leave alone.                                              *)

\* The steps of a load and of a run, which take the call to its return.
LEMMA LibraryStepShape ==
    ASSUME LibraryStep
    PROVE  /\ load' = load /\ text' = text /\ script_contents' = script_contents
           /\ UNCHANGED page_vars
           /\ \/ pc \in Loading /\ pc' \in Loading
              \/ pc \in Running /\ pc' \in Running /\ as_script_func' = as_script_func
<1>1. CASE LoadScript
  <2>1. load' = load /\ text' = text /\ pc \in Loading /\ pc' \in Loading
    BY <1>1
       DEF Loading, LoadScript, ParseThrows, Parse, BuildBlockDirectGraphThrows,
           FlattenGraphThrows, BuildIncludeGraph, SkipBlock,
           RendergraphWithoutDeclarationThrows, AssembleSource, RecreateEngine,
           RegisterPass, RegisterPassThrows, PassesRegistered, CallPassWhileBuilding,
           RequestImageWhileBuilding, BuildThrows, Build, LoadScriptReturns, Goto, Leave,
           NextBlock
  <2> QED
    BY <2>1 DEF LibraryStep
<1>2. CASE RunScript
  <2>1. /\ load' = load /\ text' = text /\ pc \in Running /\ pc' \in Running
        /\ as_script_func' = as_script_func
    BY <1>2
       DEF Running, RunScript, NoScriptLoadedThrows, PrepareNullMainThrows, PrepareMain,
           CallPass, RequestImageInMain, MainThrows, MainReturns, InvokePass,
           RequestImage, Goto, Leave, rg_vars
  <2> QED
    BY <2>1 DEF LibraryStep
<1> QED
  BY <1>1, <1>2 DEF LibraryStep

\* The ends of a frame: the call returns or throws, and the page goes on.
FrameReturns ==
    FrameShowsControls \/ FrameMeetsInheritedName \/ FrameShowsError \/ FrameThrows

LEMMA FrameReturnsShape ==
    ASSUME FrameReturns
    PROVE  /\ load' = load /\ script_contents' = script_contents
           /\ as_script_func' = as_script_func
           /\ pc' = "idle" /\ js = "frame" /\ js' = "ready"
           /\ editor' = editor /\ keyups' = keyups /\ border' = border
           /\ compiled' = compiled
<1>1. JsonRunScriptAnswers \/ JsonAssertFails \/ JsonRunScriptThrows \/ JsonUnknownTypeThrows
  BY DEF FrameReturns, FrameShowsControls, FrameMeetsInheritedName, FrameShowsError,
         FrameThrows, AnswersError
<1>2. answer' # "abort" \/ ~JsonAssertFails
  BY ModuleAssumption DEF JsonAssertFails, Dump
<1>3. /\ load' = load /\ script_contents' = script_contents
      /\ as_script_func' = as_script_func /\ pc' = "idle"
  BY <1>1, <1>2
     DEF JsonRunScriptAnswers, JsonAssertFails, JsonRunScriptThrows, JsonUnknownTypeThrows,
         Return, rg_vars
<1>4. /\ js = "frame" /\ js' = "ready" /\ editor' = editor /\ keyups' = keyups
      /\ border' = border /\ compiled' = compiled
  BY DEF FrameReturns, FrameShowsControls, FrameMeetsInheritedName, FrameShowsError,
         FrameThrows
<1> QED
  BY <1>3, <1>4

-----------------------------------------------------------------------------
(* An accepted text.                                                        *)

LEMMA LastBlock ==
    ASSUME NEW n \in Nat, NEW T \in SUBSET (1..n), T # {}
    PROVE  \E last \in T : \A i \in T : i <= last
<1> DEFINE R == OpToRel(<, Nat)
           D == {n - i : i \in T}
<1>1. IsWellFoundedOn(R, Nat)
  BY NatLessThanWellFounded
<1>2. \A x, y \in Nat : x < y => <<x, y>> \in R
  BY DEF OpToRel
<1> HIDE DEF R
<1>3. \A i \in T : n - i \in Nat /\ i \in 1..n
  OBVIOUS
<1>4. D \subseteq Nat /\ D # {}
  BY <1>3
<1>5. PICK d \in D : \A e \in D : ~(<<e, d>> \in R)
  BY <1>1, <1>4, WFMin
<1>6. PICK last \in T : d = n - last
  OBVIOUS
<1>7. ASSUME NEW i \in T
      PROVE  i <= last
  <2>1. ~(n - i < n - last)
    BY <1>2, <1>3, <1>5, <1>6
  <2> QED
    BY <1>3, <2>1
<1> QED
  BY <1>7

\* A load that returns with contents leaves its own program, if its text has a
\* render graph.
LEMMA AcceptedProgram ==
    ASSUME Inv, pc = "load_returned", result = "contents",
           NEW t \in text, RendergraphBlocks(t) # {}
    PROVE  LoadOfFunc = {load}
<1>1. RendergraphBlocks(t) \in SUBSET (1..Len(t.blocks)) /\ Len(t.blocks) \in Nat
  BY Kinds
<1>2. PICK last \in RendergraphBlocks(t) : \A i \in RendergraphBlocks(t) : i <= last
  BY <1>1, LastBlock
<1>3. PICK func \in as_script_func : func.engine = [load |-> load, block |-> last]
  BY <1>2 DEF Inv, LastRendergraphWins
<1>4. as_script_func = {func}
  BY <1>3 DEF Inv, TypeOK, AtMostOne
<1> QED
  BY <1>3, <1>4 DEF LoadOfFunc

LEMMA CompileReturnsGreen ==
    ASSUME DemoInv, CompileReturns
    PROVE  Green'
<1> SUFFICES ASSUME border' = "green"
             PROVE  Shown'
  BY DEF Green
<1>1. JsonLoadScriptAccepts
  BY DEF CompileReturns, BorderOf, JsonLoadScriptRejects, Dump, Exceptions
<1>2. PICK t \in text :
          script_contents' = [load |-> load, shader_descs |-> ShaderDescs(t)]
  BY <1>1 DEF JsonLoadScriptAccepts
<1>3. /\ pc = "load_returned" /\ result = "contents" /\ load' = load
      /\ as_script_func' = as_script_func /\ compiled' = compiled
  BY <1>1 DEF JsonLoadScriptAccepts, Return, rg_vars, CompileReturns
<1>4. text = compiled /\ Inv
  BY <1>3 DEF DemoInv, TextCompiled, Loading, HostInv
<1>5. \A u \in compiled : u = t
  BY <1>2, <1>4 DEF Inv, TypeOK, AtMostOne
<1>6. RendergraphBlocks(t)' = RendergraphBlocks(t) /\ LoadOfFunc' = LoadOfFunc
  BY <1>3 DEF RendergraphBlocks, LoadOfFunc
<1>7. RendergraphBlocks(t) # {} => LoadOfFunc = {load}
  BY <1>2, <1>3, <1>4, AcceptedProgram
<1> QED
  BY <1>2, <1>3, <1>5, <1>6, <1>7 DEF Shown

-----------------------------------------------------------------------------
(* The invariant.                                                           *)

LEMMA InitDemoInv == DemoInit => DemoInv
<1> SUFFICES ASSUME DemoInit
             PROVE  DemoInv
  OBVIOUS
<1>1. HostInv
  BY InitHostInv DEF DemoInit
<1>2. /\ pc = "idle" /\ load = 0 /\ js = "module" /\ editor \in Texts /\ keyups = 0
      /\ timer = FALSE /\ border = "none" /\ imControlContext = {} /\ compiled = {}
      /\ frame_end = "none"
  BY DEF DemoInit, JsonInit, Init
<1>3. DemoTypeOK
  <2>1. keyups \in Nat /\ load + keyups <= MaxLoads
    BY <1>2, BoundsAssumption
  <2>2. timer \in BOOLEAN /\ JsonTypeOK
    BY <1>1, <1>2 DEF HostInv
  <2> QED
    BY <1>2, <2>1, <2>2 DEF DemoTypeOK, Answers, AtMostOne
<1> QED
  BY <1>1, <1>2, <1>3 DEF DemoInv, Tasks, TextCompiled, Green, Loading, Running

LEMMA EditInv ==
    ASSUME DemoInv, HostInv', Edit
    PROVE  DemoInv'
<1>1. /\ pc' = pc /\ load' = load /\ text' = text /\ script_contents' = script_contents
      /\ as_script_func' = as_script_func
      /\ js' = js /\ timer' = timer /\ border' = border /\ compiled' = compiled
      /\ imControlContext' = imControlContext /\ editor' \in Texts
      /\ frame_end' = frame_end /\ js \in {"module", "ready"}
      /\ \/ js = "module" /\ keyups' = keyups
         \/ js = "ready" /\ load + keyups < MaxLoads /\ keyups' = keyups + 1
  BY DEF Edit, json_vars, vars, ls_vars, rg_vars
<1>2. DemoTypeOK'
  <2>1. load \in Nat /\ keyups \in Nat /\ MaxLoads \in Nat /\ load + keyups <= MaxLoads
    BY Kinds, BoundsAssumption DEF DemoInv, HostInv, DemoTypeOK
  <2>2. keyups' \in Nat /\ load' + keyups' <= MaxLoads
    BY <1>1, <2>1
  <2> QED
    BY <1>1, <2>2 DEF DemoInv, DemoTypeOK, HostInv
<1>3. Tasks' /\ TextCompiled'
  BY <1>1 DEF DemoInv, Tasks, TextCompiled
<1>4. Green'
  <2>1. Shown' = Shown
    BY <1>1 DEF Shown, LoadOfFunc, RendergraphBlocks
  <2> QED
    BY <1>1, <2>1 DEF DemoInv, Green
<1> QED
  BY <1>2, <1>3, <1>4 DEF DemoInv

LEMMA CompileInv ==
    ASSUME DemoInv, HostInv', ModuleReady \/ Keyup
    PROVE  DemoInv'
<1>1. /\ pc' = "parse" /\ load' = load + 1 /\ load < MaxLoads /\ text' = {editor}
      /\ compiled' = {editor} /\ js' \in {"init", "compile"} /\ editor' = editor
      /\ timer' = timer /\ border' = border /\ imControlContext' = imControlContext
      /\ frame_end' = frame_end
      /\ \/ js = "module" /\ js' = "init" /\ keyups' = keyups
         \/ js = "ready" /\ js' = "compile" /\ keyups > 0 /\ keyups' = keyups - 1
  BY DEF ModuleReady, Keyup, Compile, JsonLoadScript, CallLoadScript
<1>2. DemoTypeOK'
  <2>1. load \in Nat /\ keyups \in Nat /\ MaxLoads \in Nat /\ load + keyups <= MaxLoads
    BY Kinds, BoundsAssumption DEF DemoInv, HostInv, DemoTypeOK
  <2>2. js = "module" => load = 0 /\ keyups = 0
    BY DEF DemoInv, Tasks
  <2>3. keyups' \in Nat /\ load' + keyups' <= MaxLoads
    BY <1>1, <2>1, <2>2
  <2> QED
    BY <1>1, <2>3 DEF DemoInv, DemoTypeOK, HostInv, AtMostOne
<1> QED
  BY <1>1, <1>2 DEF DemoInv, Tasks, TextCompiled, Green, Loading, Running

LEMMA LibraryStepInv ==
    ASSUME DemoInv, HostInv', LibraryStep
    PROVE  DemoInv'
<1>1. /\ load' = load /\ text' = text /\ script_contents' = script_contents
      /\ js' = js /\ editor' = editor /\ keyups' = keyups /\ timer' = timer
      /\ border' = border /\ imControlContext' = imControlContext
      /\ compiled' = compiled /\ frame_end' = frame_end
      /\ \/ pc \in Loading /\ pc' \in Loading
         \/ pc \in Running /\ pc' \in Running /\ as_script_func' = as_script_func
  BY LibraryStepShape DEF page_vars
<1>2. DemoTypeOK'
  BY <1>1 DEF DemoInv, DemoTypeOK, HostInv
<1>3. Tasks' /\ TextCompiled'
  BY <1>1 DEF DemoInv, Tasks, TextCompiled, Loading, Running
<1>4. Green'
  <2>1. CASE pc \in Loading
    BY <1>1, <2>1 DEF DemoInv, Tasks, Green
  <2>2. CASE as_script_func' = as_script_func
    <3>1. Shown' = Shown
      BY <1>1, <2>2 DEF Shown, LoadOfFunc, RendergraphBlocks
    <3> QED
      BY <1>1, <3>1 DEF DemoInv, Green
  <2> QED
    BY <1>1, <2>1, <2>2
<1> QED
  BY <1>2, <1>3, <1>4 DEF DemoInv

LEMMA CompileReturnsInv ==
    ASSUME DemoInv, HostInv', CompileReturns
    PROVE  DemoInv'
<1>1. /\ pc' = "idle" /\ load' = load
      /\ \/ js = "init" /\ js' = "first_frame"
         \/ js = "compile" /\ js' = "ready"
      /\ editor' = editor /\ keyups' = keyups /\ timer' = timer
      /\ imControlContext' = imControlContext /\ frame_end' = frame_end
      /\ compiled' = compiled /\ border' \in {"green", "yellow", "red"}
  BY DEF CompileReturns, BorderOf, JsonLoadScriptAccepts, JsonLoadScriptRejects, Return
<1>2. DemoTypeOK'
  BY <1>1 DEF DemoInv, DemoTypeOK, HostInv
<1>3. Tasks' /\ TextCompiled'
  BY <1>1 DEF Tasks, TextCompiled, Loading, Running
<1> QED
  BY <1>2, <1>3, CompileReturnsGreen DEF DemoInv

LEMMA FrameInv ==
    ASSUME DemoInv, HostInv', Frame
    PROVE  DemoInv'
<1>1. /\ pc' = "run" /\ load' = load /\ script_contents' = script_contents
      /\ as_script_func' = as_script_func
      /\ js \in {"first_frame", "ready"} /\ js' = "frame" /\ timer' = FALSE
      /\ editor' = editor /\ keyups' = keyups /\ border' = border
      /\ imControlContext' = imControlContext /\ compiled' = compiled
      /\ frame_end' = frame_end
  BY DEF Frame, JsonRunScript, CallRunScript, ResetScriptEvents, Goto
<1>2. DemoTypeOK'
  BY <1>1 DEF DemoInv, DemoTypeOK, HostInv
<1>3. Tasks' /\ TextCompiled'
  BY <1>1 DEF Tasks, TextCompiled, Loading, Running
<1>4. Green'
  <2>1. Shown' = Shown
    BY <1>1 DEF Shown, LoadOfFunc, RendergraphBlocks
  <2> QED
    BY <1>1, <2>1 DEF DemoInv, Green
<1> QED
  BY <1>2, <1>3, <1>4 DEF DemoInv

LEMMA FrameReturnsInv ==
    ASSUME DemoInv, HostInv', FrameReturns
    PROVE  DemoInv'
<1>1. /\ load' = load /\ script_contents' = script_contents
      /\ as_script_func' = as_script_func
      /\ pc' = "idle" /\ js = "frame" /\ js' = "ready"
      /\ editor' = editor /\ keyups' = keyups /\ border' = border
      /\ compiled' = compiled
  BY FrameReturnsShape
<1>2. /\ timer' \in BOOLEAN /\ imControlContext' \subseteq Names
      /\ frame_end' \in {answer', "inherited"}
  BY DEF FrameReturns, FrameShowsControls, FrameMeetsInheritedName, FrameShowsError,
         FrameThrows, DemoInv, DemoTypeOK
<1>3. DemoTypeOK'
  BY <1>1, <1>2 DEF DemoInv, DemoTypeOK, HostInv, JsonTypeOK
<1>4. Tasks' /\ TextCompiled'
  BY <1>1 DEF Tasks, TextCompiled, Loading, Running
<1>5. Green'
  <2>1. Shown' = Shown
    BY <1>1 DEF Shown, LoadOfFunc, RendergraphBlocks
  <2> QED
    BY <1>1, <2>1 DEF DemoInv, Green
<1> QED
  BY <1>3, <1>4, <1>5 DEF DemoInv

LEMMA NextDemoInv ==
    ASSUME DemoInv, [DemoNext]_demo_vars
    PROVE  DemoInv'
<1>1. HostInv'
  BY InterfaceStep, NextHostInv DEF DemoInv
<1>2. CASE UNCHANGED demo_vars
  <2>1. /\ pc' = pc /\ load' = load /\ text' = text /\ script_contents' = script_contents
        /\ as_script_func' = as_script_func /\ UNCHANGED page_vars
    BY <1>2 DEF demo_vars, json_vars, vars, ls_vars, rg_vars
  <2>2. Shown' = Shown
    BY <2>1 DEF page_vars, Shown, LoadOfFunc, RendergraphBlocks
  <2>3. DemoTypeOK'
    BY <1>1, <2>1 DEF page_vars, DemoInv, DemoTypeOK, HostInv
  <2> QED
    BY <1>1, <2>1, <2>2, <2>3 DEF page_vars, DemoInv, Tasks, TextCompiled, Green
<1>3. CASE Edit
  BY <1>1, <1>3, EditInv
<1>4. CASE ModuleReady \/ Keyup
  BY <1>1, <1>4, CompileInv
<1>5. CASE Frame
  BY <1>1, <1>5, FrameInv
<1>6. CASE LibraryStep
  BY <1>1, <1>6, LibraryStepInv
<1>7. CASE CompileReturns
  BY <1>1, <1>7, CompileReturnsInv
<1>8. CASE FrameReturns
  BY <1>1, <1>8, FrameReturnsInv
<1> QED
  BY <1>2, <1>3, <1>4, <1>5, <1>6, <1>7, <1>8 DEF DemoNext, Calls, FrameReturns

\* Every task finds the library where the page left it.
THEOREM DemoInvariance == DemoSpec => []DemoInv
<1>1. DemoInv /\ [DemoNext]_demo_vars => DemoInv'
  BY NextDemoInv
<1> QED
  BY <1>1, InitDemoInv, PTL DEF DemoSpec

-----------------------------------------------------------------------------
\* The page is a host of the interface: what is proved of every order of calls
\* holds for those its keyups and timers make.
THEOREM PageUsesInterface == DemoSpec => JsonSpec
<1>1. DemoInit => JsonInit
  BY DEF DemoInit
<1>2. [DemoNext]_demo_vars => [JsonNext]_json_vars
  BY InterfaceStep
<1> QED
  BY <1>1, <1>2, PTL DEF DemoSpec, JsonSpec

\* The page's variables stay of their kinds, there is a load left for every keyup
\* that waits, and no timer is armed while a frame runs.
THEOREM DemoTypeCorrect == DemoSpec => []DemoTypeOK
<1>1. DemoInv => DemoTypeOK
  BY DEF DemoInv
<1> QED
  BY <1>1, DemoInvariance, PTL

\* Under a green border frames run the program of the text compiled last, if it has
\* a render graph, with its descriptions: whatever was typed, rejected, thrown or
\* shown between.
THEOREM GreenMeansCompiled == DemoSpec => []GreenTextRuns
<1>1. DemoInv => GreenTextRuns
  BY DEF DemoInv, Green, Shown, GreenTextRuns
<1> QED
  BY <1>1, DemoInvariance, PTL
=============================================================================
