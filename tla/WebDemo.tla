------------------------------- MODULE WebDemo -------------------------------
(***************************************************************************)
(* The page that embeds the library (web/demo.js) over its two bound        *)
(* functions (web/LegitScriptEmscriptenApi.cpp) and the JSON interface of   *)
(* JsonApi.tla.                                                             *)
(*                                                                         *)
(* JavaScript runs one task at a time: the tail of Init once the module is  *)
(* there, a Compile for every keyup, and a Frame for every timer, which a   *)
(* Frame arms again as its last statement.  A task that calls the library   *)
(* waits for it.  What the library throws, the bindings throw once more (a  *)
(* JSON object is no std::string): Compile catches it, Frame does not.      *)
(* A trap is thrown to the page as well; it does not end the page, and the  *)
(* module keeps its memory and is called again.                             *)
(***************************************************************************)
EXTENDS JsonApi

CONSTANTS
    Names,       \* names of the controls that scripts request
    Inherited    \* those that every JavaScript object has already

ASSUME InheritedAssumption == Inherited \subseteq Names

\* The library is a WebAssembly module, built with or without assertions: nothing
\* it does ends the page.
ASSUME ModuleAssumption == "abort" \notin AssertOutcomes

VARIABLES
    js,                \* "module", "ready", or the task: "init", "compile", "frame"
    editor,            \* the text in the editor
    keyups,            \* keyup events not handled yet
    timer,             \* whether a timer is armed
    border,            \* the colour of the compilation result
    imControlContext,  \* names of the controls on the page
    compiled,          \* auxiliary: {} or the text last given to LegitScriptLoad
    frame_end          \* auxiliary: the answer of the last frame, or what ended it

page_vars ==
    <<js, editor, keyups, timer, border, imControlContext, compiled, frame_end>>
demo_vars == <<json_vars, page_vars>>

-----------------------------------------------------------------------------
DemoInit ==
    /\ JsonInit
    /\ js = "module"
    /\ editor \in Texts
    /\ keyups = 0
    /\ timer = FALSE
    /\ border = "none"
    /\ imControlContext = {}
    /\ compiled = {}
    /\ frame_end = "none"

\* The user types between two tasks; before the module is there nobody listens.
\* The bound on loads counts those still to come.
Edit ==
    /\ js \in {"module", "ready"}
    /\ editor' \in Texts \ {editor}
    /\ IF js = "module"
       THEN UNCHANGED keyups
       ELSE load + keyups < MaxLoads /\ keyups' = keyups + 1
    /\ UNCHANGED <<json_vars, js, timer, border, imControlContext, compiled, frame_end>>

Compile(task) ==
    /\ JsonLoadScript
    /\ text' = {editor}
    /\ compiled' = {editor}
    /\ js' = task
    /\ UNCHANGED <<editor, timer, border, imControlContext, frame_end>>

\* Variant: initialContent is compiled, whatever was typed since.
ModuleReadyInitialContent ==
    /\ js = "module"
    /\ JsonLoadScript
    /\ compiled' = text'
    /\ js' = "init"
    /\ UNCHANGED <<editor, keyups, timer, border, imControlContext, frame_end>>

ModuleReady ==
    /\ js = "module"
    /\ Compile("init")
    /\ UNCHANGED keyups

Keyup ==
    /\ js = "ready"
    /\ keyups > 0
    /\ keyups' = keyups - 1
    /\ Compile("compile")

\* The library works on the call.
LibraryStep ==
    /\ LoadScript \/ RunScript
    /\ UNCHANGED <<instance, script_contents, answer, page_vars>>

BorderOf(outcome) ==
    IF outcome = "contents" THEN "green"
    ELSE IF outcome = "thrown" THEN "red"
    ELSE "yellow"

\* Variant: an error is shown in the colour there was.
CompileReturnsKeepingBorder ==
    /\ js \in {"init", "compile"}
    /\ JsonLoadScriptAccepts \/ JsonLoadScriptRejects
    /\ border' = IF answer' \in Exceptions THEN border ELSE BorderOf(answer')
    /\ js' = IF js = "init" THEN "first_frame" ELSE "ready"
    /\ UNCHANGED <<editor, keyups, timer, imControlContext, compiled, frame_end>>

\* Init goes on to the first Frame.
CompileReturns ==
    /\ js \in {"init", "compile"}
    /\ JsonLoadScriptAccepts \/ JsonLoadScriptRejects
    /\ border' = BorderOf(answer')
    /\ js' = IF js = "init" THEN "first_frame" ELSE "ready"
    /\ UNCHANGED <<editor, keyups, timer, imControlContext, compiled, frame_end>>

\* Variant: the timer is an interval, armed once and for all.
FrameWithInterval ==
    /\ js = "first_frame" \/ (js = "ready" /\ timer)
    /\ JsonRunScript
    /\ timer' = TRUE
    /\ js' = "frame"
    /\ UNCHANGED <<editor, keyups, border, imControlContext, compiled, frame_end>>

Frame ==
    /\ js = "first_frame" \/ (js = "ready" /\ timer)
    /\ JsonRunScript
    /\ timer' = FALSE
    /\ js' = "frame"
    /\ UNCHANGED <<editor, keyups, border, imControlContext, compiled, frame_end>>

\* The answer has requests: controls it does not name are removed.
FrameShowsControls ==
    /\ js = "frame"
    /\ JsonRunScriptAnswers \/ JsonAssertFails
    /\ answer' \in {"events", "misread"}
    /\ imControlContext' \in SUBSET (Names \ Inherited)
    /\ timer' = TRUE
    /\ js' = "ready"
    /\ frame_end' = answer'
    /\ UNCHANGED <<editor, keyups, border, compiled>>

\* A control whose name every object has seems to be there and is no element:
\* querySelector is not a function, and Frame ends where it stands.
FrameMeetsInheritedName ==
    /\ js = "frame"
    /\ Inherited # {}
    /\ JsonRunScriptAnswers \/ JsonAssertFails
    /\ answer' \in {"events", "misread"}
    /\ \E added \in SUBSET (Names \ Inherited) :
          imControlContext' = imControlContext \cup added
    /\ js' = "ready"
    /\ frame_end' = "inherited"
    /\ UNCHANGED <<editor, keyups, timer, border, compiled>>

AnswersError ==
    \/ JsonRunScriptThrows \/ JsonUnknownTypeThrows
    \/ JsonAssertFails /\ answer' = "mistyped"


\* The answer is an error: the controls stay.
FrameShowsError ==
    /\ js = "frame"
    /\ AnswersError
    /\ timer' = TRUE
    /\ js' = "ready"
    /\ frame_end' = answer'
    /\ UNCHANGED <<editor, keyups, border, imControlContext, compiled>>

\* Nothing catches what the call throws, and the timer is not armed.
FrameThrows ==
    /\ js = "frame"
    /\ JsonRunScriptAnswers \/ JsonAssertFails
    /\ answer' \in {"thrown", "trap"}
    /\ js' = "ready"
    /\ frame_end' = answer'
    /\ UNCHANGED <<editor, keyups, timer, border, imControlContext, compiled>>

Calls ==
    \/ LibraryStep \/ CompileReturns
    \/ FrameShowsControls \/ FrameMeetsInheritedName \/ FrameShowsError \/ FrameThrows

DemoNext == Edit \/ ModuleReady \/ Keyup \/ Frame \/ Calls

\* The module is loaded in the end, and scripts return: the library sets no timeout.
\* Keyups and timers interrupt each other's readiness; a browser serves both, for a
\* timer fires only 100 ms after the frame that armed it.
DemoSpec ==
    /\ DemoInit /\ [][DemoNext]_demo_vars
    /\ WF_demo_vars(ModuleReady)
    /\ SF_demo_vars(Keyup)
    /\ SF_demo_vars(Frame)
    /\ WF_demo_vars(Calls)

-----------------------------------------------------------------------------
(* Properties *)

\* Type invariant: a load for every keyup, and one chain of frames (a timer is
\* armed only after the frame that arms it).
DemoTypeOK ==
    /\ JsonTypeOK
    /\ js \in {"module", "ready", "init", "first_frame", "compile", "frame"}
    /\ editor \in Texts
    /\ keyups \in Nat /\ load + keyups <= MaxLoads
    /\ timer \in BOOLEAN /\ (timer => js \in {"ready", "compile"})
    /\ border \in {"none", "green", "yellow", "red"}
    /\ imControlContext \subseteq Names
    /\ compiled \subseteq Texts /\ AtMostOne(compiled)
    /\ frame_end \in Answers \cup {"inherited"}

\* What the page shows between its tasks is true of the library: under a green
\* border it holds the descriptions of the text compiled last, and the program that
\* frames run is that of this text, unless the text has no render graph at all: then
\* it is accepted, and an earlier program goes on under the green border.
GreenTextRuns ==
    js = "ready" /\ border = "green" =>
        /\ script_contents.load = load
        /\ \A t \in compiled :
            /\ script_contents.shader_descs = ShaderDescs(t)
            /\ RendergraphBlocks(t) # {} => LoadOfFunc = {load}

\* Whatever is typed, and whenever, is compiled, also when frames have stopped.
EditsAreCompiled == (compiled # {editor}) ~> (compiled = {editor})

Stopped == js \in {"ready", "compile"} /\ ~timer

=============================================================================
