---------------------------- MODULE ScriptContext ----------------------------
(***************************************************************************)
(* The parameters a host and a script share                                 *)
(* (ScriptContext in LegitScript/source/RenderGraphScript.cpp, the context  *)
(* inputs of LegitScriptJsonApi.cpp).                                       *)
(*                                                                         *)
(* There is one map per type, from names to values; a cell is one name in   *)
(* one map.  The host writes cells by the inputs of a run, a script by the  *)
(* references that ContextInt, ContextFloat, ... return.  Sliders and       *)
(* checkboxes read cells and ask the host for a control of that name.  No   *)
(* run and no load ever removes a parameter.                                *)
(*                                                                         *)
(* Values of all types are drawn from one set.                              *)
(***************************************************************************)
EXTENDS Naturals, Sequences

CONSTANTS
    Types,         \* types of parameters: the maps
    Names,         \* names of parameters
    Values, Zero,  \* values, and the one a new entry of a map has
    InputLists,    \* inputs of a run: sequences of [name, type, value, ok]
    ControlNames,  \* names the script gives to sliders and checkboxes
    References,    \* cells the script refers to
    MaxFrames,     \* bound: calls of RunScript
    MaxRequests    \* bound: requests recorded at a time

Cells == Types \X Names
TimeCell == <<"float", "@time">>
SwapchainSizeCell == <<"uvec2", "@swapchain_size">>

ASSUME ScriptContextAssumption ==
    /\ {"int", "float", "uvec2"} \subseteq Types
    /\ {"@time", "@swapchain_size"} \cup ControlNames \subseteq Names
    /\ Zero \in Values
    /\ References \subseteq Cells
    /\ InputLists \subseteq Seq([name : Names, type : STRING, value : Values, ok : BOOLEAN])
    /\ MaxFrames \in Nat /\ MaxRequests \in Nat

VARIABLES
    pc,                \* "idle", "build", "parse", "inputs" or "run"
    as_script_func,    \* whether a program can be run
    todo,              \* inputs not parsed yet
    context_inputs,    \* inputs parsed and not yet applied
    params,            \* cell -> {} or {value}
    curr_time,
    swapchain_size,    \* the size of image 0
    context_requests,
    answer,            \* of the last call: "none", "bad_inputs", "exception" or "events"
    frame,             \* auxiliary: number of calls of RunScript
    sent,              \* auxiliary: cell -> {} or {what the host set it to last}
    before             \* auxiliary: params when RunScript was called

call_vars == <<pc, as_script_func, todo, context_inputs, answer, frame, before>>
run_vars == <<curr_time, swapchain_size, context_requests>>
vars == <<call_vars, run_vars, params, sent>>

InScript == pc \in {"build", "run"}

-----------------------------------------------------------------------------
\* curr_time is not initialised: an initialiser of a program loaded before the
\* first run may read any value.
Init ==
    /\ pc = "idle"
    /\ as_script_func = FALSE
    /\ todo = <<>>
    /\ context_inputs = <<>>
    /\ params = [c \in Cells |-> {}]
    /\ curr_time \in Values
    /\ swapchain_size = Zero
    /\ context_requests = <<>>
    /\ answer = "none"
    /\ frame = 0
    /\ sent = [c \in Cells |-> {}]
    /\ before = params

\* operator[] of a map: a missing entry appears with the value zero.
Entry(c) == IF params[c] = {} THEN {Zero} ELSE params[c]

-----------------------------------------------------------------------------
(* Loads: global initialisers run while the engine is built. *)

\* Variant: parameters belong to a program.
CallLoadScriptClearing ==
    /\ pc = "idle"
    /\ pc' = "build"
    /\ as_script_func' = FALSE
    /\ answer' = "none"
    /\ params' = [c \in Cells |-> {}]
    /\ UNCHANGED <<todo, context_inputs, frame, before, sent, run_vars>>

CallLoadScript ==
    /\ pc = "idle"
    /\ pc' = "build"
    /\ as_script_func' = FALSE
    /\ answer' = "none"
    /\ UNCHANGED <<todo, context_inputs, frame, before, params, sent, run_vars>>

LoadScriptReturns ==
    /\ pc = "build"
    /\ pc' = "idle"
    /\ as_script_func' \in BOOLEAN
    /\ UNCHANGED <<todo, context_inputs, answer, frame, before, params, sent, run_vars>>

-----------------------------------------------------------------------------
(* RunScript: all inputs are parsed before the first is applied. *)

CallRunScript ==
    /\ pc = "idle"
    /\ frame < MaxFrames
    /\ frame' = frame + 1
    /\ todo' \in InputLists
    /\ context_inputs' = <<>>
    /\ before' = params
    /\ answer' = "none"
    /\ pc' = "parse"
    /\ UNCHANGED <<as_script_func, params, sent, run_vars>>

\* A type the parser does not know leaves the first alternative of the variant:
\* the float zero.
ParsedInput(input) ==
    IF input.type \in Types
    THEN [cell |-> <<input.type, input.name>>, value |-> {input.value}]
    ELSE [cell |-> <<"float", input.name>>, value |-> {}]

\* Variant: every input is applied as soon as it is parsed.
ParseContextInputApplying ==
    /\ pc = "parse"
    /\ todo # <<>>
    /\ Head(todo).ok
    /\ LET input == ParsedInput(Head(todo))
       IN  /\ params' = [params EXCEPT ![input.cell] =
                             IF input.value = {} THEN {Zero} ELSE input.value]
           /\ sent' = [sent EXCEPT ![input.cell] = input.value]
    /\ todo' = Tail(todo)
    /\ UNCHANGED <<pc, as_script_func, context_inputs, answer, frame, before, run_vars>>

ParseContextInput ==
    /\ pc = "parse"
    /\ todo # <<>>
    /\ Head(todo).ok
    /\ context_inputs' = Append(context_inputs, ParsedInput(Head(todo)))
    /\ todo' = Tail(todo)
    /\ UNCHANGED <<pc, as_script_func, answer, frame, before, params, sent, run_vars>>

\* A missing name, or a value that is not of the type.
BadContextInput ==
    /\ pc = "parse"
    /\ todo # <<>>
    /\ ~Head(todo).ok
    /\ todo' = <<>>
    /\ context_inputs' = <<>>
    /\ answer' = "bad_inputs"
    /\ pc' = "idle"
    /\ UNCHANGED <<as_script_func, frame, before, params, sent, run_vars>>

\* Variant: the events of the last run stay.
InputsParsedKeepingEvents ==
    /\ pc = "parse"
    /\ todo = <<>>
    /\ pc' = "inputs"
    /\ UNCHANGED <<as_script_func, todo, context_inputs, answer, frame, before, params,
                   sent, run_vars>>

InputsParsed ==
    /\ pc = "parse"
    /\ todo = <<>>
    /\ context_requests' = <<>>
    /\ pc' = "inputs"
    /\ UNCHANGED <<as_script_func, todo, context_inputs, answer, frame, before, params,
                   sent, curr_time, swapchain_size>>

\* In the order of the list: the last input of a name wins.
SetContextInput ==
    /\ pc = "inputs"
    /\ context_inputs # <<>>
    /\ LET input == Head(context_inputs)
       IN  /\ params' = [params EXCEPT ![input.cell] =
                             IF input.value = {} THEN {Zero} ELSE input.value]
           /\ sent' = [sent EXCEPT ![input.cell] = input.value]
    /\ context_inputs' = Tail(context_inputs)
    /\ UNCHANGED <<pc, as_script_func, todo, answer, frame, before, run_vars>>

\* Variant: the time is read before the inputs of this run are applied.
StartRunWithOldTime ==
    /\ pc = "inputs"
    /\ context_inputs = <<>>
    /\ params' = [params EXCEPT ![SwapchainSizeCell] = Entry(SwapchainSizeCell),
                                ![TimeCell] = Entry(TimeCell)]
    /\ swapchain_size' \in Entry(SwapchainSizeCell)
    /\ curr_time' \in IF before[TimeCell] = {} THEN {Zero} ELSE before[TimeCell]
    /\ IF as_script_func
       THEN pc' = "run" /\ UNCHANGED answer
       ELSE pc' = "idle" /\ answer' = "exception"
    /\ UNCHANGED <<as_script_func, todo, context_inputs, frame, before, sent, context_requests>>

\* Both reserved parameters exist from here on.  Without a program the call
\* throws, and the inputs stay applied.
StartRun ==
    /\ pc = "inputs"
    /\ context_inputs = <<>>
    /\ params' = [params EXCEPT ![SwapchainSizeCell] = Entry(SwapchainSizeCell),
                                ![TimeCell] = Entry(TimeCell)]
    /\ swapchain_size' \in Entry(SwapchainSizeCell)
    /\ curr_time' \in Entry(TimeCell)
    /\ IF as_script_func
       THEN pc' = "run" /\ UNCHANGED answer
       ELSE pc' = "idle" /\ answer' = "exception"
    /\ UNCHANGED <<as_script_func, todo, context_inputs, frame, before, sent, context_requests>>

RunScriptReturns ==
    /\ pc = "run"
    /\ pc' = "idle"
    /\ answer' \in {"events", "exception"}
    /\ UNCHANGED <<as_script_func, todo, context_inputs, frame, before, params, sent, run_vars>>

-----------------------------------------------------------------------------
(* What the script calls, in main() and in global initialisers. *)

Request(kind, c) == [kind |-> kind, cell |-> c, frame |-> IF pc = "run" THEN frame ELSE 0]

\* Variant: the default is stored on every call.
ControlResetting(kind, c, def_val) ==
    /\ InScript
    /\ Len(context_requests) < MaxRequests
    /\ params' = [params EXCEPT ![c] = {def_val}]
    /\ context_requests' = Append(context_requests, Request(kind, c))
    /\ UNCHANGED <<call_vars, sent, curr_time, swapchain_size>>

\* Variant: the default is inserted beside the value.
ControlInserting(kind, c, def_val) ==
    /\ InScript
    /\ Len(context_requests) < MaxRequests
    /\ params' = [params EXCEPT ![c] = params[c] \cup {def_val}]
    /\ context_requests' = Append(context_requests, Request(kind, c))
    /\ UNCHANGED <<call_vars, sent, curr_time, swapchain_size>>

\* The default is stored by whoever mentions the name first.
Control(kind, c, def_val) ==
    /\ InScript
    /\ Len(context_requests) < MaxRequests
    /\ params' = [params EXCEPT ![c] = IF params[c] = {} THEN {def_val} ELSE params[c]]
    /\ context_requests' = Append(context_requests, Request(kind, c))
    /\ UNCHANGED <<call_vars, sent, curr_time, swapchain_size>>

SliderInt(name, def_val) == Control("IntRequest", <<"int", name>>, def_val)
SliderFloat(name, def_val) == Control("FloatRequest", <<"float", name>>, def_val)
Checkbox(name, def_val) == Control("BoolRequest", <<"int", name>>, def_val)

Text ==
    /\ InScript
    /\ Len(context_requests) < MaxRequests
    /\ context_requests' = Append(context_requests, Request("TextRequest", <<>>))
    /\ UNCHANGED <<call_vars, params, sent, curr_time, swapchain_size>>

ReadContext(c) ==
    /\ InScript
    /\ params' = [params EXCEPT ![c] = Entry(c)]
    /\ UNCHANGED <<call_vars, sent, run_vars>>

\* The reference is assigned to.
WriteContext(c, value) ==
    /\ InScript
    /\ params' = [params EXCEPT ![c] = {value}]
    /\ sent' = [sent EXCEPT ![c] = {}]
    /\ UNCHANGED <<call_vars, run_vars>>

Script ==
    \/ \E name \in ControlNames, def_val \in Values :
          SliderInt(name, def_val) \/ SliderFloat(name, def_val) \/ Checkbox(name, def_val)
    \/ Text
    \/ \E c \in References : ReadContext(c) \/ \E value \in Values : WriteContext(c, value)

Next ==
    \/ CallLoadScript \/ LoadScriptReturns
    \/ CallRunScript \/ ParseContextInput \/ BadContextInput \/ InputsParsed
    \/ SetContextInput \/ StartRun \/ RunScriptReturns
    \/ Script

Spec == Init /\ [][Next]_vars

-----------------------------------------------------------------------------
(* Properties *)

Optional == {{}} \cup {{v} : v \in Values}

ParsedInputs == [cell : Cells, value : Optional]

Requests ==
    [kind : {"IntRequest", "FloatRequest", "BoolRequest"}, cell : Cells, frame : Nat]
        \cup [kind : {"TextRequest"}, cell : {<<>>}, frame : Nat]

\* Type invariant.
TypeOK ==
    /\ pc \in {"idle", "build", "parse", "inputs", "run"}
    /\ as_script_func \in BOOLEAN
    /\ todo \in Seq([name : Names, type : STRING, value : Values, ok : BOOLEAN])
    /\ context_inputs \in Seq(ParsedInputs)
    /\ params \in [Cells -> Optional]
    /\ sent \in [Cells -> Optional]
    /\ before \in [Cells -> Optional]
    /\ curr_time \in Values /\ swapchain_size \in Values
    /\ context_requests \in Seq(Requests)
    /\ answer \in {"none", "bad_inputs", "exception", "events"}
    /\ frame \in 0..MaxFrames

\* What the host sets a parameter to it has until a script assigns to it: no
\* default, no other control of the name, no look-up, no run that throws and no
\* load disturbs it.
SentValuesKept ==
    \A c \in Cells : sent[c] # {} => params[c] = sent[c]

\* The two parameters a run copies when it starts are those the host sent, in this
\* run or in an earlier one.
RunUsesSentValues ==
    pc = "run" =>
        /\ \A v \in sent[TimeCell] : curr_time = v
        /\ \A v \in sent[SwapchainSizeCell] : swapchain_size = v

\* A control that the host is asked for has a value.
ControlsHaveValues ==
    \A n \in DOMAIN context_requests :
        context_requests[n].kind # "TextRequest" => params[context_requests[n].cell] # {}

\* A frame asks only for what its own run requested: what global initialisers ask
\* for, while the program is loaded, the host never learns.
RequestsOfThisRun ==
    pc = "run" \/ answer = "events" =>
        \A n \in DOMAIN context_requests : context_requests[n].frame = frame

\* A list with one malformed input is refused whole.
BadInputsChangeNothing == answer = "bad_inputs" => params = before
=============================================================================
