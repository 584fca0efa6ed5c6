------------------------ MODULE ScriptContextProofs ------------------------
(***************************************************************************)
(* Proofs about ScriptContext.tla for any types, names, values, lists of    *)
(* inputs and bounds.                                                       *)
(*                                                                         *)
(* The properties hold together: entries never become empty again           *)
(* (NothingIsRemoved), so what is stored for a request or sent by the host  *)
(* stays; until inputs are applied the parameters are those the call found  *)
(* (Untouched); and a run starts with no requests of its own.               *)
(***************************************************************************)
EXTENDS ScriptContext, TLAPS

\* Parsing has not touched the parameters.
Untouched == pc = "parse" => params = before

\* Between the parsed list and the run there is no request.
NoRequestsYet == pc = "inputs" => context_requests = <<>>

RawInputs == [name : Names, type : STRING, value : Values, ok : BOOLEAN]

AfterBadInputs == answer = "bad_inputs" => pc = "idle"

AfterEvents == answer = "events" => pc = "idle"

Inv ==
    /\ TypeOK
    /\ SentValuesKept /\ RunUsesSentValues /\ ControlsHaveValues
    /\ RequestsOfThisRun /\ BadInputsChangeNothing
    /\ Untouched /\ NoRequestsYet /\ AfterBadInputs /\ AfterEvents

-----------------------------------------------------------------------------
LEMMA EntryType ==
    ASSUME TypeOK, NEW c \in Cells
    PROVE  /\ Entry(c) \in Optional /\ Entry(c) # {}
           /\ params[c] # {} => Entry(c) = params[c]
           /\ Entry(c) \subseteq Values
<1>1. params[c] \in Optional /\ {Zero} \in Optional
  BY ScriptContextAssumption DEF TypeOK, Optional
<1>2. \A S \in Optional : S \subseteq Values
  BY DEF Optional
<1> QED
  BY <1>1, <1>2 DEF Entry

LEMMA ReservedCells == TimeCell \in Cells /\ SwapchainSizeCell \in Cells /\ TimeCell # SwapchainSizeCell
BY ScriptContextAssumption DEF TimeCell, SwapchainSizeCell, Cells

LEMMA InitInv == Init => Inv
<1> SUFFICES ASSUME Init
             PROVE  Inv
  OBVIOUS
<1>1. {} \in Optional
  BY DEF Optional
<1>2. params \in [Cells -> Optional] /\ sent \in [Cells -> Optional] /\ before \in [Cells -> Optional]
  BY <1>1 DEF Init
<1>3. /\ todo \in Seq(RawInputs) /\ context_inputs \in Seq(ParsedInputs)
      /\ context_requests \in Seq(Requests) /\ DOMAIN context_requests = {}
  BY DEF Init
<1>4. TypeOK
  <2>1. frame \in 0..MaxFrames
    BY ScriptContextAssumption DEF Init
  <2>2. curr_time \in Values /\ swapchain_size \in Values
    BY ScriptContextAssumption DEF Init
  <2>3. /\ pc \in {"idle", "build", "parse", "inputs", "run"} /\ as_script_func \in BOOLEAN
        /\ answer \in {"none", "bad_inputs", "exception", "events"}
    BY DEF Init
  <2> QED
    BY <1>2, <1>3, <2>1, <2>2, <2>3 DEF TypeOK, RawInputs
<1>5. SentValuesKept
  BY DEF Init, SentValuesKept
<1> QED
  BY <1>3, <1>4, <1>5
  DEF Init, Inv, RunUsesSentValues, ControlsHaveValues, RequestsOfThisRun,
      BadInputsChangeNothing, Untouched, NoRequestsYet, AfterBadInputs, AfterEvents

-----------------------------------------------------------------------------
(* Writing a cell: with a value of the host, with a value of the script, or *)
(* with what a missing entry is given.                                      *)

NothingIsRemoved == \A c \in Cells : params[c] # {} => params'[c] # {}

LEMMA WriteCell ==
    ASSUME TypeOK, SentValuesKept, NEW c \in Cells, NEW value \in Optional, value # {},
           params' = [params EXCEPT ![c] = value],
           \/ sent' = sent /\ (params[c] # {} => value = params[c])
           \/ sent' = [sent EXCEPT ![c] = {}]
           \/ sent' = [sent EXCEPT ![c] = value]
    PROVE  /\ params' \in [Cells -> Optional] /\ sent' \in [Cells -> Optional]
           /\ SentValuesKept' /\ NothingIsRemoved
           /\ params'[c] = value
<1>1. params \in [Cells -> Optional] /\ sent \in [Cells -> Optional] /\ {} \in Optional
  BY DEF TypeOK, Optional
<1>2. params' \in [Cells -> Optional] /\ sent' \in [Cells -> Optional] /\ params'[c] = value
  BY <1>1
<1>3. \A d \in Cells : d # c => params'[d] = params[d] /\ sent'[d] = sent[d]
  BY <1>1
<1>4. sent'[c] # {} => params'[c] = sent'[c]
  <2>1. CASE sent' = sent /\ (params[c] # {} => value = params[c])
    BY <1>1, <1>2, <2>1 DEF SentValuesKept
  <2>2. CASE sent' = [sent EXCEPT ![c] = {}] \/ sent' = [sent EXCEPT ![c] = value]
    BY <1>1, <1>2, <2>2
  <2> QED
    BY <2>1, <2>2
<1>5. SentValuesKept'
  BY <1>3, <1>4 DEF SentValuesKept
<1>6. NothingIsRemoved
  BY <1>2, <1>3 DEF NothingIsRemoved
<1> QED
  BY <1>2, <1>5, <1>6

LEMMA ControlsKeepValues ==
    ASSUME TypeOK, ControlsHaveValues, NothingIsRemoved, UNCHANGED context_requests
    PROVE  ControlsHaveValues'
<1> SUFFICES ASSUME NEW n \in DOMAIN context_requests,
                    context_requests[n].kind # "TextRequest"
             PROVE  params'[context_requests[n].cell] # {}
  BY DEF ControlsHaveValues
<1>1. context_requests[n] \in Requests
  BY DEF TypeOK
<1>2. context_requests[n].cell \in Cells
  BY <1>1 DEF Requests
<1> QED
  BY <1>2 DEF ControlsHaveValues, NothingIsRemoved

\* A value the host sent and a run copied does not change under it: within a run
\* the host sends nothing.
LEMMA RunKeepsSentValues ==
    ASSUME RunUsesSentValues, UNCHANGED <<pc, curr_time, swapchain_size>>,
           sent' = sent \/ \E c \in Cells : sent' = [sent EXCEPT ![c] = {}],
           TypeOK
    PROVE  RunUsesSentValues'
<1>1. \A d \in Cells : sent'[d] \subseteq sent[d]
  BY DEF TypeOK
<1> QED
  BY <1>1, ReservedCells DEF RunUsesSentValues

-----------------------------------------------------------------------------
(* One lemma for each action                                                *)

LEMMA CallLoadScriptInv == Inv /\ CallLoadScript => Inv'
BY DEF CallLoadScript, run_vars, Inv, TypeOK, SentValuesKept, RunUsesSentValues,
   ControlsHaveValues, RequestsOfThisRun, BadInputsChangeNothing, Untouched, NoRequestsYet,
   AfterBadInputs, AfterEvents

LEMMA LoadScriptReturnsInv == Inv /\ LoadScriptReturns => Inv'
BY DEF LoadScriptReturns, run_vars, Inv, TypeOK, SentValuesKept, RunUsesSentValues,
   ControlsHaveValues, RequestsOfThisRun, BadInputsChangeNothing, Untouched, NoRequestsYet,
   AfterBadInputs, AfterEvents

LEMMA CallRunScriptInv == Inv /\ CallRunScript => Inv'
<1> SUFFICES ASSUME Inv, CallRunScript
             PROVE  Inv'
  OBVIOUS
<1>1. frame' \in 0..MaxFrames
  BY ScriptContextAssumption DEF CallRunScript, Inv, TypeOK
<1>2. todo' \in Seq(RawInputs) /\ context_inputs' \in Seq(ParsedInputs)
  <2>1. InputLists \subseteq Seq(RawInputs)
    BY ScriptContextAssumption DEF RawInputs
  <2>2. todo' \in InputLists /\ context_inputs' = <<>>
    BY DEF CallRunScript
  <2>3. <<>> \in Seq(ParsedInputs)
    OBVIOUS
  <2> QED
    BY <2>1, <2>2, <2>3
<1>3. TypeOK'
  BY <1>1, <1>2 DEF CallRunScript, run_vars, Inv, TypeOK, RawInputs
<1> QED
  BY <1>3
  DEF CallRunScript, run_vars, Inv, SentValuesKept, RunUsesSentValues, ControlsHaveValues,
      RequestsOfThisRun, BadInputsChangeNothing, Untouched, NoRequestsYet, AfterBadInputs,
      AfterEvents

LEMMA ParsedInputType ==
    ASSUME NEW input \in RawInputs
    PROVE  ParsedInput(input) \in ParsedInputs
<1>1. CASE input.type \in Types
  <2>1. <<input.type, input.name>> \in Cells /\ {input.value} \in Optional
    BY <1>1 DEF RawInputs, Cells, Optional
  <2> QED
    BY <1>1, <2>1 DEF ParsedInput, ParsedInputs
<1>2. CASE input.type \notin Types
  <2>1. <<"float", input.name>> \in Cells /\ {} \in Optional
    BY ScriptContextAssumption DEF RawInputs, Cells, Optional
  <2> QED
    BY <1>2, <2>1 DEF ParsedInput, ParsedInputs
<1> QED
  BY <1>1, <1>2

LEMMA ParseContextInputInv == Inv /\ ParseContextInput => Inv'
<1> SUFFICES ASSUME Inv, ParseContextInput
             PROVE  Inv'
  OBVIOUS
<1>1. todo \in Seq(RawInputs) /\ todo # <<>>
  BY DEF ParseContextInput, Inv, TypeOK, RawInputs
<1>2. Head(todo) \in RawInputs /\ Tail(todo) \in Seq(RawInputs)
  BY <1>1
<1>3. context_inputs' \in Seq(ParsedInputs) /\ todo' \in Seq(RawInputs)
  BY <1>2, ParsedInputType DEF ParseContextInput, Inv, TypeOK
<1>4. TypeOK'
  BY <1>3 DEF ParseContextInput, run_vars, Inv, TypeOK, RawInputs
<1> QED
  BY <1>4
  DEF ParseContextInput, run_vars, Inv, SentValuesKept, RunUsesSentValues,
      ControlsHaveValues, RequestsOfThisRun, BadInputsChangeNothing, Untouched,
      NoRequestsYet, AfterBadInputs, AfterEvents

LEMMA BadContextInputInv == Inv /\ BadContextInput => Inv'
<1> SUFFICES ASSUME Inv, BadContextInput
             PROVE  Inv'
  OBVIOUS
<1>1. todo' \in Seq(RawInputs) /\ context_inputs' \in Seq(ParsedInputs)
  BY DEF BadContextInput
<1>2. TypeOK'
  BY <1>1 DEF BadContextInput, run_vars, Inv, TypeOK, RawInputs
<1> QED
  BY <1>2
  DEF BadContextInput, run_vars, Inv, SentValuesKept, RunUsesSentValues,
      ControlsHaveValues, RequestsOfThisRun, BadInputsChangeNothing, Untouched,
      NoRequestsYet, AfterBadInputs, AfterEvents

LEMMA InputsParsedInv == Inv /\ InputsParsed => Inv'
<1> SUFFICES ASSUME Inv, InputsParsed
             PROVE  Inv'
  OBVIOUS
<1>1. context_requests' \in Seq(Requests) /\ DOMAIN context_requests' = {}
  BY DEF InputsParsed
<1>2. TypeOK'
  BY <1>1 DEF InputsParsed, Inv, TypeOK
<1> QED
  BY <1>1, <1>2
  DEF InputsParsed, Inv, SentValuesKept, RunUsesSentValues, ControlsHaveValues,
      RequestsOfThisRun, BadInputsChangeNothing, Untouched, NoRequestsYet, AfterBadInputs,
      AfterEvents

LEMMA SetContextInputInv == Inv /\ SetContextInput => Inv'
<1> SUFFICES ASSUME Inv, SetContextInput
             PROVE  Inv'
  OBVIOUS
<1> DEFINE input == Head(context_inputs)
           value == IF input.value = {} THEN {Zero} ELSE input.value
<1>1. context_inputs \in Seq(ParsedInputs) /\ context_inputs # <<>>
  BY DEF SetContextInput, Inv, TypeOK
<1>2. input \in ParsedInputs /\ context_inputs' \in Seq(ParsedInputs)
  BY <1>1 DEF SetContextInput
<1>3. input.cell \in Cells /\ input.value \in Optional
  BY <1>2 DEF ParsedInputs
<1>4. value \in Optional /\ value # {} /\ (input.value # {} => value = input.value)
  BY <1>3, ScriptContextAssumption DEF Optional
<1>5. /\ params' = [params EXCEPT ![input.cell] = value]
      /\ \/ sent' = [sent EXCEPT ![input.cell] = {}]
         \/ sent' = [sent EXCEPT ![input.cell] = value]
  BY <1>4 DEF SetContextInput
<1> HIDE DEF input, value
<1>6. /\ params' \in [Cells -> Optional] /\ sent' \in [Cells -> Optional]
      /\ SentValuesKept' /\ NothingIsRemoved
  BY <1>3, <1>4, <1>5, WriteCell DEF Inv
<1>7. TypeOK'
  BY <1>2, <1>6 DEF SetContextInput, run_vars, Inv, TypeOK
<1>8. ControlsHaveValues'
  BY <1>6, ControlsKeepValues DEF SetContextInput, run_vars, Inv
<1> QED
  BY <1>6, <1>7, <1>8
  DEF SetContextInput, run_vars, Inv, RunUsesSentValues, RequestsOfThisRun,
      BadInputsChangeNothing, Untouched, NoRequestsYet, AfterBadInputs, AfterEvents

LEMMA StartRunInv == Inv /\ StartRun => Inv'
<1> SUFFICES ASSUME Inv, StartRun
             PROVE  Inv'
  OBVIOUS
<1>1. /\ params \in [Cells -> Optional] /\ sent \in [Cells -> Optional] /\ TypeOK
      /\ sent' = sent
  BY DEF StartRun, Inv, TypeOK
<1>2. \A c \in Cells :
          params'[c] = IF c \in {TimeCell, SwapchainSizeCell} THEN Entry(c) ELSE params[c]
  BY <1>1, ReservedCells DEF StartRun
<1>3. params' \in [Cells -> Optional]
  <2>1. DOMAIN params' = Cells /\ params' = [c \in Cells |-> params'[c]]
    BY <1>1 DEF StartRun
  <2>2. \A c \in Cells : params'[c] \in Optional
    BY <1>1, <1>2, EntryType
  <2> QED
    BY <2>1, <2>2
<1>4. \A c \in Cells : params[c] # {} => params'[c] = params[c]
  BY <1>1, <1>2, EntryType
<1>5. NothingIsRemoved
  BY <1>4 DEF NothingIsRemoved
<1>6. SentValuesKept'
  BY <1>1, <1>4 DEF Inv, SentValuesKept
<1>7. curr_time' \in Values /\ swapchain_size' \in Values
  BY <1>1, ReservedCells, EntryType DEF StartRun
<1>8. TypeOK'
  BY <1>1, <1>3, <1>7 DEF StartRun, Inv, TypeOK
<1>9. RunUsesSentValues'
  <2>1. ASSUME NEW v \in sent[TimeCell]
        PROVE  curr_time' = v
    <3>1. sent[TimeCell] = {v} /\ params[TimeCell] = {v}
      BY <1>1, <2>1, ReservedCells DEF Inv, SentValuesKept, Optional
    <3> QED
      BY <3>1 DEF StartRun, Entry
  <2>2. ASSUME NEW v \in sent[SwapchainSizeCell]
        PROVE  swapchain_size' = v
    <3>1. sent[SwapchainSizeCell] = {v} /\ params[SwapchainSizeCell] = {v}
      BY <1>1, <2>2, ReservedCells DEF Inv, SentValuesKept, Optional
    <3> QED
      BY <3>1 DEF StartRun, Entry
  <2> QED
    BY <1>1, <2>1, <2>2 DEF RunUsesSentValues
<1>10. context_requests' = <<>> /\ DOMAIN context_requests' = {}
  BY DEF StartRun, Inv, NoRequestsYet
<1> QED
  BY <1>6, <1>8, <1>9, <1>10
  DEF StartRun, Inv, ControlsHaveValues, RequestsOfThisRun, BadInputsChangeNothing,
      Untouched, NoRequestsYet, AfterBadInputs, AfterEvents

LEMMA RunScriptReturnsInv == Inv /\ RunScriptReturns => Inv'
BY DEF RunScriptReturns, run_vars, Inv, TypeOK, SentValuesKept, RunUsesSentValues,
   ControlsHaveValues, RequestsOfThisRun, BadInputsChangeNothing, Untouched, NoRequestsYet,
   AfterBadInputs, AfterEvents

\* A request is recorded for a cell that has a value, in the run that asks for it.
LEMMA AppendRequest ==
    ASSUME Inv, InScript, UNCHANGED call_vars, NothingIsRemoved,
           NEW request \in Requests,
           context_requests' = Append(context_requests, request),
           request.kind # "TextRequest" => params'[request.cell] # {},
           pc = "run" => request.frame = frame
    PROVE  /\ context_requests' \in Seq(Requests)
           /\ ControlsHaveValues' /\ RequestsOfThisRun'
<1>1. context_requests \in Seq(Requests)
  BY DEF Inv, TypeOK
<1>2. context_requests' \in Seq(Requests)
  BY <1>1
<1>3. ASSUME NEW n \in DOMAIN context_requests'
      PROVE  \/ context_requests'[n] = request
             \/ n \in DOMAIN context_requests /\ context_requests'[n] = context_requests[n]
  BY <1>1
<1>4. ControlsHaveValues'
  <2> SUFFICES ASSUME NEW n \in DOMAIN context_requests', n \in DOMAIN context_requests,
                      context_requests'[n] = context_requests[n],
                      context_requests[n].kind # "TextRequest"
               PROVE  params'[context_requests[n].cell] # {}
    BY <1>3 DEF ControlsHaveValues
  <2>1. context_requests[n] \in Requests
    BY <1>1
  <2>2. context_requests[n].cell \in Cells
    BY <2>1 DEF Requests
  <2> QED
    BY <2>2 DEF Inv, ControlsHaveValues, NothingIsRemoved
<1>5. RequestsOfThisRun'
  BY <1>3 DEF Inv, RequestsOfThisRun, InScript, AfterEvents, call_vars
<1> QED
  BY <1>2, <1>4, <1>5

LEMMA ControlInv ==
    ASSUME Inv, NEW kind \in {"IntRequest", "FloatRequest", "BoolRequest"}, NEW c \in Cells,
           NEW def_val \in Values, Control(kind, c, def_val)
    PROVE  Inv'
<1> DEFINE value == IF params[c] = {} THEN {def_val} ELSE params[c]
<1>1. value \in Optional /\ value # {} /\ (params[c] # {} => value = params[c])
  BY DEF Inv, TypeOK, Optional
<1>2. params' = [params EXCEPT ![c] = value] /\ sent' = sent /\ InScript /\ UNCHANGED call_vars
  BY DEF Control
<1> HIDE DEF value
<1>3. /\ params' \in [Cells -> Optional] /\ sent' \in [Cells -> Optional]
      /\ SentValuesKept' /\ NothingIsRemoved /\ params'[c] # {}
  BY <1>1, <1>2, WriteCell DEF Inv
<1>4. frame \in Nat
  BY ScriptContextAssumption DEF Inv, TypeOK
<1>5. /\ Request(kind, c) \in Requests
      /\ Request(kind, c).cell = c
      /\ pc = "run" => Request(kind, c).frame = frame
  BY <1>4 DEF Request, Requests
<1>6. /\ context_requests' \in Seq(Requests)
      /\ ControlsHaveValues' /\ RequestsOfThisRun'
  BY <1>2, <1>3, <1>5, AppendRequest DEF Control
<1>7. TypeOK'
  BY <1>2, <1>3, <1>6 DEF Control, call_vars, Inv, TypeOK
<1>8. RunUsesSentValues'
  BY <1>2, RunKeepsSentValues DEF Control, call_vars, Inv
<1> QED
  BY <1>2, <1>3, <1>6, <1>7, <1>8
  DEF call_vars, InScript, Inv, BadInputsChangeNothing, Untouched, NoRequestsYet,
      AfterBadInputs, AfterEvents

LEMMA TextInv == Inv /\ Text => Inv'
<1> SUFFICES ASSUME Inv, Text
             PROVE  Inv'
  OBVIOUS
<1>1. frame \in Nat
  BY ScriptContextAssumption DEF Inv, TypeOK
<1> DEFINE request == Request("TextRequest", <<>>)
<1>2. /\ request \in Requests
      /\ request.kind = "TextRequest"
      /\ pc = "run" => request.frame = frame
  BY <1>1 DEF Request, Requests
<1>3. InScript /\ UNCHANGED call_vars /\ params' = params /\ sent' = sent /\ NothingIsRemoved
  BY DEF Text, NothingIsRemoved
<1>4. /\ context_requests' \in Seq(Requests)
      /\ ControlsHaveValues' /\ RequestsOfThisRun'
  BY <1>2, <1>3, AppendRequest DEF Text
<1>5. TypeOK' /\ RunUsesSentValues' /\ SentValuesKept'
  BY <1>3, <1>4 DEF Text, call_vars, Inv, TypeOK, RunUsesSentValues, SentValuesKept
<1> QED
  BY <1>3, <1>4, <1>5
  DEF call_vars, InScript, Inv, BadInputsChangeNothing, Untouched, NoRequestsYet,
      AfterBadInputs, AfterEvents

LEMMA ContextInv ==
    ASSUME Inv, NEW c \in Cells, NEW v \in Values, ReadContext(c) \/ WriteContext(c, v)
    PROVE  Inv'
<1>1. InScript /\ UNCHANGED <<call_vars, run_vars>>
  BY DEF ReadContext, WriteContext
<1>2. /\ params' \in [Cells -> Optional] /\ sent' \in [Cells -> Optional]
      /\ SentValuesKept' /\ NothingIsRemoved
      /\ sent' = sent \/ sent' = [sent EXCEPT ![c] = {}]
  <2>1. CASE ReadContext(c)
    BY <2>1, EntryType, WriteCell DEF ReadContext, Inv
  <2>2. CASE WriteContext(c, v)
    <3>1. {v} \in Optional /\ {v} # {}
      BY DEF Optional
    <3> QED
      BY <2>2, <3>1, WriteCell DEF WriteContext, Inv
  <2> QED
    BY <2>1, <2>2
<1>3. TypeOK'
  BY <1>1, <1>2 DEF call_vars, run_vars, Inv, TypeOK
<1>4. ControlsHaveValues'
  BY <1>1, <1>2, ControlsKeepValues DEF run_vars, Inv
<1>5. RunUsesSentValues'
  BY <1>1, <1>2, RunKeepsSentValues DEF call_vars, run_vars, Inv
<1> QED
  BY <1>1, <1>2, <1>3, <1>4, <1>5
  DEF call_vars, run_vars, InScript, Inv, RequestsOfThisRun, BadInputsChangeNothing,
      Untouched, NoRequestsYet, AfterBadInputs, AfterEvents

-----------------------------------------------------------------------------
LEMMA ScriptInv == Inv /\ Script => Inv'
<1> SUFFICES ASSUME Inv, Script
             PROVE  Inv'
  OBVIOUS
<1>1. CASE \E name \in ControlNames, def_val \in Values :
              SliderInt(name, def_val) \/ SliderFloat(name, def_val) \/ Checkbox(name, def_val)
  <2>1. PICK name \in ControlNames, def_val \in Values :
              SliderInt(name, def_val) \/ SliderFloat(name, def_val) \/ Checkbox(name, def_val)
    BY <1>1
  <2>2. <<"int", name>> \in Cells /\ <<"float", name>> \in Cells
    BY ScriptContextAssumption DEF Cells
  <2> QED
    BY <2>1, <2>2, ControlInv DEF SliderInt, SliderFloat, Checkbox
<1>2. CASE Text
  BY <1>2, TextInv
<1>3. CASE \E c \in References : ReadContext(c) \/ \E value \in Values : WriteContext(c, value)
  BY <1>3, ScriptContextAssumption, ContextInv
<1> QED
  BY <1>1, <1>2, <1>3 DEF Script

LEMMA NextInv == Inv /\ [Next]_vars => Inv'
<1>1. Inv /\ UNCHANGED vars => Inv'
  BY DEF vars, call_vars, run_vars, Inv, TypeOK, SentValuesKept, RunUsesSentValues,
     ControlsHaveValues, RequestsOfThisRun, BadInputsChangeNothing, Untouched,
     NoRequestsYet, AfterBadInputs, AfterEvents
<1> QED
  BY <1>1, CallLoadScriptInv, LoadScriptReturnsInv, CallRunScriptInv, ParseContextInputInv,
     BadContextInputInv, InputsParsedInv, SetContextInputInv, StartRunInv,
     RunScriptReturnsInv, ScriptInv
  DEF Next

\* Parameters, inputs and requests are as Inv says in every state.
THEOREM Invariance == Spec => []Inv
BY InitInv, NextInv, PTL DEF Spec

\* Entries, inputs and requests have their types.
THEOREM TypeCorrect == Spec => []TypeOK
BY Invariance, PTL DEF Inv

\* What the host sends stays until a script assigns to it.
THEOREM HostValuesStay == Spec => []SentValuesKept
BY Invariance, PTL DEF Inv

\* A run uses the time and the size the host sent.
THEOREM ReservedParameters == Spec => []RunUsesSentValues
BY Invariance, PTL DEF Inv

\* What the host is asked for has a value.
THEOREM RequestsHaveValues == Spec => []ControlsHaveValues
BY Invariance, PTL DEF Inv

\* A frame asks for nothing of an earlier run or of a load.
THEOREM RequestsOfRun == Spec => []RequestsOfThisRun
BY Invariance, PTL DEF Inv

\* Inputs are applied all or none.
THEOREM InputsAtomic == Spec => []BadInputsChangeNothing
BY Invariance, PTL DEF Inv
=============================================================================
