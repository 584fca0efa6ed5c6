------------------------------- MODULE JsonApi -------------------------------
(***************************************************************************)
(* The two functions a host calls, ls::LoadScript and ls::RunScript         *)
(* (LegitScript/source/LegitScriptJsonApi.cpp), over the object of          *)
(* LegitScript.tla and two globals: the object itself, created by the first *)
(* LoadScript, and the shader descriptions of the last accepted text, with  *)
(* which the invocations of a run are serialised.                           *)
(*                                                                         *)
(* answer is what the last call gave the host.  A serialiser assertion that *)
(* does not hold has four outcomes.  A build with assertions ends the       *)
(* process ("abort") or, as a WebAssembly module, ends the call in an       *)
(* exception of the host ("trap").  A build without them reads past the     *)
(* descriptions or converts bytes of another type: it answers what it read  *)
(* ("misread"), answers the error of a type it does not know ("mistyped")   *)
(* or faults, which is "abort" or "trap" again.                             *)
(***************************************************************************)
EXTENDS LegitScript, FiniteSets

CONSTANT AssertOutcomes   \* what a failed assertion does in the builds considered

AssertFailures == {"abort", "trap", "misread", "mistyped"}

ASSUME AssertOutcomesAssumption == AssertOutcomes \subseteq AssertFailures

VARIABLES
    instance,          \* whether the LegitScript object exists
    script_contents,   \* [load, shader_descs] of the last accepted text
    answer             \* what the last call answered, "none" during a call

json_vars == <<vars, instance, script_contents, answer>>

-----------------------------------------------------------------------------
(* Serialising the requests of a run, then its invocations.                 *)

\* PixelFormatToStr ends in an assertion for a format the enum does not name.
SerializeContextRequests(formats) == formats \subseteq PixelFormats

\* The last description of that name; a name nothing describes leaves the
\* description empty, for the error that is constructed is not thrown.
MatchingUniforms(descs, shader_name) ==
    LET found == {i \in DOMAIN descs : descs[i].name = shader_name}
    IN  IF found = {} THEN <<>>
        ELSE descs[CHOOSE i \in found : \A j \in found \ {i} : j < i].uniforms

SerializeUniformVal(size, type) ==
    IF type = "void" THEN "exception"
    ELSE IF size = SizeOf(type) THEN "json"
    ELSE "assert"

SerializeUniforms(sizes, types) ==
    IF DOMAIN sizes # DOMAIN types THEN <<"assert">>
    ELSE [i \in DOMAIN sizes |-> SerializeUniformVal(sizes[i], types[i])]

SerializeInvocation(inv, descs) ==
    SerializeUniforms(inv.uniform_values, MatchingUniforms(descs, inv.shader_name))

\* The first uniform, in the order of the invocations, that is not serialised
\* decides.
AllJson(outcomes) == \A i \in DOMAIN outcomes : outcomes[i] = "json"

FirstFailureIs(kind, events, descs) ==
    \E n \in DOMAIN events :
        /\ \A m \in 1..(n - 1) : AllJson(SerializeInvocation(events[m], descs))
        /\ LET outcomes == SerializeInvocation(events[n], descs)
           IN  \E i \in DOMAIN outcomes :
                   /\ outcomes[i] = kind
                   /\ \A j \in 1..(i - 1) : outcomes[j] = "json"

Serializable(formats, events, descs) ==
    /\ SerializeContextRequests(formats)
    /\ \A n \in DOMAIN events : AllJson(SerializeInvocation(events[n], descs))

-----------------------------------------------------------------------------
\* dump(2) comes after the try block: for a string that is not UTF-8 it throws out
\* of the call, and what the call did stays.
Dump(outcome) == answer' \in {outcome, "thrown"}

JsonInit ==
    /\ Init
    /\ instance = FALSE
    /\ script_contents = [load |-> 0, shader_descs |-> <<>>]
    /\ answer = "none"

JsonLoadScript ==
    /\ CallLoadScript
    /\ instance' = TRUE
    /\ answer' = "none"
    /\ UNCHANGED script_contents

\* Variant: a text whose answer cannot be dumped is not recorded.
JsonLoadScriptAcceptsWhenDumped ==
    /\ pc = "load_returned"
    /\ result = "contents"
    /\ Dump(result)
    /\ \/ /\ answer' = "thrown"
          /\ UNCHANGED script_contents
       \/ /\ answer' # "thrown"
          /\ \E t \in text :
                script_contents' = [load |-> load, shader_descs |-> ShaderDescs(t)]
    /\ Return
    /\ UNCHANGED instance

JsonLoadScriptAccepts ==
    /\ pc = "load_returned"
    /\ result = "contents"
    /\ \E t \in text :
          script_contents' = [load |-> load, shader_descs |-> ShaderDescs(t)]
    /\ Dump(result)
    /\ Return
    /\ UNCHANGED instance

\* Variant: the descriptions are stored before the load is known to be accepted.
JsonLoadScriptRejectsLate ==
    /\ pc = "load_returned"
    /\ result \in Exceptions
    /\ \E t \in text :
          script_contents' = [load |-> load, shader_descs |-> ShaderDescs(t)]
    /\ answer' = result
    /\ Return
    /\ UNCHANGED instance

JsonLoadScriptRejects ==
    /\ pc = "load_returned"
    /\ result \in Exceptions
    /\ Dump(result)
    /\ Return
    /\ UNCHANGED <<instance, script_contents>>

\* RunScript before any LoadScript: the assertion, or a null dereference.
JsonRunScriptNoInstance ==
    /\ pc = "idle"
    /\ ~instance
    /\ answer' = "no_instance"
    /\ Goto("dead")
    /\ UNCHANGED <<rg_vars, instance, script_contents>>

\* The inputs are not JSON of the expected form: nothing has happened yet.
JsonBadContextInputs ==
    /\ pc = "idle"
    /\ instance
    /\ Dump("exception")
    /\ UNCHANGED <<vars, instance, script_contents>>

JsonRunScript ==
    /\ instance
    /\ CallRunScript
    /\ answer' = "none"
    /\ UNCHANGED <<instance, script_contents>>

JsonRunScriptThrows ==
    /\ pc = "run_returned"
    /\ result \in Exceptions
    /\ answer' = result
    /\ Return
    /\ UNCHANGED <<instance, script_contents>>

JsonRunScriptAnswers ==
    /\ pc = "run_returned"
    /\ result = "events"
    /\ Serializable(requested_formats, script_events, script_contents.shader_descs)
    /\ Dump("events")
    /\ Return
    /\ UNCHANGED <<instance, script_contents>>

\* SerializeUniformVal throws "Unknown type" for a void uniform.
JsonUnknownTypeThrows ==
    /\ pc = "run_returned"
    /\ result = "events"
    /\ SerializeContextRequests(requested_formats)
    /\ FirstFailureIs("exception", script_events, script_contents.shader_descs)
    /\ answer' = "exception"
    /\ Return
    /\ UNCHANGED <<instance, script_contents>>

JsonAssertFails ==
    /\ pc = "run_returned"
    /\ result = "events"
    /\ \/ ~SerializeContextRequests(requested_formats)
       \/ FirstFailureIs("assert", script_events, script_contents.shader_descs)
    /\ \E outcome \in AssertOutcomes :
          IF outcome = "misread" THEN Dump(outcome) ELSE answer' = outcome
    /\ IF answer' = "abort"
       THEN Goto("dead") /\ UNCHANGED rg_vars
       ELSE Return
    /\ UNCHANGED <<instance, script_contents>>

\* The process is gone.
Dead == pc = "dead" /\ UNCHANGED json_vars

JsonNext ==
    \/ JsonLoadScript \/ JsonLoadScriptAccepts \/ JsonLoadScriptRejects
    \/ (LoadScript \/ RunScript) /\ UNCHANGED <<instance, script_contents, answer>>
    \/ JsonRunScriptNoInstance \/ JsonBadContextInputs
    \/ JsonRunScript \/ JsonRunScriptThrows \/ JsonRunScriptAnswers
    \/ JsonUnknownTypeThrows \/ JsonAssertFails
    \/ Dead

JsonSpec == JsonInit /\ [][JsonNext]_json_vars

-----------------------------------------------------------------------------
(* Properties *)

Answers ==
    {"none", "contents", "events", "thrown", "no_instance"}
        \cup AssertFailures \cup Exceptions

JsonTypeOK ==
    /\ TypeOK
    /\ instance \in BOOLEAN
    /\ script_contents.load \in 0..MaxLoads
    /\ answer \in Answers

\* The assertions of PixelFormatToStr, SerializeUniforms and SerializeUniformVal:
\* what a run returns fits the descriptions it is serialised with.
SerializeAssertionsHold == answer \notin AssertFailures

\* The stronger fact they approximate: every invocation the host receives is
\* serialised with the description of the very pass main() called.
EventsDescribedByTheirPass ==
    answer = "events" =>
        \A n \in DOMAIN script_events :
            MatchingUniforms(script_contents.shader_descs, script_events[n].shader_name)
                = CreateShaderDesc(script_events[n].decl).uniforms

\* Between calls the program that can be run is the one the host was last given
\* the descriptions of: a load is accepted with its program or not at all.
ServesWhatItDescribes ==
    pc = "idle" =>
        \A func \in as_script_func : func.engine.load = script_contents.load

\* The only ways a frame is not serialised: the run requested an image of a
\* format the enum does not name, the descriptions are of another load than the
\* program, or two passes have one name.  In every other case what main() requested
\* and invoked is serialised, whatever was loaded and rejected before.
SerializesOwnDescriptions ==
    /\ pc = "run_returned" /\ result = "events"
    /\ requested_formats \subseteq PixelFormats
    /\ \A func \in as_script_func : func.engine.load = script_contents.load
    /\ \A i, j \in DOMAIN script_contents.shader_descs :
           script_contents.shader_descs[i].name = script_contents.shader_descs[j].name
               => i = j
    => Serializable(requested_formats, script_events, script_contents.shader_descs)

\* The abstract service, with the program hidden while it is not the one the
\* host has the descriptions of.
LoadOfFunc == {func.engine.load : func \in as_script_func}

Service == INSTANCE ScriptService WITH
    Loads <- 1..MaxLoads,
    described <- script_contents.load,
    serving <- IF LoadOfFunc = {script_contents.load} THEN script_contents.load ELSE 0,
    frame <- IF answer = "events" THEN CHOOSE n \in LoadOfFunc : TRUE ELSE 0

ImplementsService == Service!ServiceSpec
=============================================================================
