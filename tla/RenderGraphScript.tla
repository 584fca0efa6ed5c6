------------------------- MODULE RenderGraphScript -------------------------
(***************************************************************************)
(* The script host of LegitScript: one AngelScript engine, one entry       *)
(* function and the events of the last run                                 *)
(* (LegitScript/source/RenderGraphScript.cpp).                             *)
(*                                                                         *)
(* The class runs inside the caller's thread and every step of it that may *)
(* throw is an action here, so that what a throw leaves behind is visible. *)
(* LegitScript.tla adds the control that calls these actions.              *)
(*                                                                         *)
(* A std::optional or std::unique_ptr is a set of at most one element.     *)
(* The AngelScript compiler and virtual machine are external: whether a    *)
(* source compiles and which passes its main() calls are choices.          *)
(***************************************************************************)
EXTENDS Naturals, Sequences

CONSTANTS
    Builtins,   \* signatures registered before any pass, and reserved ones
    Formats     \* the pixel formats scripts ask images of

VARIABLES
    as_script_engine,   \* {} or {[id, passes]}: the passes registered so far
    as_script_func,     \* {} or {[engine, main]}: main is FALSE for a nullptr
    script_events,      \* the shader invocations of the current or last run
    requested_formats   \* the formats of the images that run requested

rg_vars == <<as_script_engine, as_script_func, script_events, requested_formats>>

-----------------------------------------------------------------------------
(* Pass declarations.  An argument is [kind, type, access]: a pod type, a   *)
(* sampler or an image; access is "in" (also when absent), "out" or "inout".*)

SizeOf(type) ==
    CASE type \in {"float", "int", "uint"}    -> 4
      [] type \in {"vec2", "ivec2", "uvec2"}  -> 8
      [] type \in {"vec3", "ivec3", "uvec3"}  -> 12
      [] type \in {"vec4", "ivec4", "uvec4"}  -> 16

IsUniform(arg) == arg.kind = "pod" /\ arg.access # "out"

ArgTypeToAsType(arg) == IF IsUniform(arg) THEN arg.type ELSE "Image"

\* What AngelScript tells overloads apart by: the name and the argument types.
CreateAsPassFuncDeclaration(decl) ==
    [name |-> decl.name,
     args |-> [i \in DOMAIN decl.args |-> ArgTypeToAsType(decl.args[i])]]

Uniforms(decl) == SelectSeq(decl.args, IsUniform)

TakesVoid(decl) == \E i \in DOMAIN Uniforms(decl) : Uniforms(decl)[i].type = "void"

\* RegisterGlobalFunction accepts a signature that is new to the engine and
\* has no void argument.
Registrable(engine, decl) ==
    LET signature == CreateAsPassFuncDeclaration(decl)
    IN  /\ signature \notin Builtins
        /\ \A i \in DOMAIN engine.passes :
               CreateAsPassFuncDeclaration(engine.passes[i]) # signature
        /\ ~TakesVoid(decl)

\* The wrapper of an image argument throws before it records anything.
Invocable(decl) == \A i \in DOMAIN decl.args : decl.args[i].kind # "image"

\* AddUniformValue is called for every argument that is a uniform, in order.
UniformSizes(decl) ==
    [i \in DOMAIN Uniforms(decl) |-> SizeOf(Uniforms(decl)[i].type)]

ShaderInvocation(decl) ==
    [shader_name |-> decl.name, decl |-> decl, uniform_values |-> UniformSizes(decl)]

\* The enum scripts name formats with: a script may cast any integer to it, and
\* GetImage records what it is given.
PixelFormats == {"rgba8", "rgba16f", "rgba32f"}

-----------------------------------------------------------------------------
(* Steps of LoadScript and RunScript.                                       *)

RGInit ==
    /\ as_script_engine = {}
    /\ as_script_func = {}
    /\ script_events = <<>>
    /\ requested_formats = {}

\* Variant: the function of the destroyed engine is kept.
RecreateKeepingFunc(id) ==
    /\ as_script_engine' = {[id |-> id, passes |-> <<>>]}
    /\ UNCHANGED <<as_script_func, script_events, requested_formats>>

\* The function is dropped before the engine it points into is destroyed.
RecreateAsScriptEngine(id) ==
    /\ as_script_func' = {}
    /\ as_script_engine' = {[id |-> id, passes |-> <<>>]}
    /\ UNCHANGED <<script_events, requested_formats>>

RegisterAsScriptPassFunction(engine, decl) ==
    /\ Registrable(engine, decl)
    /\ as_script_engine' = {[engine EXCEPT !.passes = Append(@, decl)]}
    /\ UNCHANGED <<as_script_func, script_events, requested_formats>>

\* The module was built: main is FALSE when an included block overloads main,
\* which GetFunctionByName answers with a nullptr.
GetMainFunction(engine, main) ==
    /\ as_script_func' = {[engine |-> engine.id, main |-> main]}
    /\ UNCHANGED <<as_script_engine, script_events, requested_formats>>

ResetScriptEvents ==
    /\ script_events' = <<>>
    /\ requested_formats' = {}
    /\ UNCHANGED <<as_script_engine, as_script_func>>

InvokePass(decl) ==
    /\ Invocable(decl)
    /\ script_events' = Append(script_events, ShaderInvocation(decl))
    /\ UNCHANGED <<as_script_engine, as_script_func, requested_formats>>

\* GetImage and GetMippedImage record the request before they return the image.
RequestImage(format) ==
    /\ requested_formats' = requested_formats \cup {format}
    /\ UNCHANGED <<as_script_engine, as_script_func, script_events>>
=============================================================================
