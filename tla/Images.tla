------------------------------- MODULE Images -------------------------------
(***************************************************************************)
(* The images a render graph script works with                              *)
(* (LegitScript/source/RenderGraphScript.cpp: ImageInfo, RegisterImageType  *)
(* and the image arguments of a pass).                                      *)
(*                                                                         *)
(* An image is an index into image_infos, which every run clears, and a     *)
(* half-open range of mips.  A script may keep one in a global variable,    *)
(* which lives as long as its engine: from the load that builds it to the   *)
(* next one.  Global variables are initialised while the engine is built,   *)
(* so the same functions run then, on the image_infos of the run before.    *)
(*                                                                         *)
(* Images and requests count from 0 in the code; image id is image_infos    *)
(* [id + 1] here.  An index past the end reads memory that nobody wrote for *)
(* it: any number of mips.  A variable is empty until the script sets it.   *)
(***************************************************************************)
EXTENDS Integers, Sequences, FiniteSets

CONSTANTS
    Globals, Locals,   \* the script's variables of type Image
    Sizes,             \* sizes <<x, y>> of images and of the swapchain
    Levels,            \* arguments of GetMip
    IntMax,            \* the largest int; sums beyond it wrap around
    MaxFrames,         \* bound: calls of RunScript
    MaxImages,         \* bound: images in image_infos
    MaxMips            \* bound: mips read where no image is stored

ASSUME ImagesAssumption ==
    /\ Sizes \subseteq Nat \X Nat
    /\ IntMax \in Nat \ {0}
    /\ Levels \subseteq (-(IntMax + 1))..IntMax
    /\ MaxFrames \in Nat /\ MaxImages \in Nat \ {0} /\ MaxMips \in Nat
    /\ Globals \cap Locals = {}

VARIABLES
    pc,                 \* "idle", "build" (global initialisers) or "run"
    as_script_func,     \* whether a program can be run
    image_infos,
    context_requests,   \* the CachedImageRequests of the current or last run
    bound,              \* {} or the image its last invocation binds
    images,             \* variable -> {} or {image}
    frame               \* number of runs so far

vars == <<pc, as_script_func, image_infos, context_requests, bound, images, frame>>

Variables == Globals \cup Locals
InScript == pc \in {"build", "run"}

-----------------------------------------------------------------------------
(* Mips *)

\* The loop halves both sides as long as both are greater than 1.
GetMipsCount(size) ==
    Cardinality({k \in 0..30 : \A side \in {1, 2} : size[side] \div 2^k > 1})

WrapInt(n) ==
    IF n > IntMax THEN n - 2 * (IntMax + 1)
    ELSE IF n < -(IntMax + 1) THEN n + 2 * (IntMax + 1)
    ELSE n

\* What the implementations of std::clamp<int>(v, 0, hi) return; for hi = -1 the
\* call is undefined and they differ for a negative v.
Clamp(v, hi) ==
    IF hi >= 0
    THEN {IF v < 0 THEN 0 ELSE IF v > hi THEN hi ELSE v}
    ELSE IF v >= 0 THEN {hi} ELSE {0, hi}

\* [id, lo, hi] is the Image of the code.  The rest is auxiliary: the run that
\* made it, 0 for an initialiser, and the size it was made with.
Image(id, lo, hi, size) ==
    [id |-> id, lo |-> lo, hi |-> hi,
     made |-> IF pc = "run" THEN frame ELSE 0, size |-> size]

-----------------------------------------------------------------------------
Init ==
    /\ pc = "idle"
    /\ as_script_func = FALSE
    /\ image_infos = <<>>
    /\ context_requests = <<>>
    /\ bound = {}
    /\ images = [v \in Variables |-> {}]
    /\ frame = 0

\* Local variables are gone when the script returns.
LeaveScript ==
    /\ pc' = "idle"
    /\ images' = [v \in Variables |-> IF v \in Locals THEN {} ELSE images[v]]
    /\ UNCHANGED <<image_infos, context_requests, bound, frame>>

\* A load that reaches the compilation of a render graph replaces the engine, and
\* its global variables with it.
CallLoadScript ==
    /\ pc = "idle"
    /\ pc' = "build"
    /\ as_script_func' = FALSE
    /\ images' = [v \in Variables |-> {}]
    /\ UNCHANGED <<image_infos, context_requests, bound, frame>>

LoadScriptReturns ==
    /\ pc = "build"
    /\ as_script_func' = TRUE
    /\ LeaveScript

LoadScriptThrows ==
    /\ pc = "build"
    /\ LeaveScript
    /\ UNCHANGED as_script_func

\* Variant: image_infos goes on growing from run to run.
CallRunScriptWithoutClear(swapchain_size) ==
    /\ pc = "idle"
    /\ frame < MaxFrames
    /\ frame' = frame + 1
    /\ context_requests' = <<>>
    /\ bound' = {}
    /\ image_infos' =
           IF image_infos = <<>> THEN <<swapchain_size>>
           ELSE [image_infos EXCEPT ![1] = swapchain_size]
    /\ pc' = IF as_script_func THEN "run" ELSE "idle"
    /\ UNCHANGED <<as_script_func, images>>

\* The events are reset and the images cleared before it is known whether there
\* is a program; without one the call throws.
CallRunScript(swapchain_size) ==
    /\ pc = "idle"
    /\ frame < MaxFrames
    /\ frame' = frame + 1
    /\ context_requests' = <<>>
    /\ bound' = {}
    /\ image_infos' = <<swapchain_size>>
    /\ pc' = IF as_script_func THEN "run" ELSE "idle"
    /\ UNCHANGED <<as_script_func, images>>

\* main() returns, or throws: the function stays.
RunScriptReturns ==
    /\ pc = "run"
    /\ LeaveScript
    /\ UNCHANGED as_script_func

-----------------------------------------------------------------------------
(* What the script calls.  The result is stored in variable v.              *)

\* Variant: the id is taken after the image is stored.
NewImageIdAfter(v, size, hi) ==
    /\ InScript
    /\ Len(image_infos) < MaxImages
    /\ LET id == Len(image_infos) + 1
       IN  /\ image_infos' = Append(image_infos, size)
           /\ context_requests' = Append(context_requests, [id |-> id, size |-> size])
           /\ images' = [images EXCEPT ![v] = {Image(id, 0, hi, size)}]
    /\ UNCHANGED <<pc, as_script_func, bound, frame>>

\* Variant: an image of a size that was requested before is not requested again.
NewImageRequestedOnce(v, size, hi) ==
    /\ InScript
    /\ Len(image_infos) < MaxImages
    /\ LET id == Len(image_infos)
       IN  /\ image_infos' = Append(image_infos, size)
           /\ context_requests' =
                  IF \E n \in DOMAIN context_requests : context_requests[n].size = size
                  THEN context_requests
                  ELSE Append(context_requests, [id |-> id, size |-> size])
           /\ images' = [images EXCEPT ![v] = {Image(id, 0, hi, size)}]
    /\ UNCHANGED <<pc, as_script_func, bound, frame>>

NewImage(v, size, hi) ==
    /\ InScript
    /\ Len(image_infos) < MaxImages
    /\ LET id == Len(image_infos)
       IN  /\ image_infos' = Append(image_infos, size)
           /\ context_requests' = Append(context_requests, [id |-> id, size |-> size])
           /\ images' = [images EXCEPT ![v] = {Image(id, 0, hi, size)}]
    /\ UNCHANGED <<pc, as_script_func, bound, frame>>

GetImage(v, size) == NewImage(v, size, 1)

GetMippedImage(v, size) == NewImage(v, size, GetMipsCount(size))

\* Variant: the swapchain is looked for at the end of image_infos.
GetSwapchainImageLast(v) ==
    /\ InScript
    /\ \E size \in IF image_infos = <<>> THEN Sizes ELSE {image_infos[Len(image_infos)]} :
           images' = [images EXCEPT ![v] = {Image(Len(image_infos) - 1, 0, 1, size)}]
    /\ UNCHANGED <<pc, as_script_func, image_infos, context_requests, bound, frame>>

\* Needs no image_infos: before the first run there is none.
GetSwapchainImage(v) ==
    /\ InScript
    /\ \E size \in IF image_infos = <<>> THEN Sizes ELSE {image_infos[1]} :
           images' = [images EXCEPT ![v] = {Image(0, 0, 1, size)}]
    /\ UNCHANGED <<pc, as_script_func, image_infos, context_requests, bound, frame>>

MipOf(img, mip) ==
    [id |-> img.id, lo |-> mip, hi |-> mip + 1, made |-> img.made, size |-> img.size]

MipsCounts(id) ==
    IF id + 1 \in DOMAIN image_infos THEN {GetMipsCount(image_infos[id + 1])} ELSE 0..MaxMips

\* Variant: a level that is too high is clamped too.
MipsTakenUnchecked(img, level) ==
    UNION {Clamp(WrapInt(img.lo + level), count - 1) : count \in MipsCounts(img.id)}

\* The mip that GetMip answers with, or none where it throws.  Only the upper end
\* of the image's own range is checked.
MipsTaken(img, level) ==
    LET dst_mip == WrapInt(img.lo + level)
        mips == UNION {Clamp(dst_mip, count - 1) : count \in MipsCounts(img.id)}
    IN  {mip \in mips : dst_mip < img.hi}

\* Variant: the level is not clamped.
GetMipUnclamped(v, img, level) ==
    LET dst_mip == WrapInt(img.lo + level)
    IN  /\ InScript
        /\ dst_mip < img.hi
        /\ images' = [images EXCEPT ![v] = {MipOf(img, dst_mip)}]
        /\ UNCHANGED <<pc, as_script_func, image_infos, context_requests, bound, frame>>

GetMip(v, img, level) ==
    /\ InScript
    /\ \E mip \in MipsTaken(img, level) : images' = [images EXCEPT ![v] = {MipOf(img, mip)}]
    /\ UNCHANGED <<pc, as_script_func, image_infos, context_requests, bound, frame>>

\* A pass is called with the image as a sampler, or as a render target, which
\* has one mip.
BindImage(img) ==
    /\ InScript
    /\ bound' = {img}
    /\ UNCHANGED <<pc, as_script_func, image_infos, context_requests, images, frame>>

BindSampler(img) == BindImage(img)

BindRenderTarget(img) == img.hi - img.lo = 1 /\ BindImage(img)

\* GetMip of a level that is too high and a render target of more mips throw.
ScriptThrows ==
    /\ \E v \in Variables : \E img \in images[v] :
          \/ \E level \in Levels : WrapInt(img.lo + level) >= img.hi
          \/ img.hi - img.lo # 1
    /\ LoadScriptThrows \/ RunScriptReturns

Script ==
    \/ \E v \in Variables, size \in Sizes : GetImage(v, size) \/ GetMippedImage(v, size)
    \/ \E v \in Variables : GetSwapchainImage(v)
    \/ \E v, w \in Variables : \E img \in images[w], level \in Levels : GetMip(v, img, level)
    \/ \E v \in Variables : \E img \in images[v] : BindSampler(img) \/ BindRenderTarget(img)
    \/ ScriptThrows

Next ==
    \/ CallLoadScript \/ LoadScriptReturns \/ LoadScriptThrows
    \/ \E swapchain_size \in Sizes : CallRunScript(swapchain_size)
    \/ RunScriptReturns
    \/ Script

Spec == Init /\ [][Next]_vars

-----------------------------------------------------------------------------
(* Properties *)

Ranges == [id : Nat, lo : Int, hi : Int, made : Nat, size : Nat \X Nat]

\* Type invariant.
TypeOK ==
    /\ pc \in {"idle", "build", "run"}
    /\ as_script_func \in BOOLEAN
    /\ image_infos \in Seq(Nat \X Nat) /\ Len(image_infos) <= MaxImages
    /\ context_requests \in Seq([id : Nat, size : Nat \X Nat])
    /\ images \in [Variables -> SUBSET Ranges]
    /\ \A v \in Variables : \A x, y \in images[v] : x = y
    /\ bound \subseteq Ranges
    /\ frame \in 0..MaxFrames

\* The images made in this run, wherever the script keeps them.
MadeNow == {img \in UNION {images[v] : v \in Variables} : pc = "run" /\ img.made = frame}

\* Every image a run makes is in image_infos for the rest of the run, under its
\* own id and with the size it was made with, whatever earlier runs and global
\* initialisers left there.
ImagesOfThisRunIndexed ==
    \A img \in MadeNow :
        img.id + 1 \in DOMAIN image_infos /\ image_infos[img.id + 1] = img.size

\* The requests of a run number its images: the host creates exactly the images
\* that image_infos has beside the swapchain, in this order.
RequestsNumberImages ==
    pc = "run" =>
        /\ Len(image_infos) = Len(context_requests) + 1
        /\ \A n \in DOMAIN context_requests :
               context_requests[n] = [id |-> n, size |-> image_infos[n + 1]]

Thin(size) == GetMipsCount(size) = 0

\* An image of a run, and every mip taken of it however often and with whatever
\* level, is a range of mips the image has, if it is more than one texel wide and
\* high.
MipsInsideImage ==
    \A img \in MadeNow :
        ~Thin(img.size) =>
            0 <= img.lo /\ img.lo < img.hi /\ img.hi <= GetMipsCount(img.size)

\* A mip that a script takes of an image of this run lies inside what it is taken
\* of, an image or a mip itself, if the image is more than one texel wide and high
\* and the level neither negative nor so high that the sum overflows: the check is
\* against the image's own range, the clamp against the whole image.  (Of an image
\* of one row or column GetMip(0) makes mip -1, which is outside.)
MipsOfImageNarrow ==
    \A img \in MadeNow, level \in Levels :
        ~Thin(img.size) /\ level >= 0 /\ img.lo + level <= IntMax =>
            \A mip \in MipsTaken(img, level) : img.lo <= mip /\ mip < img.hi

\* An image that an invocation binds, if this run made it, is the swapchain or was
\* requested in this run under its id and with its size: the host has created it
\* when it reads the invocation.  (An image kept from an earlier run may have any
\* id: its run's requests are gone.)
BoundImagesRequested ==
    pc = "run" =>
        \A img \in bound : img.made = frame =>
            \/ img.id = 0
            \/ \E n \in DOMAIN context_requests :
                   context_requests[n] = [id |-> img.id, size |-> img.size]
=============================================================================
