---------------------------- MODULE ImagesProofs ----------------------------
(***************************************************************************)
(* Proofs about Images.tla for any sizes, variables, levels and bounds.     *)
(*                                                                         *)
(* Only images made in the run in progress are spoken of, so the invariant  *)
(* has to tell them from the others: no image is from a later run (Made).   *)
(* When a run starts there is therefore none of its own, and from then on   *)
(* image_infos only grows.                                                  *)
(***************************************************************************)
EXTENDS Images, FiniteSetTheorems, TLAPS

Made ==
    /\ \A v \in Variables : \A img \in images[v] : img.made <= frame
    /\ pc = "run" => frame > 0
    /\ pc = "build" => \A v \in Variables : \A img \in images[v] : img.made = 0

Inv == TypeOK /\ Made /\ ImagesOfThisRunIndexed /\ RequestsNumberImages /\ MipsInsideImage

-----------------------------------------------------------------------------
LEMMA MipsCountType ==
    ASSUME NEW size
    PROVE  GetMipsCount(size) \in Nat
<1>1. IsFiniteSet(0..30)
  <2>1. 0 \in Int /\ 30 \in Int
    OBVIOUS
  <2> QED
    BY <2>1, FS_Interval, Zenon
<1>2. IsFiniteSet({k \in 0..30 : \A side \in {1, 2} : size[side] \div 2^k > 1})
  BY <1>1, FS_Subset
<1> QED
  BY <1>2, FS_CardinalityType DEF GetMipsCount

\* The clamp keeps a level inside an image that has mips.
LEMMA ClampRange ==
    ASSUME NEW v \in Int, NEW hi \in Int, NEW mip \in Clamp(v, hi)
    PROVE  mip \in Int /\ (hi >= 0 => 0 <= mip /\ mip <= hi)
BY DEF Clamp

LEMMA WrapIntType ==
    ASSUME NEW n \in Int
    PROVE  WrapInt(n) \in Int
BY ImagesAssumption DEF WrapInt

LEMMA InitInv == Init => Inv
<1> SUFFICES ASSUME Init
             PROVE  Inv
  OBVIOUS
<1>1. TypeOK
  <2>1. images \in [Variables -> SUBSET Ranges] /\ bound \subseteq Ranges
    BY DEF Init
  <2>2. \A v \in Variables : \A x, y \in images[v] : x = y
    BY DEF Init
  <2>3. /\ image_infos \in Seq(Nat \X Nat) /\ Len(image_infos) <= MaxImages
        /\ context_requests \in Seq([id : Nat, size : Nat \X Nat])
    BY ImagesAssumption DEF Init
  <2>4. pc \in {"idle", "build", "run"} /\ as_script_func \in BOOLEAN
    BY DEF Init
  <2>5. frame \in 0..MaxFrames
    BY ImagesAssumption DEF Init
  <2> QED
    BY <2>1, <2>2, <2>3, <2>4, <2>5 DEF TypeOK
<1>2. MadeNow = {}
  BY DEF Init, MadeNow
<1>3. Made
  BY DEF Init, Made
<1> QED
  BY <1>1, <1>2, <1>3 DEF Init, Inv, ImagesOfThisRunIndexed, RequestsNumberImages, MipsInsideImage

-----------------------------------------------------------------------------
(* Steps that leave the script or do not run it                             *)

LEMMA LeaveScriptInv ==
    ASSUME Inv, LeaveScript, as_script_func' \in BOOLEAN
    PROVE  Inv'
<1>1. \A v \in Variables : images'[v] \subseteq images[v]
  BY DEF LeaveScript, Inv, TypeOK
<1>2. TypeOK'
  <2>1. images' \in [Variables -> SUBSET Ranges]
    BY <1>1 DEF LeaveScript, Inv, TypeOK
  <2>2. \A v \in Variables : \A x, y \in images'[v] : x = y
    BY <1>1 DEF Inv, TypeOK
  <2> QED
    BY <2>1, <2>2 DEF LeaveScript, Inv, TypeOK
<1>3. Made'
  BY <1>1 DEF LeaveScript, Inv, Made
<1>4. MadeNow' = {} /\ pc' # "run"
  BY DEF LeaveScript, MadeNow
<1> QED
  BY <1>2, <1>3, <1>4
  DEF Inv, ImagesOfThisRunIndexed, RequestsNumberImages, MipsInsideImage

LEMMA CallLoadScriptInv ==
    ASSUME Inv, CallLoadScript
    PROVE  Inv'
<1>1. \A v \in Variables : images'[v] = {}
  BY DEF CallLoadScript
<1>2. TypeOK'
  <2>1. images' \in [Variables -> SUBSET Ranges]
    BY DEF CallLoadScript
  <2>2. \A v \in Variables : \A x, y \in images'[v] : x = y
    BY <1>1
  <2> QED
    BY <2>1, <2>2 DEF CallLoadScript, Inv, TypeOK
<1>3. Made'
  BY <1>1 DEF CallLoadScript, Made
<1>4. MadeNow' = {} /\ pc' # "run"
  BY DEF CallLoadScript, MadeNow
<1> QED
  BY <1>2, <1>3, <1>4
  DEF Inv, ImagesOfThisRunIndexed, RequestsNumberImages, MipsInsideImage

\* A run begins with no image of its own.
LEMMA CallRunScriptInv ==
    ASSUME Inv, NEW size \in Sizes, CallRunScript(size)
    PROVE  Inv'
<1>1. size \in Nat \X Nat
  BY ImagesAssumption
<1>2. TypeOK'
  <2>1. image_infos' \in Seq(Nat \X Nat) /\ Len(image_infos') = 1 /\ 1 <= MaxImages
    BY <1>1, ImagesAssumption DEF CallRunScript
  <2>2. context_requests' \in Seq([id : Nat, size : Nat \X Nat])
    BY DEF CallRunScript
  <2>3. frame' \in 0..MaxFrames
    BY ImagesAssumption DEF CallRunScript, Inv, TypeOK
  <2>4. pc' \in {"idle", "build", "run"} /\ as_script_func' \in BOOLEAN
    BY DEF CallRunScript, Inv, TypeOK
  <2>5. /\ images' \in [Variables -> SUBSET Ranges] /\ bound' \subseteq Ranges
        /\ \A v \in Variables : \A x, y \in images'[v] : x = y
    BY DEF CallRunScript, Inv, TypeOK
  <2> QED
    BY <2>1, <2>2, <2>3, <2>4, <2>5 DEF TypeOK
<1>3. \A v \in Variables : \A img \in images'[v] : img.made < frame'
  <2> SUFFICES ASSUME NEW v \in Variables, NEW img \in images'[v]
               PROVE  img.made < frame'
    OBVIOUS
  <2>1. img \in images[v] /\ img.made \in Nat /\ frame \in Nat
    BY ImagesAssumption DEF CallRunScript, Inv, TypeOK, Ranges
  <2>2. img.made <= frame /\ frame' = frame + 1
    BY <2>1 DEF CallRunScript, Inv, Made
  <2> QED
    BY <2>1, <2>2
<1>4. \A v \in Variables : \A img \in images'[v] : img.made \in Nat
  BY <1>2 DEF TypeOK, Ranges
<1>5. frame' \in Nat /\ frame' > 0
  BY ImagesAssumption DEF CallRunScript, Inv, TypeOK
<1>6. Made'
  <2>1. pc' # "build"
    BY DEF CallRunScript
  <2> QED
    BY <1>3, <1>4, <1>5, <2>1 DEF Made
<1>7. MadeNow' = {}
  BY <1>3, <1>4, <1>5 DEF MadeNow
<1>8. RequestsNumberImages'
  BY DEF CallRunScript, RequestsNumberImages
<1> QED
  BY <1>2, <1>6, <1>7, <1>8 DEF Inv, ImagesOfThisRunIndexed, MipsInsideImage

LEMMA BindImageInv ==
    ASSUME Inv, NEW v \in Variables, NEW img \in images[v], BindImage(img)
    PROVE  Inv'
<1>1. TypeOK'
  <2>1. img \in Ranges
    BY DEF Inv, TypeOK
  <2> QED
    BY <2>1 DEF BindImage, Inv, TypeOK
<1>2. Made' /\ MadeNow' = MadeNow /\ image_infos' = image_infos
  BY DEF BindImage, Inv, Made, MadeNow
<1>3. RequestsNumberImages'
  BY DEF BindImage, Inv, RequestsNumberImages
<1> QED
  BY <1>1, <1>2, <1>3 DEF Inv, ImagesOfThisRunIndexed, MipsInsideImage

-----------------------------------------------------------------------------
(* Steps that store an image in a variable                                  *)

\* What is demanded of an image made in this run, over the images of the next
\* state.
Sound(img) ==
    /\ img.id + 1 \in DOMAIN image_infos'
    /\ image_infos'[img.id + 1] = img.size
    /\ ~Thin(img.size) => 0 <= img.lo /\ img.lo < img.hi /\ img.hi <= GetMipsCount(img.size)

LEMMA StoreInv ==
    ASSUME Inv, InScript, UNCHANGED <<pc, as_script_func, bound, frame>>,
           NEW v \in Variables, NEW img \in Ranges,
           images' = [images EXCEPT ![v] = {img}],
           image_infos' \in Seq(Nat \X Nat), Len(image_infos') <= MaxImages,
           context_requests' \in Seq([id : Nat, size : Nat \X Nat]),
           \A n \in DOMAIN image_infos :
               n \in DOMAIN image_infos' /\ image_infos'[n] = image_infos[n],
           img.made <= frame, pc = "build" => img.made = 0,
           pc = "run" /\ img.made = frame => Sound(img),
           RequestsNumberImages'
    PROVE  Inv'
<1>1. \A w \in Variables : \A x \in images'[w] : x = img \/ x \in images[w]
  BY DEF Inv, TypeOK
<1>2. TypeOK'
  <2>1. images' \in [Variables -> SUBSET Ranges]
    BY DEF Inv, TypeOK
  <2>2. \A w \in Variables : \A x, y \in images'[w] : x = y
    BY DEF Inv, TypeOK
  <2> QED
    BY <2>1, <2>2 DEF Inv, TypeOK
<1>3. Made'
  BY <1>1 DEF Inv, Made
<1>4. ASSUME NEW x \in MadeNow'
      PROVE  Sound(x)
  <2>1. PICK w \in Variables : x \in images'[w]
    BY DEF MadeNow
  <2>2. pc = "run" /\ x.made = frame
    BY DEF MadeNow
  <2>3. CASE x = img
    BY <2>2, <2>3
  <2>4. CASE x \in images[w]
    <3>1. x \in MadeNow
      BY <2>2, <2>4 DEF MadeNow
    <3> QED
      BY <3>1 DEF Inv, ImagesOfThisRunIndexed, MipsInsideImage, Sound
  <2> QED
    BY <1>1, <2>1, <2>3, <2>4
<1>5. ImagesOfThisRunIndexed'
  BY <1>4 DEF ImagesOfThisRunIndexed, Sound
<1>6. MipsInsideImage'
  BY <1>4 DEF MipsInsideImage, Sound, Thin, GetMipsCount
<1> QED
  BY <1>2, <1>3, <1>5, <1>6 DEF Inv

\* A new image stands at the end of image_infos, where its id points.
LEMMA NewImageInv ==
    ASSUME Inv, NEW v \in Variables, NEW size \in Sizes, NEW hi \in Nat,
           ~Thin(size) => 0 < hi /\ hi <= GetMipsCount(size),
           NewImage(v, size, hi)
    PROVE  Inv'
<1> DEFINE id  == Len(image_infos)
           img == Image(id, 0, hi, size)
<1>1. size \in Nat \X Nat /\ frame \in Nat /\ id \in Nat /\ image_infos \in Seq(Nat \X Nat)
  BY ImagesAssumption DEF Inv, TypeOK
<1>2. img \in Ranges
  BY <1>1 DEF Image, Ranges
<1>3. /\ img.id = id /\ img.lo = 0 /\ img.hi = hi /\ img.size = size
      /\ img.made = IF pc = "run" THEN frame ELSE 0
  BY DEF Image
<1>4. /\ image_infos' = Append(image_infos, size)
      /\ context_requests' = Append(context_requests, [id |-> id, size |-> size])
      /\ images' = [images EXCEPT ![v] = {img}]
      /\ id < MaxImages /\ InScript /\ UNCHANGED <<pc, as_script_func, bound, frame>>
  BY DEF NewImage
<1> HIDE DEF id, img
<1>5. /\ image_infos' \in Seq(Nat \X Nat) /\ Len(image_infos') = id + 1
      /\ image_infos'[id + 1] = size
      /\ \A n \in DOMAIN image_infos :
             n \in DOMAIN image_infos' /\ image_infos'[n] = image_infos[n]
  BY <1>1, <1>4 DEF id
<1>6. id + 1 <= MaxImages /\ id + 1 \in DOMAIN image_infos'
  BY <1>1, <1>4, <1>5, ImagesAssumption
<1>7. context_requests \in Seq([id : Nat, size : Nat \X Nat])
  BY DEF Inv, TypeOK
<1>8. context_requests' \in Seq([id : Nat, size : Nat \X Nat])
  BY <1>1, <1>4, <1>7
<1>9. Sound(img)
  BY <1>1, <1>3, <1>5, <1>6 DEF Sound
<1>10. RequestsNumberImages'
  <2> SUFFICES ASSUME pc = "run"
               PROVE  /\ Len(image_infos') = Len(context_requests') + 1
                      /\ \A n \in DOMAIN context_requests' :
                             context_requests'[n] = [id |-> n, size |-> image_infos'[n + 1]]
    BY <1>4 DEF RequestsNumberImages
  <2>1. id = Len(context_requests) + 1
    BY DEF Inv, RequestsNumberImages, id
  <2>2. Len(context_requests') = id /\ context_requests'[id] = [id |-> id, size |-> size]
    BY <1>1, <1>4, <1>7, <2>1
  <2>3. ASSUME NEW n \in DOMAIN context_requests', n # id
        PROVE  context_requests'[n] = [id |-> n, size |-> image_infos'[n + 1]]
    <3>0. /\ DOMAIN context_requests = 1..Len(context_requests) /\ Len(context_requests) \in Nat
          /\ DOMAIN context_requests' = 1..id /\ DOMAIN image_infos = 1..id
      BY <1>1, <1>7, <1>8, <2>2 DEF id
    <3>1. n \in DOMAIN context_requests
      BY <1>1, <2>1, <2>3, <3>0
    <3>2. context_requests'[n] = context_requests[n]
      BY <1>1, <1>4, <1>7, <3>1
    <3>3. n + 1 \in DOMAIN image_infos
      BY <1>1, <2>1, <3>0, <3>1
    <3> QED
      BY <1>5, <3>1, <3>2, <3>3 DEF Inv, RequestsNumberImages
  <2> QED
    BY <1>1, <1>5, <2>2, <2>3
<1>11. img.made <= frame /\ (pc = "build" => img.made = 0) /\ Len(image_infos') <= MaxImages
  BY <1>1, <1>3, <1>5, <1>6
<1> QED
  BY <1>2, <1>4, <1>5, <1>8, <1>9, <1>10, <1>11, StoreInv

LEMMA GetSwapchainImageInv ==
    ASSUME Inv, NEW v \in Variables, GetSwapchainImage(v)
    PROVE  Inv'
<1>1. PICK size \in IF image_infos = <<>> THEN Sizes ELSE {image_infos[1]} :
          images' = [images EXCEPT ![v] = {Image(0, 0, 1, size)}]
  BY DEF GetSwapchainImage
<1> DEFINE img == Image(0, 0, 1, size)
<1>2. frame \in Nat /\ image_infos \in Seq(Nat \X Nat) /\ Len(image_infos) <= MaxImages
  BY DEF Inv, TypeOK
<1>3. size \in Nat \X Nat
  BY <1>2, ImagesAssumption
<1>4. /\ img \in Ranges
      /\ img.id = 0 /\ img.lo = 0 /\ img.hi = 1 /\ img.size = size
      /\ img.made = IF pc = "run" THEN frame ELSE 0
  BY <1>2, <1>3 DEF Image, Ranges
<1>5. InScript /\ UNCHANGED <<pc, as_script_func, image_infos, context_requests, bound, frame>>
  BY DEF GetSwapchainImage
<1>6. ASSUME pc = "run"
      PROVE  Sound(img)
  <2>1. 1 \in DOMAIN image_infos /\ image_infos[1] = size
    BY <1>2, <1>6 DEF Inv, TypeOK, RequestsNumberImages
  <2>2. ~Thin(size) => 1 <= GetMipsCount(size)
    BY MipsCountType DEF Thin
  <2> QED
    BY <1>4, <1>5, <2>1, <2>2 DEF Sound
<1>7. RequestsNumberImages' /\ context_requests' \in Seq([id : Nat, size : Nat \X Nat])
  BY <1>5 DEF Inv, TypeOK, RequestsNumberImages
<1>8. /\ img.made <= frame /\ (pc = "build" => img.made = 0)
      /\ images' = [images EXCEPT ![v] = {img}]
      /\ image_infos' \in Seq(Nat \X Nat) /\ Len(image_infos') <= MaxImages
  BY <1>1, <1>2, <1>4, <1>5
<1> HIDE DEF img
<1> QED
  BY <1>4, <1>5, <1>6, <1>7, <1>8, StoreInv

\* The mip of an image of this run is clamped by the size image_infos gives it.
LEMMA GetMipInv ==
    ASSUME Inv, NEW v \in Variables, NEW w \in Variables, NEW img \in images[w],
           NEW level \in Levels, GetMip(v, img, level)
    PROVE  Inv'
<1> DEFINE dst_mip == WrapInt(img.lo + level)
<1>1. img \in Ranges /\ img.made <= frame /\ (pc = "build" => img.made = 0)
  BY DEF Inv, TypeOK, Made
<1>2. img.lo \in Int /\ level \in Int /\ img.id \in Nat /\ img.made \in Nat
      /\ frame \in Nat
  BY <1>1, ImagesAssumption DEF Ranges, Inv, TypeOK
<1>3. dst_mip \in Int
  BY <1>2, WrapIntType
<1>4. InScript /\ UNCHANGED <<pc, as_script_func, image_infos, context_requests, bound, frame>>
  BY DEF GetMip
<1>5. PICK mip \in MipsTaken(img, level) : images' = [images EXCEPT ![v] = {MipOf(img, mip)}]
  BY DEF GetMip
<1>11. PICK count \in MipsCounts(img.id) : mip \in Clamp(dst_mip, count - 1)
  BY DEF MipsTaken
<1> HIDE DEF dst_mip
<1>6. count \in Int
  BY MipsCountType, ImagesAssumption DEF MipsCounts
<1>7. mip \in Int /\ (count - 1 >= 0 => 0 <= mip /\ mip <= count - 1)
  BY <1>3, <1>6, <1>11, ClampRange
<1> DEFINE got == MipOf(img, mip)
<1>8. /\ got \in Ranges
      /\ got.id = img.id /\ got.made = img.made /\ got.size = img.size
      /\ got.lo = mip /\ got.hi = mip + 1
  BY <1>1, <1>7 DEF Ranges, MipOf
<1> HIDE DEF got
<1>9. ASSUME pc = "run" /\ got.made = frame
      PROVE  Sound(got)
  <2>1. img \in MadeNow
    BY <1>8, <1>9 DEF MadeNow
  <2>2. img.id + 1 \in DOMAIN image_infos /\ image_infos[img.id + 1] = img.size
    BY <2>1 DEF Inv, ImagesOfThisRunIndexed
  <2>3. count = GetMipsCount(img.size)
    BY <2>2 DEF MipsCounts
  <2>4. ~Thin(img.size) => count - 1 >= 0
    BY <1>6, <2>3, MipsCountType DEF Thin
  <2> QED
    BY <1>4, <1>6, <1>7, <1>8, <2>2, <2>3, <2>4 DEF Sound
<1>10. /\ image_infos' \in Seq(Nat \X Nat) /\ Len(image_infos') <= MaxImages
       /\ context_requests' \in Seq([id : Nat, size : Nat \X Nat])
       /\ RequestsNumberImages'
  BY <1>4 DEF Inv, TypeOK, RequestsNumberImages
<1> QED
  BY <1>1, <1>4, <1>5, <1>8, <1>9, <1>10, StoreInv DEF got

-----------------------------------------------------------------------------
LEMMA NextInv ==
    ASSUME Inv, [Next]_vars
    PROVE  Inv'
<1>1. CASE CallLoadScript
  BY <1>1, CallLoadScriptInv
<1>2. CASE LoadScriptReturns
  BY <1>2, LeaveScriptInv DEF LoadScriptReturns
<1>3. CASE LoadScriptThrows
  BY <1>3, LeaveScriptInv DEF LoadScriptThrows, Inv, TypeOK
<1>4. CASE \E swapchain_size \in Sizes : CallRunScript(swapchain_size)
  BY <1>4, CallRunScriptInv, ImagesAssumption
<1>5. CASE RunScriptReturns
  BY <1>5, LeaveScriptInv DEF RunScriptReturns, Inv, TypeOK
<1>6. CASE \E v \in Variables, size \in Sizes : GetImage(v, size) \/ GetMippedImage(v, size)
  <2>1. PICK v \in Variables, size \in Sizes : GetImage(v, size) \/ GetMippedImage(v, size)
    BY <1>6
  <2>2. GetMipsCount(size) \in Nat /\ (~Thin(size) => GetMipsCount(size) > 0)
    BY MipsCountType DEF Thin
  <2> QED
    BY <2>1, <2>2, NewImageInv DEF GetImage, GetMippedImage
<1>7. CASE \E v \in Variables : GetSwapchainImage(v)
  BY <1>7, GetSwapchainImageInv
<1>8. CASE \E v, w \in Variables : \E img \in images[w], level \in Levels : GetMip(v, img, level)
  BY <1>8, GetMipInv
<1>9. CASE \E v \in Variables : \E img \in images[v] : BindSampler(img) \/ BindRenderTarget(img)
  BY <1>9, BindImageInv DEF BindSampler, BindRenderTarget
<1>10. CASE ScriptThrows
  BY <1>3, <1>5, <1>10 DEF ScriptThrows
<1>11. CASE UNCHANGED vars
  BY <1>11 DEF vars, Inv, TypeOK, Made, ImagesOfThisRunIndexed, RequestsNumberImages,
     MipsInsideImage, MadeNow
<1> QED
  BY <1>1, <1>2, <1>3, <1>4, <1>5, <1>6, <1>7, <1>8, <1>9, <1>10, <1>11 DEF Next, Script

\* The invariant holds of every sequence of loads, runs and script calls.
THEOREM Invariance == Spec => []Inv
BY InitInv, NextInv, PTL DEF Spec

\* Ids, sizes and ranges have their types, and a variable holds one image.
THEOREM TypeCorrect == Spec => []TypeOK
BY Invariance, PTL DEF Inv

\* An image made in a run is found under its id, with its size, until the run ends.
THEOREM ImagesIndexed == Spec => []ImagesOfThisRunIndexed
BY Invariance, PTL DEF Inv

\* The requests of a run are its images in order.
THEOREM RequestsInOrder == Spec => []RequestsNumberImages
BY Invariance, PTL DEF Inv

\* However mips are taken of an image of this run, they are mips it has.
THEOREM MipsInside == Spec => []MipsInsideImage
BY Invariance, PTL DEF Inv

\* Of an image more than one texel wide and high, taking a mip never leads out of
\* what it is taken of, for levels that are not negative and do not overflow: inside
\* the image's own range the clamp has nothing to do.
THEOREM MipsNarrow == Spec => []MipsOfImageNarrow
<1>1. Inv => MipsOfImageNarrow
  <2> SUFFICES ASSUME Inv, NEW img \in MadeNow, NEW level \in Levels,
                      ~Thin(img.size), level >= 0, img.lo + level <= IntMax,
                      NEW mip \in MipsTaken(img, level)
               PROVE  img.lo <= mip /\ mip < img.hi
    BY DEF MipsOfImageNarrow
  <2> DEFINE count == GetMipsCount(img.size)
  <2>1. img \in Ranges /\ image_infos[img.id + 1] = img.size /\ img.id + 1 \in DOMAIN image_infos
    BY DEF Inv, TypeOK, ImagesOfThisRunIndexed, MadeNow
  <2>2. 0 <= img.lo /\ img.lo < img.hi /\ img.hi <= count
    BY DEF Inv, MipsInsideImage
  <2>3. MipsCounts(img.id) = {count}
    BY <2>1 DEF MipsCounts
  <2>4. level \in Int /\ img.lo \in Int /\ img.hi \in Int /\ count \in Nat
    BY <2>1, ImagesAssumption, MipsCountType DEF Ranges
  <2> HIDE DEF count
  <2>5. WrapInt(img.lo + level) = img.lo + level
    BY <2>2, <2>4, ImagesAssumption DEF WrapInt
  <2>6. mip \in Clamp(img.lo + level, count - 1) /\ img.lo + level < img.hi
    BY <2>3, <2>5 DEF MipsTaken
  <2>7. Clamp(img.lo + level, count - 1) = {img.lo + level}
    BY <2>2, <2>4, <2>6 DEF Clamp
  <2> QED
    BY <2>4, <2>6, <2>7
<1> QED
  BY <1>1, Invariance, PTL

\* An image of the run in progress is the swapchain or has its request.
LEMMA MadeNowRequested ==
    ASSUME Inv, NEW img \in MadeNow, img.id # 0
    PROVE  \E n \in DOMAIN context_requests :
               context_requests[n] = [id |-> img.id, size |-> img.size]
<1>1. img \in Ranges /\ pc = "run"
  BY DEF Inv, TypeOK, MadeNow
<1>2. img.id \in Nat \ {0}
  BY <1>1 DEF Ranges
<1>3. img.id + 1 \in DOMAIN image_infos /\ image_infos[img.id + 1] = img.size
  BY DEF Inv, ImagesOfThisRunIndexed
<1>4. /\ Len(image_infos) = Len(context_requests) + 1
      /\ \A n \in DOMAIN context_requests :
             context_requests[n] = [id |-> n, size |-> image_infos[n + 1]]
  BY <1>1 DEF Inv, RequestsNumberImages
<1>5. /\ image_infos \in Seq(Nat \X Nat)
      /\ context_requests \in Seq([id : Nat, size : Nat \X Nat])
  BY DEF Inv, TypeOK
<1>6. img.id \in DOMAIN context_requests
  <2>1. DOMAIN image_infos = 1..Len(image_infos)
    BY <1>5
  <2>2. DOMAIN context_requests = 1..Len(context_requests) /\ Len(context_requests) \in Nat
    BY <1>5
  <2>3. img.id + 1 <= Len(context_requests) + 1
    BY <1>3, <1>4, <2>1
  <2> QED
    BY <1>2, <2>2, <2>3
<1> QED
  BY <1>3, <1>4, <1>6

\* Requests are only added while a run goes on, and what it binds has one.
LEMMA NextBound ==
    ASSUME Inv, BoundImagesRequested, [Next]_vars
    PROVE  BoundImagesRequested'
<1>1. ASSUME pc' = "run", bound' = bound, frame' = frame, pc = "run",
             \A n \in DOMAIN context_requests :
                 n \in DOMAIN context_requests' /\ context_requests'[n] = context_requests[n]
      PROVE  BoundImagesRequested'
  BY <1>1 DEF BoundImagesRequested
<1>2. CASE UNCHANGED vars
  BY <1>2 DEF vars, BoundImagesRequested
<1>3. CASE \E swapchain_size \in Sizes : CallRunScript(swapchain_size)
  BY <1>3 DEF CallRunScript, BoundImagesRequested
<1>4. ASSUME NEW v \in Variables, NEW size \in Sizes, NEW hi, NewImage(v, size, hi)
      PROVE  BoundImagesRequested'
  <2>1. context_requests \in Seq([id : Nat, size : Nat \X Nat])
    BY DEF Inv, TypeOK
  <2>2. size \in Nat \X Nat /\ Len(image_infos) \in Nat
    BY ImagesAssumption DEF Inv, TypeOK
  <2> DEFINE request == [id |-> Len(image_infos), size |-> size]
  <2>3. /\ context_requests' = Append(context_requests, request)
        /\ UNCHANGED <<pc, bound, frame>>
    BY <1>4 DEF NewImage
  <2>4. request \in [id : Nat, size : Nat \X Nat]
    BY <2>2
  <2> HIDE DEF request
  <2>5. \A n \in DOMAIN context_requests :
            n \in DOMAIN context_requests' /\ context_requests'[n] = context_requests[n]
    BY <2>1, <2>3, <2>4
  <2>6. CASE pc = "run"
    BY <1>1, <2>3, <2>5, <2>6
  <2>7. CASE pc # "run"
    BY <2>3, <2>7 DEF BoundImagesRequested
  <2> QED
    BY <2>6, <2>7
<1>5. ASSUME NEW v \in Variables, NEW img \in images[v], BindImage(img)
      PROVE  BoundImagesRequested'
  <2>1. bound' = {img} /\ UNCHANGED <<pc, context_requests, frame>>
    BY <1>5 DEF BindImage
  <2>2. ASSUME pc = "run", img.made = frame
        PROVE  img \in MadeNow
    BY <2>2 DEF MadeNow
  <2> QED
    BY <2>1, <2>2, MadeNowRequested DEF BoundImagesRequested
<1>6. ASSUME UNCHANGED <<pc, bound, frame, context_requests>>
      PROVE  BoundImagesRequested'
  BY <1>6 DEF BoundImagesRequested
<1>7. ASSUME pc' # "run"
      PROVE  BoundImagesRequested'
  BY <1>7 DEF BoundImagesRequested
<1>8. CASE \E v \in Variables : GetSwapchainImage(v)
  BY <1>6, <1>8 DEF GetSwapchainImage
<1>9. CASE \E v, w \in Variables : \E img \in images[w], level \in Levels : GetMip(v, img, level)
  BY <1>6, <1>9 DEF GetMip
<1>10. CASE \E v \in Variables : \E img \in images[v] : BindSampler(img) \/ BindRenderTarget(img)
  BY <1>5, <1>10 DEF BindSampler, BindRenderTarget
<1>11. CASE \E v \in Variables, size \in Sizes : GetImage(v, size) \/ GetMippedImage(v, size)
  BY <1>4, <1>11 DEF GetImage, GetMippedImage
<1>12. CASE CallLoadScript \/ LoadScriptReturns \/ LoadScriptThrows \/ RunScriptReturns \/ ScriptThrows
  BY <1>7, <1>12
  DEF CallLoadScript, LoadScriptReturns, LoadScriptThrows, RunScriptReturns, ScriptThrows, LeaveScript
<1> QED
  BY <1>2, <1>3, <1>8, <1>9, <1>10, <1>11, <1>12 DEF Next, Script

\* A host that follows the events of a run finds every image of the run requested
\* before it is bound, for any sizes and any number of images.
THEOREM BoundRequested == Spec => []BoundImagesRequested
<1>1. Init => BoundImagesRequested
  BY DEF Init, BoundImagesRequested
<1>2. Inv /\ BoundImagesRequested /\ [Next]_vars => BoundImagesRequested'
  BY NextBound
<1> QED
  BY <1>1, <1>2, Invariance, PTL DEF Spec
=============================================================================
