SPECIFICATION Spec
CONSTANTS
    Globals = {g}
    Locals = {l}
    Sizes <- MCSizes
    Levels <- MCLevels
    IntMax = 7
    MaxFrames = 2
    MaxImages = 3
    MaxMips = 2
INVARIANTS
    TypeOK
    ImagesOfThisRunIndexed
    RequestsNumberImages
    MipsInsideImage
    MipsOfImageNarrow
    BoundImagesRequested
