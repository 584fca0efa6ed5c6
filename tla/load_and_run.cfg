SPECIFICATION Spec
CONSTANTS
    Builtins <- MCBuiltins
    Formats = {"rgba8"}
    Texts <- AllTexts
    MaxLoads = 3
    MaxInvocations = 2
INVARIANTS
    FuncOfLiveEngine
    SourceMapOfFunc
    FuncSeesAllPasses
    EventsOfThisProgram
    LastRendergraphWins
    ThrownLoadKeepsOrDisarms
