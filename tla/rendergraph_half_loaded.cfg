SPECIFICATION JsonSpec
CONSTANTS
    Builtins <- MCBuiltins
    Formats = {"rgba8"}
    Texts <- RendergraphHalfLoadedTexts
    MaxLoads = 2
    MaxInvocations = 2
    AssertOutcomes = {"abort"}
INVARIANTS
    SerializeAssertionsHold
