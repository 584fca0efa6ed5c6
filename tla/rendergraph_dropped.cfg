SPECIFICATION JsonSpec
CONSTANTS
    Builtins <- MCBuiltins
    Formats = {"rgba8"}
    Texts <- RendergraphDroppedTexts
    MaxLoads = 2
    MaxInvocations = 2
    AssertOutcomes = {"abort"}
INVARIANTS
    SerializeAssertionsHold
