SPECIFICATION JsonSpec
CONSTANTS
    Builtins <- MCBuiltins
    Formats = {"rgba8", "unnamed"}
    Texts <- AllTexts
    MaxLoads = 3
    MaxInvocations = 2
    AssertOutcomes = {"abort", "trap", "misread", "mistyped"}
INVARIANTS
    SerializesOwnDescriptions
