SPECIFICATION JsonSpec
CONSTANTS
    Builtins <- MCBuiltins
    Formats = {"rgba8", "rgba32f"}
    Texts <- OneRendergraphTexts
    MaxLoads = 3
    MaxInvocations = 2
    AssertOutcomes = {"abort", "trap", "misread", "mistyped"}
INVARIANTS
    SerializeAssertionsHold
    EventsDescribedByTheirPass
    ServesWhatItDescribes
PROPERTIES
    ImplementsService
