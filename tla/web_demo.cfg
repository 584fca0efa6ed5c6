SPECIFICATION DemoSpec
CONSTANTS
    Builtins <- MCBuiltins
    Formats = {"rgba8", "unnamed"}
    Texts <- DemoTexts
    MaxLoads = 3
    MaxInvocations = 1
    AssertOutcomes = {"trap", "misread", "mistyped"}
    Names = {"R", "toString"}
    Inherited = {"toString"}
INVARIANTS
    DemoTypeOK
    GreenTextRuns
PROPERTIES
    EditsAreCompiled
    
CHECK_DEADLOCK FALSE
