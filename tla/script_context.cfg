SPECIFICATION Spec
CONSTANTS
    Types <- MCTypes
    Names <- MCNames
    Values = {0, 1}
    Zero = 0
    InputLists <- MCInputLists
    ControlNames = {"a"}
    References <- MCReferences
    MaxFrames = 2
    MaxRequests = 2
INVARIANTS
    TypeOK
    SentValuesKept
    RunUsesSentValues
    ControlsHaveValues
    RequestsOfThisRun
    BadInputsChangeNothing
