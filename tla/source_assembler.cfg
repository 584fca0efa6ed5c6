SPECIFICATION Spec
CONSTANTS
    MaxBlocks = 4
    MaxLines = 2
    StartLines = {1, 5}
    MaxResLine = 9
INVARIANTS
    TranslatesToOriginOfBreak
    RowZeroBeforeFirstBlock
