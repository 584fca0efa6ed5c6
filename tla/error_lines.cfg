SPECIFICATION Spec
CONSTANTS
    Scripts <- MCScripts
    MaxLines = 9
    MaxIncluded = 2
    MaxRow = 8
INVARIANTS
    TypeOK
    OnlyCommentsAreDropped
    ErrorsOnTheirLines
    ReportedLinesHaveTheRow
