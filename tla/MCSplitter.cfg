\* Every text of up to four characters, and strings, block comments and line
\* comments of up to eight and seven.
SPECIFICATION Spec
CONSTANTS
    Texts <- MCTexts
    Short = 4
    Long = 8
INVARIANTS
    TypeOK
    GroupsTileText
    CutsAtSeparators
    PiecesStandAlone
    RefusesCommentsOnly
\* The scan ends.
CHECK_DEADLOCK FALSE
