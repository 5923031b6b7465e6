SPECIFICATION Spec
CONSTANTS
    Settings <- FewSettings
    Rows <- AllRows
    MaxRows = 3
    MaxPort = 65535
    Empty = Empty
    Bad = Bad
INVARIANTS
    TypeOK
    AcceptedListIsUnambiguous
    DefaultLengthFits
CHECK_DEADLOCK FALSE
