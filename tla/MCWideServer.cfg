CONSTANTS
    Clients = {c1, c2}
    Asked = {1, 2, 3}
    Masks = {2}
    NoClient = none
SPECIFICATION LiveSpec
INVARIANTS
    TypeOK
    TableMatchesThreads
    OneOwner
    NothingLeftBehind
    ResetStaysReleased
PROPERTIES
    LineMoves
    KindsAreFreed
