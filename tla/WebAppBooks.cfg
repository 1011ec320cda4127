SPECIFICATION Spec
CONSTANTS
    Books = {b1, b2}
    None = None
    MaxPending = 3
    MaxRequests = 7
INVARIANTS
    EditSavesItsBook
    FormGetsItsBook
    ListHidesClosedAds
    ListAnswersLastSearch
    ListReadAfterCommands
    DeletesWhatWasAsked
SYMMETRY Symmetry
CHECK_DEADLOCK FALSE
