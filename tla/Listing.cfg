SPECIFICATION Spec
CONSTANTS
    Items <- Three
    MaxKey = 2
    MaxMoves = 1
    PageSize = 1
    Keys = {mine, other}
    Mine = mine
    Limit = 1
    Window = 2
    MaxEntries = 1
INVARIANT LimitHolds NothingIsSkipped
PROPERTY ListingEnds
