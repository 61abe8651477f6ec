CONSTANTS
    all = all
    some = some
    Conversation = {c1, c2}
    Filter = {all, some}
    NoFilter = all
    PagesOf <- MCPagesOf
    Tab = {"overview", "products", "inventory"}
    None = None
    MaxPages = 2
    MaxInFlight = 3
    MaxSession = 2
SPECIFICATION Spec
INVARIANTS
    TypeOK
    SpinnerHonest
    FailureShows
    SerialShowsSelection
    ListInRange
    NothingCrossesSessions
PROPERTIES
    PagerStaysInRange
    SpinnersStop
