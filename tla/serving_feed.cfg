SPECIFICATION Spec
CHECK_DEADLOCK FALSE
CONSTANTS
    i1 = i1  i2 = i2  i3 = i3  g = g  h = h
    Request = {r1}
    Item = {i1, i2, i3}
    Category = {g, h}
    CategoriesOf <- Genres
    NoGenre = NoGenre
    Retrieved <- Lists
    Cached <- Popular
    RankerScore = {0, 3}
    OverlayWeight = 1
    Limit = 2
    PopularityOf <- Popularities
    Notable = 4
    SureLikes = 2
    EnoughNotables = 1
    BillLimit = 3
    CatalogAnswers <- Shelves
    Lobbies <- Lobby
    MaxJudged = 3
INVARIANTS
    JudgedStaysOut
    DegradationIsFlagged
    FeedIsBestOfEligible
    BillRepeatsNothing
    BillSharesItsPlaces
