SPECIFICATION Spec
CHECK_DEADLOCK FALSE
CONSTANTS
    m1 = m1  m2 = m2  m3 = m3  n1 = n1  n2 = n2  g = g  h = h
    Refresher = {t1, t2}
    Shelf <- OnShelf
    ShelfPop <- PopOnShelf
    Frame <- Frames
    Id = {m1, m2, m3, n1, n2}
    Category = {g, h}
    Unit = 4
    Request = {r1}
    AlsRank <- ByAls
    Popular <- ByPop
    NoGenre = NoGenre
    Excluded <- Exclusions
    Affinity <- Affinities
    K = 3
    NowYear = 20
INVARIANTS
    ShelfKeepsItsIds
    LoneRefreshServesAll
    AnswerIsSound
    ShortAnswerIsComplete
    NewTitlesTakeTurns
