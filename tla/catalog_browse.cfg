SPECIFICATION BrowserSpec
CHECK_DEADLOCK FALSE
CONSTANTS
    i1 = i1  i2 = i2  i3 = i3  i4 = i4  i5 = i5  g = g
    Catalog <- Catalogs
    Draft <- Drafts
    Trim <- Trimmed
    NoText = ""
    Genre = {g}
    NoGenre = NoGenre
    Era = {"recent", "any"}
    YearsOf <- Ranges
    NowYear = 10
    PageSize = 1
    Implied = Implied
    NoNav = NoNav
    Entry <- Entries
    MaxActs = 3
    MaxPages = 2
INVARIANTS
    CalmListIsPrefix
    RestIsConsistent
