CONSTANTS
    Apps = {"x", "y"}
    AdultApps = {"x"}
    BatchSize = 1
    FlushEvery = 2
    MaxErrors = 1
    Games = {"a", "b"}
    App <- MCApp
    Source <- MCSource
    Date <- MCRank
    Title <- MCRank
    Hits = {"a"}
    Catalogs <- MCCatalogs
    MaxSlots = 2
    Hideable = {2}
    MaxClicks = 2
    Faults = {}
    Titles = {"a", "b", "c"}
    AppOf <- MCAppOf
    Layouts <- MCLayouts
    Feeds <- MCFeeds
    MaxShelfClicks = 3
    ShelfFaults = {}
    Library <- MCLibrary
    Queries <- MCQueries
    Digits = {"3", "7"}
    Wide = {"J", "K"}
    Foreign = {"V", "T", "C", "H", "R", "W", "I", "J", "K"}
    StopWords <- MCStopWords
    OtherNumeral <- MCNumerals
    Keyboard <- MCKeyboard
    Sound <- MCSound
    Aliases <- MCAliases
    AppId <- MCAppId
    Bonus <- MCBonus
SPECIFICATION Spec
INVARIANTS  RatingsTold  
CHECK_DEADLOCK FALSE
