SPECIFICATION Spec
CONSTANTS
    s1 = s1
    s2 = s2
    weather = weather
    prices = prices
    scores = scores
    Searches <- MCSearches
    Queries <- MCQueries
    LastSource = 2
    Found <- MCFound
    Page <- MCPage
    NoPage = "none"
    Domain <- MCDomain
    MaxPerDomain = 2
    CacheSize = 2
    TTL = 1
    Rungs = 1
    TimeoutMs = 5000
    NoQuery = NoQuery
SYMMETRY Symmetric
PROPERTIES
    AnsweredNotLost
    ResultsSpread
    ServedIsLatest
    GoodAnswersKept
CHECK_DEADLOCK FALSE
