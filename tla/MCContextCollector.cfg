SPECIFICATION CollectorSpec
CONSTANTS
    Turns = {t1, t2}
    Conversations = {c1, c2}
    NoConversation = none
    Text <- MCText
    File <- MCFile
    Score <- MCScore
    NoFile = ""
    Refusals = {"NO_MATCH"}
    Answers <- MCAnswers
    Descriptions <- MCDescriptions
    Texts = {"ok", "why", "so", "hello", "before"}
    Windows <- MCWindows
    MaxConversations = 1
    MaxIds = 2
    IdsTTL = 1
INVARIANTS
    PassagesAccounted
    HistoryMerged
PROPERTIES
    OfferedAreLatest
    CollectionEnds
