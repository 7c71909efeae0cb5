SPECIFICATION PromptSpec
CONSTANTS
    Inputs <- MCInputs
    Chains <- MCChains
    MinRecent = 2
    LegacyCap = 0
    Line = 10
    Separator = 1
    NoticeTitle = 6
    HistoryHeader = 30
    RolePrefix = 2
    NoteHeader = 13
    NoteLine = 45
INVARIANTS
    SentFits
    DocumentsLast
    NewestKept
    SkippedOnlyIfTooBig
CHECK_DEADLOCK FALSE
