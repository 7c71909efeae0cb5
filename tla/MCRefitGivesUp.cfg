SPECIFICATION PromptSpec
CONSTANTS
    Inputs <- MCInputs
    Chains <- MCChains
    MinRecent = 2
    LegacyCap = 0
    Line = 66
    Separator = 1
    NoticeTitle = 6
    HistoryHeader = 30
    RolePrefix = 2
    NoteHeader = 13
    NoteLine = 45
INVARIANT
    RefusedOnlyIfTooBig
CHECK_DEADLOCK FALSE
