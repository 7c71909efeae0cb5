SPECIFICATION FairSpec
CONSTANTS
    MaxTokens = 6
    FirstChunk = 1
    DefaultChunk = 2
    CodeChunk = 3
    MaxAttempts = 2
INVARIANTS
    ChunksSpellText
    LastEndsText
    RememberedWasShown
PROPERTIES
    NeverLeftWaiting
    DeliversAnswer
\* A run ends and the process may have stopped its publisher.
CHECK_DEADLOCK FALSE
