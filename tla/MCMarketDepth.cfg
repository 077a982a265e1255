SPECIFICATION Spec
CONSTANTS
    Levels <- ThreeLevels
    MaximumLevels = 2
    Group <- TwoSymbols
    NoSymbol = "none"
    Opening <- Quoted
    Views <- LimitedViews
    BufferLimit = 2
    Moves <- OneMoves
    MaxWire = 2
    MaxFaults = 1
INVARIANTS
    BooksTrue
    LocalDepthTrue
    LiveJournalReplays
    ReaderNeverGoesBack
