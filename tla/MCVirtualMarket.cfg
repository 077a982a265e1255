SPECIFICATION MCSpec
CONSTANTS
    Daemons = {1, 2}
    Writers = {1, 2}
    MaxStarts = 2
    MarkerTells = TRUE
    Den = 100
    Fee = 1
    Slip = 1
    InitialCash = 10000
    Plans <- MCPlans
    Candles <- MCCandles
    Forming <- MCForming
    Window = 2
    MaxLosses = 1
    MaxTime = 6
    Symbols <- MCSymbols
    ScanEvery = 2
INVARIANTS
    DaemonTypeOK
    SingleInstance
    LedgerReadable
    CandlesOnce
    WalletAddsUp
    ReportTrue
PROPERTIES
    HaltIsFinal
    ExitsApplied
    RunsAgain
CHECK_DEADLOCK FALSE
