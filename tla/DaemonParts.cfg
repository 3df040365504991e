SPECIFICATION PartsSpec
CONSTANTS
    AddressBits = 2
    UintMax = 2
    FileRules = 3
    FileScopes = 2
    Pieces <- MCPieces
    MaxPieces <- MCMaxPieces
    Queries <- MCQueries
    InodeOf <- MCInodeOf
    HookCpus = {0, 1}
    Decisions <- MCDecisions
    Durations = {100, 100000}
    MaxSamples = 3
    MaxSnapshots = 2
    WaitTries = 3
INVARIANTS
    ConfigAsWritten ProfileAsWritten DecisionAsWritten AccessAsWritten
    SlotsAsRecorded HistogramLag TelemetryInv GuiTypeOK
PROPERTIES SnapshotWithinRun SignalsHitOwnChild GuiIsReaped
CHECK_DEADLOCK FALSE
