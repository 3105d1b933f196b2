SPECIFICATION GrowSpec
CONSTANTS
    Kinds <- MCKinds
    Alphabet <- MCAlphabet
    Longest <- MCLongest
    Cleaned <- MCCleaned
    Lowered <- MCLowered
    Width <- MCWidth
    Bounded <- MCBounded
    Blank = Blank  Missing = Missing  NoAnalysis = NoAnalysis  NoText = NoText
    FleetTopN = 3
    MinerTopN = 3
    MinSequenceSessions = 2
    MaxDrilldown = 2
    MaxConsecutive = 3
    MaxSummary = 5
    MaxWorst = 2
    MaxDigest = 9
    Marker = 1
    MaxFilesPerSession = 2
    MaxFileChars = 4
    FinalMax = 3
    OtherMaxEach = 2
    OtherBudget = 3
    MaxTokensPerChunk = 12
    MaxConsolidationTokens = 6
    AnswerTokens = 2
    MaxItems = 2
    MaxRecommendations = 1
    MaxSummaryChars = 5
    Trimmed <- MCTrimmed
    DefaultLimit = 2
    MaxLimit = 3
    GeminiDir <- MCGeminiDir
    Nodes <- MCNodes
    Target <- MCTarget
    DotNames = {".h"}
    JsonNames = {"s.json"}
    Absent = Absent
    Port <- MCPort
    LogSafeMaxLength = 4
    Ordinal <- MCOrdinal
    Null = Null  Malformed = Malformed  Failure = Failure
    FileAt <- MCFileAt
    MaxAttachments = 2
    MaxAttachmentBytes = 4
    BatchSize = 3
    MaxBatchBytes = 8
    TokenTexts = {"t", " t ", "u", "", " "}
    Processes <- MCProcesses
INVARIANTS RowsLeadToSessions ScoresAgree TranscriptsReadAlike ModelSeesEveryStep OnlyLimitsLeaveOut RequestsAreServed ConnectionsAreSettled TextsKeepTheirMeaning RunsAccountForEverything
CHECK_DEADLOCK FALSE
