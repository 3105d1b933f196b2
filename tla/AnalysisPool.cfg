CONSTANTS
    r1 = r1  r2 = r2  w1 = w1  w2 = w2  s1 = s1
    NoRow = NoRow
    Pushed = Pushed
    NoProgress = NoProgress
    Sessions = {s1}
    Requests = {r1, r2}
    Workers = {w1, w2}
    MaxChunks = 3
    MaxIngests = 1
    MaxFaults = 1
SPECIFICATION FairSpec
INVARIANTS TypeOK OneAnalysisPerSession ProgressMeansRunning EveryAnswerCounts
PROPERTIES ProgressNeverGoesBack ClaimsEnd
