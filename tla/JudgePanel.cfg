CONSTANTS
    l1 = l1  l2 = l2
    Failed = Failed  Unset = Unset
    Reviewers = {l1, l2}
    Ratings = {0, 4}
    MaxSessions = 2
    SampleLimit = 2
    Concurrency = 2
    MaxStored = 3
SPECIFICATION FairPanelSpec
INVARIANTS PanelTypeOK CallsAreBounded EveryVerdictCounts SampleCoversCount
PROPERTY RequestEnds
CHECK_DEADLOCK FALSE
