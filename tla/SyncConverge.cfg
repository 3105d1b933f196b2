CONSTANTS
    a1 = a1  a2 = a2  m1 = m1  m2 = m2  s1 = s1  s2 = s2
    t1 = t1  t2 = t2  bad = bad  f2 = f2
    x1 = x1  x2 = x2  x3 = x3
    Agents = {a1}
    Homes = {m1}
    HomeOf <- OneHome
    Ids = {s1, s2}
    IdOrder <- InOrder
    UnknownSource = {s2}
    Texts = {t1, t2}
    Bytes = {t1, t2, bad}
    Coerced <- ToValid
    Attached <- AttachedByT2
    Summaries = {x1, x2, x3}
    TooLong = {x3}
    Slots = {1, 2, 3}
    Nobody = Nobody
    Free = Free
    NoRow = NoRow
    NoFiles = NoFiles
    NoSummary = NoSummary
    Gone = Gone
    Unseen = Unseen
    NoSlot = NoSlot
    BatchSize = 1
    ScanCached = TRUE
    UploadFiles = {TRUE}
    MaxAttempts = 1
    MaxEdits = 2
    MaxFaults = 1
SPECIFICATION FairSpec
PROPERTIES ExitZeroMeansStored SummariesConverge EventuallyQuiet
