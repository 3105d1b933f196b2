CONSTANTS
    a1 = a1  a2 = a2  m1 = m1  m2 = m2  s1 = s1  s2 = s2
    t1 = t1  t2 = t2  bad = bad  f2 = f2
    x1 = x1  x2 = x2  x3 = x3
    Agents = {a1, a2}
    Homes = {m1}
    HomeOf <- OneHome
    Ids = {s1}
    IdOrder <- InOrder
    UnknownSource = {}
    Texts = {t1, t2}
    Bytes = {t1, t2}
    Coerced <- ToValid
    Attached <- AttachedByT2
    Summaries = {}
    TooLong = {}
    Slots = {1, 2}
    Nobody = Nobody
    Free = Free
    NoRow = NoRow
    NoFiles = NoFiles
    NoSummary = NoSummary
    Gone = Gone
    Unseen = Unseen
    NoSlot = NoSlot
    BatchSize = 2
    ScanCached = TRUE
    UploadFiles = {TRUE}
    MaxAttempts = 2
    MaxEdits = 1
    MaxFaults = 1
SPECIFICATION FairSpec
INVARIANTS TypeOK
PROPERTIES ExitZeroMeansStored TranscriptsConverge
