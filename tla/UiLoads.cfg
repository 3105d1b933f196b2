CONSTANTS
    f1 = f1  f2 = f2  s1 = s1  s2 = s2
    Flavors = {f1, f2}
    Ids = {s1, s2}
    Of <- SessionsOf
    Nobody = Nobody
    MaxClicks = 2
SPECIFICATION FairSpec
CHECK_DEADLOCK FALSE
INVARIANT ViewsFollowTheSelection
PROPERTIES EvalsNeverGoBack PollsEnd
