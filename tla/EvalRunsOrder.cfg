CONSTANTS
    p1 = p1  p2 = p2  codex = codex  claude = claude
    MaxRuns = 2
    Flavors = {codex, claude}
    Savers = {p1}
    Instants <- Fractions
    Begin <- StartFraction
    Base = 10
    MaxSaves = 2
    MaxFaults = 0
SPECIFICATION Spec
INVARIANTS ListedNewestFirst
