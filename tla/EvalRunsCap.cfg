CONSTANTS
    p1 = p1  p2 = p2  codex = codex  claude = claude
    MaxRuns = 2
    Flavors = {codex, claude}
    Savers = {p1, p2}
    Instants <- WholeSeconds
    Begin <- Start
    Base = 10
    MaxSaves = 4
    MaxFaults = 1
SPECIFICATION Spec
SYMMETRY Interchangeable
INVARIANTS IInv Capped
PROPERTIES OnlyTheOldestAreTrimmed
