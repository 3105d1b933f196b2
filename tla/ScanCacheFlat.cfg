CONSTANTS
    k1 = k1
    p1 = p1  p2 = p2
    c1 = c1  c2 = c2
    r1 = r1  r2 = r2
    Runs = {r1, r2}
    Keys = {k1}
    Paths = {p1, p2}
    Contents = {c1, c2}
    Empty = Empty
    Absent = Absent
    NotFound = NotFound
    None = None
    MaxWrites = 2
    Walk <- TwoFlatFiles
    Digest <- Itself
SYMMETRY Interchangeable
SPECIFICATION Spec
INVARIANTS CacheSound IInv
PROPERTY ScansAsWithoutCache
