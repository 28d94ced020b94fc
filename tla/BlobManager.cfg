\* One blob, two callers, two overlapping flights, one deletion or reflection at a time.
CONSTANTS
    Blob = {b1}
    Caller = {c1, c2}
    Flight = {f1, f2}
    Handler = {h1}
    None = None
SPECIFICATION Spec
SYMMETRY Symmetry
INVARIANTS SingleFlight NoInheritedCancellation CacheAgrees EnsureReturns
