\* One checkpoint of two headers, a fork above it, one change of the server's chain and
\* one crash; no symmetry, for liveness.
SPECIFICATION LiveSpec
CONSTANTS
    Branch = {A, B}
    Interval = 2
    Checkpoints = 1
    BatchSize = 2
    MaxRewind = 2
    Fork = 3
    MaxHeight = 5
    MaxChanges = 1
    MaxCrashes = 1
INVARIANTS HeadersComplete TipFollows
PROPERTIES OpenLinked WorkersEnd
