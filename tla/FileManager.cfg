\* A request races the save of an earlier one, a cleanup, a timed-out pause and shutdown.
CONSTANTS
    Stream = {s1}
    Op = {o1, o2}
    User = {u1}
    Cleaner = {c1}
    Late = {l1}
    None = None
SPECIFICATION Spec
INVARIANTS SavesAccounted RestIsFree
CHECK_DEADLOCK FALSE
