SPECIFICATION Spec
CONSTANTS
    Fd = {f1, f2}
    PollThread = {p1, p2}
    User = {f1, f2}
    OneShot = TRUE
    Calls = {"add"}
    Nobody = Nobody
CHECK_DEADLOCK FALSE
INVARIANTS NoDuplicateDispatch
