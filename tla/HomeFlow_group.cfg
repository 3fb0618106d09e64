SPECIFICATION Spec
CONSTANTS
    Visits = {v1}
    Creates = {c1}
    Sends = {}
    None = None
INVARIANT
    GroupTornDown
CHECK_DEADLOCK FALSE
