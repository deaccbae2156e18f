CONSTANTS
    Actions = {a1}
    Conns = {w1}
    Ids = {agent}
    Replies = {"error"}
    None = None
SPECIFICATION Spec
INVARIANT ConfirmedRuns
CHECK_DEADLOCK FALSE
