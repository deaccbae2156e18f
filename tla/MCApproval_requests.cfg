CONSTANTS
    Actions = {a1}
    Conns = {w1, w2, w3}
    Ids = {agent, panel}
    Replies = {"ok", "error"}
    None = None
SPECIFICATION FairSpec
INVARIANTS
    GrantedByUser
    GoneUnregistered
PROPERTY
    ApprovalsEnd
CHECK_DEADLOCK FALSE
