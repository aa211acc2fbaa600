SPECIFICATION Spec
CONSTANTS
    Users = {u1}
    Clients = {c1}
    Slots = 2
    Columns = 2
    Programs <- MCPlainPrograms
    Attempts = 4
    None = None
    MaxAsks = 1
INVARIANT ReadIsCurrent
CHECK_DEADLOCK FALSE
