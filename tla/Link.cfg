SPECIFICATION FairSpec
CONSTANTS
    Users = {u1}
    Clients = {c1, c2}
    Slots = 2
    Columns = 2
    Programs <- MCPrograms
    Attempts = 2
    None = None
    MaxAsks = 2
INVARIANT TypeOK
INVARIANT OneConnection
INVARIANT ReadIsCurrent
INVARIANT CompleteIsRead
PROPERTY GateComesBack
CHECK_DEADLOCK FALSE
