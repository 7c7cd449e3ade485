\* Two Guacamole sessions of one user compete for the entry: the second finds
\* it taken, before it connects or when it registers, or takes it once the Close
\* of the first has removed it.
SPECIFICATION Spec
CONSTANTS
    s1 = s1
    s2 = s2
    u1 = u1
    r1 = r1
    None = None
    Sessions = {s1, s2}
    Users = {u1}
    UserOf <- OneUser
    Modes = {{s1, s2}}
    Requests = {}
    RequestUser <- NoRequests
    CloseWaitLimit = 0
INVARIANTS
    RefusedLeavesEntry
SYMMETRY Interchangeable
VIEW WithoutRecords
CONSTRAINTS
    OneReader
    NoneGaveUp
CHECK_DEADLOCK FALSE
