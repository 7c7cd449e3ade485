\* What a session, noVNC or Guacamole, and its requests must eventually do.
SPECIFICATION FairSpec
CONSTANTS
    s1 = s1
    s2 = s2
    u1 = u1
    r1 = r1
    None = None
    Sessions = {s1}
    Users = {u1}
    UserOf <- OneSession
    Modes = {{}, {s1}}
    Requests = {r1}
    RequestUser <- OneRequest
    CloseWaitLimit = 0
INVARIANTS
    TeardownComplete

    
CHECK_DEADLOCK FALSE
