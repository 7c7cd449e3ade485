\* Two calls for different users compete for one placeholder job while
\* Kubernetes updates, evicts or removes it, or a request fails or its answer
\* is lost.
SPECIFICATION Spec
CONSTANTS
    c1 = c1
    c2 = c2
    u1 = u1
    u2 = u2
    n1 = n1
    n2 = n2
    None = None
    Absent = Absent
    Placeholder = Placeholder
    Slots = {n1}
    Users = {u1, u2}
    Calls = {c1, c2}
    CallUser <- DifferentUsers
    MaxFaults = 2
    MaxSpawn = 1
PROPERTIES
    AssignmentSpec
CONSTRAINT OneOwnJob
VIEW WithoutFew
