\* The bridge with reconnects, a client and two calls of Close.
SPECIFICATION PeerFairSpec
CONSTANTS
    Workers = {w1, w2}
    Creator = creator
    Conns = {c1, c2}
    Clients = {k1}
    Closers = {x1}
    Senders = {m1}
    MaxDials = 2
    Nil = Nil
INVARIANTS
    KeepsReconnecting
PROPERTIES
    CloseReturns
CHECK_DEADLOCK FALSE
