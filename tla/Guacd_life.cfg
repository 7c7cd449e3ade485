SPECIFICATION FairSpec
CONSTANTS
    Conns = {c1, c2}
    Creators = {c1}
    Joiners = {c2}
    Addresses = 2
    None = None
INVARIANTS MapSound OwnerIsCreator
PROPERTIES AbandonedIsRemoved UserIsDisconnected
CHECK_DEADLOCK FALSE
