SPECIFICATION Spec
CONSTANTS
    Sites <- MCSites
    Values <- MCValues
    Owner = owner
    Joiners = {joiner}
    Protocols = {"rdp", "vnc", "ssh", "telnet", "kubernetes"}
INVARIANTS
    SettingsSound
    OnlyKnownMisuse
    EndedStops
PROPERTIES
    FreeReturns
CHECK_DEADLOCK FALSE
