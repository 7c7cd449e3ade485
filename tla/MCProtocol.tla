------------------------------ MODULE MCProtocol ------------------------------
(* The protocol plugins: the arguments of one connection from the offer to  *)
(* the release of the settings, or the life of one connection.              *)
EXTENDS ClientSettings, ProtocolClient

VARIABLE mode

MCSites ==
    {<<{}, [width |-> 1001, height |-> 700, resolution |-> 96, timezone |-> "Europe/Berlin"]>>,
     <<{"COMMON_SSH", "VNC_REPEATER", "PULSE", "VNC_LISTEN", "SSH_AGENT"},
       [width |-> 2000, height |-> 1400, resolution |-> 192, timezone |-> Null]>>}
MCValues == {"", "true", "7", "-3", "70000", "text", "bad-regex", "nla", "rdp", "vmconnect",
             "windows", "remote", "reconnect", "failsafe"}

AtRest ==
    /\ protocol = "rdp" /\ wol = FALSE /\ audioInput = FALSE /\ state = "running" /\ ptr = [o \in Objects |-> "null"]
    /\ own = [u \in Users |-> "null"] /\ upc = [u \in Users |-> "out"]
    /\ promo = "idle" /\ thread = "unset" /\ input = "none" /\ woke = TRUE /\ stdin = "open"
    /\ argv = "idle" /\ argvStopped = FALSE
    /\ readers = {} /\ writer = FALSE /\ fpc = "idle" /\ misuse = NoMisuse
NoOffer ==
    /\ plugin = "rdp" /\ build = {} /\ info = <<>>
    /\ given = <<>> /\ step = "none"
    /\ settings = NoSettings /\ freerdp = NoSettings /\ released = {}

Init == \/ mode = "settings" /\ SettingsInit /\ AtRest
        \/ mode = "life" /\ LifeInit /\ NoOffer

Next == /\ UNCHANGED mode
        /\ \/ mode = "settings" /\ SettingsNext /\ UNCHANGED lifeVars
           \/ mode = "life" /\ LifeNext /\ UNCHANGED settingsVars

vars == <<mode, settingsVars, lifeVars>>
Spec == Init /\ [][Next]_vars /\ LifeFairness
=============================================================================
