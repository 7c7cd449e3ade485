----------------------------- MODULE MCLibguac -----------------------------
(* Parts of libguac that do not touch each other's state, checked one at a *)
(* time: focus says which.                                                 *)
EXTENDS UserStreams

VARIABLE focus

Init ==
    /\ StreamsInit
    /\ focus \in {"slots", "layers", "argv", "sync"}

Next ==
    /\ \/ focus = "slots" /\ SlotsNext
       \/ focus = "layers" /\ LayersNext
       \/ focus = "argv" /\ ArgvNext
       \/ focus = "sync" /\ SyncNext
    /\ UNCHANGED focus

vars == <<streamVars, focus>>

FairSpec == Init /\ [][Next]_vars /\ StreamsFair
=============================================================================
