------------------------------ MODULE Settings ------------------------------
(***************************************************************************)
(* What the settings.c of the five protocol plugins share: the arguments   *)
(* of a connection arrive as a sequence of strings in the order of the     *)
(* plugin's list of names, and are read by position through an enum kept   *)
(* beside that list, field by field, with the three conversions of         *)
(* libguac/user.c.  A settings structure is a function from its fields'    *)
(* names (written with "-" for "_"); a char* that is NULL is Null.         *)
(***************************************************************************)
EXTENDS Integers, Sequences, SequencesExt

Null == "NULL"

\* The numerals the model uses, with their value; a long that no int holds
\* has none.
IntOf == ("0" :> 0) @@ ("7" :> 7) @@ ("-3" :> -3) @@ ("2179" :> 2179) @@ ("70000" :> 70000)

Boolean(v) == v = "true"

ParseString(v, default) == IF v = "" THEN default ELSE v

ParseInt(v, default) == IF v \in DOMAIN IntOf THEN IntOf[v] ELSE default

ParseBoolean(v, default) == IF v \in {"true", "false"} THEN Boolean(v) ELSE default

\* atoi: 0 for what is no number; what it does for a number out of range is
\* undefined and not used here.
Atoi(v) == ParseInt(v, 0)

\* One assignment of a settings structure.
Str(field, v, default) == field :> ParseString(v, default)
Num(field, v, default) == field :> ParseInt(v, default)
Bool(field, v, default) == field :> ParseBoolean(v, default)

\* Code between #ifdef and #endif: a part of a list, or of a structure.
Present(build, feature, part) == IF feature \in build THEN part ELSE <<>>
PresentStruct(build, feature, s) ==
    IF feature \in build THEN s ELSE [owned |-> {}, plain |-> {}]

\* The fields of a structure declared in parts.
Together(parts) == [owned |-> UNION {parts[i].owned : i \in DOMAIN parts},
                    plain |-> UNION {parts[i].plain : i \in DOMAIN parts}]

\* argv[IDX_...]: the position is the enum's, whatever the list of names says.
ByIndex(idx, argv) == [n \in ToSet(idx) |-> argv[SelectInSeq(idx, LAMBDA i : i = n)]]

\* The last group of RDP, VNC, SSH and telnet: asked to wake a host whose
\* address is not given, the plugin forgets about it.
WakeOnLan(a) ==
    IF ParseBoolean(a["wol-send-packet"], FALSE)
    THEN "wol-send-packet" :> (a["wol-mac-addr"] # "")
         @@ Str("wol-mac-addr", a["wol-mac-addr"], Null)
         @@ Str("wol-broadcast-addr", a["wol-broadcast-addr"], "255.255.255.255")
         @@ "wol-udp-port" :> ParseInt(a["wol-udp-port"], 9) % 65536
         @@ Num("wol-wait-time", a["wol-wait-time"], 0)
    ELSE "wol-send-packet" :> FALSE @@ "wol-mac-addr" :> Null @@ "wol-broadcast-addr" :> Null
         @@ "wol-udp-port" :> 0 @@ "wol-wait-time" :> 0

\* What a failed *_parse_args returns.
NoSettings == <<>>
=============================================================================
