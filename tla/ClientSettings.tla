---------------------------- MODULE ClientSettings ----------------------------
(***************************************************************************)
(* A connection's arguments on their way through a plugin: guacd offers    *)
(* the names, the client answers with one value for each, in that order,   *)
(* the join handler reads the values into a settings structure, RDP hands  *)
(* the structure to FreeRDP, and in the end the structure is released.     *)
(*                                                                         *)
(* The list of names, the enum of positions, the structure, the parser and *)
(* the release are five texts of hundreds of lines that only the care of   *)
(* their authors keeps in step, for five plugins and every set of optional *)
(* features.                                                               *)
(***************************************************************************)
EXTENDS RdpSettings, VncSettings, TerminalSettings, FiniteSets

CONSTANTS Sites,  \* sets of optional features, each with what a client says of its screen
          Values  \* what a client may answer for any argument

Plugins == {"rdp", "vnc", "ssh", "telnet", "kubernetes"}

VARIABLES plugin, build, info,
          given,      \* what the client answered, by name; "" for the others
          step,       \* "offered", "refused", "parsed", "pushed", "freed"
          settings,   \* the structure, <<>> while there is none
          freerdp,    \* the FreeRDP settings, <<>> while there are none
          released    \* the strings *_settings_free released; guac_mem_free clears the
                      \* field, so a second release of one has no effect

settingsVars == <<plugin, build, info, given, step, settings, freerdp, released>>

\* The two orders, the structure, the parser and the release of each plugin.
ClientArgs(p, b) == CASE p = "rdp" -> RdpClientArgs(b) [] p = "vnc" -> VncClientArgs(b)
                      [] p = "ssh" -> SshClientArgs(b) [] p = "telnet" -> TelnetClientArgs
                      [] p = "kubernetes" -> KubernetesClientArgs
ParseArgs(p, b, argv, i) ==
    CASE p = "rdp" -> RdpParseArgs(b, argv, i) [] p = "vnc" -> VncParseArgs(b, argv)
      [] p = "ssh" -> SshParseArgs(b, argv, i) [] p = "telnet" -> TelnetParseArgs(argv, i)
      [] p = "kubernetes" -> KubernetesParseArgs(argv, i)
Struct(p, b) == CASE p = "rdp" -> RdpStruct(b) [] p = "vnc" -> VncStruct(b)
                  [] p = "ssh" -> SshStruct(b) [] p = "telnet" -> TelnetStruct
                  [] p = "kubernetes" -> KubernetesStruct
Freed(p, b) == CASE p = "rdp" -> RdpFreed(b) [] p = "vnc" -> VncFreed(b)
                 [] p = "ssh" -> SshFreed [] p = "telnet" -> TelnetFreed
                 [] p = "kubernetes" -> KubernetesFreed

Answer(names, g) ==
    [i \in DOMAIN names |-> IF names[i] \in DOMAIN g THEN g[names[i]] ELSE ""]

\* The arguments other settings fall back on, or wait for.
Governing == {"hostname", "username", "password", "security", "dpi", "disable-gfx", "use-ssl",
              "enable-audio", "wol-send-packet", "login-failure-regex"}
GoverningValues == {"true", "text"}

SettingsInit ==
    /\ plugin \in Plugins /\ \E s \in Sites : build = s[1] /\ info = s[2]
    /\ LET names == ToSet(ClientArgs(plugin, build))
       IN \/ \E n \in names, v \in Values : given = (n :> v)
          \/ \E n \in names, g \in Governing \cap names, v, w \in GoverningValues :
                given = (n :> v) @@ (g :> w)
    /\ step = "offered" /\ settings = NoSettings /\ freerdp = NoSettings /\ released = {}

\* The join handlers: a client that answers another number of values than it
\* was offered names is refused.
ParseSettings(short) ==
    LET argv == Answer(ClientArgs(plugin, build), given)
        parsed == ParseArgs(plugin, build, IF short THEN Tail(argv) ELSE argv, info)
    IN /\ step = "offered"
       /\ settings' = parsed /\ step' = IF parsed = NoSettings THEN "refused" ELSE "parsed"
       /\ UNCHANGED <<plugin, build, info, given, freerdp, released>>

\* pre_connect of RDP.
Push ==
    /\ step = "parsed" /\ plugin = "rdp"
    /\ \E fips \in BOOLEAN : freerdp' = PushSettings(settings, fips)
    /\ step' = "pushed" /\ UNCHANGED <<plugin, build, info, given, settings, released>>

\* The leave handler of a user, or the free handler of the client.
FreeSettings ==
    /\ step = IF plugin = "rdp" THEN "pushed" ELSE "parsed"
    /\ LET freed == Freed(plugin, build) IN released' = {f \in freed : settings[f] # Null}
    /\ step' = "freed" /\ UNCHANGED <<plugin, build, info, given, settings, freerdp>>

SettingsNext == (\E short \in BOOLEAN : ParseSettings(short)) \/ Push \/ FreeSettings

-----------------------------------------------------------------------------
(* Properties.                                                             *)

\* The fields that are not named for their argument.
Renamed ==
    ("ignore-certificate" :> "ignore-cert") @@ ("certificate-tofu" :> "cert-tofu")
    @@ ("certificate-fingerprints" :> "cert-fingerprints")
    @@ ("disable-authentication" :> "disable-auth") @@ ("security-mode" :> "security")
    @@ ("lossless" :> "force-lossless") @@ ("resolution" :> "dpi") @@ ("svc-names" :> "static-channels")
    @@ ("audio-enabled" :> "disable-audio") @@ ("printing-enabled" :> "enable-printing")
    @@ ("drive-enabled" :> "enable-drive") @@ ("enable-gfx" :> "disable-gfx")
    @@ ("clipboard-crlf" :> "normalize-clipboard") @@ ("wallpaper-enabled" :> "enable-wallpaper")
    @@ ("theming-enabled" :> "enable-theming")
    @@ ("font-smoothing-enabled" :> "enable-font-smoothing")
    @@ ("full-window-drag-enabled" :> "enable-full-window-drag")
    @@ ("desktop-composition-enabled" :> "enable-desktop-composition")
    @@ ("menu-animations-enabled" :> "enable-menu-animations")
    @@ ("remote-cursor" :> "cursor") @@ ("retries" :> "autoretry")
    @@ ("pa-servername" :> "audio-servername") @@ ("max-scrollback" :> "scrollback")
    @@ ("key-base64" :> "private-key") @@ ("key-passphrase" :> "passphrase")
    @@ ("public-key-base64" :> "public-key") @@ ("kubernetes-namespace" :> "namespace")
    @@ ("kubernetes-pod" :> "pod") @@ ("kubernetes-container" :> "container")
NameOf(f) == IF f = "audio-enabled" /\ plugin = "vnc" THEN "enable-audio"
             ELSE IF f \in DOMAIN Renamed THEN Renamed[f] ELSE f

\* The further arguments a field follows: what it falls back on, and what
\* switches it on or off.
Follows(f) ==
    CASE f = "port" -> {"security"}
      [] f = "sftp-hostname" -> {"hostname"}
      [] f = "sftp-username" -> IF plugin = "rdp" THEN {"username"} ELSE {}
      [] f = "color-depth" -> {"disable-gfx"} [] f = "pa-servername" -> {"enable-audio"}
      [] f \in {"width", "height"} -> {"dpi"}
      [] f = "wol-send-packet" -> {"wol-mac-addr"}
      [] f \in {"wol-mac-addr", "wol-broadcast-addr", "wol-udp-port", "wol-wait-time"} ->
            {"wol-send-packet"}
      [] f \in {"client-cert", "client-key", "ca-cert", "ignore-cert"} -> {"use-ssl"}
      [] f = "username-regex" -> {"username"} [] f = "password-regex" -> {"password"}
      [] f = "login-success-regex" -> {"login-failure-regex"}
      [] f = "login-failure-regex" -> {"login-success-regex"}
      [] OTHER -> {}

\* The settings of a client that answers nothing.
Unasked == [c \in Plugins \X Sites |->
               ParseArgs(c[1], c[2][1], Answer(ClientArgs(c[1], c[2][1]), <<>>), c[2][2])]

Parsed == step \in {"parsed", "pushed", "freed"}
Asked == {n \in DOMAIN given : given[n] # ""}

\* The trust settings of FreeRDP and the arguments they may follow.
TrustFollows ==
    [Layers |-> {"security"}, VmConnectMode |-> {"security"}, Authentication |-> {"disable-auth"},
     IgnoreCertificate |-> {"ignore-cert"}, AutoAcceptCertificate |-> {"cert-tofu"},
     AcceptedFingerprints |-> {"cert-fingerprints"}, LoadBalanceInfo |-> {"load-balance-info"},
     NegotiateSecurityLayer |-> {"preconnection-id", "preconnection-blob"},
     Gateway |-> {"gateway-hostname", "gateway-port", "gateway-domain", "gateway-username",
                  "gateway-password"}]

(* settings.c of every plugin: a field of the settings is what the client  *)
(* said for the argument of that name, or for one it is known to follow;   *)
(* whatever else was said, it is what it is when nothing was said.  What   *)
(* is said for a string arrives in its field unchanged unless the field is *)
(* switched off.  A client that answers as many values as it was offered   *)
(* names is never refused.  And how far FreeRDP trusts the server changes  *)
(* only with the argument that says so.                                    *)
SettingsByName ==
    LET unasked == Unasked[plugin, <<build, info>>]
        owned == Struct(plugin, build).owned
    IN /\ Parsed => \A f \in DOMAIN settings :
            /\ settings[f] # unasked[f] => Asked \cap ({NameOf(f)} \cup Follows(f)) # {}
            /\ (f \in owned /\ NameOf(f) \in Asked)
                  => settings[f] = given[NameOf(f)] \/ (settings[f] = Null /\ unasked[f] = Null
                        /\ (Follows(f) # {} \/ given[NameOf(f)] = "bad-regex"))
       /\ step = "pushed" => \A t \in DOMAIN TrustFollows :
            freerdp[t] # PushSettings(unasked, FALSE)[t] =>
                Asked \cap TrustFollows[t] # {} \/ (t = "Layers" /\ freerdp[t] = {"Rdp", "Tls"})

(* settings.h and *_settings_free: every field of the structure has been   *)
(* given a value, every string the structure owns is released, and nothing *)
(* is released that it does not own.                                       *)
SettingsReleased ==
    /\ Parsed => DOMAIN settings = Struct(plugin, build).owned \cup Struct(plugin, build).plain
    /\ step = "freed" =>
          LET owned == Struct(plugin, build).owned IN released = {f \in owned : settings[f] # Null}
    /\ step = "refused" => settings = NoSettings

(* Both: what a client says is what the plugin goes by, and what the       *)
(* plugin keeps of it is released.                                         *)
SettingsSound == SettingsByName /\ SettingsReleased
=============================================================================
