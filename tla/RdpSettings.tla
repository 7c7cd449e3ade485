----------------------------- MODULE RdpSettings -----------------------------
(***************************************************************************)
(* protocols/rdp/settings.c, settings.h and resolution.c: the arguments of *)
(* an RDP connection, the settings they are read into, the release of the  *)
(* settings, and the FreeRDP settings made from them.  build is the set of *)
(* optional features compiled in.                                          *)
(***************************************************************************)
EXTENDS Settings

RdpDefaults == [port |-> 3389, vmconnectPort |-> 2179, width |-> 1024, height |-> 768,
                depth |-> 16, gfxDepth |-> 32]
RdpSecurityModes == {"nla", "nla-ext", "tls", "rdp", "vmconnect", "any"}
RdpResizeMethods == {"none", "display-update", "reconnect"}

\* The names guacd offers the client, in order.
RdpClientArgs(build) ==
    <<"hostname", "port", "domain", "username", "password", "width", "height", "dpi",
        "initial-program", "color-depth", "disable-audio", "enable-printing", "printer-name",
        "enable-drive", "drive-name", "drive-path", "create-drive-path", "disable-download",
        "disable-upload", "console", "console-audio", "server-layout", "security",
        "ignore-cert", "cert-tofu", "cert-fingerprints", "disable-auth", "remote-app",
        "remote-app-dir", "remote-app-args", "static-channels", "client-name",
        "enable-wallpaper", "enable-theming", "enable-font-smoothing",
        "enable-full-window-drag", "enable-desktop-composition", "enable-menu-animations",
        "disable-bitmap-caching", "disable-offscreen-caching", "disable-glyph-caching",
        "disable-gfx", "preconnection-id", "preconnection-blob", "timezone">>
    \o Present(build, "COMMON_SSH",
        <<"enable-sftp", "sftp-hostname", "sftp-host-key", "sftp-port", "sftp-username",
        "sftp-password", "sftp-private-key", "sftp-passphrase", "sftp-directory",
        "sftp-root-directory", "sftp-server-alive-interval", "sftp-disable-download",
        "sftp-disable-upload">>)
    \o <<"recording-path", "recording-name", "recording-exclude-output",
        "recording-exclude-mouse", "recording-exclude-touch", "recording-include-keys",
        "create-recording-path", "recording-write-existing", "resize-method",
        "enable-audio-input", "enable-touch", "read-only", "gateway-hostname",
        "gateway-port", "gateway-domain", "gateway-username", "gateway-password",
        "load-balance-info", "disable-copy", "disable-paste", "wol-send-packet",
        "wol-mac-addr", "wol-broadcast-addr", "wol-udp-port", "wol-wait-time",
        "force-lossless", "normalize-clipboard">>

\* enum RDP_ARGS_IDX, in order.

RdpIdxBasics ==
    <<"hostname", "port", "domain", "username", "password", "width", "height", "dpi",
        "initial-program", "color-depth", "disable-audio", "enable-printing", "printer-name",
        "enable-drive", "drive-name", "drive-path", "create-drive-path", "disable-download",
        "disable-upload", "console", "console-audio", "server-layout", "security">>

MutRdpIdxSession ==
    <<"cert-tofu", "ignore-cert", "cert-fingerprints", "disable-auth", "remote-app",
        "remote-app-dir", "remote-app-args", "static-channels", "client-name",
        "enable-wallpaper", "enable-theming", "enable-font-smoothing",
        "enable-full-window-drag", "enable-desktop-composition", "enable-menu-animations",
        "disable-bitmap-caching", "disable-offscreen-caching", "disable-glyph-caching",
        "disable-gfx", "preconnection-id", "preconnection-blob", "timezone">>

RdpIdxSession ==
    <<"ignore-cert", "cert-tofu", "cert-fingerprints", "disable-auth", "remote-app",
        "remote-app-dir", "remote-app-args", "static-channels", "client-name",
        "enable-wallpaper", "enable-theming", "enable-font-smoothing",
        "enable-full-window-drag", "enable-desktop-composition", "enable-menu-animations",
        "disable-bitmap-caching", "disable-offscreen-caching", "disable-glyph-caching",
        "disable-gfx", "preconnection-id", "preconnection-blob", "timezone">>

RdpIdxFiles(build) ==
    Present(build, "COMMON_SSH",
        <<"enable-sftp", "sftp-hostname", "sftp-host-key", "sftp-port", "sftp-username",
        "sftp-password", "sftp-private-key", "sftp-passphrase", "sftp-directory",
        "sftp-root-directory", "sftp-server-alive-interval", "sftp-disable-download",
        "sftp-disable-upload">>)
    \o <<"recording-path", "recording-name", "recording-exclude-output",
        "recording-exclude-mouse", "recording-exclude-touch", "recording-include-keys",
        "create-recording-path", "recording-write-existing">>

RdpIdxRest ==
    <<"resize-method", "enable-audio-input", "enable-touch", "read-only",
        "gateway-hostname", "gateway-port", "gateway-domain", "gateway-username",
        "gateway-password", "load-balance-info", "disable-copy", "disable-paste",
        "wol-send-packet", "wol-mac-addr", "wol-broadcast-addr", "wol-udp-port",
        "wol-wait-time", "force-lossless", "normalize-clipboard">>

RdpArgsIdx(build) ==
    RdpIdxBasics \o RdpIdxSession \o RdpIdxFiles(build) \o RdpIdxRest

\* struct guac_rdp_settings: the strings it owns, and everything else.

RdpStructBasics == 
    [owned |-> {"hostname", "domain", "username", "password", "printer-name", "drive-name",
                "drive-path", "initial-program", "client-name"},
     plain |-> {"port", "read-only", "color-depth", "width", "height", "resolution", "lossless",
                "audio-enabled", "printing-enabled", "drive-enabled", "create-drive-path",
                "disable-download", "disable-upload", "console", "console-audio", "server-layout",
                "security-mode", "ignore-certificate"}]

RdpStructSession == 
    [owned |-> {"certificate-fingerprints", "remote-app", "remote-app-dir", "remote-app-args",
                "svc-names", "preconnection-blob", "timezone"},
     plain |-> {"certificate-tofu", "disable-authentication", "disable-copy", "disable-paste",
                "normalize-clipboard", "clipboard-crlf", "wallpaper-enabled", "theming-enabled",
                "font-smoothing-enabled", "full-window-drag-enabled", "desktop-composition-enabled",
                "menu-animations-enabled", "disable-bitmap-caching", "disable-offscreen-caching",
                "disable-glyph-caching", "preconnection-id"}]

RdpStructFiles(build) == Together(<<
    PresentStruct(build, "COMMON_SSH",
    [owned |-> {"sftp-hostname", "sftp-host-key", "sftp-port", "sftp-username", "sftp-password",
                "sftp-private-key", "sftp-passphrase", "sftp-directory", "sftp-root-directory"},
     plain |-> {"enable-sftp", "sftp-server-alive-interval", "sftp-disable-download",
                "sftp-disable-upload"}]),
    [owned |-> {"recording-path", "recording-name"},
     plain |-> {"create-recording-path", "recording-exclude-output", "recording-exclude-mouse",
                "recording-exclude-touch", "recording-include-keys", "recording-write-existing",
                "resize-method"}]>>)

RdpStructRest == 
    [owned |-> {"gateway-hostname", "gateway-domain", "gateway-username", "gateway-password",
                "load-balance-info", "wol-mac-addr", "wol-broadcast-addr"},
     plain |-> {"enable-audio-input", "enable-gfx", "enable-touch", "gateway-port",
                "wol-send-packet", "wol-udp-port", "wol-wait-time"}]

RdpStruct(build) ==
    Together(<<RdpStructBasics, RdpStructSession, RdpStructFiles(build), RdpStructRest>>)

RdpCertificates(a) ==
    Bool("console", a["console"], FALSE) @@ Bool("console-audio", a["console-audio"], FALSE)
    @@ Bool("ignore-certificate", a["ignore-cert"], FALSE)
    @@ Bool("certificate-tofu", a["cert-tofu"], FALSE)
    @@ Str("certificate-fingerprints", a["cert-fingerprints"], Null)
    @@ Bool("disable-authentication", a["disable-auth"], FALSE)

\* What is not one of the modes is negotiated with the server.
RdpSecurityMode(a) ==
    "security-mode" :> IF a["security"] \in RdpSecurityModes THEN a["security"] ELSE "any"

\* A resolution is reasonable if it is the user's, or leaves a large display.
ReasonableArea == 800 * 600
ResolutionReasonable(info, resolution) ==
    LET Scaled(n) == (n * resolution) \div info.resolution
    IN info.resolution = resolution \/ Scaled(info.width) * Scaled(info.height) >= ReasonableArea
SuggestResolution(info) ==
    IF ResolutionReasonable(info, 96) THEN 96
    ELSE IF ResolutionReasonable(info, 120) THEN 120 ELSE info.resolution

\* A size given is used as it is, unless it is no size; the width is then
\* rounded down to a multiple of four.
RdpSize(given, scaled, default) ==
    LET n == IF given # "" THEN Atoi(given) ELSE scaled IN IF n <= 0 THEN default ELSE n

RdpTarget(a, s, info) ==
    LET resolution == ParseInt(a["dpi"], SuggestResolution(info))
        width == RdpSize(a["width"], (info.width * resolution) \div info.resolution,
                         RdpDefaults.width)
        height == RdpSize(a["height"], (info.height * resolution) \div info.resolution,
                          RdpDefaults.height)
    IN Str("hostname", a["hostname"], "")
       @@ Num("port", a["port"], IF s["security-mode"] = "vmconnect"
                                 THEN RdpDefaults.vmconnectPort ELSE RdpDefaults.port)
       @@ "resolution" :> resolution
       @@ "width" :> width - (width % 4) @@ "height" :> height

RdpSession(a) ==
    Bool("lossless", a["force-lossless"], FALSE) @@ Str("domain", a["domain"], Null)
    @@ Str("username", a["username"], Null) @@ Str("password", a["password"], Null)
    @@ Bool("read-only", a["read-only"], FALSE)
    @@ Str("client-name", a["client-name"], "Guacamole RDP")
    @@ Str("initial-program", a["initial-program"], Null)
    @@ Str("remote-app", a["remote-app"], Null) @@ Str("remote-app-dir", a["remote-app-dir"], Null)
    @@ Str("remote-app-args", a["remote-app-args"], Null)
    @@ "svc-names" :> ParseString(a["static-channels"], Null)

\* Glyph caching stays off whatever the parameter says.
RdpPerformance(a) ==
    Bool("wallpaper-enabled", a["enable-wallpaper"], FALSE)
    @@ Bool("theming-enabled", a["enable-theming"], FALSE)
    @@ Bool("font-smoothing-enabled", a["enable-font-smoothing"], FALSE)
    @@ Bool("full-window-drag-enabled", a["enable-full-window-drag"], FALSE)
    @@ Bool("desktop-composition-enabled", a["enable-desktop-composition"], FALSE)
    @@ Bool("menu-animations-enabled", a["enable-menu-animations"], FALSE)
    @@ Bool("disable-bitmap-caching", a["disable-bitmap-caching"], FALSE)
    @@ Bool("disable-offscreen-caching", a["disable-offscreen-caching"], FALSE)
    @@ "disable-glyph-caching" :> TRUE
    @@ "preconnection-id" :> (LET id == IF a["preconnection-id"] = "" THEN -1
                                        ELSE Atoi(a["preconnection-id"])
                              IN IF id < 0 THEN -1 ELSE id)
    @@ Str("preconnection-blob", a["preconnection-blob"], Null)

\* The layouts this model tells apart, the default first.
Keymaps == {"en-us-qwerty", "failsafe"}
RdpDevices(a, info) ==
    "audio-enabled" :> (~ParseBoolean(a["disable-audio"], FALSE))
    @@ Bool("printing-enabled", a["enable-printing"], FALSE)
    @@ Str("printer-name", a["printer-name"], "Guacamole Printer")
    @@ Bool("drive-enabled", a["enable-drive"], FALSE)
    @@ Str("drive-name", a["drive-name"], "Guacamole Filesystem")
    @@ Str("drive-path", a["drive-path"], "")
    @@ Bool("create-drive-path", a["create-drive-path"], FALSE)
    @@ Bool("disable-download", a["disable-download"], FALSE)
    @@ Bool("disable-upload", a["disable-upload"], FALSE)
    @@ Str("timezone", a["timezone"], info.timezone)
    @@ "server-layout" :> IF a["server-layout"] \in Keymaps THEN a["server-layout"]
                          ELSE "en-us-qwerty"

RdpSftp(a, s) ==
    Bool("enable-sftp", a["enable-sftp"], FALSE)
    @@ Str("sftp-hostname", a["sftp-hostname"], s["hostname"])
    @@ Str("sftp-host-key", a["sftp-host-key"], Null) @@ Str("sftp-port", a["sftp-port"], "22")
    @@ Str("sftp-username", a["sftp-username"], IF s["username"] # Null THEN s["username"] ELSE "")
    @@ Str("sftp-password", a["sftp-password"], "")
    @@ Str("sftp-private-key", a["sftp-private-key"], Null)
    @@ Str("sftp-passphrase", a["sftp-passphrase"], "")
    @@ Str("sftp-directory", a["sftp-directory"], Null)
    @@ Str("sftp-root-directory", a["sftp-root-directory"], "/")
    @@ Num("sftp-server-alive-interval", a["sftp-server-alive-interval"], 0)
    @@ Bool("sftp-disable-download", a["sftp-disable-download"], FALSE)
    @@ Bool("sftp-disable-upload", a["sftp-disable-upload"], FALSE)

RdpRecording(a) ==
    Str("recording-path", a["recording-path"], Null)
    @@ Str("recording-name", a["recording-name"], "recording")
    @@ Bool("recording-exclude-output", a["recording-exclude-output"], FALSE)
    @@ Bool("recording-exclude-mouse", a["recording-exclude-mouse"], FALSE)
    @@ Bool("recording-exclude-touch", a["recording-exclude-touch"], FALSE)
    @@ Bool("recording-include-keys", a["recording-include-keys"], FALSE)
    @@ Bool("create-recording-path", a["create-recording-path"], FALSE)
    @@ Bool("recording-write-existing", a["recording-write-existing"], FALSE)

RdpResizeMethod(a) ==
    "resize-method" :> IF a["resize-method"] \in {"reconnect", "display-update"}
                       THEN a["resize-method"] ELSE "none"

RdpGraphics(a) ==
    LET gfx == ~ParseBoolean(a["disable-gfx"], FALSE)
    IN "enable-gfx" :> gfx
       @@ Num("color-depth", a["color-depth"],
              IF gfx THEN RdpDefaults.gfxDepth ELSE RdpDefaults.depth)

RdpChannels(a) ==
    Bool("enable-touch", a["enable-touch"], FALSE)
    @@ Bool("enable-audio-input", a["enable-audio-input"], FALSE)
    @@ Str("gateway-hostname", a["gateway-hostname"], Null)
    @@ Num("gateway-port", a["gateway-port"], 443)
    @@ Str("gateway-domain", a["gateway-domain"], Null)
    @@ Str("gateway-username", a["gateway-username"], Null)
    @@ Str("gateway-password", a["gateway-password"], Null)
    @@ Str("load-balance-info", a["load-balance-info"], Null)
    @@ Bool("disable-copy", a["disable-copy"], FALSE)
    @@ Bool("disable-paste", a["disable-paste"], FALSE)
    @@ "normalize-clipboard" :> (a["normalize-clipboard"] \in {"unix", "windows"})
    @@ "clipboard-crlf" :> (a["normalize-clipboard"] = "windows")

RdpWol(a) == WakeOnLan(a)

RdpParseArgs(build, argv, info) ==
    IF Len(argv) # Len(RdpArgsIdx(build)) THEN NoSettings
    ELSE LET a == ByIndex(RdpArgsIdx(build), argv)
             mode == RdpCertificates(a) @@ RdpSecurityMode(a)
             target == mode @@ RdpTarget(a, mode, info) @@ RdpSession(a)
         IN target @@ RdpPerformance(a) @@ RdpDevices(a, info)
            @@ Present(build, "COMMON_SSH", RdpSftp(a, target))
            @@ RdpRecording(a) @@ RdpResizeMethod(a) @@ RdpGraphics(a) @@ RdpChannels(a) @@ RdpWol(a)

\* The strings guac_rdp_settings_free releases.
RdpFreed(build) ==
    {"client-name", "domain", "drive-name", "drive-path", "hostname", "certificate-fingerprints",
     "initial-program", "password", "preconnection-blob", "recording-name", "recording-path",
     "remote-app", "remote-app-args", "remote-app-dir", "timezone", "username", "printer-name",
     "svc-names", "gateway-hostname", "gateway-domain", "gateway-username", "gateway-password",
     "load-balance-info", "wol-mac-addr", "wol-broadcast-addr"}
    \cup IF "COMMON_SSH" \in build
         THEN {"sftp-directory", "sftp-root-directory", "sftp-host-key", "sftp-hostname",
               "sftp-passphrase", "sftp-password", "sftp-port", "sftp-private-key",
               "sftp-username"}
         ELSE {}

-----------------------------------------------------------------------------
\* The settings handed to FreeRDP; what FreeRDP itself starts from is left out.

PerformanceFlags(s) ==
    {f \in {"disable-wallpaper", "disable-theming", "enable-font-smoothing",
            "disable-full-window-drag", "enable-desktop-composition", "disable-menu-animations"} :
        CASE f = "disable-wallpaper" -> ~s["wallpaper-enabled"]
          [] f = "disable-theming" -> ~s["theming-enabled"]
          [] f = "enable-font-smoothing" -> s["font-smoothing-enabled"]
          [] f = "disable-full-window-drag" -> ~s["full-window-drag-enabled"]
          [] f = "enable-desktop-composition" -> s["desktop-composition-enabled"]
          [] f = "disable-menu-animations" -> ~s["menu-animations-enabled"]}

\* The graphics pipeline needs its own color depth, whatever was asked for.
PushDisplay(s) ==
    [ServerHostname |-> s["hostname"], ServerPort |-> s["port"],
     Username |-> s["username"], Password |-> s["password"], Domain |-> s["domain"],
     DesktopWidth |-> s["width"], DesktopHeight |-> s["height"],
     AlternateShell |-> s["initial-program"], KeyboardLayout |-> s["server-layout"],
     Flags |-> PerformanceFlags(s), SupportGraphicsPipeline |-> s["enable-gfx"],
     ColorDepth |-> IF s["enable-gfx"] THEN RdpDefaults.gfxDepth ELSE s["color-depth"],
     ClientHostname |-> s["client-name"], ConsoleSession |-> s["console"],
     RemoteConsoleAudio |-> s["console-audio"], AudioPlayback |-> s["audio-enabled"],
     AudioCapture |-> s["enable-audio-input"], TZ |-> s["timezone"],
     SupportDisplayControl |-> s["resize-method"] = "display-update",
     DeviceRedirection |-> s["audio-enabled"] \/ s["drive-enabled"] \/ s["printing-enabled"]]

\* The security layers offered to the server.  FIPS mode takes NLA out of the
\* negotiation, but not out of a mode that asks for it by name.
PushSecurity(s, fips) ==
    [Layers |-> CASE s["security-mode"] = "rdp" -> {"Rdp"}
                  [] s["security-mode"] = "tls" -> {"Tls"}
                  [] s["security-mode"] = "nla" -> {"Nla"}
                  [] s["security-mode"] = "nla-ext" -> {"Ext"}
                  [] s["security-mode"] = "vmconnect" -> {"Tls", "Nla"}
                  [] s["security-mode"] = "any" -> {"Rdp", "Tls"} \cup IF fips THEN {} ELSE {"Nla"},
     VmConnectMode |-> s["security-mode"] = "vmconnect",
     Authentication |-> ~s["disable-authentication"],
     IgnoreCertificate |-> s["ignore-certificate"],
     AutoAcceptCertificate |-> s["certificate-tofu"],
     AcceptedFingerprints |-> s["certificate-fingerprints"]]

\* RemoteApp, preconnection, gateway and load balancing are there only when
\* their setting is; caching follows the flags.
PushRemote(s) ==
    [RemoteApplicationMode |-> s["remote-app"] # Null,
     SendPreconnectionPdu |-> s["preconnection-id"] # -1 \/ s["preconnection-blob"] # Null,
     NegotiateSecurityLayer |-> s["preconnection-id"] = -1 /\ s["preconnection-blob"] = Null,
     Gateway |-> IF s["gateway-hostname"] = Null THEN <<>>
                 ELSE <<s["gateway-hostname"], s["gateway-port"], s["gateway-domain"],
                        s["gateway-username"], s["gateway-password"]>>,
     LoadBalanceInfo |-> s["load-balance-info"],
     BitmapCache |-> ~s["disable-bitmap-caching"],
     OffscreenSupport |-> ~s["disable-offscreen-caching"],
     GlyphSupport |-> ~s["disable-glyph-caching"]]

PushSettings(s, fips) == PushDisplay(s) @@ PushSecurity(s, fips) @@ PushRemote(s)
=============================================================================
