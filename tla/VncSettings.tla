----------------------------- MODULE VncSettings -----------------------------
(***************************************************************************)
(* protocols/vnc/settings.c and settings.h: the arguments of a VNC         *)
(* connection, the settings they are read into and their release.          *)
(***************************************************************************)
EXTENDS Settings

\* The names guacd offers the client, in order.
VncClientArgs(build) ==
    <<"hostname", "port", "read-only", "encodings", "username", "password",
        "swap-red-blue", "color-depth", "cursor", "autoretry", "clipboard-encoding">>
    \o Present(build, "VNC_REPEATER",
        <<"dest-host", "dest-port">>)
    \o Present(build, "PULSE",
        <<"enable-audio", "audio-servername">>)
    \o Present(build, "VNC_LISTEN",
        <<"reverse-connect", "listen-timeout">>)
    \o Present(build, "COMMON_SSH",
        <<"enable-sftp", "sftp-hostname", "sftp-host-key", "sftp-port", "sftp-username",
        "sftp-password", "sftp-private-key", "sftp-passphrase", "sftp-directory",
        "sftp-root-directory", "sftp-server-alive-interval", "sftp-disable-download",
        "sftp-disable-upload">>)
    \o <<"recording-path", "recording-name", "recording-exclude-output",
        "recording-exclude-mouse", "recording-include-keys", "create-recording-path",
        "recording-write-existing", "disable-copy", "disable-paste", "disable-server-input",
        "wol-send-packet", "wol-mac-addr", "wol-broadcast-addr", "wol-udp-port",
        "wol-wait-time", "force-lossless", "compress-level", "quality-level">>

\* enum VNC_ARGS_IDX, in order.

VncIdxServer(build) ==
    <<"hostname", "port", "read-only", "encodings", "username", "password",
        "swap-red-blue", "color-depth", "cursor", "autoretry", "clipboard-encoding">>
    \o Present(build, "VNC_REPEATER",
        <<"dest-host", "dest-port">>)
    \o Present(build, "PULSE",
        <<"enable-audio", "audio-servername">>)
    \o Present(build, "VNC_LISTEN",
        <<"reverse-connect", "listen-timeout">>)

VncIdxFiles(build) ==
    Present(build, "COMMON_SSH",
        <<"enable-sftp", "sftp-hostname", "sftp-host-key", "sftp-port", "sftp-username",
        "sftp-password", "sftp-private-key", "sftp-passphrase", "sftp-directory",
        "sftp-root-directory", "sftp-server-alive-interval", "sftp-disable-download",
        "sftp-disable-upload">>)
    \o <<"recording-path", "recording-name", "recording-exclude-output",
        "recording-exclude-mouse", "recording-include-keys", "create-recording-path",
        "recording-write-existing", "disable-copy", "disable-paste">>

VncIdxRest ==
    <<"disable-server-input", "wol-send-packet", "wol-mac-addr", "wol-broadcast-addr",
        "wol-udp-port", "wol-wait-time", "force-lossless", "compress-level", "quality-level">>

VncArgsIdx(build) == VncIdxServer(build) \o VncIdxFiles(build) \o VncIdxRest

\* struct guac_vnc_settings: the strings it owns, and everything else.

VncStructServer(build) == Together(<<
    [owned |-> {"hostname", "username", "password", "encodings"},
     plain |-> {"port", "swap-red-blue", "color-depth", "read-only", "lossless", "compress-level",
                "quality-level"}],
    PresentStruct(build, "VNC_REPEATER",
    [owned |-> {"dest-host"},
     plain |-> {"dest-port"}]),
    PresentStruct(build, "VNC_LISTEN",
    [owned |-> {},
     plain |-> {"reverse-connect", "listen-timeout"}]),
    [owned |-> {},
     plain |-> {"remote-cursor"}],
    PresentStruct(build, "PULSE",
    [owned |-> {"pa-servername"},
     plain |-> {"audio-enabled"}]),
    [owned |-> {},
     plain |-> {"retries"}]>>)

VncStructFiles(build) == Together(<<
    [owned |-> {"clipboard-encoding"},
     plain |-> {"disable-copy", "disable-paste"}],
    PresentStruct(build, "COMMON_SSH",
    [owned |-> {"sftp-hostname", "sftp-host-key", "sftp-port", "sftp-username", "sftp-password",
                "sftp-private-key", "sftp-passphrase", "sftp-directory", "sftp-root-directory"},
     plain |-> {"enable-sftp", "sftp-server-alive-interval", "sftp-disable-download",
                "sftp-disable-upload"}]),
    [owned |-> {"recording-path", "recording-name"},
     plain |-> {"create-recording-path", "recording-exclude-output", "recording-exclude-mouse",
                "recording-include-keys", "recording-write-existing"}]>>)

VncStructRest == 
    [owned |-> {"wol-mac-addr", "wol-broadcast-addr"},
     plain |-> {"wol-send-packet", "wol-udp-port", "wol-wait-time", "disable-server-input"}]

VncStruct(build) == Together(<<VncStructServer(build), VncStructFiles(build), VncStructRest>>)

\* The cursor is drawn by the client unless the server is asked to.
VncServer(a, build) ==
    Str("hostname", a["hostname"], "") @@ Num("port", a["port"], 0)
    @@ Str("username", a["username"], Null) @@ Str("password", a["password"], Null)
    @@ Bool("swap-red-blue", a["swap-red-blue"], FALSE) @@ Bool("read-only", a["read-only"], FALSE)
    @@ Bool("disable-server-input", a["disable-server-input"], FALSE)
    @@ Num("color-depth", a["color-depth"], 0) @@ Bool("lossless", a["force-lossless"], FALSE)
    @@ Num("compress-level", a["compress-level"], -1)
    @@ Num("quality-level", a["quality-level"], -1)
    @@ "remote-cursor" :> (a["cursor"] = "remote")
    @@ Present(build, "VNC_REPEATER",
          Str("dest-host", a["dest-host"], Null) @@ Num("dest-port", a["dest-port"], 0))
    @@ Present(build, "VNC_LISTEN",
          Bool("reverse-connect", a["reverse-connect"], FALSE)
          @@ Num("listen-timeout", a["listen-timeout"], 5000))
    @@ Present(build, "PULSE",
          Bool("audio-enabled", a["enable-audio"], FALSE)
          @@ "pa-servername" :> IF ParseBoolean(a["enable-audio"], FALSE)
                                THEN ParseString(a["audio-servername"], Null) ELSE Null)
    @@ Str("encodings", a["encodings"], "zrle ultra copyrect hextile zlib corre rre raw")
    @@ Num("retries", a["autoretry"], 0)
    @@ Str("clipboard-encoding", a["clipboard-encoding"], Null)

VncSftp(a, s) ==
    Bool("enable-sftp", a["enable-sftp"], FALSE)
    @@ Str("sftp-hostname", a["sftp-hostname"], s["hostname"])
    @@ Str("sftp-host-key", a["sftp-host-key"], Null) @@ Str("sftp-port", a["sftp-port"], "22")
    @@ Str("sftp-username", a["sftp-username"], "") @@ Str("sftp-password", a["sftp-password"], "")
    @@ Str("sftp-private-key", a["sftp-private-key"], Null)
    @@ Str("sftp-passphrase", a["sftp-passphrase"], "")
    @@ Str("sftp-directory", a["sftp-directory"], Null)
    @@ Str("sftp-root-directory", a["sftp-root-directory"], "/")
    @@ Num("sftp-server-alive-interval", a["sftp-server-alive-interval"], 0)
    @@ Bool("sftp-disable-download", a["sftp-disable-download"], FALSE)
    @@ Bool("sftp-disable-upload", a["sftp-disable-upload"], FALSE)

VncRecording(a) ==
    Str("recording-path", a["recording-path"], Null)
    @@ Str("recording-name", a["recording-name"], "recording")
    @@ Bool("recording-exclude-output", a["recording-exclude-output"], FALSE)
    @@ Bool("recording-exclude-mouse", a["recording-exclude-mouse"], FALSE)
    @@ Bool("recording-include-keys", a["recording-include-keys"], FALSE)
    @@ Bool("create-recording-path", a["create-recording-path"], FALSE)
    @@ Bool("recording-write-existing", a["recording-write-existing"], FALSE)
    @@ Bool("disable-copy", a["disable-copy"], FALSE)
    @@ Bool("disable-paste", a["disable-paste"], FALSE)

VncWol(a) == WakeOnLan(a)

VncParseArgs(build, argv) ==
    IF Len(argv) # Len(VncArgsIdx(build)) THEN NoSettings
    ELSE LET a == ByIndex(VncArgsIdx(build), argv)
             server == VncServer(a, build)
         IN server @@ Present(build, "COMMON_SSH", VncSftp(a, server))
            @@ VncRecording(a) @@ VncWol(a)

\* The strings guac_vnc_settings_free releases.
VncFreed(build) ==
    {"clipboard-encoding", "encodings", "hostname", "password", "recording-name",
     "recording-path", "username", "wol-mac-addr", "wol-broadcast-addr"}
    \cup (IF "VNC_REPEATER" \in build THEN {"dest-host"} ELSE {})
    \cup (IF "COMMON_SSH" \in build
          THEN {"sftp-directory", "sftp-root-directory", "sftp-host-key", "sftp-hostname",
                "sftp-passphrase", "sftp-password", "sftp-port", "sftp-private-key",
                "sftp-username"}
          ELSE {})
    \cup (IF "PULSE" \in build THEN {"pa-servername"} ELSE {})
=============================================================================
