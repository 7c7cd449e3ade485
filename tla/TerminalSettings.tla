--------------------------- MODULE TerminalSettings ---------------------------
(***************************************************************************)
(* The settings.c and settings.h of the three plugins that show a          *)
(* terminal: SSH, telnet and Kubernetes.                                   *)
(***************************************************************************)
EXTENDS Settings

\* What each of the three takes from its user rather than from an argument.
UserScreen(info) ==
    "width" :> info.width @@ "height" :> info.height @@ "resolution" :> info.resolution

-----------------------------------------------------------------------------
\* SSH

SshClientArgs(build) ==
    <<"hostname", "host-key", "port", "username", "password", "font-name", "font-size",
        "enable-sftp", "sftp-root-directory", "sftp-disable-download", "sftp-disable-upload",
        "private-key", "passphrase", "public-key">>
    \o Present(build, "SSH_AGENT",
        <<"enable-agent">>)
    \o <<"color-scheme", "command", "typescript-path", "typescript-name",
        "create-typescript-path", "typescript-write-existing", "recording-path",
        "recording-name", "recording-exclude-output", "recording-exclude-mouse",
        "recording-include-keys", "create-recording-path", "recording-write-existing",
        "read-only", "server-alive-interval", "backspace", "terminal-type", "scrollback",
        "locale", "timezone", "disable-copy", "disable-paste", "wol-send-packet",
        "wol-mac-addr", "wol-broadcast-addr", "wol-udp-port", "wol-wait-time">>

\* enum SSH_ARGS_IDX, in order.

SshIdxLogin(build) ==
    <<"hostname", "host-key", "port", "username", "password", "font-name", "font-size",
        "enable-sftp", "sftp-root-directory", "sftp-disable-download", "sftp-disable-upload",
        "private-key", "passphrase", "public-key">>
    \o Present(build, "SSH_AGENT",
        <<"enable-agent">>)
    \o <<"color-scheme", "command", "typescript-path", "typescript-name",
        "create-typescript-path", "typescript-write-existing">>

SshIdxRest ==
    <<"recording-path", "recording-name", "recording-exclude-output",
        "recording-exclude-mouse", "recording-include-keys", "create-recording-path",
        "recording-write-existing", "read-only", "server-alive-interval", "backspace",
        "terminal-type", "scrollback", "locale", "timezone", "disable-copy", "disable-paste",
        "wol-send-packet", "wol-mac-addr", "wol-broadcast-addr", "wol-udp-port",
        "wol-wait-time">>

SshArgsIdx(build) == SshIdxLogin(build) \o SshIdxRest

\* struct guac_ssh_settings: the strings it owns, and everything else.

SshStructLogin == 
    [owned |-> {"hostname", "host-key", "port", "username", "password", "key-base64",
                "key-passphrase", "public-key-base64", "command", "font-name", "color-scheme",
                "sftp-root-directory"},
     plain |-> {"read-only", "max-scrollback", "font-size", "width", "height", "resolution",
                "disable-copy", "disable-paste", "enable-sftp", "sftp-disable-download",
                "sftp-disable-upload"}]

SshStructRest(build) == Together(<<
    PresentStruct(build, "SSH_AGENT",
    [owned |-> {},
     plain |-> {"enable-agent"}]),
    [owned |-> {"typescript-path", "typescript-name", "recording-path", "recording-name",
                "terminal-type", "locale", "timezone", "wol-mac-addr", "wol-broadcast-addr"},
     plain |-> {"create-typescript-path", "typescript-write-existing", "create-recording-path",
                "recording-exclude-output", "recording-exclude-mouse", "recording-include-keys",
                "recording-write-existing", "server-alive-interval", "backspace", "wol-send-packet",
                "wol-udp-port", "wol-wait-time"}]>>)

SshStruct(build) == Together(<<SshStructLogin, SshStructRest(build)>>)

SshLogin(a, build, info) ==
    Str("hostname", a["hostname"], "") @@ Str("host-key", a["host-key"], Null)
    @@ Str("username", a["username"], Null) @@ Str("password", a["password"], Null)
    @@ Str("key-base64", a["private-key"], Null) @@ Str("key-passphrase", a["passphrase"], Null)
    @@ Str("public-key-base64", a["public-key"], Null)
    @@ Num("max-scrollback", a["scrollback"], 1000)
    @@ Str("font-name", a["font-name"], "monospace")
    @@ Num("font-size", a["font-size"], 12)
    @@ Str("color-scheme", a["color-scheme"], "")
    @@ Bool("enable-sftp", a["enable-sftp"], FALSE)
    @@ Str("sftp-root-directory", a["sftp-root-directory"], "/")
    @@ Bool("sftp-disable-download", a["sftp-disable-download"], FALSE)
    @@ Bool("sftp-disable-upload", a["sftp-disable-upload"], FALSE)
    @@ UserScreen(info)
    @@ Present(build, "SSH_AGENT",
      Bool("enable-agent", a["enable-agent"], FALSE))

SshSession(a, info) ==
    Str("port", a["port"], "22") @@ Bool("read-only", a["read-only"], FALSE)
    @@ Str("command", a["command"], Null) @@ Str("typescript-path", a["typescript-path"], Null)
    @@ Str("typescript-name", a["typescript-name"], "typescript")
    @@ Bool("create-typescript-path", a["create-typescript-path"], FALSE)
    @@ Bool("typescript-write-existing", a["typescript-write-existing"], FALSE)
    @@ Str("recording-path", a["recording-path"], Null)
    @@ Str("recording-name", a["recording-name"], "recording")
    @@ Bool("recording-exclude-output", a["recording-exclude-output"], FALSE)
    @@ Bool("recording-exclude-mouse", a["recording-exclude-mouse"], FALSE)
    @@ Bool("recording-include-keys", a["recording-include-keys"], FALSE)
    @@ Bool("create-recording-path", a["create-recording-path"], FALSE)
    @@ Bool("recording-write-existing", a["recording-write-existing"], FALSE)
    @@ Num("server-alive-interval", a["server-alive-interval"], 0)
    @@ Num("backspace", a["backspace"], 127)
    @@ Str("terminal-type", a["terminal-type"], "linux") @@ Str("locale", a["locale"], Null)
    @@ Str("timezone", a["timezone"], info.timezone)
    @@ Bool("disable-copy", a["disable-copy"], FALSE)
    @@ Bool("disable-paste", a["disable-paste"], FALSE)

SshWol(a) == WakeOnLan(a)

SshParseArgs(build, argv, info) ==
    IF Len(argv) # Len(SshArgsIdx(build)) THEN NoSettings
    ELSE LET a == ByIndex(SshArgsIdx(build), argv)
         IN SshLogin(a, build, info) @@ SshSession(a, info) @@ SshWol(a)

\* The strings guac_ssh_settings_free releases.
SshFreed ==
    {"hostname", "host-key", "port", "username", "password", "key-base64", "key-passphrase",
     "public-key-base64", "font-name", "color-scheme", "command", "sftp-root-directory",
     "typescript-name", "typescript-path", "recording-name", "recording-path", "terminal-type",
     "locale", "timezone", "wol-mac-addr", "wol-broadcast-addr"}

-----------------------------------------------------------------------------
\* Telnet

TelnetClientArgs ==
    <<"hostname", "port", "timeout", "username", "username-regex", "password",
        "password-regex", "font-name", "font-size", "color-scheme", "typescript-path",
        "typescript-name", "create-typescript-path", "typescript-write-existing",
        "recording-path", "recording-name", "recording-exclude-output",
        "recording-exclude-mouse", "recording-include-keys", "create-recording-path",
        "recording-write-existing", "read-only", "backspace", "terminal-type", "scrollback",
        "login-success-regex", "login-failure-regex", "disable-copy", "disable-paste",
        "wol-send-packet", "wol-mac-addr", "wol-broadcast-addr", "wol-udp-port",
        "wol-wait-time">>

\* enum TELNET_ARGS_IDX, in order.

TelnetIdxLogin ==
    <<"hostname", "port", "timeout", "username", "username-regex", "password",
        "password-regex", "font-name", "font-size", "color-scheme", "typescript-path",
        "typescript-name", "create-typescript-path", "typescript-write-existing",
        "recording-path", "recording-name", "recording-exclude-output",
        "recording-exclude-mouse", "recording-include-keys">>

TelnetIdxRest ==
    <<"create-recording-path", "recording-write-existing", "read-only", "backspace",
        "terminal-type", "scrollback", "login-success-regex", "login-failure-regex",
        "disable-copy", "disable-paste", "wol-send-packet", "wol-mac-addr",
        "wol-broadcast-addr", "wol-udp-port", "wol-wait-time">>

TelnetArgsIdx == TelnetIdxLogin \o TelnetIdxRest

\* struct guac_telnet_settings: the strings and compiled patterns it owns, and
\* everything else.

TelnetStructLogin == 
    [owned |-> {"hostname", "port", "username", "username-regex", "password", "password-regex",
                "login-success-regex", "login-failure-regex", "font-name", "color-scheme"},
     plain |-> {"timeout", "read-only", "max-scrollback", "font-size", "width", "height",
                "resolution", "disable-copy", "disable-paste"}]

TelnetStructRest == 
    [owned |-> {"typescript-path", "typescript-name", "recording-path", "recording-name",
                "terminal-type", "wol-mac-addr", "wol-broadcast-addr"},
     plain |-> {"create-typescript-path", "typescript-write-existing", "create-recording-path",
                "recording-exclude-output", "recording-exclude-mouse", "recording-include-keys",
                "recording-write-existing", "backspace", "wol-send-packet", "wol-udp-port",
                "wol-wait-time"}]

TelnetStruct == Together(<<TelnetStructLogin, TelnetStructRest>>)

\* A pattern that does not compile counts as none.
CompileRegex(pattern) == IF pattern = "bad-regex" THEN Null ELSE pattern

\* The prompts matter only for the credential there is, and success is looked
\* for only together with failure.
TelnetLogin(a) ==
    LET username == ParseString(a["username"], Null)
        password == ParseString(a["password"], Null)
        success == CompileRegex(ParseString(a["login-success-regex"], Null))
        failure == CompileRegex(ParseString(a["login-failure-regex"], Null))
        Prompt(credential, given, default) ==
            IF credential = Null THEN Null ELSE CompileRegex(ParseString(given, default))
    IN Str("hostname", a["hostname"], "")
       @@ "username" :> username @@ "password" :> password
       @@ "username-regex" :> Prompt(username, a["username-regex"], "[Ll]ogin:")
       @@ "password-regex" :> Prompt(password, a["password-regex"], "[Pp]assword:")
       @@ "login-success-regex" :> (IF failure = Null THEN Null ELSE success)
       @@ "login-failure-regex" :> (IF success = Null THEN Null ELSE failure)

\* The pattern strings compile_regex is given and nobody releases.
TelnetPatternsLeft(a) ==
    {p \in {"username-regex", "password-regex", "login-success-regex", "login-failure-regex"} :
        CASE p = "username-regex" -> a["username"] # ""
          [] p = "password-regex" -> a["password"] # ""
          [] OTHER -> a[p] # ""}

TelnetSession(a, info) ==
    Bool("read-only", a["read-only"], FALSE)
    @@ Num("max-scrollback", a["scrollback"], 1000)
    @@ Str("font-name", a["font-name"], "monospace")
    @@ Num("font-size", a["font-size"], 12)
    @@ Str("color-scheme", a["color-scheme"], "")
    @@ Str("port", a["port"], "23")
    @@ Num("timeout", a["timeout"], 10)
    @@ Str("typescript-path", a["typescript-path"], Null)
    @@ Str("typescript-name", a["typescript-name"], "typescript")
    @@ Bool("create-typescript-path", a["create-typescript-path"], FALSE)
    @@ Bool("typescript-write-existing", a["typescript-write-existing"], FALSE)
    @@ Str("recording-path", a["recording-path"], Null)
    @@ Str("recording-name", a["recording-name"], "recording")
    @@ Bool("recording-exclude-output", a["recording-exclude-output"], FALSE)
    @@ Bool("recording-exclude-mouse", a["recording-exclude-mouse"], FALSE)
    @@ Bool("recording-include-keys", a["recording-include-keys"], FALSE)
    @@ Bool("create-recording-path", a["create-recording-path"], FALSE)
    @@ Bool("recording-write-existing", a["recording-write-existing"], FALSE)
    @@ Num("backspace", a["backspace"], 127)
    @@ Str("terminal-type", a["terminal-type"], "linux")
    @@ Bool("disable-copy", a["disable-copy"], FALSE)
    @@ Bool("disable-paste", a["disable-paste"], FALSE)
    @@ Bool("wol-send-packet", a["wol-send-packet"], FALSE)
    @@ UserScreen(info)

TelnetWol(a) == WakeOnLan(a)

TelnetParseArgs(argv, info) ==
    IF Len(argv) # Len(TelnetArgsIdx) THEN NoSettings
    ELSE LET a == ByIndex(TelnetArgsIdx, argv)
         IN TelnetLogin(a) @@ TelnetSession(a, info) @@ TelnetWol(a)

\* What guac_telnet_settings_free releases.
TelnetFreed ==
    {"hostname", "port", "username", "password", "username-regex", "password-regex",
     "login-success-regex", "login-failure-regex", "font-name", "color-scheme",
     "typescript-name", "typescript-path", "recording-name", "recording-path",
     "terminal-type", "wol-mac-addr", "wol-broadcast-addr"}

-----------------------------------------------------------------------------
\* Kubernetes

KubernetesClientArgs ==
    <<"hostname", "port", "namespace", "pod", "container", "exec-command", "use-ssl",
        "client-cert", "client-key", "ca-cert", "ignore-cert", "font-name", "font-size",
        "color-scheme", "typescript-path", "typescript-name", "create-typescript-path",
        "typescript-write-existing", "recording-path", "recording-name",
        "recording-exclude-output", "recording-exclude-mouse", "recording-include-keys",
        "create-recording-path", "recording-write-existing", "read-only", "backspace",
        "scrollback", "disable-copy", "disable-paste">>

\* enum KUBERNETES_ARGS_IDX, in order.

KubernetesIdxPod ==
    <<"hostname", "port", "namespace", "pod", "container", "exec-command", "use-ssl",
        "client-cert", "client-key", "ca-cert", "ignore-cert", "font-name", "font-size",
        "color-scheme", "typescript-path", "typescript-name", "create-typescript-path",
        "typescript-write-existing">>

KubernetesIdxRest ==
    <<"recording-path", "recording-name", "recording-exclude-output",
        "recording-exclude-mouse", "recording-include-keys", "create-recording-path",
        "recording-write-existing", "read-only", "backspace", "scrollback", "disable-copy",
        "disable-paste">>

KubernetesArgsIdx == KubernetesIdxPod \o KubernetesIdxRest

\* struct guac_kubernetes_settings: the strings it owns, and everything else.

KubernetesStructPod == 
    [owned |-> {"hostname", "kubernetes-namespace", "kubernetes-pod", "kubernetes-container",
                "exec-command", "client-cert", "client-key", "ca-cert", "font-name", "color-scheme"},
     plain |-> {"port", "use-ssl", "ignore-cert", "read-only", "max-scrollback", "font-size",
                "width", "height", "resolution", "disable-copy", "disable-paste"}]

KubernetesStructRest == 
    [owned |-> {"typescript-path", "typescript-name", "recording-path", "recording-name"},
     plain |-> {"create-typescript-path", "typescript-write-existing", "create-recording-path",
                "recording-exclude-output", "recording-exclude-mouse", "recording-include-keys",
                "recording-write-existing", "backspace"}]

KubernetesStruct == Together(<<KubernetesStructPod, KubernetesStructRest>>)

\* The certificates are read only for a connection over TLS.
KubernetesPod(a) ==
    Str("hostname", a["hostname"], "") @@ Num("port", a["port"], 8080)
    @@ Str("kubernetes-namespace", a["namespace"], "default")
    @@ Str("kubernetes-pod", a["pod"], Null) @@ Str("kubernetes-container", a["container"], Null)
    @@ Str("exec-command", a["exec-command"], Null) @@ Bool("use-ssl", a["use-ssl"], FALSE)
    @@ IF ParseBoolean(a["use-ssl"], FALSE)
       THEN Str("client-cert", a["client-cert"], Null) @@ Str("client-key", a["client-key"], Null)
            @@ Str("ca-cert", a["ca-cert"], Null) @@ Bool("ignore-cert", a["ignore-cert"], FALSE)
       ELSE "client-cert" :> Null @@ "client-key" :> Null @@ "ca-cert" :> Null
            @@ "ignore-cert" :> FALSE

KubernetesSession(a, info) ==
    Bool("read-only", a["read-only"], FALSE)
    @@ Num("max-scrollback", a["scrollback"], 1000)
    @@ Str("font-name", a["font-name"], "monospace")
    @@ Num("font-size", a["font-size"], 12)
    @@ Str("color-scheme", a["color-scheme"], "")
    @@ Str("typescript-path", a["typescript-path"], Null)
    @@ Str("typescript-name", a["typescript-name"], "typescript")
    @@ Bool("create-typescript-path", a["create-typescript-path"], FALSE)
    @@ Bool("typescript-write-existing", a["typescript-write-existing"], FALSE)
    @@ Str("recording-path", a["recording-path"], Null)
    @@ Str("recording-name", a["recording-name"], "recording")
    @@ Bool("recording-exclude-output", a["recording-exclude-output"], FALSE)
    @@ Bool("recording-exclude-mouse", a["recording-exclude-mouse"], FALSE)
    @@ Bool("recording-include-keys", a["recording-include-keys"], FALSE)
    @@ Bool("create-recording-path", a["create-recording-path"], FALSE)
    @@ Bool("recording-write-existing", a["recording-write-existing"], FALSE)
    @@ Num("backspace", a["backspace"], 127)
    @@ Bool("disable-copy", a["disable-copy"], FALSE)
    @@ Bool("disable-paste", a["disable-paste"], FALSE)
    @@ UserScreen(info)

KubernetesParseArgs(argv, info) ==
    IF Len(argv) # Len(KubernetesArgsIdx) THEN NoSettings
    ELSE LET a == ByIndex(KubernetesArgsIdx, argv)
         IN KubernetesPod(a) @@ KubernetesSession(a, info)

\* The strings guac_kubernetes_settings_free releases.
KubernetesFreed ==
    {"hostname", "kubernetes-namespace", "kubernetes-pod", "kubernetes-container",
     "exec-command", "client-cert", "client-key", "ca-cert", "font-name", "color-scheme",
     "typescript-name", "typescript-path", "recording-name", "recording-path"}
=============================================================================
