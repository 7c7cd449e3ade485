--------------------------- MODULE ProtocolClient ---------------------------
(***************************************************************************)
(* The life of the plugin of one connection: client.c, user.c and the      *)
(* client thread of the five protocols.  The thread of the owner's join    *)
(* handler starts the client thread; users join, act and leave, each on a  *)
(* thread of its own; guac_client_free calls the plugin's free handler.    *)
(* They share pointers, most of them without a lock, and each protocol     *)
(* orders the creation, the release and the joins in its own way.          *)
(*                                                                         *)
(* The objects: "screen" is the display or the terminal, "inst" the        *)
(* connection to the server (rdp_inst, rfb_client, the SSH channel, the    *)
(* telnet_t, the context of libwebsockets), "settings" the owner's.  A     *)
(* pointer is NULL, to a live object, or left to one that is released.     *)
(***************************************************************************)
EXTENDS Integers, FiniteSets

CONSTANTS
    Owner,       \* the user whose handshake made the connection
    Joiners,     \* the users who may join it
    Protocols    \* the plugins

ASSUME LifeConsts ==
    /\ Owner \notin Joiners /\ {"thread", "promotion"} \cap ({Owner} \cup Joiners) = {}
    /\ Protocols \subseteq {"rdp", "vnc", "ssh", "telnet", "kubernetes"}

Users == {Owner} \cup Joiners
Terminals == {"ssh", "telnet", "kubernetes"}
Objects == {"settings", "screen", "inst"}

VARIABLES
    protocol, wol,   \* which plugin, and whether it wakes the host first
    audioInput,      \* enable_audio_input of an RDP connection
    state,           \* guac_client.state
    ptr,             \* the plugin's pointers
    own,             \* the settings a user that is not the owner holds
    upc,             \* each user
    promo,           \* guac_client_promote_pending_users, which holds the lock
                     \* of the list of pending users until it is idle again
    thread, input,   \* client_thread and its input thread
    woke,            \* FALSE once sending the Wake-on-LAN packet failed
    stdin,           \* the pipe the terminal reads its user from
    argv,            \* guac_argv: "idle", "wanted", "given"
    argvStopped,
    readers, writer, \* the lock of an RDP client
    fpc,             \* guac_client_free
    misuse           \* the first use of a pointer that is not live

setupVars == <<protocol, wol, audioInput>>
userVars == <<own, upc, promo>>
threadVars == <<thread, input, woke, stdin>>
argvVars == <<argv, argvStopped>>
lockVars == <<readers, writer>>
lifeVars == <<setupVars, state, ptr, userVars, threadVars, argvVars, lockVars, fpc, misuse>>

NoMisuse == <<>>

(* guac_client_init of each plugin *)
LifeInit ==
    /\ protocol \in Protocols /\ wol \in BOOLEAN /\ (protocol = "kubernetes" => ~wol)
    /\ audioInput \in BOOLEAN /\ (audioInput => protocol = "rdp")
    /\ state = "running" /\ ptr = [o \in Objects |-> "null"]
    /\ own = [u \in Users |-> "null"] /\ upc = [u \in Users |-> "out"]
    /\ promo = "idle"
    /\ thread = "unset" /\ input = "none" /\ woke = TRUE /\ stdin = "open"
    /\ argv = "idle" /\ argvStopped = FALSE
    /\ readers = {} /\ writer = FALSE /\ fpc = "idle" /\ misuse = NoMisuse

(* A use of objects: all goes well if they are live; otherwise any of      *)
(* those that are not may be the first that is followed, and what it was   *)
(* and by whom is the last thing this model says of the process.           *)
Use(who, objects) ==
    LET bad == {o \in objects : ptr[o] # "live"}
    IN \/ bad = {} /\ UNCHANGED misuse
       \/ \E o \in bad : misuse' = <<protocol, who, o, ptr[o]>>

Running == misuse = NoMisuse
Stop == state' = "stopping"
UserAt(u, from, to) == Running /\ upc[u] \in from /\ upc' = [upc EXCEPT ![u] = to]
ThreadAt(from, to) == Running /\ thread = from /\ thread' = to

-----------------------------------------------------------------------------
(* The users.                                                              *)

(* The join handlers: the arguments may be malformed; the owner's settings *)
(* become the connection's, and the owner starts the client thread.  When  *)
(* that fails the terminals and Kubernetes abort the connection, RDP and   *)
(* VNC only refuse the user.                                               *)
JoinRefused(u) ==
    /\ UserAt(u, {"out"}, "gone") /\ fpc = "idle"
    /\ UNCHANGED <<setupVars, state, ptr, own, promo, threadVars, argvVars, lockVars, fpc, misuse>>

JoinOwner ==
    /\ UserAt(Owner, {"out"}, "pending") /\ fpc = "idle"
    /\ ptr' = [ptr EXCEPT !["settings"] = "live"] /\ thread' = "wol"
    /\ UNCHANGED <<setupVars, state, own, promo, input, woke, stdin, argvVars, lockVars, fpc, misuse>>

JoinOwnerNoThread ==
    /\ UserAt(Owner, {"out"}, "gone") /\ fpc = "idle"
    /\ ptr' = [ptr EXCEPT !["settings"] = "live"]
    /\ IF protocol \in Terminals THEN Stop ELSE UNCHANGED state
    /\ UNCHANGED <<setupVars, own, promo, threadVars, argvVars, lockVars, fpc, misuse>>

Join(u) ==
    /\ u # Owner /\ upc[Owner] # "out" /\ UserAt(u, {"out"}, "pending") /\ fpc = "idle"
    /\ promo = "idle"
    /\ own' = [own EXCEPT ![u] = "live"]
    /\ UNCHANGED <<setupVars, state, ptr, promo, threadVars, argvVars, lockVars, fpc, misuse>>

(* guac_client_promote_pending_users locks the list of pending users and   *)
(* calls the join pending handler for all of them.                         *)
Promote ==
    /\ Running /\ promo = "idle" /\ fpc # "users" /\ \E u \in Users : upc[u] = "pending"
    /\ promo' = "look"
    /\ UNCHANGED <<setupVars, state, ptr, own, upc, threadVars, argvVars, lockVars, fpc, misuse>>

Promoted == /\ promo' = "idle"
            /\ upc' = [u \in Users |-> IF upc[u] = "pending" THEN "in" ELSE upc[u]]

(* The join pending handlers look for the screen, and bring the users up   *)
(* to date with it; RDP does both under the read lock.                     *)
JoinPending ==
    /\ Running /\ promo = "look" /\ ~writer
    /\ IF ptr["screen"] = "null"
       THEN Promoted /\ UNCHANGED readers
       ELSE /\ promo' = "sync" /\ UNCHANGED upc
            /\ readers' = IF protocol = "rdp" THEN readers \cup {"promotion"} ELSE readers
    /\ UNCHANGED <<setupVars, state, ptr, own, threadVars, argvVars, writer, fpc, misuse>>

SyncPending ==
    /\ Running /\ promo = "sync" /\ Use("join", {"screen"}) /\ Promoted
    /\ readers' = readers \ {"promotion"}
    /\ UNCHANGED <<setupVars, state, ptr, own, threadVars, argvVars, writer, fpc>>

(* The handlers of a user's input look at the pointer first, ...           *)
ActTerminal(u) ==
    /\ protocol \in Terminals /\ ptr["screen"] # "null"
    /\ UserAt(u, {"in"}, "act")
    /\ UNCHANGED <<setupVars, state, ptr, own, promo, threadVars, argvVars, lockVars, fpc, misuse>>

(* ... under the read lock in RDP, ...                                     *)
ActRdp(u) ==
    /\ protocol = "rdp" /\ ~writer /\ ptr["inst"] # "null"
    /\ UserAt(u, {"in"}, "act") /\ readers' = readers \cup {u}
    /\ UNCHANGED <<setupVars, state, ptr, own, promo, threadVars, argvVars, writer, fpc, misuse>>

ActDone(u) ==
    /\ UserAt(u, {"act"}, "in")
    /\ Use("act", IF protocol = "rdp" THEN {"screen", "inst"} ELSE {"screen"})
    /\ readers' = readers \ {u}
    /\ UNCHANGED <<setupVars, state, ptr, own, promo, threadVars, argvVars, writer, fpc>>

(* ... but the mouse handler of VNC moves the cursor of the display        *)
(* whatever the pointer is; its key handler looks.                         *)
ActVnc(u) ==
    /\ protocol = "vnc" /\ UserAt(u, {"in"}, "in") /\ Use("act", {"screen"})
    /\ UNCHANGED <<setupVars, state, ptr, own, promo, threadVars, argvVars, lockVars, fpc>>

(* The argv callbacks.  For a terminal the colours and the font may change *)
(* at any time; for RDP and VNC the owner's credentials are stored.        *)
ArgvTerminal(u) ==
    /\ protocol \in Terminals /\ UserAt(u, {"in"}, "in") /\ Use("argv", {"screen"})
    /\ UNCHANGED <<setupVars, state, ptr, own, promo, threadVars, argvVars, lockVars, fpc>>

ArgvCredentials ==
    /\ protocol \in {"rdp", "vnc"} /\ argv = "wanted" /\ Running /\ upc[Owner] \in {"in", "pending"}
    /\ Use("argv", {"settings"}) /\ argv' = "given"
    /\ UNCHANGED <<setupVars, state, ptr, userVars, threadVars, argvStopped, lockVars, fpc>>

(* guac_client_remove_user, on the user's own thread or on that of         *)
(* guac_client_free, waits for the list of pending users, whichever list   *)
(* the user is on.  Then the leave handlers: RDP and VNC look for the      *)
(* display, without a lock, before they take the user from its cursor; the *)
(* terminals do not look.  Only the owner's settings outlive it.           *)
Leave(u) ==
    /\ promo = "idle"
    /\ UserAt(u, {"pending", "in"},
              IF protocol \in Terminals \/ ptr["screen"] # "null" THEN "leaving" ELSE "left")
    /\ UNCHANGED <<setupVars, state, ptr, own, promo, threadVars, argvVars, lockVars, fpc, misuse>>

LeaveCursor(u) ==
    /\ UserAt(u, {"leaving"}, "left") /\ Use("leave", {"screen"})
    /\ UNCHANGED <<setupVars, state, ptr, own, promo, threadVars, argvVars, lockVars, fpc>>

LeaveDone(u) ==
    /\ UserAt(u, {"left"}, "gone")
    /\ own' = IF u = Owner THEN own ELSE [own EXCEPT ![u] = "null"]
    /\ UNCHANGED <<setupVars, state, ptr, promo, threadVars, argvVars, lockVars, fpc, misuse>>

(* guacd stops the connection when its last user is gone, ...              *)
LastUserGone ==
    /\ Running /\ state = "running" /\ upc[Owner] # "out"
    /\ \A u \in Users : upc[u] \in {"out", "gone"}
    /\ Stop
    /\ UNCHANGED <<setupVars, ptr, userVars, threadVars, argvVars, lockVars, fpc, misuse>>

(* ... or when it is told to end itself.                                   *)
Terminated ==
    /\ Running /\ state = "running" /\ Stop
    /\ UNCHANGED <<setupVars, ptr, userVars, threadVars, argvVars, lockVars, fpc, misuse>>

-----------------------------------------------------------------------------
(* The client threads: each step reads the settings it was given.          *)

ThreadUses(objects) == Use("thread", {"settings"} \cup objects)

(* A Wake-on-LAN packet that cannot be sent ends the thread at once.       *)
Wake ==
    /\ \/ ThreadAt("wol", CASE protocol \in Terminals -> "screen" [] protocol = "rdp" -> "prepare"
                          [] protocol = "vnc" -> "connect")
          /\ UNCHANGED woke
       \/ wol /\ ThreadAt("wol", "done") /\ woke' = FALSE
    /\ ThreadUses({})
    /\ UNCHANGED <<setupVars, state, ptr, userVars, input, stdin, argvVars, lockVars, fpc>>

(* SSH, telnet and Kubernetes: first the terminal, then the server.        *)
OpenTerminal ==
    /\ \/ ThreadAt("screen", "connect") /\ ptr' = [ptr EXCEPT !["screen"] = "live"]
          /\ UNCHANGED state
       \/ ThreadAt("screen", "done") /\ Stop /\ UNCHANGED ptr
    /\ ThreadUses({})
    /\ UNCHANGED <<setupVars, userVars, input, woke, stdin, argvVars, lockVars, fpc>>

(* SSH asks for what it lacks on the terminal, and waits for the user to   *)
(* type or for the terminal to stop.                                       *)
SshPrompt ==
    /\ protocol = "ssh" /\ ThreadAt("connect", "prompt") /\ stdin = "open" /\ ThreadUses({"screen"})
    /\ UNCHANGED <<setupVars, state, ptr, userVars, input, woke, stdin, argvVars, lockVars, fpc>>
SshAnswered ==
    /\ protocol = "ssh" /\ ThreadAt("prompt", "session") /\ ThreadUses({"screen"})
    /\ stdin = "closed" \/ \E u \in Users : upc[u] \in {"in", "act"}
    /\ UNCHANGED <<setupVars, state, ptr, userVars, input, woke, stdin, argvVars, lockVars, fpc>>

MutTerminalConnected ==
    /\ protocol \in Terminals /\ thread \in {"connect", "session"}
    /\ \/ /\ ThreadAt(thread, "run") /\ ptr' = [ptr EXCEPT !["inst"] = "live"]
          /\ input' = "read" /\ UNCHANGED state
       \/ /\ ThreadAt(thread, IF protocol = "kubernetes" THEN "release" ELSE "done")
          /\ UNCHANGED <<state, ptr, input>>
    /\ ThreadUses({"screen"})
    /\ UNCHANGED <<setupVars, userVars, woke, stdin, argvVars, lockVars, fpc>>

TerminalConnected ==
    /\ protocol \in Terminals /\ thread \in {"connect", "session"}
    /\ \/ /\ ThreadAt(thread, "run") /\ ptr' = [ptr EXCEPT !["inst"] = "live"]
          /\ input' = "read" /\ UNCHANGED state
       \* the server refuses, or the input thread cannot be started
       \/ /\ ThreadAt(thread, IF protocol = "kubernetes" THEN "release" ELSE "done")
          /\ Stop /\ UNCHANGED <<ptr, input>>
    /\ ThreadUses({"screen"})
    /\ UNCHANGED <<setupVars, userVars, woke, stdin, argvVars, lockVars, fpc>>

(* The loops end when the server closes the connection; those of SSH and   *)
(* Kubernetes look at the client's state too, that of telnet fails once    *)
(* its descriptor is closed, which is when the free handler is past it.    *)
TerminalLoopEnds ==
    /\ protocol \in Terminals /\ ThreadAt("run", "join") /\ Stop
    /\ Use("thread", IF protocol = "telnet" THEN {"screen"} ELSE {"settings", "screen"})
    /\ stdin' = IF protocol = "kubernetes" THEN "closed" ELSE stdin
    /\ UNCHANGED <<setupVars, ptr, userVars, input, woke, argvVars, lockVars, fpc>>

TerminalJoinInput ==
    /\ protocol \in Terminals /\ input = "done"
    /\ ThreadAt("join", IF protocol = "kubernetes" THEN "release" ELSE "done")
    /\ UNCHANGED <<setupVars, state, ptr, userVars, input, woke, stdin, argvVars, lockVars, fpc,
                   misuse>>

(* The Kubernetes thread releases what it made, and leaves the pointers.   *)
KubernetesRelease ==
    /\ protocol = "kubernetes" /\ ThreadAt("release", "done")
    /\ ptr' = [o \in Objects |-> IF o # "settings" /\ ptr[o] = "live" THEN "dangling" ELSE ptr[o]]
    /\ UNCHANGED <<setupVars, state, userVars, input, woke, stdin, argvVars, lockVars, fpc, misuse>>

(* The input threads wait on the terminal's pipe; SSH's stops the client.  *)
InputEnds ==
    /\ Running /\ input = "read" /\ stdin = "closed" /\ input' = "done"
    /\ IF protocol = "ssh" THEN Stop ELSE UNCHANGED state
    /\ Use("input", {"screen"})
    /\ UNCHANGED <<setupVars, ptr, userVars, thread, woke, stdin, argvVars, lockVars, fpc>>

(* A server asks RDP or VNC for credentials the settings do not have.      *)
AskCredentials ==
    /\ protocol \in {"rdp", "vnc"} /\ argv = "idle"
    /\ ThreadAt(IF protocol = "rdp" THEN "connecting" ELSE "connect", "await")
    /\ argv' = "wanted" /\ ThreadUses({})
    /\ UNCHANGED <<setupVars, state, ptr, userVars, input, woke, stdin, argvStopped, lockVars, fpc>>

CredentialsCome ==
    /\ ThreadAt("await", IF protocol = "rdp" THEN "connecting" ELSE "connect")
    /\ argv = "given" \/ argvStopped
    /\ argv' = "given" /\ ThreadUses({})
    /\ UNCHANGED <<setupVars, state, ptr, userVars, input, woke, stdin, argvStopped, lockVars, fpc>>

(* VNC: connect, with retries, then SFTP and audio, then publish the       *)
(* client, then make the display.                                          *)
VncConnect ==
    /\ protocol = "vnc"
    /\ \/ ThreadAt("connect", "publish") /\ UNCHANGED state
       \/ ThreadAt("connect", "done") /\ Stop
    /\ ThreadUses({})
    /\ UNCHANGED <<setupVars, ptr, userVars, input, woke, stdin, argvVars, lockVars, fpc>>

VncPublish ==
    /\ protocol = "vnc" /\ ThreadAt("publish", "display") /\ ThreadUses({})
    /\ ptr' = [ptr EXCEPT !["inst"] = "live"]
    /\ UNCHANGED <<setupVars, state, userVars, input, woke, stdin, argvVars, lockVars, fpc>>

VncDisplay ==
    /\ ThreadAt("display", "run") /\ ptr' = [ptr EXCEPT !["screen"] = "live"] /\ ThreadUses({})
    /\ UNCHANGED <<setupVars, state, userVars, input, woke, stdin, argvVars, lockVars, fpc>>

VncLoopEnds ==
    /\ protocol = "vnc" /\ ThreadAt("run", "done") /\ Stop /\ ThreadUses({"screen", "inst"})
    /\ UNCHANGED <<setupVars, ptr, userVars, input, woke, stdin, argvVars, lockVars, fpc>>

(* RDP: audio, the drive, SFTP and the recording, once.                    *)
RdpPrepare ==
    /\ \/ ThreadAt("prepare", "connect") /\ UNCHANGED state
       \/ ThreadAt("prepare", "done") /\ Stop
    /\ ThreadUses({})
    /\ UNCHANGED <<setupVars, ptr, userVars, input, woke, stdin, argvVars, lockVars, fpc>>

(* The display under the write lock, the connection under the read lock,   *)
(* the instance under the write lock; a failure to connect leaves the      *)
(* display to the users.                                                   *)
RdpFree == ~writer /\ readers = {}

RdpDisplay ==
    /\ protocol = "rdp" /\ ThreadAt("connect", "preconnect") /\ RdpFree
    /\ ptr' = [ptr EXCEPT !["screen"] = "live"] /\ readers' = {"thread"} /\ ThreadUses({})
    /\ UNCHANGED <<setupVars, state, userVars, input, woke, stdin, argvVars, writer, fpc>>

(* rdp_freerdp_pre_connect: for audio input the thread gives up the read   *)
(* lock to get the write lock, ...                                         *)
RdpPreConnect ==
    /\ ThreadAt("preconnect", IF audioInput THEN "upgrade" ELSE "connecting")
    /\ readers' = IF audioInput THEN readers \ {"thread"} ELSE readers
    /\ ThreadUses({})
    /\ UNCHANGED <<setupVars, state, ptr, userVars, input, woke, stdin, argvVars, writer, fpc>>

(* ... and guac_rwlock_release_lock only counts down: it stays the writer. *)
RdpUpgrade ==
    /\ ThreadAt("upgrade", "connecting") /\ RdpFree /\ writer' = TRUE /\ ThreadUses({})
    /\ UNCHANGED <<setupVars, state, ptr, userVars, input, woke, stdin, argvVars, readers, fpc>>

RdpConnect ==
    /\ \/ ThreadAt("connecting", "publish") /\ UNCHANGED state
       \/ ThreadAt("connecting", "done") /\ Stop
    /\ readers' = readers \ {"thread"} /\ writer' = FALSE /\ ThreadUses({"screen"})
    /\ UNCHANGED <<setupVars, ptr, userVars, input, woke, stdin, argvVars, fpc>>

RdpPublish ==
    /\ protocol = "rdp" /\ ThreadAt("publish", "run") /\ RdpFree
    /\ ptr' = [ptr EXCEPT !["inst"] = "live"] /\ ThreadUses({})
    /\ UNCHANGED <<setupVars, state, userVars, input, woke, stdin, argvVars, lockVars, fpc>>

(* The loop ends with the client, with the server, or to reconnect.        *)
RdpLoopEnds ==
    /\ protocol = "rdp" /\ ThreadAt("run", "disconnect") /\ ThreadUses({"screen", "inst"})
    /\ Stop \/ UNCHANGED state
    /\ UNCHANGED <<setupVars, ptr, userVars, input, woke, stdin, argvVars, lockVars, fpc>>

RdpLockToDisconnect ==
    /\ ThreadAt("disconnect", "disconnecting") /\ RdpFree /\ writer' = TRUE
    /\ UNCHANGED <<setupVars, state, ptr, userVars, input, woke, stdin, argvVars, readers, fpc,
                   misuse>>

(* The display is released first; the pointer to it is cleared after that. *)
RdpDisconnect ==
    /\ ThreadAt("disconnecting", "clearing") /\ Use("thread", {"screen", "inst"})
    /\ ptr' = [ptr EXCEPT !["screen"] = "dangling", !["inst"] = "null"]
    /\ UNCHANGED <<setupVars, state, userVars, input, woke, stdin, argvVars, lockVars, fpc>>

RdpDisconnected ==
    /\ ThreadAt("clearing", IF state = "running" THEN "connect" ELSE "done")
    /\ ptr' = [ptr EXCEPT !["screen"] = "null"] /\ writer' = FALSE
    /\ UNCHANGED <<setupVars, state, userVars, input, woke, stdin, argvVars, readers, fpc, misuse>>

-----------------------------------------------------------------------------
(* guac_client_free, of a client that is stopping: under the lock of the   *)
(* pending users those still there leave, then the plugin's free handler   *)
(* runs.                                                                   *)

FreeAt(from, to) == Running /\ fpc = from /\ fpc' = to
FreeFrame == <<setupVars, state, userVars, thread, input, woke, lockVars>>

FreeBegin ==
    /\ state = "stopping" /\ FreeAt("idle", "lock")
    /\ UNCHANGED <<FreeFrame, ptr, stdin, argvVars, misuse>>

FreeLock ==
    /\ promo = "idle" /\ FreeAt("lock", "users")
    /\ UNCHANGED <<FreeFrame, ptr, stdin, argvVars, misuse>>

FreeUsersGone ==
    /\ \A u \in Users : upc[u] \in {"out", "gone"}
    /\ FreeAt("users", "handler")
    /\ UNCHANGED <<FreeFrame, ptr, stdin, argvVars, misuse>>

MutFreeRdp ==
    /\ protocol = "rdp" /\ FreeAt("handler", "join")
    /\ UNCHANGED <<FreeFrame, ptr, stdin, argvVars, misuse>>

(* RDP: wake whoever waits for an argument, then always join.              *)
FreeRdp ==
    /\ protocol = "rdp" /\ FreeAt("handler", "join") /\ argvStopped' = TRUE
    /\ UNCHANGED <<FreeFrame, ptr, stdin, argv, misuse>>

(* VNC: join only a thread that has published its client.                  *)
FreeVnc ==
    /\ protocol = "vnc" /\ FreeAt("handler", IF ptr["inst"] # "null" THEN "join" ELSE "release")
    /\ UNCHANGED <<FreeFrame, ptr, stdin, argvVars, misuse>>

MutFreeSsh ==
    /\ protocol = "ssh" /\ FreeAt("handler", IF ptr["inst"] # "null" THEN "join" ELSE "release")
    /\ stdin' = "closed"
    /\ UNCHANGED <<FreeFrame, ptr, argvVars, misuse>>

(* SSH: join only a thread that has made the terminal, and stop that first.*)
FreeSsh ==
    /\ protocol = "ssh" /\ FreeAt("handler", IF ptr["screen"] # "null" THEN "join" ELSE "release")
    /\ stdin' = IF ptr["screen"] # "null" THEN "closed" ELSE stdin
    /\ UNCHANGED <<FreeFrame, ptr, argvVars, misuse>>

(* Telnet: release the terminal, then join a thread that is connected.     *)
FreeTelnet ==
    /\ protocol = "telnet" /\ FreeAt("handler", IF ptr["inst"] # "null" THEN "join" ELSE "release")
    /\ Use("free", {"screen"}) /\ stdin' = "closed"
    /\ ptr' = [ptr EXCEPT !["screen"] = "dangling"]
    /\ UNCHANGED <<FreeFrame, argvVars>>

(* Kubernetes: always join.                                                *)
FreeKubernetes ==
    /\ protocol = "kubernetes" /\ FreeAt("handler", "join")
    /\ UNCHANGED <<FreeFrame, ptr, stdin, argvVars, misuse>>

(* pthread_join of client_thread, which may never have been set.           *)
FreeJoin ==
    /\ FreeAt("join", "release") /\ thread \in {"done", "unset"}
    /\ misuse' = IF thread = "unset" THEN <<protocol, "free", "thread", "unset">> ELSE misuse
    /\ UNCHANGED <<FreeFrame, ptr, stdin, argvVars>>

FreeRelease ==
    /\ FreeAt("release", "done")
    /\ ptr' = [o \in Objects |-> IF ptr[o] = "live" THEN "dangling" ELSE ptr[o]]
    /\ UNCHANGED <<FreeFrame, stdin, argvVars, misuse>>

-----------------------------------------------------------------------------
UserNext == \E u \in Users :
    \/ JoinRefused(u) \/ Join(u)
    \/ ActTerminal(u) \/ ActRdp(u) \/ ActDone(u) \/ ActVnc(u) \/ ArgvTerminal(u)
    \/ Leave(u) \/ LeaveCursor(u) \/ LeaveDone(u)
TerminalNext ==
    \/ OpenTerminal \/ SshPrompt \/ SshAnswered \/ TerminalConnected \/ TerminalLoopEnds
    \/ TerminalJoinInput \/ KubernetesRelease \/ InputEnds
GraphicNext ==
    \/ AskCredentials \/ CredentialsCome \/ VncConnect \/ VncPublish \/ VncDisplay \/ VncLoopEnds
    \/ RdpPrepare \/ RdpDisplay \/ RdpPreConnect \/ RdpUpgrade \/ RdpConnect \/ RdpPublish
    \/ RdpLoopEnds \/ RdpLockToDisconnect \/ RdpDisconnect \/ RdpDisconnected
FreeHandler == FreeRdp \/ FreeVnc \/ FreeSsh \/ FreeTelnet \/ FreeKubernetes
PromoteNext == Promote \/ JoinPending \/ SyncPending
FreeNext == FreeBegin \/ FreeLock \/ FreeUsersGone \/ FreeHandler \/ FreeJoin \/ FreeRelease

LifeNext ==
    \/ JoinOwner \/ JoinOwnerNoThread \/ ArgvCredentials \/ LastUserGone \/ Terminated
    \/ UserNext \/ PromoteNext \/ Wake \/ TerminalNext \/ GraphicNext \/ FreeNext

LifeSpec == LifeInit /\ [][LifeNext]_lifeVars

(* Threads run: the plugin's, the one that frees, and a user's on its way  *)
(* out or in the middle of a handler.  A loop need not end before the      *)
(* client is stopping, telnet's not before its descriptor is closed.       *)
(* Users need never come, act or leave by themselves, but guac_client_free *)
(* removes those that are there, whatever they are in the middle of.       *)
LoopMayRunOn ==
    thread = "run" /\ IF protocol = "telnet" THEN fpc \in {"idle", "lock", "users", "handler"}
                      ELSE state = "running"
Removed(u) == fpc = "users" /\ Leave(u)
LifeFairness ==
    /\ WF_lifeVars(~LoopMayRunOn /\ (Wake \/ TerminalNext \/ GraphicNext)) /\ WF_lifeVars(InputEnds)
    /\ WF_lifeVars(FreeNext) /\ WF_lifeVars(PromoteNext)
    /\ \A u \in Users : /\ WF_lifeVars(ActDone(u))
                        /\ WF_lifeVars(LeaveCursor(u) \/ LeaveDone(u))
                        /\ SF_lifeVars(Removed(u))

-----------------------------------------------------------------------------
(* Properties.                                                             *)

(* The pointers this code is known to follow when nothing is there:        *)
(*  - a user of a terminal leaves, or sends an argument, before the client *)
(*    thread has made the terminal (ssh/user.c:111, ssh/argv.c:39-59 and   *)
(*    the same lines of telnet and Kubernetes);                            *)
(*  - the thread of Kubernetes releases the terminal while users are still *)
(*    there (kubernetes/kubernetes.c:370-371);                             *)
(*  - telnet releases a terminal that need not be there, before it joins   *)
(*    the threads that use it, and does not join a thread that is still    *)
(*    connecting (telnet/client.c:117-127);                                *)
(*  - VNC moves a cursor of no display (vnc/input.c:37), and does not join *)
(*    a thread that has not published its client (vnc/client.c:132-136);   *)
(*  - an RDP display goes between the test and the use of a user that      *)
(*    leaves (rdp/user.c:153-154);                                         *)
(*  - RDP and Kubernetes join a thread that was never started              *)
(*    (rdp/client.c:255, kubernetes/client.c:157).                         *)
KnownMisuse ==
    (Terminals \X {"leave", "argv"} \X {"screen"} \X {"null"})
    \cup ({"kubernetes"} \X {"join", "act", "argv", "leave"} \X {"screen"} \X {"dangling"})
    \cup ({"vnc"} \X {"thread"} \X Objects \X {"dangling"})
    \cup {<<"telnet", "free", "screen", "null">>, <<"telnet", "input", "screen", "dangling">>,
          <<"telnet", "thread", "screen", "dangling">>, <<"telnet", "thread", "settings", "dangling">>,
          <<"vnc", "act", "screen", "null">>,
          <<"rdp", "leave", "screen", "null">>, <<"rdp", "leave", "screen", "dangling">>,
          <<"rdp", "free", "thread", "unset">>, <<"kubernetes", "free", "thread", "unset">>}

(* Whatever the order in which users come, act and leave, the thread makes *)
(* and releases what they use, and the client is freed, no pointer is      *)
(* followed that is NULL or left to a released object, but in the cases    *)
(* above: the locks of RDP, the joins of SSH, and the order in which each  *)
(* free handler releases things are enough for all the others.             *)
OnlyKnownMisuse == misuse \in KnownMisuse \cup {NoMisuse}

(* A connection whose client thread has ended is stopping, so that its     *)
(* users are not left in front of a screen nobody draws; the exception is  *)
(* a host that could not be woken, after which the threads of RDP, VNC,    *)
(* SSH and telnet just return (telnet/telnet.c:591-593).                   *)
EndedStops == thread = "done" /\ woke => state = "stopping"

(* With audio input the thread of an RDP connection awaits credentials as  *)
(* the writer of its lock (rdp.c:113-118, rwlock.c:270-272).  A promotion  *)
(* that waits behind it keeps the list of pending users locked.            *)
AwaitsAsWriter == audioInput /\ thread = "await" /\ writer /\ promo = "look"

(* guac_client_free comes back: what it joins, a thread in the middle of   *)
(* connecting, asking for credentials, prompting its user or serving,      *)
(* always ends, and it gets the lists of users.  The one way in which it   *)
(* does not come back is AwaitsAsWriter.                                   *)
FreeReturns == fpc = "lock" ~> (fpc = "done" \/ misuse # NoMisuse \/ AwaitsAsWriter)

(* The same without the exception, which the code does not keep: nobody    *)
(* leaves or joins any more, and guac_argv_stop is behind the locks.       *)
AlwaysFreeReturns == fpc = "lock" ~> (fpc = "done" \/ misuse # NoMisuse)
=============================================================================
