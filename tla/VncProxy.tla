------------------------------ MODULE VncProxy ------------------------------
(***************************************************************************)
(* The connection proxy of the controller: VncProxy (proxy.go), the peers  *)
(* it keeps (peer.go) and the keepalive list (ping.go).                    *)
(*                                                                         *)
(* A session is one call of VncProxy.Proxy together with the peer it       *)
(* creates.  Its goroutines are the HTTP handler that runs Proxy, the      *)
(* goroutine that reads from guacd, and up to one run of peer.Close for    *)
(* each origin a close can have:                                           *)
(*   "source"  the WebSocket's OnClose handler      Close(err, 1)          *)
(*   "target"  the engine's onEngineClose           Close(err, 2)          *)
(*   "guacd"   the reader of the guacd connection   Close(err, -1)         *)
(*   "proxy"   Proxy itself, for a duplicate user   Close(err, 0)          *)
(* The last one runs inside the handler, so <<s, "proxy">> names the       *)
(* handler's goroutine as a holder of the lock as well.                    *)
(***************************************************************************)
EXTENDS Naturals, FiniteSets

CONSTANTS
    Sessions,        \* calls of Proxy, each with the peer it creates
    Users,           \* values of user.Identifier()
    UserOf,          \* the user a session belongs to
    Modes,           \* which sessions may be called with useGuacamole
    Requests,        \* HTTP requests to the LFS.X and host APIs
    RequestUser,     \* the user a request is made for
    CloseWaitLimit,  \* polls of ready before Close gives up (50 in the code)
    None

ASSUME SessionAssumption ==
    /\ UserOf \in [Sessions -> Users]
    /\ Modes \subseteq SUBSET Sessions
ASSUME RequestAssumption == RequestUser \in [Requests -> Users]
ASSUME LimitAssumption == CloseWaitLimit \in Nat
ASSUME NoneAssumption ==
    /\ None \notin Sessions
    /\ None \notin Sessions \X {"source", "target", "guacd", "proxy"}

VARIABLES
    viaGuacd,  \* the sessions called with useGuacamole
    pc,        \* where the handler of a session is in Proxy
    cpc,       \* where each Close of a session is
    polls,     \* the local i of each Close
    late,      \* the Closes of a session that stopped waiting for ready
    ready,     \* peer.ready
    closed,    \* peer.closed
    ws,        \* the client's WebSocket
    vnc,       \* the TCP connection to the VNC backend
    session,   \* the backend connection's Session() is the peer
    guac,      \* the TCP connection to guacd
    used,      \* peer.guacamole.Used
    reader,    \* the goroutine that proxies from guacd
    lfsx,      \* peer.lfsxPeer
    peers,     \* VncProxy.peer, from user to session
    writer,    \* the goroutine that holds the write side of peerSync
    serving,   \* the requests served while holding the read side
    pinged,    \* pingPongMgr.clients
    faults     \* sessions for which a nil connection was dereferenced

vars == <<viaGuacd, pc, cpc, polls, late, ready, closed, ws, vnc, session,
          guac, used, reader, lfsx, peers, writer, serving, pinged, faults>>

handlerVars == <<viaGuacd, ready, session, used, lfsx>>
closeVars == <<cpc, polls, late, closed>>
connVars == <<ws, vnc, guac>>
sharedVars == <<peers, writer, serving, pinged, faults>>

Origins == {"source", "target", "guacd", "proxy"}
Threads == Sessions \X Origins

\* Where Proxy is: the call that comes next, or how it ended.
Returned == {"served", "refused", "failed", "panicked"}
ProxyPC == {"start", "upgrade", "address", "vnc", "session", "lfsx", "boot",
            "guacd", "assign", "lock", "register", "use", "handshake", "dup"}
           \cup Returned

\* Where Close is: "early" is the return for a peer already closed.
Finished == {"early", "done", "panicked"}
ClosePC == {"idle", "load", "store", "wait", "lfsx", "source", "target",
            "guacd", "lock", "delete"} \cup Finished

Conn == {"none", "open", "closed"}

-----------------------------------------------------------------------------
Init ==
    /\ viaGuacd \in Modes
    /\ pc = [s \in Sessions |-> "start"]
    /\ cpc = [s \in Sessions |-> [o \in Origins |-> "idle"]]
    /\ polls = [s \in Sessions |-> [o \in Origins |-> 0]]
    /\ late = [s \in Sessions |-> {}]
    /\ ready = [s \in Sessions |-> FALSE]
    /\ closed = [s \in Sessions |-> FALSE]
    /\ ws = [s \in Sessions |-> "none"]
    /\ vnc = [s \in Sessions |-> "none"]
    /\ session = [s \in Sessions |-> FALSE]
    /\ guac = [s \in Sessions |-> "none"]
    /\ used = [s \in Sessions |-> FALSE]
    /\ reader = [s \in Sessions |-> "none"]
    /\ lfsx = [s \in Sessions |-> "none"]
    /\ peers = [u \in Users |-> None]
    /\ writer = None
    /\ serving = {}
    /\ pinged = {}
    /\ faults = {}

\* The handler of s moves from one place of Proxy to another.
Goto(s, from, to) == pc[s] = from /\ pc' = [pc EXCEPT ![s] = to]

\* The Close of s that came from o moves on.
CloseGoto(s, o, from, to) ==
    cpc[s][o] = from /\ cpc' = [cpc EXCEPT ![s][o] = to]

\* It moves on and, by closing a connection, makes another Close begin.
CloseGotoAndStart(s, o, from, to, other) ==
    /\ cpc[s][o] = from
    /\ cpc' = [cpc EXCEPT ![s] = [@ EXCEPT ![o] = to, ![other] = "load"]]

\* A Close of s that came from o begins, in a goroutine of its own.
StartClose(s, o) == cpc' = [cpc EXCEPT ![s][o] = "load"]

\* sync.RWMutex: a writer first excludes other writers and new readers, and
\* then waits for the readers that are still inside.
BeginLock(t) == writer = None /\ writer' = t
Locked(t) == writer = t /\ serving = {}

-----------------------------------------------------------------------------
(* VncProxy.Proxy                                                          *)

\* validateUserRequest: refuse a user who has a peer in the map.
Validate(s) ==
    /\ writer = None
    /\ Goto(s, "start", IF peers[UserOf[s]] = None THEN "upgrade" ELSE "refused")
    /\ UNCHANGED <<handlerVars, closeVars, connVars, reader, sharedVars>>

\* Upgrade the request to a WebSocket and add it to the keepalive list.
Upgrade(s) ==
    /\ Goto(s, "upgrade", "address")
    /\ ws' = [ws EXCEPT ![s] = "open"]
    /\ pinged' = pinged \cup {s}
    /\ UNCHANGED <<handlerVars, closeVars, vnc, guac, reader, peers, writer,
                   serving, faults>>

\* Any of the fallible steps of Proxy returns its error to the caller.  What
\* was opened before, the WebSocket included, stays open.
Fail(s) ==
    /\ pc[s] \in {"upgrade", "address", "vnc"}
                 \cup (IF s \in viaGuacd THEN {"guacd"} ELSE {})
    /\ pc' = [pc EXCEPT ![s] = "failed"]
    /\ UNCHANGED <<handlerVars, closeVars, connVars, reader, sharedVars>>

\* getVncAddress: find or create the user's pod.
GetVncAddress(s) ==
    /\ Goto(s, "address", IF s \in viaGuacd THEN "lfsx" ELSE "vnc")
    /\ UNCHANGED <<handlerVars, closeVars, connVars, reader, sharedVars>>

\* connectToVnc: dial the backend and add the connection to the engine.
ConnectToVnc(s) ==
    /\ Goto(s, "vnc", "session")
    /\ vnc' = [vnc EXCEPT ![s] = "open"]
    /\ UNCHANGED <<handlerVars, closeVars, ws, guac, reader, sharedVars>>

\* vncCon.SetSession(peer): from here on onEngineClose finds the peer.
SetSession(s) ==
    /\ Goto(s, "session", "lfsx")
    /\ session' = [session EXCEPT ![s] = TRUE]
    /\ UNCHANGED <<viaGuacd, ready, used, lfsx, closeVars, connVars, reader,
                   sharedVars>>

AfterLfsx(s) == IF s \in viaGuacd THEN "guacd" ELSE "assign"

\* NewLfsxPeer, which may fail: the session then goes on without it.
NewLfsxPeer(s) ==
    /\ \/ /\ Goto(s, "lfsx", "boot")
          /\ lfsx' = [lfsx EXCEPT ![s] = "open"]
       \/ /\ Goto(s, "lfsx", AfterLfsx(s))
          /\ UNCHANGED lfsx
    /\ UNCHANGED <<viaGuacd, ready, session, used, closeVars, connVars, reader,
                   sharedVars>>

\* The LFS.X announced its startup, or 20 seconds went by.
AwaitStartup(s) ==
    /\ Goto(s, "boot", AfterLfsx(s))
    /\ UNCHANGED <<handlerVars, closeVars, connVars, reader, sharedVars>>

ConnectToGuacamole(s) ==
    /\ Goto(s, "guacd", "assign")
    /\ guac' = [guac EXCEPT ![s] = "open"]
    /\ UNCHANGED <<handlerVars, closeVars, ws, vnc, reader, sharedVars>>

\* SetConnections stores the connections in the peer and then sets ready.
SetConnections(s) ==
    /\ Goto(s, "assign", "lock")
    /\ ready' = [ready EXCEPT ![s] = TRUE]
    /\ UNCHANGED <<viaGuacd, session, used, lfsx, closeVars, connVars, reader,
                   sharedVars>>

LockPeers(s) ==
    /\ Goto(s, "lock", "register")
    /\ BeginLock(<<s, "proxy">>)
    /\ UNCHANGED <<handlerVars, closeVars, connVars, reader, peers, serving,
                   pinged, faults>>

\* The user is new: put the peer in the map.  A noVNC session is then complete
\* and the deferred Unlock runs; a Guacamole one goes on under the lock.
Register(s) ==
    /\ Locked(<<s, "proxy">>)
    /\ peers[UserOf[s]] = None
    /\ Goto(s, "register", IF s \in viaGuacd THEN "use" ELSE "served")
    /\ peers' = [peers EXCEPT ![UserOf[s]] = s]
    /\ writer' = IF s \in viaGuacd THEN writer ELSE None
    /\ UNCHANGED <<handlerVars, closeVars, connVars, reader, serving, pinged,
                   faults>>

\* The user is in the map already: close the new peer, still under the lock.
RefuseDuplicate(s) ==
    /\ Locked(<<s, "proxy">>)
    /\ peers[UserOf[s]] # None
    /\ Goto(s, "register", "dup")
    /\ StartClose(s, "proxy")
    /\ UNCHANGED <<handlerVars, polls, late, closed, connVars, reader,
                   sharedVars>>

\* That Close returned, or panicked: either way the deferred Unlock runs.
FinishDuplicate(s) ==
    /\ cpc[s]["proxy"] \in Finished
    /\ Goto(s, "dup", IF cpc[s]["proxy"] = "panicked" THEN "panicked"
                                                      ELSE "refused")
    /\ writer' = None
    /\ UNCHANGED <<handlerVars, closeVars, connVars, reader, peers, serving,
                   pinged, faults>>

-----------------------------------------------------------------------------
(* peer.proxyGuacamole                                                     *)

\* Its first statement sets Used; the handshake comes later.
UseGuacamole(s) ==
    /\ Goto(s, "use", "handshake")
    /\ used' = [used EXCEPT ![s] = TRUE]
    /\ UNCHANGED <<viaGuacd, ready, session, lfsx, closeVars, connVars, reader,
                   sharedVars>>

\* The handshake ends and Proxy returns nil, whether it succeeded, and the
\* reader goroutine was started, or failed, and only a line was logged.
Handshake(s) ==
    /\ Goto(s, "handshake", "served")
    /\ writer' = None
    /\ reader' \in { [reader EXCEPT ![s] = "starting"], reader }
    /\ (reader' # reader) => guac[s] = "open"
    /\ UNCHANGED <<handlerVars, closeVars, connVars, peers, serving, pinged,
                   faults>>

\* The goroutine acquires the tunnel and publishes the Writer.
SetWriter(s) ==
    /\ reader[s] = "starting"
    /\ reader' = [reader EXCEPT ![s] = "running"]
    /\ UNCHANGED <<pc, handlerVars, closeVars, connVars, sharedVars>>

\* ReadSome met EOF, or the WebSocket refused what was read: the reader
\* closes the peer and returns.
ReaderCloses(s) ==
    /\ reader[s] = "running"
    /\ guac[s] = "eof" \/ ws[s] = "closed"
    /\ reader' = [reader EXCEPT ![s] = "stopped"]
    /\ StartClose(s, "guacd")
    /\ UNCHANGED <<pc, handlerVars, polls, late, closed, connVars, sharedVars>>

\* Any other error, a read that timed out for one, ends the reader and
\* nothing else.
ReaderStops(s) ==
    /\ reader[s] = "running"
    /\ reader' = [reader EXCEPT ![s] = "stopped"]
    /\ UNCHANGED <<pc, handlerVars, closeVars, connVars, sharedVars>>

-----------------------------------------------------------------------------
(* peer.Close.  Loading and storing closed are two atomic operations, so   *)
(* two Closes may both find it false.                                      *)

LoadClosed(s, o) ==
    /\ CloseGoto(s, o, "load", IF closed[s] THEN "early" ELSE "store")
    /\ UNCHANGED <<pc, handlerVars, polls, late, closed, connVars, reader,
                   sharedVars>>

StoreClosed(s, o) ==
    /\ CloseGoto(s, o, "store", "wait")
    /\ closed' = [closed EXCEPT ![s] = TRUE]
    /\ UNCHANGED <<pc, handlerVars, polls, late, connVars, reader, sharedVars>>

\* One turn of the loop that waits for ready: go on, sleep and poll again, or
\* give up.
PollReady(s, o) ==
    /\ \/ /\ ready[s]
          /\ CloseGoto(s, o, "wait", "lfsx")
          /\ polls' = [polls EXCEPT ![s][o] = 0]
          /\ UNCHANGED late
       \/ /\ ~ready[s]
          /\ polls[s][o] <= CloseWaitLimit
          /\ CloseGoto(s, o, "wait", "wait")
          /\ polls' = [polls EXCEPT ![s][o] = @ + 1]
          /\ UNCHANGED late
       \/ /\ ~ready[s]
          /\ polls[s][o] > CloseWaitLimit
          /\ CloseGoto(s, o, "wait", "lfsx")
          /\ polls' = [polls EXCEPT ![s][o] = 0]
          /\ late' = [late EXCEPT ![s] = @ \cup {o}]
    /\ UNCHANGED <<pc, handlerVars, closed, connVars, reader, sharedVars>>

CloseLfsx(s, o) ==
    /\ CloseGoto(s, o, "lfsx", "source")
    /\ lfsx' = [lfsx EXCEPT ![s] = IF @ = "open" THEN "closed" ELSE @]
    /\ UNCHANGED <<viaGuacd, pc, ready, session, used, polls, late, closed, connVars,
                   reader, sharedVars>>

\* Whether Close finds the connections stored in the peer.  A Close that did
\* not wait for ready races with SetConnections: what it reads while the stores
\* are under way may be the new value or nil.
MayFind(s) == ready[s] \/ pc[s] = "assign"
MayMiss(s) == ~ready[s]

\* Close the WebSocket, unless the close came from it.  Closing an open one
\* runs its OnClose handler, which calls Close in turn.
CloseSource(s, o) ==
    /\ \/ /\ MayFind(s) /\ o # "source" /\ ws[s] = "open"
          /\ ws' = [ws EXCEPT ![s] = "closed"]
          /\ CloseGotoAndStart(s, o, "source", "target", "source")
       \/ /\ MayMiss(s) \/ o = "source" \/ ws[s] # "open"
          /\ CloseGoto(s, o, "source", "target")
          /\ UNCHANGED ws
    /\ UNCHANGED <<pc, handlerVars, polls, late, closed, vnc, guac, reader,
                   sharedVars>>

\* Mutant: a target that is nil is recognised and passed over.
MutCloseTarget(s, o) ==
    /\ \/ /\ MayFind(s) /\ o # "target" /\ ~used[s] /\ vnc[s] = "open"
          /\ vnc' = [vnc EXCEPT ![s] = "closed"]
          /\ CloseGotoAndStart(s, o, "target", "guacd", "target")
       \/ /\ MayMiss(s) \/ o = "target" \/ used[s] \/ vnc[s] # "open"
          /\ CloseGoto(s, o, "target", "guacd")
          /\ UNCHANGED vnc
    /\ UNCHANGED <<pc, handlerVars, polls, late, closed, ws, guac, reader,
                   sharedVars>>

\* Close the backend connection, which runs onEngineClose.  In a Guacamole
\* session the target is a non-nil interface that holds a nil *nbio.Conn:
\* until Used is set the call panics, and the rest of Close does not run.
CloseTarget(s, o) ==
    /\ \/ /\ MayFind(s) /\ o # "target" /\ ~used[s] /\ s \in viaGuacd
          /\ CloseGoto(s, o, "target", "panicked")
          /\ faults' = faults \cup {s}
          /\ UNCHANGED vnc
       \/ /\ MayFind(s) /\ o # "target" /\ ~used[s] /\ vnc[s] = "open"
          /\ vnc' = [vnc EXCEPT ![s] = "closed"]
          /\ CloseGotoAndStart(s, o, "target", "guacd", "target")
          /\ UNCHANGED faults
       \/ /\ \/ MayMiss(s) \/ o = "target" \/ used[s]
             \/ s \notin viaGuacd /\ vnc[s] # "open"
          /\ CloseGoto(s, o, "target", "guacd")
          /\ UNCHANGED <<vnc, faults>>
    /\ UNCHANGED <<pc, handlerVars, polls, late, closed, ws, guac, reader,
                   peers, writer, serving, pinged>>

\* Mutant: a close that came from guacd is taken to have closed it.
MutCloseGuacd(s, o) ==
    /\ CloseGoto(s, o, "guacd", "lock")
    /\ guac' = [guac EXCEPT ![s] =
                   IF MayFind(s) /\ o \notin {"target", "guacd"} /\ @ # "none"
                   THEN "closed" ELSE @]
    /\ pinged' = IF MayFind(s) THEN pinged \ {s} ELSE pinged
    /\ UNCHANGED <<pc, handlerVars, polls, late, closed, ws, vnc, reader,
                   peers, writer, serving, faults>>

\* Close the connection to guacd and enter onPeerDisconnect: the keepalive
\* list loses peer.source, if that is set ...
CloseGuacd(s, o) ==
    /\ CloseGoto(s, o, "guacd", "lock")
    /\ \/ /\ MayFind(s) /\ o # "target" /\ guac[s] # "none"
          /\ guac' = [guac EXCEPT ![s] = "closed"]
       \/ /\ MayMiss(s) \/ o = "target" \/ guac[s] = "none"
          /\ UNCHANGED guac
    /\ \/ MayFind(s) /\ pinged' = pinged \ {s}
       \/ MayMiss(s) /\ UNCHANGED pinged
    /\ UNCHANGED <<pc, handlerVars, polls, late, closed, ws, vnc, reader,
                   peers, writer, serving, faults>>

\* ... and the map loses the user's entry, whichever peer it holds.
LockDelete(s, o) ==
    /\ CloseGoto(s, o, "lock", "delete")
    /\ BeginLock(<<s, o>>)
    /\ UNCHANGED <<pc, handlerVars, polls, late, closed, connVars, reader,
                   peers, serving, pinged, faults>>


DeletePeer(s, o) ==
    /\ Locked(<<s, o>>)
    /\ CloseGoto(s, o, "delete", "done")
    /\ peers' = [peers EXCEPT ![UserOf[s]] = None]
    /\ writer' = None
    /\ UNCHANGED <<pc, handlerVars, polls, late, closed, connVars, reader,
                   serving, pinged, faults>>

-----------------------------------------------------------------------------
(* Messages, requests and the other ends of the connections                *)

\* The client goes away, or the keepalive ticker cannot ping it and closes
\* the connection: OnClose calls Close(err, 1).
SourceCloses(s) ==
    /\ ws[s] = "open"
    /\ ws' = [ws EXCEPT ![s] = "closed"]
    /\ StartClose(s, "source")
    /\ UNCHANGED <<pc, handlerVars, polls, late, closed, vnc, guac, reader,
                   sharedVars>>

\* The backend goes away.  onEngineClose drops the event when the connection
\* has no session yet.
OnEngineClose(s) ==
    /\ vnc[s] = "open"
    /\ vnc' = [vnc EXCEPT ![s] = "closed"]
    /\ IF session[s] THEN StartClose(s, "target") ELSE UNCHANGED cpc
    /\ UNCHANGED <<pc, handlerVars, polls, late, closed, ws, guac, reader,
                   sharedVars>>

\* guacd goes away; only its reader will notice.
GuacdCloses(s) ==
    /\ guac[s] = "open"
    /\ guac' = [guac EXCEPT ![s] = "eof"]
    /\ UNCHANGED <<pc, handlerVars, closeVars, ws, vnc, reader, sharedVars>>

\* The keepalive ticker meets a connection that is closed already and takes
\* it out of its list.
PingClosed(s) ==
    /\ s \in pinged
    /\ ws[s] = "closed"
    /\ pinged' = pinged \ {s}
    /\ UNCHANGED <<pc, handlerVars, closeVars, connVars, reader, peers, writer,
                   serving, faults>>

\* A message of the client is written to the nil target of a Guacamole
\* session, or to its Writer before the reader goroutine has set that.  Every
\* other message is dropped or proxied and changes nothing here.
OnSourceMessage(s) ==
    /\ ws[s] = "open"
    /\ ready[s]
    /\ s \in viaGuacd
    /\ used[s] => reader[s] \in {"none", "starting"}
    /\ faults' = faults \cup {s}
    /\ UNCHANGED <<pc, handlerVars, closeVars, connVars, reader, peers, writer,
                   serving, pinged>>

\* ProxyLfsxRequest, ProxyHostRequest: the read lock is held while the
\* upstream server answers.
ServeRequest(r) ==
    /\ writer = None
    /\ r \notin serving
    /\ peers[RequestUser[r]] # None
    /\ serving' = serving \cup {r}
    /\ UNCHANGED <<pc, handlerVars, closeVars, connVars, reader, peers, writer,
                   pinged, faults>>

EndRequest(r) ==
    /\ r \in serving
    /\ serving' = serving \ {r}
    /\ UNCHANGED <<pc, handlerVars, closeVars, connVars, reader, peers, writer,
                   pinged, faults>>

\* Nothing refers to the peer any more and every goroutine of the session has
\* ended: the session stands for a later call of Proxy.
NewCall(s) ==
    /\ pc[s] \in Returned
    /\ \A o \in Origins : cpc[s][o] \in Finished \cup {"idle"}
    /\ \A u \in Users : peers[u] # s
    /\ ws[s] # "open" /\ vnc[s] # "open" /\ guac[s] \notin {"open", "eof"}
    /\ lfsx[s] # "open"
    /\ reader[s] \in {"none", "stopped"}
    /\ s \notin pinged
    /\ pc' = [pc EXCEPT ![s] = "start"]
    /\ cpc' = [cpc EXCEPT ![s] = [o \in Origins |-> "idle"]]
    /\ polls' = [polls EXCEPT ![s] = [o \in Origins |-> 0]]
    /\ late' = [late EXCEPT ![s] = {}]
    /\ ready' = [ready EXCEPT ![s] = FALSE]
    /\ closed' = [closed EXCEPT ![s] = FALSE]
    /\ ws' = [ws EXCEPT ![s] = "none"]
    /\ vnc' = [vnc EXCEPT ![s] = "none"]
    /\ session' = [session EXCEPT ![s] = FALSE]
    /\ guac' = [guac EXCEPT ![s] = "none"]
    /\ used' = [used EXCEPT ![s] = FALSE]
    /\ reader' = [reader EXCEPT ![s] = "none"]
    /\ lfsx' = [lfsx EXCEPT ![s] = "none"]
    /\ faults' = faults \ {s}
    /\ UNCHANGED <<viaGuacd, peers, writer, serving, pinged>>

-----------------------------------------------------------------------------
ProxyStep(s) ==
    \/ Validate(s) \/ Upgrade(s) \/ Fail(s) \/ GetVncAddress(s)
    \/ ConnectToVnc(s) \/ SetSession(s) \/ NewLfsxPeer(s) \/ AwaitStartup(s)
    \/ ConnectToGuacamole(s) \/ SetConnections(s) \/ LockPeers(s)
    \/ Register(s) \/ RefuseDuplicate(s) \/ FinishDuplicate(s)
    \/ UseGuacamole(s) \/ Handshake(s)

CloseStep(s, o) ==
    \/ LoadClosed(s, o) \/ StoreClosed(s, o) \/ PollReady(s, o)
    \/ CloseLfsx(s, o) \/ CloseSource(s, o) \/ CloseTarget(s, o)
    \/ CloseGuacd(s, o) \/ LockDelete(s, o) \/ DeletePeer(s, o)

ReaderStep(s) == SetWriter(s) \/ ReaderCloses(s) \/ ReaderStops(s)

Environment(s) ==
    \/ SourceCloses(s) \/ OnEngineClose(s) \/ GuacdCloses(s) \/ PingClosed(s)
    \/ OnSourceMessage(s) \/ NewCall(s)

Next ==
    \/ \E s \in Sessions : ProxyStep(s) \/ ReaderStep(s) \/ Environment(s)
    \/ \E s \in Sessions, o \in Origins : CloseStep(s, o)
    \/ \E r \in Requests : ServeRequest(r) \/ EndRequest(r)

Spec == Init /\ [][Next]_vars

\* Goroutines that can run do run, a goroutine that waits for peerSync is not
\* passed over for ever (sync.Mutex hands over to a waiter it has starved, and
\* sync.RWMutex lets waiting readers in before the next writer), and upstream
\* servers answer.  Clients and backends are free to do nothing.
\* Only a wait for peerSync can be interrupted, so strong fairness says more
\* than weak fairness for those steps alone.
Fairness ==
    /\ \A s \in Sessions :
           /\ SF_vars(ProxyStep(s))
           /\ WF_vars(SetWriter(s))
           /\ \A o \in Origins : SF_vars(CloseStep(s, o))
    /\ \A r \in Requests : WF_vars(EndRequest(r))

FairSpec == Spec /\ Fairness

-----------------------------------------------------------------------------
(* Properties                                                              *)

\* Every variable has its type.
TypeOK ==
    /\ viaGuacd \subseteq Sessions
    /\ pc \in [Sessions -> ProxyPC]
    /\ cpc \in [Sessions -> [Origins -> ClosePC]]
    /\ polls \in [Sessions -> [Origins -> 0 .. CloseWaitLimit + 1]]
    /\ late \in [Sessions -> SUBSET Origins]
    /\ ready \in [Sessions -> BOOLEAN]
    /\ closed \in [Sessions -> BOOLEAN]
    /\ ws \in [Sessions -> Conn]
    /\ vnc \in [Sessions -> Conn]
    /\ session \in [Sessions -> BOOLEAN]
    /\ guac \in [Sessions -> Conn \cup {"eof"}]
    /\ used \in [Sessions -> BOOLEAN]
    /\ reader \in [Sessions -> {"none", "starting", "running", "stopped"}]
    /\ lfsx \in [Sessions -> Conn]
    /\ peers \in [Users -> Sessions \cup {None}]
    /\ writer \in Threads \cup {None}
    /\ serving \subseteq Requests
    /\ pinged \subseteq Sessions
    /\ faults \subseteq Sessions

\* No connection of the session is open and the keepalive list has let it go.
TornDown(s) ==
    /\ ws[s] = "closed"
    /\ vnc[s] # "open"
    /\ guac[s] \notin {"open", "eof"}
    /\ lfsx[s] # "open"
    /\ s \notin pinged

\* A Close (peer.go) that saw the peer ready leaves nothing of the session
\* behind, whichever end the close came from and however many other Closes and
\* steps of Proxy ran in between: each origin skips the connection it reports
\* as closed, and the rest must add up to all of them.
TeardownComplete ==
    \A s \in Sessions, o \in Origins :
        cpc[s][o] = "done" /\ o \notin late[s] => TornDown(s)

\* A peer in the map is one SetConnections has completed, and belongs to the
\* user it is found under: the API handlers use its connections unchecked.
RegisteredReady ==
    \A u \in Users, s \in Sessions :
        peers[u] = s => UserOf[s] = u /\ ready[s]

\* peerSync is held for writing by the goroutine that is inside a critical
\* section and by no other, and no request is served during a handshake.
PeerSyncExclusive ==
    \A s \in Sessions :
        /\ pc[s] \in {"use", "handshake", "dup"} =>
               writer = <<s, "proxy">> /\ serving = {}
        /\ pc[s] = "register" => writer = <<s, "proxy">>
        /\ \A o \in Origins : cpc[s][o] = "delete" => writer = <<s, o>>

\* While a request is proxied for a user (ProxyLfsxRequest holds the read
\* lock), no Proxy and no Close changes that user's entry.
ServedEntryStable ==
    [][\A r \in serving : peers'[RequestUser[r]] = peers[RequestUser[r]]]_vars

\* Every call of Proxy comes to its end.
ProxyReturns ==
    \A s \in Sessions : []<>(pc[s] \in Returned)

\* When the client of a registered session goes away, the session leaves the
\* map, so that the user can connect again.
DisconnectUnregisters ==
    \A u \in Users, s \in Sessions :
        peers[u] = s /\ ws[s] = "closed" ~> peers[u] # s

\* A Close of the session was cut short: it stopped waiting for ready and went
\* on without the connections, or dereferenced a nil target.
CutShort(s) == late[s] # {} \/ \E o \in Origins : cpc[s][o] = "panicked"


\* A Guacamole session that is refused as a duplicate, or that is about to be,
\* never takes away the entry of the session it is refused for, although the
\* client may leave before the refusal and its Close ends only then, and entries
\* are removed by user.
RefusedLeavesEntry ==
    \A s \in viaGuacd, o \in Origins :
        pc[s] \in {"dup", "refused", "panicked"} /\ o \notin late[s]
            => cpc[s][o] \notin {"lock", "delete", "done"}

\* What is said of onEngineClose: it "handles the closing of a connection created
\* by the global engine": when a backend that Proxy has connected goes away, its
\* client is disconnected.
BackendLossDisconnects ==
    \A s \in Sessions :
        pc[s] = "served" /\ vnc[s] = "closed" ~> ws[s] = "closed"

\* What is said of validateUserRequest: "only one connection to the proxy does
\* exist" for a user.
OneSessionPerUser ==
    \A s, t \in Sessions :
        /\ s # t
        /\ UserOf[s] = UserOf[t]
        => ~(pc[s] = "served" /\ pc[t] = "served"
              /\ ws[s] = "open" /\ ws[t] = "open"
              /\ ~closed[s] /\ ~closed[t])

\* What is said where Proxy refuses a duplicate: "Peer does already exists ->
\* return error message".  It can return only if its Close does not wait for
\* the lock that the same goroutine holds.
DuplicateCanReturn ==
    \A s \in Sessions :
        pc[s] = "dup" /\ writer = <<s, "proxy">> => cpc[s]["proxy"] # "lock"

\* What is said of the map: "A list of peers that are currently opened".  Once
\* no Close of a registered session is under way, the session is open.
RegisteredOpen ==
    \A u \in Users, s \in Sessions :
        /\ peers[u] = s
        /\ \A o \in Origins : cpc[s][o] \in {"idle", "done", "early"}
        => ws[s] = "open"

\* What is said of ready: "both connections are setup for further use".  No
\* message or Close on a ready peer meets a connection that is not there.
ReadyUsable == faults = {}
====
