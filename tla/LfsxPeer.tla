------------------------------ MODULE LfsxPeer ------------------------------
(***************************************************************************)
(* The bridge between the browser and the application in the pod:          *)
(* lfsxPeer (peer_lfsx.go), from NewLfsxPeer to Close.                     *)
(*                                                                         *)
(* Its goroutines are the creator, which runs NewLfsxPeer inside Proxy;    *)
(* the workers, each a call of tryToReconnectToLfsx with the goroutine     *)
(* that the call starts; the callers of Close; and the handlers of the     *)
(* clients' WebSockets.  A backend connection that is "closing" has        *)
(* delivered a close frame and not yet its end.                            *)
(*                                                                         *)
(* The context of a peer is canceled by Close alone: what it is derived    *)
(* from is context.Background().  Close cancels under targetSync, so the   *)
(* checks of the context inside the loop of dials, which holds targetSync  *)
(* as well, never succeed; they have no step here.                         *)
(***************************************************************************)
EXTENDS Naturals, FiniteSets

CONSTANTS
    Workers,   \* bound on the concurrent runs of tryToReconnectToLfsx
    Creator,   \* the goroutine of NewLfsxPeer
    Conns,     \* bound on the backend connections that exist at a time
    Clients,   \* the clients' WebSocket connections
    Closers,   \* calls of Close
    Senders,   \* calls of SendMessageToLFS
    MaxDials,  \* attempts of connectToLfsxSocket (13 in the code)
    Nil

Threads == Workers \cup {Creator}

ASSUME CreatorAssumption == Creator \notin Workers
ASSUME NilAssumption ==
    /\ Nil \notin Threads \cup Conns \cup Clients \cup Closers \cup Senders
    /\ Threads \cap Conns = {} /\ Threads \cap Clients = {}
    /\ Threads \cap Closers = {} /\ Conns \cap Clients = {}
    /\ Conns \cap Closers = {} /\ Clients \cap Closers = {}
    /\ Senders \cap (Threads \cup Conns) = {}
ASSUME DialsAssumption == MaxDials \in Nat

VARIABLES
    tpc,          \* where the creator and the workers are
    dials,        \* the loop variable of connectToLfsxSocket
    conn,         \* the backend connections
    target,       \* p.target
    targetSync,   \* who holds that mutex
    created,      \* NewLfsxPeer has returned a peer
    intentional,  \* p.wasIntentiallyClosed
    canceled,     \* p.baseContext is canceled
    client,       \* the clients' connections
    source,       \* p.source
    sourceSync,   \* who holds that mutex
    cpc,          \* where the calls of Close are
    pinged        \* the connections of this peer in p.pingPong

peerVars == <<tpc, dials, conn, target, targetSync, created, intentional,
              canceled, client, source, sourceSync, cpc, pinged>>

clientVars == <<client, source>>
closeVars == <<intentional, canceled, cpc, sourceSync>>

\* "load" to "sleep" are the places in tryToReconnectToLfsx, "lock" to "add"
\* those in connectToLfsxSocket.
ThreadPC == {"idle", "load", "reset", "sleep", "lock", "dial", "add", "failed"}
ClosePC == {"idle", "source", "target"}

PeerInit ==
    /\ tpc = [t \in Threads |-> IF t = Creator THEN "lock" ELSE "idle"]
    /\ dials = 0
    /\ conn = [c \in Conns |-> "down"]
    /\ target = Nil
    /\ targetSync = Nil
    /\ created = FALSE
    /\ intentional = FALSE
    /\ canceled = FALSE
    /\ client = [k \in Clients |-> "down"]
    /\ source = Nil
    /\ sourceSync = Nil
    /\ cpc = [x \in Closers |-> "idle"]
    /\ pinged = {}

PeerGoto(t, from, to) == tpc[t] = from /\ tpc' = [tpc EXCEPT ![t] = to]

-----------------------------------------------------------------------------
(* connectToLfsxSocket                                                     *)

\* Mutant: a worker that could not connect gives up.
MutOnError(t) == IF t = Creator THEN "failed" ELSE "idle"

\* The place after connectToLfsxSocket has returned an error: NewLfsxPeer
\* gives up, a worker calls tryToReconnectToLfsx again.
OnError(t) == IF t = Creator THEN "failed" ELSE "load"

\* Lock targetSync; give up if the peer was closed, start to dial if not.
Connect(t) ==
    /\ targetSync = Nil
    /\ \/ /\ canceled
          /\ PeerGoto(t, "lock", OnError(t))
          /\ UNCHANGED <<targetSync, dials>>
       \/ /\ ~canceled
          /\ PeerGoto(t, "lock", "dial")
          /\ targetSync' = t
          /\ dials' = 0
    /\ UNCHANGED <<conn, target, created, clientVars, closeVars, pinged>>

\* A dial succeeds: the connection becomes the target.
DialOk(t) ==
    /\ dials < MaxDials
    /\ PeerGoto(t, "dial", "add")
    /\ \E c \in Conns :
           /\ conn[c] = "down" /\ c # target
           /\ conn' = [conn EXCEPT ![c] = "open"]
           /\ target' = c
    /\ UNCHANGED <<dials, targetSync, created, clientVars, closeVars, pinged>>

\* A dial fails; the next one follows after two seconds.
DialFails(t) ==
    /\ tpc[t] = "dial"
    /\ dials < MaxDials
    /\ dials' = dials + 1
    /\ UNCHANGED <<tpc, conn, target, targetSync, created, clientVars,
                   closeVars, pinged>>

\* Mutant: the error return does not unlock.
MutGiveUp(t) ==
    /\ dials = MaxDials
    /\ \/ /\ target = Nil
          /\ PeerGoto(t, "dial", OnError(t))
          /\ UNCHANGED <<targetSync, dials>>
       \/ /\ target # Nil
          /\ PeerGoto(t, "dial", "add")
          /\ UNCHANGED <<targetSync, dials>>
    /\ UNCHANGED <<conn, target, created, clientVars, closeVars, pinged>>

\* The last dial has failed.  That is an error only if there is no target:
\* another worker may have connected in the meantime.
GiveUp(t) ==
    /\ dials = MaxDials
    /\ \/ /\ target = Nil
          /\ PeerGoto(t, "dial", OnError(t))
          /\ targetSync' = Nil
          /\ dials' = 0
       \/ /\ target # Nil
          /\ PeerGoto(t, "dial", "add")
          /\ UNCHANGED <<targetSync, dials>>
    /\ UNCHANGED <<conn, target, created, clientVars, closeVars, pinged>>

\* Add the target to the keepalive list and return; NewLfsxPeer returns too.
AddTarget(t) ==
    /\ PeerGoto(t, "add", "idle")
    /\ pinged' = pinged \cup {target}
    /\ targetSync' = Nil
    /\ dials' = 0
    /\ created' = (created \/ t = Creator)
    /\ UNCHANGED <<conn, target, clientVars, closeVars>>

-----------------------------------------------------------------------------
(* SendMessageToLFS, which Proxy calls in a goroutine of its own           *)

\* It holds targetSync while it writes to the target.  A message to a peer that
\* is closed or has no target is dropped.
SendMessageToLFS(m) ==
    /\ created
    /\ ~intentional /\ target # Nil
    /\ targetSync = Nil
    /\ targetSync' = m
    /\ UNCHANGED <<tpc, dials, conn, target, created, clientVars, closeVars,
                   pinged>>

\* The write is over, or has failed.
EndSendMessage(m) ==
    /\ targetSync = m
    /\ targetSync' = Nil
    /\ UNCHANGED <<tpc, dials, conn, target, created, clientVars, closeVars,
                   pinged>>

-----------------------------------------------------------------------------
(* tryToReconnectToLfsx                                                    *)

LoadIntentional(w) ==
    /\ PeerGoto(w, "load", IF intentional THEN "idle" ELSE "reset")
    /\ UNCHANGED <<dials, conn, target, targetSync, created, clientVars,
                   closeVars, pinged>>

ResetTarget(w) ==
    /\ targetSync = Nil
    /\ PeerGoto(w, "reset", "sleep")
    /\ target' = Nil
    /\ UNCHANGED <<dials, conn, targetSync, created, clientVars, closeVars,
                   pinged>>

\* Five seconds are over ...
Wake(w) ==
    /\ PeerGoto(w, "sleep", "lock")
    /\ UNCHANGED <<dials, conn, target, targetSync, created, clientVars,
                   closeVars, pinged>>

\* ... or the context is canceled; select takes either if both are.
CancelSleep(w) ==
    /\ canceled
    /\ PeerGoto(w, "sleep", "idle")
    /\ UNCHANGED <<dials, conn, target, targetSync, created, clientVars,
                   closeVars, pinged>>

\* A handler of a backend connection calls tryToReconnectToLfsx.  After Close
\* that call returns at once.
StartReconnect ==
    \/ intentional /\ UNCHANGED tpc
    \/ /\ ~intentional
       /\ \E w \in Workers : PeerGoto(w, "idle", "load")

\* The application sends a close frame (SetCloseHandler).
CloseFrame(c) ==
    /\ conn[c] = "open"
    /\ conn' = [conn EXCEPT ![c] = "closing"]
    /\ pinged' = pinged \ {c}
    /\ StartReconnect
    /\ UNCHANGED <<dials, target, targetSync, created, clientVars, closeVars>>

\* A backend connection ends, or the keepalive closes it (OnClose).
TargetCloses(c) ==
    /\ conn[c] # "down"
    /\ conn' = [conn EXCEPT ![c] = "down"]
    /\ pinged' = pinged \ {c}
    /\ StartReconnect
    /\ UNCHANGED <<dials, target, targetSync, created, clientVars, closeVars>>

\* The engine stops when the context is canceled and closes what it has left.
EngineStop ==
    /\ canceled
    /\ \E c \in Conns : conn[c] # "down"
    /\ conn' = [c \in Conns |-> "down"]
    /\ pinged' = pinged \ Conns
    /\ UNCHANGED <<tpc, dials, target, targetSync, created, clientVars,
                   closeVars>>

-----------------------------------------------------------------------------
(* The client's side                                                       *)

\* ProxyHostWebsocket upgrades the request of a client and stores the
\* connection without a lock, even if it has ended, OnClose included, between
\* the two.  p.ready is set with it, so there is no source without ready.
AttachClient(k) ==
    /\ created
    /\ client[k] = "down" /\ source # k /\ k \notin pinged
    /\ client' \in { [client EXCEPT ![k] = "open"], client }
    /\ source' = k
    /\ pinged' = pinged \cup {k}
    /\ UNCHANGED <<tpc, dials, conn, target, targetSync, created, closeVars>>

\* A client goes away: OnClose takes it out of the keepalive list ...
ClientCloses(k) ==
    /\ client[k] = "open"
    /\ client' = [client EXCEPT ![k] = "closed"]
    /\ pinged' = pinged \ {k}
    /\ UNCHANGED <<tpc, dials, conn, target, targetSync, created, source,
                   closeVars>>

\* ... and clears p.source under sourceSync, whichever client that holds.
ClearSource(k) ==
    /\ client[k] = "closed"
    /\ sourceSync = Nil
    /\ client' = [client EXCEPT ![k] = "down"]
    /\ source' = Nil
    /\ UNCHANGED <<tpc, dials, conn, target, targetSync, created, closeVars,
                   pinged>>

\* OnSourceMessage holds sourceSync while it writes to the target; a message
\* that it does not pass on changes nothing.
OnSourceMessage(k) ==
    /\ client[k] = "open"
    /\ target # Nil
    /\ sourceSync = Nil
    /\ sourceSync' = k
    /\ UNCHANGED <<tpc, dials, conn, target, targetSync, created, intentional,
                   canceled, clientVars, cpc, pinged>>

\* The write is over, whether it failed or met a target that is nil by now.
EndSourceMessage(k) ==
    /\ sourceSync = k
    /\ sourceSync' = Nil
    /\ UNCHANGED <<tpc, dials, conn, target, targetSync, created, intentional,
                   canceled, clientVars, cpc, pinged>>

\* OnTargetMessage holds targetSync while it writes to the client.
OnTargetMessage(c) ==
    /\ conn[c] # "down"
    /\ source # Nil
    /\ targetSync = Nil
    /\ targetSync' = c
    /\ UNCHANGED <<tpc, dials, conn, target, created, clientVars, closeVars,
                   pinged>>

EndTargetMessage(c) ==
    /\ targetSync = c
    /\ targetSync' = Nil
    /\ UNCHANGED <<tpc, dials, conn, target, created, clientVars, closeVars,
                   pinged>>

\* The keepalive ticker drops a connection that is closed already.
PingClosed ==
    /\ pinged' = { x \in pinged : \/ x \in Conns /\ conn[x] # "down"
                                  \/ x \in Clients /\ client[x] = "open" }
    /\ pinged' # pinged
    /\ UNCHANGED <<tpc, dials, conn, target, targetSync, created, clientVars,
                   closeVars>>

-----------------------------------------------------------------------------
(* Close, which peer.Close calls with fromWhich = 0                        *)

CallClose(x) ==
    /\ created
    /\ cpc[x] = "idle"
    /\ cpc' = [cpc EXCEPT ![x] = "source"]
    /\ UNCHANGED <<tpc, dials, conn, target, targetSync, created, intentional,
                   canceled, clientVars, sourceSync, pinged>>

LockSource(x) ==
    /\ cpc[x] = "source"
    /\ sourceSync = Nil
    /\ sourceSync' = x
    /\ cpc' = [cpc EXCEPT ![x] = "target"]
    /\ UNCHANGED <<tpc, dials, conn, target, targetSync, created, intentional,
                   canceled, clientVars, pinged>>

\* The connection is closed and its OnClose has left the keepalive list.
Shut(f, c, to) == [x \in DOMAIN f |-> IF x = c /\ f[x] # "down" THEN to ELSE f[x]]

\* With both locks: unless the peer is closed already, close the client and
\* the target, whose handlers will not reconnect any more, and cancel.
FinishClose(x) ==
    /\ cpc[x] = "target"
    /\ targetSync = Nil
    /\ cpc' = [cpc EXCEPT ![x] = "idle"]
    /\ sourceSync' = Nil
    /\ \/ intentional /\ UNCHANGED <<intentional, canceled, client, conn, pinged>>
       \/ /\ ~intentional
          /\ intentional' = TRUE
          /\ canceled' = TRUE
          /\ client' = Shut(client, source, "closed")
          /\ conn' = Shut(conn, target, "down")
          /\ pinged' = pinged \ {source, target}
    /\ UNCHANGED <<tpc, dials, target, targetSync, created, source>>

-----------------------------------------------------------------------------
ConnectStep(t) ==
    Connect(t) \/ DialOk(t) \/ DialFails(t) \/ GiveUp(t) \/ AddTarget(t)

ReconnectStep(w) ==
    LoadIntentional(w) \/ ResetTarget(w) \/ Wake(w) \/ CancelSleep(w)

BackendStep(c) ==
    CloseFrame(c) \/ TargetCloses(c) \/ OnTargetMessage(c) \/ EndTargetMessage(c)

ClientStep(k) ==
    \/ AttachClient(k) \/ ClientCloses(k) \/ ClearSource(k)
    \/ OnSourceMessage(k) \/ EndSourceMessage(k)

CloseStep(x) == LockSource(x) \/ FinishClose(x)

PeerNext ==
    \/ \E t \in Threads : ConnectStep(t)
    \/ \E w \in Workers : ReconnectStep(w)
    \/ \E c \in Conns : BackendStep(c)
    \/ \E k \in Clients : ClientStep(k)
    \/ \E x \in Closers : CallClose(x) \/ CloseStep(x)
    \/ \E m \in Senders : SendMessageToLFS(m) \/ EndSendMessage(m)
    \/ EngineStop \/ PingClosed

PeerSpec == PeerInit /\ [][PeerNext]_peerVars

\* Goroutines that can run do run, and one that waits for a mutex is not
\* passed over for ever, which sync.Mutex sees to once it has waited for a
\* millisecond.  Writes return and the engine stops when told to.  Nothing is
\* assumed of the application, the clients and the callers of Close.
Fairness ==
    /\ \A w \in Workers : SF_peerVars(ConnectStep(w) \/ ReconnectStep(w))
    /\ \A c \in Conns : WF_peerVars(EndTargetMessage(c))
    /\ \A k \in Clients : WF_peerVars(EndSourceMessage(k))
    /\ \A m \in Senders : WF_peerVars(EndSendMessage(m))
    /\ \A x \in Closers : SF_peerVars(CloseStep(x))
    /\ WF_peerVars(EngineStop)

PeerFairSpec == PeerSpec /\ Fairness

-----------------------------------------------------------------------------
(* Properties                                                              *)

\* Every variable has its type.
PeerTypeOK ==
    /\ tpc \in [Threads -> ThreadPC]
    /\ dials \in 0 .. MaxDials
    /\ conn \in [Conns -> {"down", "open", "closing"}]
    /\ target \in Conns \cup {Nil}
    /\ targetSync \in Threads \cup Conns \cup Senders \cup {Nil}
    /\ created \in BOOLEAN
    /\ intentional \in BOOLEAN
    /\ canceled \in BOOLEAN
    /\ client \in [Clients -> {"down", "open", "closed"}]
    /\ source \in Clients \cup {Nil}
    /\ sourceSync \in Clients \cup Closers \cup {Nil}
    /\ cpc \in [Closers -> ClosePC]
    /\ pinged \subseteq Conns \cup Clients

\* Until Close, a peer has its connection to the application or a goroutine
\* of tryToReconnectToLfsx is working on a new one: however closes, resets of
\* p.target by several workers and failing dials follow each other, the last
\* one to run does not leave the peer without a target.
KeepsReconnecting ==
    created /\ ~intentional =>
        \/ target # Nil /\ conn[target] = "open"
        \/ \E w \in Workers : tpc[w] # "idle"

\* Every open connection to the application is in the keepalive list, or is
\* the target that connectToLfsxSocket is about to add: the others would run
\* into their read deadline.
OpenIsPinged ==
    \A c \in Conns :
        conn[c] = "open" =>
            c \in pinged \/ (c = target /\ \E t \in Threads : tpc[t] = "add")

\* Once Close has run no connection to the application is made, by whichever
\* worker was about to: Close cancels under the mutex that dialing takes.
NoConnectAfterClose ==
    [][intentional => \A c \in Conns : conn'[c] = "open" => conn[c] = "open"]_peerVars

\* A call of Close returns, although it needs both mutexes and the loop of
\* dials and writes to either end are made while one of them is held.
CloseReturns ==
    \A x \in Closers : cpc[x] = "source" ~> cpc[x] = "idle"

\* After Close every worker ends and every connection to the application is
\* closed, those included that are no longer the target.
ComesToRest ==
    intentional ~> [](/\ \A w \in Workers : tpc[w] = "idle"
                      /\ \A c \in Conns : conn[c] = "down")

\* What is said of lfsxPeer: it is a peer with a connection to the client "and
\* a LFS.X backend connection".  Connections that are ending do not count.
OneBackend ==
    \A c, d \in Conns : conn[c] = "open" /\ conn[d] = "open" => c = d
====
