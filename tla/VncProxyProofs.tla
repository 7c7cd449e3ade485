--------------------------- MODULE VncProxyProofs ---------------------------
(***************************************************************************)
(* Proofs about VncProxy, for every set of sessions, users and requests    *)
(* and every limit on the polls of Close.                                  *)
(***************************************************************************)
EXTENDS VncProxy, TLAPS

\* The initial state has the right types.
LEMMA TypeInit == Init => TypeOK
  BY SessionAssumption, LimitAssumption
     DEF Init, TypeOK, ProxyPC, Returned, ClosePC, Finished, Conn

\* A step of a handler keeps the types.
LEMMA TypeProxyStep ==
    ASSUME TypeOK, NEW s \in Sessions, ProxyStep(s)
    PROVE  TypeOK'
<1> USE SessionAssumption, NoneAssumption
        DEF TypeOK, handlerVars, closeVars, connVars, sharedVars, Goto,
            StartClose, BeginLock, Threads, Origins, ProxyPC, Returned, ClosePC,
            Finished, Conn
<1>1. CASE Validate(s)
  BY <1>1 DEF Validate
<1>2. CASE Upgrade(s)
  BY <1>2 DEF Upgrade
<1>3. CASE Fail(s)
  BY <1>3 DEF Fail
<1>4. CASE GetVncAddress(s)
  BY <1>4 DEF GetVncAddress
<1>5. CASE ConnectToVnc(s)
  BY <1>5 DEF ConnectToVnc
<1>6. CASE SetSession(s)
  BY <1>6 DEF SetSession
<1>7. CASE NewLfsxPeer(s)
  <2>1. pc' \in [Sessions -> ProxyPC]
    <3>1. PICK p \in {"boot", "guacd", "assign"} :
              pc' = [pc EXCEPT ![s] = p]
      BY <1>7 DEF NewLfsxPeer, AfterLfsx
    <3>2. QED
      BY <3>1
  <2>2. lfsx' \in [Sessions -> Conn]
    BY <1>7 DEF NewLfsxPeer
  <2>3. QED
    BY <1>7, <2>1, <2>2 DEF NewLfsxPeer
<1>8. CASE AwaitStartup(s)
  BY <1>8 DEF AwaitStartup, AfterLfsx
<1>9. CASE ConnectToGuacamole(s)
  BY <1>9 DEF ConnectToGuacamole
<1>10. CASE SetConnections(s)
  BY <1>10 DEF SetConnections
<1>11. CASE LockPeers(s)
  BY <1>11 DEF LockPeers
<1>12. CASE Register(s)
  BY <1>12 DEF Register
<1>13. CASE RefuseDuplicate(s)
  BY <1>13 DEF RefuseDuplicate
<1>14. CASE FinishDuplicate(s)
  BY <1>14 DEF FinishDuplicate
<1>15. CASE UseGuacamole(s)
  BY <1>15 DEF UseGuacamole
<1>16. CASE Handshake(s)
  <2>1. reader' \in [Sessions -> {"none", "starting", "running", "stopped"}]
    <3>1. reader' = reader \/ reader' = [reader EXCEPT ![s] = "starting"]
      BY <1>16 DEF Handshake
    <3>2. QED
      BY <3>1
  <2>2. QED
    BY <1>16, <2>1 DEF Handshake
<1> QED
  BY <1>1, <1>2, <1>3, <1>4, <1>5, <1>6, <1>7, <1>8, <1>9, <1>10, <1>11,
     <1>12, <1>13, <1>14, <1>15, <1>16 DEF ProxyStep

\* A step of a Close keeps the types; only here the limit matters.
LEMMA TypeCloseStep ==
    ASSUME TypeOK, NEW s \in Sessions, NEW o \in Origins, CloseStep(s, o)
    PROVE  TypeOK'
<1> USE SessionAssumption, NoneAssumption
        DEF TypeOK, handlerVars, closeVars, connVars, sharedVars, CloseGoto,
            CloseGotoAndStart, BeginLock, Threads, Origins, ProxyPC, Returned,
            ClosePC, Finished, Conn
<1>1. CASE LoadClosed(s, o)
  BY <1>1 DEF LoadClosed
<1>2. CASE StoreClosed(s, o)
  BY <1>2 DEF StoreClosed
<1>3. CASE PollReady(s, o)
  <2>1. polls' \in [Sessions -> [Origins -> 0 .. CloseWaitLimit + 1]]
    <3>1. polls[s][o] \in 0 .. CloseWaitLimit + 1
      OBVIOUS
    <3>2. 0 \in 0 .. CloseWaitLimit + 1
      BY LimitAssumption
    <3>3. polls[s][o] <= CloseWaitLimit
              => polls[s][o] + 1 \in 0 .. CloseWaitLimit + 1
      BY <3>1, LimitAssumption
    <3>4. \/ polls' = [polls EXCEPT ![s][o] = 0]
          \/ /\ polls[s][o] <= CloseWaitLimit
             /\ polls' = [polls EXCEPT ![s][o] = polls[s][o] + 1]
      BY <1>3 DEF PollReady
    <3>5. QED
      <4>1. PICK n \in 0 .. CloseWaitLimit + 1 :
                polls' = [polls EXCEPT ![s][o] = n]
        BY <3>2, <3>3, <3>4
      <4>2. QED
        BY <4>1
  <2>3. cpc' \in [Sessions -> [Origins -> ClosePC]]
    <3>1. PICK v \in {"wait", "lfsx"} : cpc' = [cpc EXCEPT ![s][o] = v]
      BY <1>3 DEF PollReady
    <3>2. QED
      BY <3>1
  <2>4. late' \in [Sessions -> SUBSET Origins]
    BY <1>3 DEF PollReady
  <2>5. QED
    BY <1>3, <2>1, <2>3, <2>4 DEF PollReady
<1>4. CASE CloseLfsx(s, o)
  BY <1>4 DEF CloseLfsx
<1>5. CASE CloseSource(s, o)
  <2>1. cpc' \in [Sessions -> [Origins -> ClosePC]]
    <3>1. \/ cpc' = [cpc EXCEPT ![s][o] = "target"]
          \/ cpc' = [cpc EXCEPT ![s] = [@ EXCEPT ![o] = "target",
                                                  !["source"] = "load"]]
      BY <1>5 DEF CloseSource
    <3>2. CASE cpc' = [cpc EXCEPT ![s][o] = "target"]
      BY <3>2
    <3>3. CASE cpc' = [cpc EXCEPT ![s] = [@ EXCEPT ![o] = "target",
                                                   !["source"] = "load"]]
      BY <3>3
    <3>4. QED
      BY <3>1, <3>2, <3>3
  <2>2. ws' \in [Sessions -> Conn]
    <3>1. ws' = ws \/ ws' = [ws EXCEPT ![s] = "closed"]
      BY <1>5 DEF CloseSource
    <3>2. QED
      BY <3>1
  <2>3. QED
    BY <1>5, <2>1, <2>2 DEF CloseSource
<1>6. CASE CloseTarget(s, o)
  <2>1. cpc' \in [Sessions -> [Origins -> ClosePC]]
    <3>1. \/ \E v \in {"guacd", "panicked"} : cpc' = [cpc EXCEPT ![s][o] = v]
          \/ cpc' = [cpc EXCEPT ![s] = [@ EXCEPT ![o] = "guacd",
                                                  !["target"] = "load"]]
      BY <1>6 DEF CloseTarget
    <3>2. CASE \E v \in {"guacd", "panicked"} : cpc' = [cpc EXCEPT ![s][o] = v]
      BY <3>2
    <3>3. CASE cpc' = [cpc EXCEPT ![s] = [@ EXCEPT ![o] = "guacd",
                                                   !["target"] = "load"]]
      BY <3>3
    <3>4. QED
      BY <3>1, <3>2, <3>3
  <2>2. vnc' \in [Sessions -> Conn]
    <3>1. vnc' = vnc \/ vnc' = [vnc EXCEPT ![s] = "closed"]
      BY <1>6 DEF CloseTarget
    <3>2. QED
      BY <3>1
  <2>3. faults' \subseteq Sessions
    <3>1. faults' = faults \/ faults' = faults \cup {s}
      BY <1>6 DEF CloseTarget
    <3>2. QED
      BY <3>1
  <2>4. QED
    BY <1>6, <2>1, <2>2, <2>3 DEF CloseTarget
<1>7. CASE CloseGuacd(s, o)
  <2>1. guac' \in [Sessions -> Conn \cup {"eof"}]
    <3>1. guac' = guac \/ guac' = [guac EXCEPT ![s] = "closed"]
      BY <1>7 DEF CloseGuacd
    <3>2. QED
      BY <3>1
  <2>2. pinged' \subseteq Sessions
    BY <1>7 DEF CloseGuacd
  <2>3. QED
    BY <1>7, <2>1, <2>2 DEF CloseGuacd
<1>8. CASE LockDelete(s, o)
  BY <1>8 DEF LockDelete
<1>9. CASE DeletePeer(s, o)
  BY <1>9 DEF DeletePeer
<1> QED
  BY <1>1, <1>2, <1>3, <1>4, <1>5, <1>6, <1>7, <1>8, <1>9 DEF CloseStep

\* So does everything else: the reader of guacd, the other ends of the
\* connections, requests, and the reuse of a session for a later call.
LEMMA TypeOtherStep ==
    ASSUME TypeOK,
           \/ \E s \in Sessions : ReaderStep(s) \/ Environment(s)
           \/ \E r \in Requests : ServeRequest(r) \/ EndRequest(r)
    PROVE  TypeOK'
<1> USE DEF TypeOK, handlerVars, closeVars, connVars, sharedVars, StartClose,
            Threads, Origins, ProxyPC, Returned, ClosePC, Finished, Conn
<1>1. ASSUME NEW s \in Sessions, ReaderStep(s)  PROVE TypeOK'
  <2>1. CASE SetWriter(s)
    BY <2>1 DEF SetWriter
  <2>2. CASE ReaderCloses(s)
    BY <2>2 DEF ReaderCloses
  <2>3. CASE ReaderStops(s)
    BY <2>3 DEF ReaderStops
  <2>4. QED
    BY <1>1, <2>1, <2>2, <2>3 DEF ReaderStep
<1>2. ASSUME NEW s \in Sessions, SourceCloses(s) \/ OnEngineClose(s)
      PROVE  TypeOK'
  <2>1. CASE SourceCloses(s)
    BY <2>1 DEF SourceCloses
  <2>2. CASE OnEngineClose(s)
    <3>1. cpc' \in [Sessions -> [Origins -> ClosePC]]
      <4>1. cpc' = cpc \/ cpc' = [cpc EXCEPT ![s]["target"] = "load"]
        BY <2>2 DEF OnEngineClose
      <4>2. CASE cpc' = [cpc EXCEPT ![s]["target"] = "load"]
        BY <4>2
      <4>3. QED
        BY <4>1, <4>2
    <3>2. QED
      BY <2>2, <3>1 DEF OnEngineClose
  <2>3. QED
    BY <1>2, <2>1, <2>2
<1>3. ASSUME NEW s \in Sessions,
             GuacdCloses(s) \/ PingClosed(s) \/ OnSourceMessage(s)
      PROVE  TypeOK'
  <2>1. CASE GuacdCloses(s)
    BY <2>1 DEF GuacdCloses
  <2>2. CASE PingClosed(s) \/ OnSourceMessage(s)
    BY <2>2 DEF PingClosed, OnSourceMessage
  <2>3. QED
    BY <1>3, <2>1, <2>2
<1>4. ASSUME NEW s \in Sessions, NewCall(s)  PROVE TypeOK'
  <2>1. polls' \in [Sessions -> [Origins -> 0 .. CloseWaitLimit + 1]]
    BY <1>4, LimitAssumption DEF NewCall
  <2>2. QED
    BY <1>4, <2>1 DEF NewCall
<1>5. ASSUME NEW r \in Requests, ServeRequest(r) \/ EndRequest(r)
      PROVE  TypeOK'
  BY <1>5 DEF ServeRequest, EndRequest
<1> QED
  BY <1>1, <1>2, <1>3, <1>4, <1>5 DEF Environment

\* A step that changes nothing keeps the types.
LEMMA TypeStutter == TypeOK /\ UNCHANGED vars => TypeOK'
  BY DEF TypeOK, vars

\* Every variable keeps its type in every behaviour.
THEOREM TypeCorrect == Spec => []TypeOK
<1>1. TypeOK /\ [Next]_vars => TypeOK'
  BY TypeProxyStep, TypeCloseStep, TypeOtherStep, TypeStutter DEF Next
<1>2. QED
  BY <1>1, TypeInit, PTL DEF Spec

-----------------------------------------------------------------------------
(* TeardownComplete: the invariant that makes it inductive.                *)

BeforeReady == {"start", "upgrade", "address", "vnc", "session", "lfsx",
                "boot", "guacd", "assign", "failed"}
AfterReady == {"lock", "register", "use", "handshake", "dup", "served"}

\* What the place of the handler says about the peer and its connections.
HandlerInv(s) ==
    /\ pc[s] \in BeforeReady => ~ready[s]
    /\ pc[s] \in AfterReady => ready[s]
    /\ pc[s] \in {"start", "upgrade"} => ws[s] = "none"
    /\ pc[s] \in {"start", "upgrade", "address", "vnc"} => vnc[s] = "none"
    /\ pc[s] \in BeforeReady \ {"start", "upgrade", "failed"} => ws[s] # "none"
    /\ ready[s] => ws[s] # "none"
    /\ pc[s] \in {"vnc", "session"} => s \notin viaGuacd
    /\ pc[s] \in {"guacd", "use", "handshake"} => s \in viaGuacd
    /\ used[s] => s \in viaGuacd
    /\ s \in viaGuacd => vnc[s] = "none"
    /\ s \notin viaGuacd => guac[s] = "none"

AfterWait == {"lfsx", "source", "target", "guacd", "lock", "delete", "done"}

\* What a Close has found and done by the time it is at its place.
CloseInv(s, o) ==
    /\ o = "source" /\ cpc[s][o] # "idle" => ws[s] = "closed"
    /\ o = "target" /\ cpc[s][o] # "idle" => vnc[s] = "closed"
    /\ cpc[s][o] \in AfterWait /\ o \notin late[s] =>
           /\ ready[s]
           /\ cpc[s][o] # "lfsx" => lfsx[s] # "open"
           /\ cpc[s][o] \notin {"lfsx", "source"} => ws[s] = "closed"
           /\ cpc[s][o] \notin {"lfsx", "source", "target"} => vnc[s] # "open"
           /\ cpc[s][o] \in {"lock", "delete", "done"} =>
                  guac[s] \notin {"open", "eof"} /\ s \notin pinged

TeardownInv ==
    /\ \A s \in Sessions : HandlerInv(s)
    /\ \A s \in Sessions, o \in Origins : CloseInv(s, o)

\* Nothing is open before the first call of Proxy.
LEMMA TeardownInit == Init => TeardownInv
  BY DEF Init, TeardownInv, HandlerInv, CloseInv, BeforeReady, AfterReady,
         AfterWait

\* A step of a handler.
LEMMA TeardownProxyStep ==
    ASSUME TypeOK, TeardownInv, NEW t \in Sessions, ProxyStep(t)
    PROVE  TeardownInv'
<1> SUFFICES ASSUME NEW s \in Sessions, NEW o \in Origins
             PROVE  HandlerInv(s)' /\ CloseInv(s, o)'
  BY DEF TeardownInv, Origins
<1>0. HandlerInv(s) /\ CloseInv(s, o) /\ HandlerInv(t)
  BY DEF TeardownInv
<1> USE <1>0 DEF TypeOK, HandlerInv, CloseInv, handlerVars, closeVars, connVars,
            sharedVars, Goto, BeforeReady, AfterReady
<1>1. CASE Validate(t)
  BY <1>1 DEF Validate
<1>2. CASE Upgrade(t)
  BY <1>2 DEF Upgrade
<1>3. CASE Fail(t)
  BY <1>3 DEF Fail
<1>4. CASE GetVncAddress(t)
  BY <1>4 DEF GetVncAddress
<1>5. CASE ConnectToVnc(t)
  BY <1>5 DEF ConnectToVnc
<1>6. CASE SetSession(t)
  BY <1>6 DEF SetSession
<1>7. CASE NewLfsxPeer(t)
  BY <1>7 DEF NewLfsxPeer, AfterLfsx
<1>8. CASE AwaitStartup(t)
  BY <1>8 DEF AwaitStartup, AfterLfsx
<1>9. CASE ConnectToGuacamole(t)
  BY <1>9 DEF ConnectToGuacamole
<1>10. CASE SetConnections(t)
  BY <1>10 DEF SetConnections
<1>11. CASE LockPeers(t)
  BY <1>11 DEF LockPeers
<1>12. CASE Register(t)
  BY <1>12 DEF Register
<1>13. CASE RefuseDuplicate(t)
  BY <1>13 DEF RefuseDuplicate, StartClose, AfterWait
<1>14. CASE FinishDuplicate(t)
  BY <1>14 DEF FinishDuplicate
<1>15. CASE UseGuacamole(t)
  BY <1>15 DEF UseGuacamole
<1>16. CASE Handshake(t)
  BY <1>16 DEF Handshake
<1> QED
  BY <1>1, <1>2, <1>3, <1>4, <1>5, <1>6, <1>7, <1>8, <1>9, <1>10, <1>11, <1>12, <1>13, <1>14, <1>15, <1>16 DEF ProxyStep

\* A step of a Close: what it does adds to what it has done, and nothing it
\* does undoes what another Close has done.
LEMMA TeardownCloseStep ==
    ASSUME TypeOK, TeardownInv, NEW t \in Sessions, NEW p \in Origins,
           CloseStep(t, p)
    PROVE  TeardownInv'
<1> SUFFICES ASSUME NEW s \in Sessions, NEW o \in Origins
             PROVE  HandlerInv(s)' /\ CloseInv(s, o)'
  BY DEF TeardownInv, Origins
<1>0. HandlerInv(s) /\ CloseInv(s, o) /\ HandlerInv(t) /\ CloseInv(t, p)
  BY DEF TeardownInv
<1> USE <1>0 DEF TypeOK, handlerVars, closeVars, connVars, sharedVars, CloseGoto
<1>1. CASE LoadClosed(t, p)
  <2>1. HandlerInv(s)'
    BY <1>1 DEF LoadClosed, HandlerInv
  <2>2. CloseInv(s, o)'
    BY <1>1 DEF LoadClosed, HandlerInv, CloseInv, BeforeReady, AfterWait
  <2>3. QED
    BY <2>1, <2>2
<1>2. CASE StoreClosed(t, p)
  <2>1. HandlerInv(s)'
    BY <1>2 DEF StoreClosed, HandlerInv
  <2>2. CloseInv(s, o)'
    BY <1>2 DEF StoreClosed, HandlerInv, CloseInv, BeforeReady, AfterWait
  <2>3. QED
    BY <2>1, <2>2
<1>3. CASE PollReady(t, p)
  <2>1. HandlerInv(s)'
    BY <1>3 DEF PollReady, HandlerInv
  <2>2. CloseInv(s, o)'
    <3>1. CASE s = t /\ o = p
      BY <1>3, <3>1 DEF PollReady, CloseInv, AfterWait
    <3>2. CASE s # t \/ o # p
      <4>1. cpc'[s][o] = cpc[s][o] /\ (o \in late'[s] <=> o \in late[s])
        BY <1>3, <3>2 DEF PollReady
      <4>2. QED
        BY <1>3, <4>1 DEF PollReady, CloseInv
    <3>3. QED
      BY <3>1, <3>2
  <2>3. QED
    BY <2>1, <2>2
<1>4. CASE CloseLfsx(t, p)
  <2>1. HandlerInv(s)'
    BY <1>4 DEF CloseLfsx, HandlerInv
  <2>2. CloseInv(s, o)'
    BY <1>4 DEF CloseLfsx, HandlerInv, CloseInv, BeforeReady, AfterWait
  <2>3. QED
    BY <2>1, <2>2
<1>5. CASE CloseSource(t, p)
  <2>1. HandlerInv(s)'
    BY <1>5 DEF CloseSource, HandlerInv
  <2>2. CloseInv(s, o)'
    <3>1. ws'[t] = "closed" \/ ws' = ws
      BY <1>5 DEF CloseSource
    <3>2. s # t => ws'[s] = ws[s] /\ cpc'[s] = cpc[s]
      BY <1>5 DEF CloseSource, CloseGotoAndStart
    <3>3. ws' = ws => cpc'[t] = [cpc[t] EXCEPT ![p] = "target"]
      BY <1>5 DEF CloseSource, CloseGotoAndStart
    <3>4. ws' # ws => cpc'[t] = [cpc[t] EXCEPT ![p] = "target",
                                                !["source"] = "load"]
      BY <1>5 DEF CloseSource, CloseGotoAndStart
    <3>5. ready[t] /\ p # "source" => ws'[t] = "closed"
      BY <1>5 DEF CloseSource, MayMiss, HandlerInv, Conn
    <3>6. CASE s # t
      BY <1>5, <3>2, <3>6 DEF CloseSource, CloseInv
    <3>7. CASE s = t /\ o = p
      <4>1. p = "source" => ws' = ws
        BY <1>5 DEF CloseSource
      <4>2. cpc[s][o] = "source" /\ cpc'[s][o] = "target"
        BY <1>5, <3>3, <3>4, <3>7, <4>1 DEF CloseSource, CloseGotoAndStart
      <4>3. QED
        BY <1>5, <3>1, <3>5, <3>7, <4>1, <4>2
           DEF CloseSource, CloseInv, AfterWait
    <3>8. CASE s = t /\ o # p
      BY <1>5, <3>1, <3>3, <3>4, <3>8 DEF CloseSource, CloseInv, AfterWait
    <3>9. QED
      BY <3>6, <3>7, <3>8
  <2>3. QED
    BY <2>1, <2>2
<1>6. CASE CloseTarget(t, p)
  <2>1. HandlerInv(s)'
    BY <1>6 DEF CloseTarget, HandlerInv
  <2>2. CloseInv(s, o)'
    <3>1. vnc'[t] = "closed" \/ vnc' = vnc
      BY <1>6 DEF CloseTarget
    <3>2. s # t => vnc'[s] = vnc[s] /\ cpc'[s] = cpc[s]
      BY <1>6 DEF CloseTarget, CloseGotoAndStart
    <3>3. vnc' = vnc => \E v \in {"guacd", "panicked"} :
                           cpc'[t] = [cpc[t] EXCEPT ![p] = v]
      BY <1>6 DEF CloseTarget, CloseGotoAndStart
    <3>4. vnc' # vnc => cpc'[t] = [cpc[t] EXCEPT ![p] = "guacd",
                                                  !["target"] = "load"]
      BY <1>6 DEF CloseTarget, CloseGotoAndStart
    <3>5. ready[t] /\ p # "target" => vnc'[t] # "open"
      BY <1>6 DEF CloseTarget, MayMiss, HandlerInv
    <3>6. CASE s # t
      BY <1>6, <3>2, <3>6 DEF CloseTarget, CloseInv
    <3>7. CASE s = t /\ o = p
      <4>1. p = "target" => vnc' = vnc
        BY <1>6 DEF CloseTarget
      <4>2. cpc[s][o] = "target" /\ cpc'[s][o] \in {"guacd", "panicked"}
        BY <1>6, <3>3, <3>4, <3>7, <4>1 DEF CloseTarget, CloseGotoAndStart
      <4>3. QED
        BY <1>6, <3>1, <3>5, <3>7, <4>1, <4>2
           DEF CloseTarget, CloseInv, AfterWait
    <3>8. CASE s = t /\ o # p
      BY <1>6, <3>1, <3>3, <3>4, <3>8 DEF CloseTarget, CloseInv, AfterWait
    <3>9. QED
      BY <3>6, <3>7, <3>8
  <2>3. QED
    BY <2>1, <2>2
<1>7. CASE CloseGuacd(t, p)
  <2>1. HandlerInv(s)'
    BY <1>7 DEF CloseGuacd, HandlerInv
  <2>2. CloseInv(s, o)'
    BY <1>7 DEF CloseGuacd, MayFind, MayMiss, HandlerInv, CloseInv, BeforeReady, AfterWait
  <2>3. QED
    BY <2>1, <2>2
<1>8. CASE LockDelete(t, p)
  <2>1. HandlerInv(s)'
    BY <1>8 DEF LockDelete, HandlerInv
  <2>2. CloseInv(s, o)'
    BY <1>8 DEF LockDelete, HandlerInv, CloseInv, BeforeReady, AfterWait
  <2>3. QED
    BY <2>1, <2>2
<1>9. CASE DeletePeer(t, p)
  <2>1. HandlerInv(s)'
    BY <1>9 DEF DeletePeer, HandlerInv
  <2>2. CloseInv(s, o)'
    BY <1>9 DEF DeletePeer, HandlerInv, CloseInv, BeforeReady, AfterWait
  <2>3. QED
    BY <2>1, <2>2
<1> QED
  BY <1>1, <1>2, <1>3, <1>4, <1>5, <1>6, <1>7, <1>8, <1>9 DEF CloseStep

\* The reader of guacd, the other ends of the connections, requests, and the
\* reuse of a session.
LEMMA TeardownOtherStep ==
    ASSUME TypeOK, TeardownInv,
           \/ \E t \in Sessions : ReaderStep(t) \/ Environment(t)
           \/ \E r \in Requests : ServeRequest(r) \/ EndRequest(r)
    PROVE  TeardownInv'
<1> SUFFICES ASSUME NEW s \in Sessions, NEW o \in Origins
             PROVE  HandlerInv(s)' /\ CloseInv(s, o)'
  BY DEF TeardownInv, Origins
<1>0. HandlerInv(s) /\ CloseInv(s, o)
  BY DEF TeardownInv
<1> USE <1>0 DEF TypeOK, HandlerInv, CloseInv, handlerVars, closeVars, connVars,
            sharedVars, StartClose
<1>1. ASSUME NEW t \in Sessions, SetWriter(t) \/ ReaderStops(t)
      PROVE  HandlerInv(s)' /\ CloseInv(s, o)'
  BY <1>1 DEF SetWriter, ReaderStops
<1>2. ASSUME NEW t \in Sessions, ReaderCloses(t)
      PROVE  HandlerInv(s)' /\ CloseInv(s, o)'
  BY <1>2 DEF ReaderCloses, AfterWait
<1>3. ASSUME NEW t \in Sessions, SourceCloses(t)
      PROVE  HandlerInv(s)' /\ CloseInv(s, o)'
  BY <1>3 DEF SourceCloses, AfterWait
<1>4. ASSUME NEW t \in Sessions, OnEngineClose(t)
      PROVE  HandlerInv(s)' /\ CloseInv(s, o)'
  BY <1>4 DEF OnEngineClose, AfterWait
<1>5. ASSUME NEW t \in Sessions, GuacdCloses(t)
      PROVE  HandlerInv(s)' /\ CloseInv(s, o)'
  BY <1>5 DEF GuacdCloses
<1>6. ASSUME NEW t \in Sessions, PingClosed(t) \/ OnSourceMessage(t)
      PROVE  HandlerInv(s)' /\ CloseInv(s, o)'
  BY <1>6 DEF PingClosed, OnSourceMessage
<1>7. ASSUME NEW t \in Sessions, NewCall(t)
      PROVE  HandlerInv(s)' /\ CloseInv(s, o)'
  BY <1>7 DEF NewCall, BeforeReady, AfterReady, AfterWait
<1>8. ASSUME NEW r \in Requests, ServeRequest(r) \/ EndRequest(r)
      PROVE  HandlerInv(s)' /\ CloseInv(s, o)'
  BY <1>8 DEF ServeRequest, EndRequest
<1> QED
  BY <1>1, <1>2, <1>3, <1>4, <1>5, <1>6, <1>7, <1>8 DEF ReaderStep, Environment

\* A step that changes nothing keeps the invariant.
LEMMA TeardownStutter == TeardownInv /\ UNCHANGED vars => TeardownInv'
  BY DEF TeardownInv, HandlerInv, CloseInv, vars

\* The invariant holds in every behaviour.
LEMMA TeardownInvariant == Spec => []TeardownInv
<1>1. TypeOK /\ TeardownInv /\ [Next]_vars => TeardownInv'
  BY TeardownProxyStep, TeardownCloseStep, TeardownOtherStep, TeardownStutter
     DEF Next
<1>2. QED
  BY <1>1, TeardownInit, TypeCorrect, PTL DEF Spec

\* A Close (peer.go) that saw the peer ready leaves no connection of the session
\* open and nothing of it in the keepalive list: for any number of sessions,
\* whatever the interleaving with Proxy, other Closes and lost connections.
THEOREM Teardown == Spec => []TeardownComplete
<1>1. TeardownInv => TeardownComplete
  <2> SUFFICES ASSUME TeardownInv, NEW s \in Sessions, NEW o \in Origins,
                      cpc[s][o] = "done", o \notin late[s]
               PROVE  TornDown(s)
    BY DEF TeardownComplete
  <2>1. CloseInv(s, o)
    BY DEF TeardownInv
  <2>2. QED
    BY <2>1 DEF CloseInv, AfterWait, TornDown
<1>2. QED
  BY <1>1, TeardownInvariant, PTL

-----------------------------------------------------------------------------
(* RefusedLeavesEntry.                                                     *)

\* A Guacamole session is used once it is registered and not before, and a
\* Close that found the peer ready gets past the target only of a used one.
RefusedInvOf(s, o) ==
    s \in viaGuacd =>
        /\ used[s] => pc[s] \in {"handshake", "served"}
        /\ cpc[s][o] \in {"guacd", "lock", "delete", "done"} /\ o \notin late[s]
               => used[s]

RefusedInv == \A s \in Sessions, o \in Origins : RefusedInvOf(s, o)

\* A handler starts a Close at its beginning, and registers before it uses the
\* connection to guacd.
LEMMA RefusedProxyStep ==
    ASSUME TypeOK, RefusedInv, NEW t \in Sessions, ProxyStep(t)
    PROVE  RefusedInv'
<1> SUFFICES ASSUME NEW s \in Sessions, NEW o \in Origins
             PROVE  RefusedInvOf(s, o)'
  BY DEF RefusedInv, Origins
<1>a. RefusedInvOf(s, o)
  BY DEF RefusedInv
<1> USE <1>a DEF TypeOK, RefusedInvOf, handlerVars, closeVars, connVars, sharedVars,
            Goto, Origins
<1>1. CASE RefuseDuplicate(t)
  BY <1>1 DEF RefuseDuplicate, StartClose
<1>2. CASE UseGuacamole(t)
  BY <1>2 DEF UseGuacamole
<1>3. CASE Handshake(t)
  BY <1>3 DEF Handshake
<1>4. CASE Validate(t) \/ Upgrade(t) \/ Fail(t) \/ GetVncAddress(t)
  BY <1>4 DEF Validate, Upgrade, Fail, GetVncAddress
<1>5. CASE ConnectToVnc(t) \/ SetSession(t) \/ NewLfsxPeer(t) \/ AwaitStartup(t)
  BY <1>5 DEF ConnectToVnc, SetSession, NewLfsxPeer, AwaitStartup, AfterLfsx
<1>6. CASE ConnectToGuacamole(t) \/ SetConnections(t) \/ LockPeers(t)
  BY <1>6 DEF ConnectToGuacamole, SetConnections, LockPeers
<1>7. CASE Register(t) \/ FinishDuplicate(t)
  BY <1>7 DEF Register, FinishDuplicate
<1> QED
  BY <1>1, <1>2, <1>3, <1>4, <1>5, <1>6, <1>7 DEF ProxyStep

\* A Close: CloseTarget is where one of an unused session ends.
LEMMA RefusedCloseStep ==
    ASSUME TypeOK, TeardownInv, RefusedInv, NEW t \in Sessions,
           NEW p \in Origins, CloseStep(t, p)
    PROVE  RefusedInv'
<1> SUFFICES ASSUME NEW s \in Sessions, NEW o \in Origins
             PROVE  RefusedInvOf(s, o)'
  BY DEF RefusedInv, Origins
<1>a. RefusedInvOf(s, o)
  BY DEF RefusedInv
<1>0. HandlerInv(t) /\ CloseInv(t, p)
  BY DEF TeardownInv
<1> USE <1>a DEF TypeOK, RefusedInvOf, handlerVars, closeVars, connVars, sharedVars,
            CloseGoto, Origins
<1>1. CASE LoadClosed(t, p)
  BY <1>1 DEF LoadClosed
<1>2. CASE StoreClosed(t, p)
  BY <1>2 DEF StoreClosed
<1>3. CASE PollReady(t, p)
  <2>1. PICK v \in {"wait", "lfsx"} : cpc' = [cpc EXCEPT ![t][p] = v]
    BY <1>3 DEF PollReady
  <2>2. s # t \/ o # p => (o \in late'[s] <=> o \in late[s])
    BY <1>3 DEF PollReady
  <2>3. UNCHANGED <<viaGuacd, used, pc>>
    BY <1>3 DEF PollReady
  <2>4. QED
    BY <2>1, <2>2, <2>3
<1>4. CASE CloseLfsx(t, p)
  BY <1>4 DEF CloseLfsx
<1>5. CASE CloseSource(t, p)
  <2>1. \/ cpc' = [cpc EXCEPT ![t][p] = "target"]
        \/ cpc' = [cpc EXCEPT ![t] = [@ EXCEPT ![p] = "target",
                                               !["source"] = "load"]]
    BY <1>5 DEF CloseSource, CloseGotoAndStart
  <2>2. UNCHANGED <<viaGuacd, used, pc, late>>
    BY <1>5 DEF CloseSource
  <2>3. CASE cpc' = [cpc EXCEPT ![t][p] = "target"]
    BY <2>2, <2>3
  <2>4. CASE cpc' = [cpc EXCEPT ![t] = [@ EXCEPT ![p] = "target",
                                                 !["source"] = "load"]]
    BY <2>2, <2>4
  <2>5. QED
    BY <2>1, <2>3, <2>4
<1>6. CASE CloseTarget(t, p)
  <2>0. UNCHANGED <<viaGuacd, used, pc, late>>
    BY <1>6 DEF CloseTarget
  <2>1. CASE t \in viaGuacd
    <3>1. p # "target" /\ vnc[t] = "none"
      BY <1>0, <1>6, <2>1 DEF CloseTarget, CloseGotoAndStart, HandlerInv, CloseInv
    <3>2. p \notin late[t] => ready[t]
      BY <1>0, <1>6 DEF CloseTarget, CloseGotoAndStart, CloseInv, AfterWait
    <3>3. \/ cpc' = [cpc EXCEPT ![t][p] = "panicked"]
          \/ /\ cpc' = [cpc EXCEPT ![t][p] = "guacd"]
             /\ ~ready[t] \/ used[t]
      BY <1>6, <2>1, <3>1 DEF CloseTarget, MayMiss
    <3>4. CASE cpc' = [cpc EXCEPT ![t][p] = "panicked"]
      BY <2>0, <3>4
    <3>5. CASE cpc' = [cpc EXCEPT ![t][p] = "guacd"] /\ (p \in late[t] \/ used[t])
      BY <2>0, <3>5
    <3>6. QED
      BY <3>2, <3>3, <3>4, <3>5
  <2>2. CASE t \notin viaGuacd
    <3>1. s # t => cpc'[s] = cpc[s]
      BY <1>6 DEF CloseTarget, CloseGotoAndStart
    <3>2. QED
      BY <2>0, <2>2, <3>1
  <2>3. QED
    BY <2>1, <2>2
<1>7. CASE CloseGuacd(t, p)
  BY <1>7 DEF CloseGuacd
<1>8. CASE LockDelete(t, p)
  BY <1>8 DEF LockDelete
<1>9. CASE DeletePeer(t, p)
  BY <1>9 DEF DeletePeer
<1> QED
  BY <1>1, <1>2, <1>3, <1>4, <1>5, <1>6, <1>7, <1>8, <1>9 DEF CloseStep

\* Every other step starts a Close at most, or begins a session anew.
LEMMA RefusedOtherStep ==
    ASSUME TypeOK, RefusedInv,
           \/ \E t \in Sessions : ReaderStep(t) \/ Environment(t)
           \/ \E r \in Requests : ServeRequest(r) \/ EndRequest(r)
    PROVE  RefusedInv'
<1> SUFFICES ASSUME NEW s \in Sessions, NEW o \in Origins
             PROVE  RefusedInvOf(s, o)'
  BY DEF RefusedInv, Origins
<1>a. RefusedInvOf(s, o)
  BY DEF RefusedInv
<1> USE <1>a DEF TypeOK, RefusedInvOf, handlerVars, closeVars, connVars, sharedVars,
            StartClose, Origins
<1>1. ASSUME NEW t \in Sessions, ReaderStep(t)  PROVE RefusedInvOf(s, o)'
  <2>1. cpc' = cpc \/ cpc' = [cpc EXCEPT ![t]["guacd"] = "load"]
    BY <1>1 DEF ReaderStep, SetWriter, ReaderCloses, ReaderStops
  <2>2. UNCHANGED <<viaGuacd, used, pc, late>>
    BY <1>1 DEF ReaderStep, SetWriter, ReaderCloses, ReaderStops
  <2>3. CASE cpc' = [cpc EXCEPT ![t]["guacd"] = "load"]
    BY <2>2, <2>3
  <2>4. QED
    BY <2>1, <2>2, <2>3
<1>2. ASSUME NEW t \in Sessions, SourceCloses(t) \/ OnEngineClose(t)
      PROVE  RefusedInvOf(s, o)'
  <2>1. \/ cpc' = cpc
        \/ \E q \in Origins : cpc' = [cpc EXCEPT ![t][q] = "load"]
    BY <1>2 DEF SourceCloses, OnEngineClose
  <2>2. UNCHANGED <<viaGuacd, used, pc, late>>
    BY <1>2 DEF SourceCloses, OnEngineClose
  <2>3. ASSUME NEW q \in Origins, cpc' = [cpc EXCEPT ![t][q] = "load"]
        PROVE  RefusedInvOf(s, o)'
    BY <2>2, <2>3
  <2>4. QED
    BY <2>1, <2>2, <2>3
<1>3. ASSUME NEW t \in Sessions,
             GuacdCloses(t) \/ PingClosed(t) \/ OnSourceMessage(t)
      PROVE  RefusedInvOf(s, o)'
  BY <1>3 DEF GuacdCloses, PingClosed, OnSourceMessage
<1>4. ASSUME NEW t \in Sessions, NewCall(t)  PROVE RefusedInvOf(s, o)'
  BY <1>4 DEF NewCall
<1>5. ASSUME NEW r \in Requests, ServeRequest(r) \/ EndRequest(r)
      PROVE  RefusedInvOf(s, o)'
  BY <1>5 DEF ServeRequest, EndRequest
<1> QED
  BY <1>1, <1>2, <1>3, <1>4, <1>5 DEF Environment

\* A Guacamole session that is refused as a duplicate does not take away the
\* entry of the session it is refused for (proxy.go:221, peer.go:176).
THEOREM RefusalTakesNothing == Spec => []RefusedLeavesEntry
<1>1. Init => RefusedInv
  BY DEF Init, RefusedInv, RefusedInvOf
<1>2. RefusedInv /\ UNCHANGED vars => RefusedInv'
  BY DEF RefusedInv, RefusedInvOf, vars
<1>3. TypeOK /\ TeardownInv /\ RefusedInv /\ [Next]_vars => RefusedInv'
  BY <1>2, RefusedProxyStep, RefusedCloseStep, RefusedOtherStep DEF Next
<1>4. TypeOK /\ RefusedInv => RefusedLeavesEntry
  <2> SUFFICES ASSUME TypeOK, RefusedInv, NEW s \in viaGuacd, NEW o \in Origins,
                      pc[s] \in {"dup", "refused", "panicked"}, o \notin late[s]
               PROVE  cpc[s][o] \notin {"lock", "delete", "done"}
    BY DEF RefusedLeavesEntry
  <2>1. RefusedInvOf(s, o)
    BY DEF RefusedInv, TypeOK
  <2>2. QED
    BY <2>1 DEF RefusedInvOf
<1>5. QED
  BY <1>1, <1>3, <1>4, TypeCorrect, TeardownInvariant, PTL DEF Spec

-----------------------------------------------------------------------------
(* The map of peers.                                                       *)

\* Every step other than Register and DeletePeer leaves the map alone.
MapUnchanged == UNCHANGED peers

\* A step of Next is a Register, a DeletePeer or leaves the map alone.
LEMMA MapSteps ==
    ASSUME [Next]_vars
    PROVE  \/ MapUnchanged
           \/ \E s \in Sessions : Register(s)
           \/ \E s \in Sessions, o \in Origins : DeletePeer(s, o)
<1> USE DEF MapUnchanged, sharedVars
<1>1. ASSUME NEW s \in Sessions, ProxyStep(s)
      PROVE  MapUnchanged \/ Register(s)
  BY <1>1 DEF ProxyStep, Validate, Upgrade, Fail, GetVncAddress, ConnectToVnc,
              SetSession, NewLfsxPeer, AwaitStartup, ConnectToGuacamole,
              SetConnections, LockPeers, RefuseDuplicate, FinishDuplicate,
              UseGuacamole, Handshake
<1>2. ASSUME NEW s \in Sessions, NEW o \in Origins, CloseStep(s, o)
      PROVE  MapUnchanged \/ DeletePeer(s, o)
  BY <1>2 DEF CloseStep, LoadClosed, StoreClosed, PollReady, CloseLfsx,
              CloseSource, CloseTarget, CloseGuacd, LockDelete
<1>3. ASSUME NEW s \in Sessions, ReaderStep(s) \/ Environment(s)
      PROVE  MapUnchanged
  BY <1>3 DEF ReaderStep, SetWriter, ReaderCloses, ReaderStops, Environment,
              SourceCloses, OnEngineClose, GuacdCloses, PingClosed,
              OnSourceMessage, NewCall
<1>4. ASSUME NEW r \in Requests, ServeRequest(r) \/ EndRequest(r)
      PROVE  MapUnchanged
  BY <1>4 DEF ServeRequest, EndRequest
<1>5. CASE UNCHANGED vars
  BY <1>5 DEF vars
<1> QED
  BY <1>1, <1>2, <1>3, <1>4, <1>5 DEF Next

\* While a request of a user is served, the user's entry does not change.
THEOREM EntryStableWhileServed == Spec => ServedEntryStable
<1>1. TypeOK /\ [Next]_vars =>
          \A r \in serving : peers'[RequestUser[r]] = peers[RequestUser[r]]
  BY MapSteps DEF MapUnchanged, Register, DeletePeer, Locked
<1>2. QED
  BY <1>1, TypeCorrect, PTL DEF Spec, ServedEntryStable

\* Only the reuse of a session takes ready back.
LEMMA ReadySteps ==
    ASSUME TypeOK, [Next]_vars, NEW s \in Sessions, ready[s], ~ready'[s]
    PROVE  NewCall(s)
<1>1. ASSUME NEW t \in Sessions, ProxyStep(t)
      PROVE  UNCHANGED ready \/ SetConnections(t)
  BY <1>1 DEF ProxyStep, Validate, Upgrade, Fail, GetVncAddress, ConnectToVnc,
              SetSession, NewLfsxPeer, AwaitStartup, ConnectToGuacamole,
              LockPeers, Register, RefuseDuplicate, FinishDuplicate,
              UseGuacamole, Handshake, handlerVars
<1>2. ASSUME NEW t \in Sessions, SetConnections(t)
      PROVE  FALSE
  BY <1>2 DEF SetConnections, TypeOK
<1>3. ASSUME NEW t \in Sessions, NEW o \in Origins, CloseStep(t, o)
      PROVE  UNCHANGED ready
  BY <1>3 DEF CloseStep, LoadClosed, StoreClosed, PollReady, CloseLfsx,
              CloseSource, CloseTarget, CloseGuacd, LockDelete, DeletePeer,
              handlerVars
<1>4. ASSUME NEW t \in Sessions, ReaderStep(t) \/ Environment(t)
      PROVE  UNCHANGED ready \/ NewCall(t)
  BY <1>4 DEF ReaderStep, SetWriter, ReaderCloses, ReaderStops, Environment,
              SourceCloses, OnEngineClose, GuacdCloses, PingClosed,
              OnSourceMessage, handlerVars
<1>5. ASSUME NEW t \in Sessions, NewCall(t), t # s
      PROVE  FALSE
  BY <1>5 DEF NewCall, TypeOK
<1>6. ASSUME NEW r \in Requests, ServeRequest(r) \/ EndRequest(r)
      PROVE  UNCHANGED ready
  BY <1>6 DEF ServeRequest, EndRequest, handlerVars
<1>7. CASE UNCHANGED vars
  BY <1>7 DEF vars
<1> QED
  BY <1>1, <1>2, <1>3, <1>4, <1>5, <1>6, <1>7 DEF Next

\* A peer in the map belongs to the user it is found under and has all its
\* connections set.
THEOREM Registered == Spec => []RegisteredReady
<1>1. Init => RegisteredReady
  BY NoneAssumption DEF Init, RegisteredReady
<1>2. TypeOK /\ TeardownInv /\ RegisteredReady /\ [Next]_vars
          => RegisteredReady'
  <2> SUFFICES ASSUME TypeOK, TeardownInv, RegisteredReady, [Next]_vars,
                      NEW u \in Users, NEW s \in Sessions, peers'[u] = s
               PROVE  UserOf[s] = u /\ ready'[s]
    BY DEF RegisteredReady
  <2>1. ASSUME NEW t \in Sessions, Register(t), peers[u] # s
        PROVE  UserOf[s] = u /\ ready'[s]
    <3>1. t = s /\ UserOf[s] = u
      BY <2>1, SessionAssumption DEF Register, TypeOK
    <3>2. ready[s]
      BY <2>1, <3>1 DEF Register, Goto, TeardownInv, HandlerInv, AfterReady
    <3>3. QED
      BY <2>1, <3>1, <3>2 DEF Register, handlerVars
  <2>2. CASE peers[u] = s
    BY <2>2, ReadySteps DEF RegisteredReady, NewCall
  <2>3. ASSUME NEW t \in Sessions, NEW o \in Origins, DeletePeer(t, o)
        PROVE  peers[u] = s
    BY <2>3, NoneAssumption, SessionAssumption DEF DeletePeer, TypeOK
  <2>4. QED
    BY <2>1, <2>2, <2>3, MapSteps DEF MapUnchanged
<1>3. QED
  BY <1>1, <1>2, TeardownInvariant, TypeCorrect, PTL DEF Spec

-----------------------------------------------------------------------------
(* peerSync.  The handler's own Close never gets past LockDelete, because   *)
(* the handler holds the lock: that keeps the two uses of <<s, "proxy">>    *)
(* as a holder apart.                                                       *)

LockInvOf(s) ==
    /\ pc[s] \in {"use", "handshake", "dup"} =>
           writer = <<s, "proxy">> /\ serving = {}
    /\ pc[s] = "register" => writer = <<s, "proxy">>
    /\ \A o \in Origins : cpc[s][o] = "delete" => writer = <<s, o>>
    /\ cpc[s]["proxy"] \notin Finished \cup {"idle"} => pc[s] = "dup"
    /\ cpc[s]["proxy"] # "delete"

LockInv == \A s \in Sessions : LockInvOf(s)

\* A handler enters and leaves the critical section with the lock.
LEMMA LockProxyStep ==
    ASSUME TypeOK, LockInv, NEW t \in Sessions, ProxyStep(t)
    PROVE  LockInv'
<1> SUFFICES ASSUME NEW s \in Sessions
             PROVE  LockInvOf(s)'
  BY DEF LockInv
<1> USE NoneAssumption DEF TypeOK, LockInv, LockInvOf, handlerVars,
        closeVars, connVars, sharedVars, Goto, Origins
<1>1. CASE LockPeers(t)
  BY <1>1 DEF LockPeers, BeginLock
<1>2. CASE Register(t)
  BY <1>2 DEF Register, Locked
<1>3. CASE RefuseDuplicate(t)
  BY <1>3 DEF RefuseDuplicate, Locked, StartClose
<1>4. CASE FinishDuplicate(t)
  BY <1>4 DEF FinishDuplicate
<1>5. CASE Handshake(t)
  BY <1>5 DEF Handshake
<1>6. CASE UseGuacamole(t)
  BY <1>6 DEF UseGuacamole
<1>7. CASE Validate(t) \/ Upgrade(t) \/ Fail(t) \/ GetVncAddress(t)
  BY <1>7 DEF Validate, Upgrade, Fail, GetVncAddress
<1>8. CASE ConnectToVnc(t) \/ SetSession(t) \/ NewLfsxPeer(t) \/ AwaitStartup(t)
  BY <1>8 DEF ConnectToVnc, SetSession, NewLfsxPeer, AwaitStartup, AfterLfsx
<1>9. CASE ConnectToGuacamole(t) \/ SetConnections(t)
  BY <1>9 DEF ConnectToGuacamole, SetConnections
<1> QED
  BY <1>1, <1>2, <1>3, <1>4, <1>5, <1>6, <1>7, <1>8, <1>9 DEF ProxyStep

\* So does a Close.
LEMMA LockCloseStep ==
    ASSUME TypeOK, LockInv, NEW t \in Sessions, NEW p \in Origins,
           CloseStep(t, p)
    PROVE  LockInv'
<1> SUFFICES ASSUME NEW s \in Sessions
             PROVE  LockInvOf(s)'
  BY DEF LockInv
<1> USE NoneAssumption DEF TypeOK, LockInv, LockInvOf, handlerVars, closeVars,
        connVars, sharedVars, CloseGoto, CloseGotoAndStart, Origins, Finished
<1>1. CASE LoadClosed(t, p)
  BY <1>1 DEF LoadClosed
<1>2. CASE StoreClosed(t, p)
  BY <1>2 DEF StoreClosed
<1>3. CASE PollReady(t, p)
  <2>1. PICK v \in {"wait", "lfsx"} : cpc' = [cpc EXCEPT ![t][p] = v]
    BY <1>3 DEF PollReady
  <2>2. cpc[t][p] = "wait" /\ UNCHANGED <<pc, writer, serving>>
    BY <1>3 DEF PollReady
  <2>3. QED
    BY <2>1, <2>2
<1>4. CASE CloseLfsx(t, p)
  BY <1>4 DEF CloseLfsx
<1>5. CASE CloseSource(t, p)
  <2>1. \/ \E v \in {"target", "guacd", "panicked"} :
               cpc' = [cpc EXCEPT ![t][p] = v]
        \/ \E v \in {"target", "guacd"}, q \in {"source", "target"} :
               /\ p # q
               /\ cpc' = [cpc EXCEPT ![t] = [@ EXCEPT ![p] = v, ![q] = "load"]]
    BY <1>5 DEF CloseSource
  <2>2. /\ cpc[t][p] \notin Finished \cup {"idle"}
        /\ UNCHANGED <<pc, writer, serving>>
    BY <1>5 DEF CloseSource
  <2>3. CASE \E v \in {"target", "guacd", "panicked"} :
                 cpc' = [cpc EXCEPT ![t][p] = v]
    BY <2>2, <2>3
  <2>4. CASE \E v \in {"target", "guacd"}, q \in {"source", "target"} :
               /\ p # q
               /\ cpc' = [cpc EXCEPT ![t] = [@ EXCEPT ![p] = v, ![q] = "load"]]
    BY <2>2, <2>4
  <2>5. QED
    BY <2>1, <2>3, <2>4
<1>6. CASE CloseTarget(t, p)
  <2>1. \/ \E v \in {"target", "guacd", "panicked"} :
               cpc' = [cpc EXCEPT ![t][p] = v]
        \/ \E v \in {"target", "guacd"}, q \in {"source", "target"} :
               /\ p # q
               /\ cpc' = [cpc EXCEPT ![t] = [@ EXCEPT ![p] = v, ![q] = "load"]]
    BY <1>6 DEF CloseTarget
  <2>2. /\ cpc[t][p] \notin Finished \cup {"idle"}
        /\ UNCHANGED <<pc, writer, serving>>
    BY <1>6 DEF CloseTarget
  <2>3. CASE \E v \in {"target", "guacd", "panicked"} :
                 cpc' = [cpc EXCEPT ![t][p] = v]
    BY <2>2, <2>3
  <2>4. CASE \E v \in {"target", "guacd"}, q \in {"source", "target"} :
               /\ p # q
               /\ cpc' = [cpc EXCEPT ![t] = [@ EXCEPT ![p] = v, ![q] = "load"]]
    BY <2>2, <2>4
  <2>5. QED
    BY <2>1, <2>3, <2>4
<1>7. CASE CloseGuacd(t, p)
  BY <1>7 DEF CloseGuacd
<1>8. CASE LockDelete(t, p)
  <2>1. cpc[t][p] = "lock" /\ writer = None
    BY <1>8 DEF LockDelete, BeginLock
  <2>2. p # "proxy"
    <3>1. <<t, "proxy">> # None
      BY NoneAssumption
    <3>2. cpc[t]["proxy"] = "lock" => pc[t] = "dup"
      OBVIOUS
    <3>3. QED
      BY <2>1, <3>1, <3>2
  <2>3. QED
    BY <1>8, <2>2 DEF LockDelete, BeginLock
<1>9. CASE DeletePeer(t, p)
  BY <1>9 DEF DeletePeer, Locked
<1> QED
  BY <1>1, <1>2, <1>3, <1>4, <1>5, <1>6, <1>7, <1>8, <1>9 DEF CloseStep

\* No other step touches the write side of the lock.
LEMMA LockOtherStep ==
    ASSUME TypeOK, LockInv,
           \/ \E t \in Sessions : ReaderStep(t) \/ Environment(t)
           \/ \E r \in Requests : ServeRequest(r) \/ EndRequest(r)
    PROVE  LockInv'
<1> SUFFICES ASSUME NEW s \in Sessions
             PROVE  LockInvOf(s)'
  BY DEF LockInv
<1> USE NoneAssumption DEF TypeOK, LockInv, LockInvOf, handlerVars, closeVars,
        connVars, sharedVars, StartClose, Origins, Finished
<1>1. ASSUME NEW t \in Sessions, ReaderStep(t)  PROVE LockInvOf(s)'
  <2>1. cpc' = cpc \/ cpc' = [cpc EXCEPT ![t]["guacd"] = "load"]
    BY <1>1 DEF ReaderStep, SetWriter, ReaderCloses, ReaderStops
  <2>2. UNCHANGED <<pc, writer, serving>>
    BY <1>1 DEF ReaderStep, SetWriter, ReaderCloses, ReaderStops
  <2>3. CASE cpc' = cpc
    BY <2>2, <2>3
  <2>4. CASE cpc' = [cpc EXCEPT ![t]["guacd"] = "load"]
    BY <2>2, <2>4
  <2>5. QED
    BY <2>1, <2>3, <2>4
<1>2. ASSUME NEW t \in Sessions, SourceCloses(t)  PROVE LockInvOf(s)'
  BY <1>2 DEF SourceCloses
<1>3. ASSUME NEW t \in Sessions, OnEngineClose(t)  PROVE LockInvOf(s)'
  <2>1. cpc' = cpc \/ cpc' = [cpc EXCEPT ![t]["target"] = "load"]
    BY <1>3 DEF OnEngineClose
  <2>2. UNCHANGED <<pc, writer, serving>>
    BY <1>3 DEF OnEngineClose
  <2>3. CASE cpc' = cpc
    BY <2>2, <2>3
  <2>4. CASE cpc' = [cpc EXCEPT ![t]["target"] = "load"]
    BY <2>2, <2>4
  <2>5. QED
    BY <2>1, <2>3, <2>4
<1>4. ASSUME NEW t \in Sessions,
             GuacdCloses(t) \/ PingClosed(t) \/ OnSourceMessage(t)
      PROVE  LockInvOf(s)'
  BY <1>4 DEF GuacdCloses, PingClosed, OnSourceMessage
<1>5. ASSUME NEW t \in Sessions, NewCall(t)  PROVE LockInvOf(s)'
  BY <1>5 DEF NewCall, Returned
<1>6. ASSUME NEW r \in Requests, ServeRequest(r)  PROVE LockInvOf(s)'
  BY <1>6 DEF ServeRequest
<1>7. ASSUME NEW r \in Requests, EndRequest(r)  PROVE LockInvOf(s)'
  BY <1>7 DEF EndRequest
<1> QED
  BY <1>1, <1>2, <1>3, <1>4, <1>5, <1>6, <1>7 DEF Environment

\* The critical sections of peerSync exclude each other, and a handshake with
\* guacd, which runs in one of them, excludes the requests of all users.
THEOREM PeerSync == Spec => []PeerSyncExclusive
<1>1. Init => LockInv
  BY DEF Init, LockInv, LockInvOf, Finished, Origins
<1>2. LockInv /\ UNCHANGED vars => LockInv'
  BY DEF LockInv, LockInvOf, vars
<1>3. TypeOK /\ LockInv /\ [Next]_vars => LockInv'
  BY <1>2, LockProxyStep, LockCloseStep, LockOtherStep DEF Next
<1>4. LockInv => PeerSyncExclusive
  BY DEF LockInv, LockInvOf, PeerSyncExclusive
<1>5. QED
  BY <1>1, <1>3, <1>4, TypeCorrect, PTL DEF Spec
=============================================================================
