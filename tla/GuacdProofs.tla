---------------------------- MODULE GuacdProofs ----------------------------
(***************************************************************************)
(* What guacd's map gives out is alive, and the owner of a process is the  *)
(* user who created it, for any number of connections.                     *)
(*                                                                         *)
(* Neither is inductive.  A record is freed by the thread that is past its *)
(* removal from the map, so the map has to be tied to where the threads    *)
(* stand.  And a user who joins is never first in a socket because the     *)
(* creator adds its process to the map only after it has sent its own      *)
(* descriptor: from then on either the descriptor is still in front, or it *)
(* has been received and there is an owner, or the child is gone.          *)
(***************************************************************************)
EXTENDS Guacd, TLAPS

(* An id is in its bucket exactly while its thread waits for the child or  *)
(* removes it, and the list has the same ids (proc-map.c).                 *)
MapFollowsThread ==
    /\ processes = bucket
    /\ \A c \in Conns : c \in bucket <=> pc[c] \in {"wait", "rm1", "rm2"}

(* From its creation to guac_mem_free the thread of a process has a valid  *)
(* record (guacd_route_connection).                                        *)
Owns(c) ==
    \/ pc[c] \in {"add1", "add2", "wait", "rm1", "rm2", "stop", "stopwait"}
    \/ pc[c] = "send" /\ tgt[c] = c

RecordLive == \A c \in Conns : Owns(c) => proc[c] = "valid"

(* What a connection asks for is an id, and not its own.                   *)
TargetChosen ==
    \A c \in Conns : /\ pc[c] \in {"find", "send"} => tgt[c] \in Conns
                     /\ pc[c] = "find" => tgt[c] # c

(* The descriptor of the creator was sent, and received if it is not in    *)
(* the socket any more, or nothing can be received.                        *)
HasSent(p) == owner[p] # None \/ queue[p] # <<>> \/ sock[p] = "closed"

CreatorFirst ==
    /\ \A p \in Conns :
          pc[p] \in {"idle", "select", "find", "create", "send"} => queue[p] = <<>>
    /\ \A p \in Conns :
          pc[p] \in {"add1", "add2", "wait", "rm1", "rm2"} => HasSent(p)
    /\ \A c \in Conns :
          pc[c] = "send" /\ tgt[c] # c =>
              /\ pc[tgt[c]] \in {"wait", "rm1", "rm2", "stop", "stopwait", "done"}
              /\ HasSent(tgt[c])
    /\ \A p \in Conns : owner[p] = None /\ queue[p] # <<>> => Head(queue[p]) = p

IInv == TypeOK /\ MapFollowsThread /\ RecordLive /\ TargetChosen /\ CreatorFirst /\ OwnerIsCreator

USE GuacdConsts

-----------------------------------------------------------------------------
(* The steps by what they leave alone.                                     *)

(* main() and the I/O threads change nothing of the map and the children,  *)
(* but for a pending signal.                                               *)
AsideStep ==
    \/ MainStep \/ StopSignal
    \/ \E c \in Conns : IoStep(c)

AsideVars == <<pc, tgt, bucket, processes, proc, child, queue, sock, client, owner, freeing, user, bucketLock>>

(* The children and their users never touch the parent's records.          *)
InChildStep ==
    \E c \in Conns : \/ ChildStep(c) \/ Signalled(c) \/ ClientFreed(c)
                     \/ UserJoins(c) \/ UserLeaves(c) \/ UserThreadEnds(c)

(* A step, as the proofs take it apart.                                    *)
LEMMA NextCases ==
    Next <=> \/ AsideStep \/ InChildStep
             \/ \E c \in Conns : Accept(c) \/ ConnStep(c)
BY Zenon DEF Next, AsideStep, InChildStep

(* main() and the I/O threads leave the map and the children alone.        *)
LEMMA AsideLeaves == AsideStep => UNCHANGED AsideVars
<1> USE DEF AsideVars, Fixed, mapVars, childVars, ioVars, daemonVars
<1>1. MainStep => UNCHANGED AsideVars
  BY DEF MainStep, LoadConfig, BindAddress, SetUpTls, Daemonize, Listen, LoopTest,
         EnterAccept, LockProcesses, ProcessStopped, MainReturns, StopProcess
<1>2. StopSignal => UNCHANGED AsideVars
  BY DEF StopSignal
<1>3. \A c \in Conns : IoStep(c) => UNCHANGED AsideVars
  BY DEF IoStep, PeerCloses, PeerSends, IoThreadEnds, WriteThreadEnds, IoUnchanged
<1> QED  BY <1>1, <1>2, <1>3 DEF AsideStep

(* A child process leaves the threads and the map of guacd alone.          *)
LEMMA InChildLeaves == InChildStep => ParentUnchanged
BY Zenon DEF InChildStep, ChildStep, SetPgid, LoadPlugin, RecvFd, RecvEnd, StartFree, TimedWaitEnds,
       Reap, Exit, Signalled, ClientFreed, UserJoins, UserLeaves, UserThreadEnds

-----------------------------------------------------------------------------
(* Types.                                                                  *)

(* The types of what the parts of guacd change.                            *)
TypeDaemon ==
    /\ daemon \in {"load", "bind", "tls", "daemonize", "listen", "loop", "enter", "accept",
                  "lock", "foreach", "waitgroup", "exited"}
    /\ stopFlag \in BOOLEAN /\ visited \subseteq Conns /\ killing \in Conns \cup {None}
    /\ listLock \in {"main", None}

TypeThreads == pc \in [Conns -> ConnPc] /\ tgt \in [Conns -> Conns \cup {None}]

TypeMap ==
    /\ bucketLock \in [Conns -> Conns \cup {None}]
    /\ bucket \subseteq Conns /\ processes \subseteq Conns
    /\ proc \in [Conns -> {"none", "valid", "freed"}]

TypeChild ==
    /\ child \in [Conns -> ChildPc]
    /\ queue \in [Conns -> Seq(Conns)]
    /\ sock \in [Conns -> {"open", "closed"}]
    /\ client \in [Conns -> {"none", "running", "stopping"}]
    /\ owner \in [Conns -> Conns \cup {None}]
    /\ freeing \in [Conns -> {"none", "run", "completed"}]
    /\ user \in [Conns -> UserPc]

TypeTerm == term \in [Conns -> BOOLEAN]

TypeIo ==
    /\ io \in [Conns -> {"none", "run", "join", "end"}]
    /\ peer \in [Conns -> {"none", "open", "sent", "closed"}]

(* The type invariant in parts, one for each group of variables.           *)
LEMMA TypeParts ==
    /\ TypeOK <=> TypeDaemon /\ TypeThreads /\ TypeMap /\ TypeChild /\ TypeTerm /\ TypeIo
    /\ TypeOK' <=> TypeDaemon' /\ TypeThreads' /\ TypeMap' /\ TypeChild' /\ TypeTerm' /\ TypeIo'
BY Zenon DEF TypeOK, TypeDaemon, TypeThreads, TypeMap, TypeChild, TypeTerm, TypeIo

(* A part keeps its type when its variables are left alone.                *)
LEMMA TypeUnchanged ==
    /\ TypeDaemon /\ UNCHANGED <<daemonVars, listLock>> => TypeDaemon'
    /\ TypeThreads /\ UNCHANGED <<pc, tgt>> => TypeThreads'
    /\ TypeMap /\ UNCHANGED <<mapVars, proc>> => TypeMap'
    /\ TypeChild /\ UNCHANGED <<child, queue, sock, client, owner, freeing, user>> => TypeChild'
    /\ TypeTerm /\ UNCHANGED term => TypeTerm'
    /\ TypeIo /\ UNCHANGED ioVars => TypeIo'
BY DEF TypeDaemon, TypeThreads, TypeMap, TypeChild, TypeTerm, TypeIo, daemonVars, mapVars, ioVars

(* main() (daemon.c) keeps the types of its own state.                     *)
LEMMA TypeDaemonStep == TypeOK /\ Next => TypeDaemon'
<1> SUFFICES ASSUME TypeOK, Next PROVE TypeDaemon'
  OBVIOUS
<1> USE TypeParts DEF daemonVars
<1>1. CASE MainStep \/ StopSignal
  <2> USE DEF TypeDaemon, MainGoto, Fixed
  <2>1. CASE LoadConfig \/ BindAddress \/ SetUpTls \/ Daemonize \/ Listen
    BY <2>1 DEF LoadConfig, BindAddress, SetUpTls, Daemonize, Listen
  <2>2. CASE LoopTest \/ EnterAccept \/ ProcessStopped \/ StopSignal
    BY <2>2 DEF LoopTest, EnterAccept, ProcessStopped, StopSignal
  <2>3. CASE LockProcesses \/ MainReturns
    BY <2>3 DEF LockProcesses, MainReturns
  <2>4. ASSUME NEW p \in Conns, StopProcess(p) PROVE TypeDaemon'
    BY <2>4 DEF StopProcess
  <2> QED  BY <1>1, <2>1, <2>2, <2>3, <2>4 DEF MainStep
<1>2. ASSUME NEW c \in Conns, Accept(c) PROVE TypeDaemon'
  BY <1>2 DEF Accept, MainGoto, TypeDaemon
<1>3. ASSUME NEW c \in Conns, ConnStep(c) PROVE UNCHANGED <<daemonVars, listLock>>
  BY <1>3 DEF ConnStep, Select, Retrieve, CreateProc, AddUser, MapAddFind, MapAddList, WaitChild,
              MapRemoveFind, MapRemoveList, ProcStop, FreeProc
<1>4. InChildStep => UNCHANGED <<daemonVars, listLock>>
  BY InChildLeaves DEF ParentUnchanged
<1>5. ASSUME NEW c \in Conns, IoStep(c)
      PROVE UNCHANGED <<daemonVars, listLock>>
  BY <1>5 DEF IoStep, PeerCloses, PeerSends, IoThreadEnds, WriteThreadEnds, IoUnchanged
<1> QED  BY <1>1, <1>2, <1>3, <1>4, <1>5, NextCases, TypeUnchanged DEF AsideStep

(* The I/O threads of guacd_add_user keep the types of theirs.             *)
LEMMA TypeIoStep == TypeOK /\ Next => TypeIo'
<1> SUFFICES ASSUME TypeOK, Next PROVE TypeIo'
  OBVIOUS
<1> USE TypeParts DEF ioVars
<1>1. CASE MainStep \/ StopSignal
  <2>1. MainReturns => TypeIo'
    BY DEF MainReturns, TypeIo
  <2>2. ~MainReturns => UNCHANGED ioVars
    BY <1>1 DEF MainStep, LoadConfig, BindAddress, SetUpTls, Daemonize, Listen, LoopTest,
                EnterAccept, LockProcesses, ProcessStopped, StopProcess, StopSignal, Fixed
  <2> QED  BY <2>1, <2>2, TypeUnchanged
<1>2. ASSUME NEW c \in Conns, Accept(c) PROVE TypeIo'
  BY <1>2 DEF Accept, TypeIo
<1>3. ASSUME NEW c \in Conns, ConnStep(c) PROVE TypeIo'
  <2>1. CASE Select(c) \/ Retrieve(c) \/ CreateProc(c)
    BY <2>1 DEF Select, Retrieve, CreateProc, Reject, TypeIo
  <2>2. CASE AddUser(c)
    BY <2>2 DEF AddUser, Reject, TypeIo
  <2>3. CASE ~(Select(c) \/ Retrieve(c) \/ CreateProc(c) \/ AddUser(c))
    BY <1>3, <2>3, TypeUnchanged
       DEF ConnStep, MapAddFind, MapAddList, WaitChild, MapRemoveFind, MapRemoveList, ProcStop,
           FreeProc
  <2> QED  BY <2>1, <2>2, <2>3
<1>4. InChildStep => UNCHANGED ioVars
  BY InChildLeaves DEF ParentUnchanged
<1>5. ASSUME NEW c \in Conns, IoStep(c)
      PROVE TypeIo'
  BY <1>5 DEF IoStep, PeerCloses, PeerSends, IoThreadEnds, WriteThreadEnds, TypeIo
<1> QED  BY <1>1, <1>2, <1>3, <1>4, <1>5, NextCases, TypeUnchanged DEF AsideStep

(* The connection threads keep the types of where they stand.              *)
LEMMA TypeThreadsStep == TypeOK /\ Next => TypeThreads'
<1> SUFFICES ASSUME TypeOK, Next PROVE TypeThreads'
  OBVIOUS
<1> USE TypeParts
<1>1. AsideStep => UNCHANGED <<pc, tgt>>
  BY AsideLeaves DEF AsideVars
<1>2. ASSUME NEW c \in Conns, Accept(c) PROVE TypeThreads'
  BY <1>2 DEF Accept, Goto, TypeThreads, ConnPc
<1>3. ASSUME NEW c \in Conns, ConnStep(c) PROVE TypeThreads'
  <2> USE DEF TypeThreads, Goto, ConnPc
  <2>1. CASE Select(c) \/ Retrieve(c) \/ CreateProc(c)
    BY <2>1 DEF Select, Retrieve, CreateProc
  <2>2. CASE AddUser(c)
    BY <2>2 DEF AddUser
  <2>3. CASE MapAddFind(c) \/ MapAddList(c) \/ WaitChild(c) \/ ProcStop(c) \/ FreeProc(c)
    BY <2>3 DEF MapAddFind, MapAddList, WaitChild, ProcStop, FreeProc
  <2>4. CASE MapRemoveFind(c) \/ MapRemoveList(c)
    BY <2>4 DEF MapRemoveFind, MapRemoveList
  <2> QED  BY <1>3, <2>1, <2>2, <2>3, <2>4 DEF ConnStep
<1>4. InChildStep => UNCHANGED <<pc, tgt>>
  BY InChildLeaves DEF ParentUnchanged
<1> QED  BY <1>1, <1>2, <1>3, <1>4, NextCases, TypeUnchanged

(* proc-map.c keeps the types of the buckets and the list.                 *)
LEMMA TypeMapStep == TypeOK /\ Next => TypeMap'
<1> SUFFICES ASSUME TypeOK, Next PROVE TypeMap'
  OBVIOUS
<1> USE TypeParts DEF mapVars
<1>1. AsideStep => UNCHANGED <<mapVars, proc>>
  BY AsideLeaves DEF AsideVars
<1>2. ASSUME NEW c \in Conns, Accept(c) PROVE UNCHANGED <<mapVars, proc>>
  BY <1>2 DEF Accept
<1>3. ASSUME NEW c \in Conns, ConnStep(c) PROVE TypeMap'
  <2> USE DEF TypeMap
  <2>1. CASE Select(c) \/ Retrieve(c) \/ AddUser(c) \/ WaitChild(c) \/ ProcStop(c)
    BY <2>1 DEF Select, Retrieve, AddUser, WaitChild, ProcStop
  <2>2. CASE CreateProc(c) \/ FreeProc(c)
    BY <2>2 DEF CreateProc, FreeProc
  <2>3. CASE MapAddFind(c) \/ MapAddList(c)
    BY <2>3 DEF MapAddFind, MapAddList
  <2>4. CASE MapRemoveFind(c) \/ MapRemoveList(c)
    BY <2>4 DEF MapRemoveFind, MapRemoveList
  <2> QED  BY <1>3, <2>1, <2>2, <2>3, <2>4 DEF ConnStep
<1>4. InChildStep => UNCHANGED <<mapVars, proc>>
  BY InChildLeaves DEF ParentUnchanged
<1> QED  BY <1>1, <1>2, <1>3, <1>4, NextCases, TypeUnchanged

(* guacd_proc_stop and the signals keep the types of the stop requests.    *)
LEMMA TypeTermStep == TypeOK /\ Next => TypeTerm'
<1> SUFFICES ASSUME TypeOK, Next PROVE TypeTerm'
  OBVIOUS
<1> USE TypeParts DEF childVars
<1>1. ASSUME NEW p \in Conns, ProcKill(p) \/ term' = [term EXCEPT ![p] = FALSE] PROVE TypeTerm'
  BY <1>1 DEF ProcKill, TypeTerm
<1>2. MainStep \/ StopSignal => UNCHANGED term \/ \E p \in Conns : ProcKill(p)
  BY Zenon DEF MainStep, LoadConfig, BindAddress, SetUpTls, Daemonize, Listen, LoopTest,
         EnterAccept, LockProcesses, ProcessStopped, MainReturns, StopProcess, StopSignal, Fixed
<1>3. ASSUME NEW c \in Conns, Accept(c) \/ ConnStep(c) PROVE UNCHANGED term \/ ProcKill(c)
  BY <1>3, Zenon DEF Accept, ConnStep, Select, Retrieve, CreateProc, AddUser, MapAddFind, MapAddList,
              WaitChild, MapRemoveFind, MapRemoveList, ProcStop, FreeProc
<1>4. ASSUME NEW c \in Conns, IoStep(c)
      PROVE UNCHANGED term
  BY <1>4, Zenon DEF IoStep, PeerCloses, PeerSends, IoThreadEnds, WriteThreadEnds, IoUnchanged
<1>5. ASSUME NEW c \in Conns, ChildStep(c) \/ ClientFreed(c) \/ UserJoins(c) \/ UserLeaves(c)
                              \/ UserThreadEnds(c)
      PROVE UNCHANGED term
  BY <1>5, Zenon DEF ChildStep, SetPgid, LoadPlugin, RecvFd, RecvEnd, StartFree, TimedWaitEnds,
              Reap, Exit, ClientFreed, UserJoins, UserLeaves, UserThreadEnds
<1>6. ASSUME NEW c \in Conns, Signalled(c) PROVE term' = [term EXCEPT ![c] = FALSE]
  BY <1>6 DEF Signalled
<1> QED  BY <1>1, <1>2, <1>3, <1>4, <1>5, <1>6, TypeUnchanged, Zenon DEF Next

(* A child process, and what is sent to it, keep their types.              *)
LEMMA TypeChildStep == TypeOK /\ TargetChosen /\ Next => TypeChild'
<1> SUFFICES ASSUME TypeOK, TargetChosen, Next PROVE TypeChild'
  OBVIOUS
<1> USE TypeParts DEF childVars
<1>1. AsideStep => UNCHANGED <<child, queue, sock, client, owner, freeing, user>>
  BY AsideLeaves DEF AsideVars
<1>2. ASSUME NEW c \in Conns, Accept(c)
      PROVE UNCHANGED <<child, queue, sock, client, owner, freeing, user>>
  BY <1>2 DEF Accept
<1>3. ASSUME NEW c \in Conns, ConnStep(c) PROVE TypeChild'
  <2>1. CASE CreateProc(c)
    <3>1. child' \in [Conns -> ChildPc]
      BY <2>1 DEF CreateProc, TypeChild, ChildPc
    <3>2. sock' \in [Conns -> {"open", "closed"}]
      BY <2>1 DEF CreateProc, TypeChild
    <3>3. client' \in [Conns -> {"none", "running", "stopping"}]
      BY <2>1 DEF CreateProc, TypeChild
    <3>4. UNCHANGED <<queue, owner, freeing, user>>
      BY <2>1 DEF CreateProc
    <3> QED  BY <3>1, <3>2, <3>3, <3>4, Zenon DEF TypeChild
  <2>2. CASE AddUser(c)
    <3>1. tgt[c] \in Conns
      BY <2>2 DEF AddUser, TargetChosen
    <3>2. ASSUME NEW q \in Seq(Conns) PROVE Append(q, c) \in Seq(Conns)
      OBVIOUS
    <3>3. queue' \in [Conns -> Seq(Conns)]
      <4>1. queue' = queue \/ queue' = [queue EXCEPT ![tgt[c]] = Append(@, c)]
        BY <2>2 DEF AddUser, SendFd
      <4>2. Append(queue[tgt[c]], c) \in Seq(Conns)
        BY <3>1, <3>2 DEF TypeChild
      <4> QED  BY <4>1, <4>2, <3>1, Zenon DEF TypeChild
    <3>4. user' \in [Conns -> UserPc]
      BY <2>2 DEF AddUser, SendFd, TypeChild, UserPc
    <3> QED  BY <2>2, <3>3, <3>4 DEF AddUser, TypeChild
  <2>3. CASE ~CreateProc(c) /\ ~AddUser(c)
    BY <1>3, <2>3, TypeUnchanged
       DEF ConnStep, Select, Retrieve, MapAddFind, MapAddList, WaitChild, MapRemoveFind,
           MapRemoveList, ProcStop, FreeProc
  <2> QED  BY <2>1, <2>2, <2>3
<1>4. ASSUME NEW p \in Conns, ChildStep(p) PROVE TypeChild'
  <2> USE DEF TypeChild, ChildGoto, ChildPc
  <2>1. CASE SetPgid(p) \/ LoadPlugin(p) \/ RecvEnd(p) \/ TimedWaitEnds(p)
    BY <2>1 DEF SetPgid, LoadPlugin, RecvEnd, TimedWaitEnds
  <2>2. CASE StartFree(p)
    <3>1. child' \in [Conns -> ChildPc]
      BY <2>2 DEF StartFree
    <3> QED  BY <2>2, <3>1 DEF StartFree
  <2>3. CASE RecvFd(p)
    <3>1. Head(queue[p]) \in Conns /\ Tail(queue[p]) \in Seq(Conns)
      BY <2>3 DEF RecvFd
    <3>2. queue' \in [Conns -> Seq(Conns)] /\ user' \in [Conns -> UserPc]
      BY <2>3, <3>1 DEF RecvFd, UserPc
    <3>3. owner' \in [Conns -> Conns \cup {None}]
      BY <2>3, <3>1 DEF RecvFd
    <3> QED  BY <2>3, <3>2, <3>3 DEF RecvFd
  <2>4. CASE Dies(p) /\ UNCHANGED <<client, owner, freeing>>
    <3>1. user' \in [Conns -> UserPc]
      BY <2>4 DEF Dies, UserPc
    <3>2. queue' \in [Conns -> Seq(Conns)]
      BY <2>4 DEF Dies
    <3> QED  BY <2>4, <3>1, <3>2 DEF Dies
  <2>5. CASE Reap(p) /\ ~Dies(p)
    BY <2>5 DEF Reap
  <2>6. CASE (Reap(p) /\ Dies(p)) \/ Exit(p)
    BY <2>4, <2>6 DEF Reap, Exit
  <2> QED  BY <1>4, <2>1, <2>2, <2>3, <2>5, <2>6 DEF ChildStep
<1>5. ASSUME NEW c \in Conns, Signalled(c) PROVE TypeChild'
  BY <1>5 DEF Signalled, ChildProcStop, TypeChild
<1>6. ASSUME NEW c \in Conns, ClientFreed(c) PROVE TypeChild'
  BY <1>6 DEF ClientFreed, TypeChild
<1>7. ASSUME NEW c \in Conns, UserJoins(c) \/ UserLeaves(c) PROVE TypeChild'
  BY <1>7 DEF UserJoins, UserLeaves, TypeChild, UserPc
<1>8. ASSUME NEW c \in Conns, UserThreadEnds(c) PROVE TypeChild'
  BY <1>8 DEF UserThreadEnds, ChildProcStop, TypeChild, UserPc
<1> QED  BY <1>1, <1>2, <1>3, <1>4, <1>5, <1>6, <1>7, <1>8, NextCases, TypeUnchanged
            DEF InChildStep

(* Every step keeps the type invariant.                                    *)
LEMMA TypeStep == TypeOK /\ TargetChosen /\ [Next]_vars => TypeOK'
<1>1. TypeOK /\ UNCHANGED vars => TypeOK'
  BY TypeParts, TypeUnchanged DEF vars, childVars
<1> QED  BY <1>1, TypeParts, TypeDaemonStep, TypeThreadsStep, TypeMapStep, TypeTermStep,
            TypeChildStep, TypeIoStep

-----------------------------------------------------------------------------
(* The map.                                                                *)

(* guacd_proc_map_add and _remove change the map only at the places of the *)
(* thread that MapFollowsThread names.                                     *)
LEMMA MapStep ==
    TypeOK /\ MapFollowsThread /\ Next => MapFollowsThread'
<1> SUFFICES ASSUME TypeOK, MapFollowsThread, Next PROVE MapFollowsThread'
  OBVIOUS
<1> USE TypeParts DEF MapFollowsThread, TypeThreads, TypeMap
<1>1. CASE AsideStep
  BY <1>1, AsideLeaves DEF AsideVars
<1>2. CASE InChildStep
  BY <1>2, InChildLeaves DEF ParentUnchanged, mapVars
<1>3. ASSUME NEW c \in Conns, Accept(c) PROVE MapFollowsThread'
  BY <1>3 DEF Accept, Goto, mapVars
<1>4. ASSUME NEW c \in Conns, ConnStep(c) PROVE MapFollowsThread'
  <2> USE DEF Goto, mapVars
  <2>1. CASE Select(c) \/ Retrieve(c) \/ CreateProc(c)
    BY <2>1 DEF Select, Retrieve, CreateProc
  <2>2. CASE AddUser(c)
    BY <2>2 DEF AddUser
  <2>3. CASE MapAddFind(c) \/ MapAddList(c)
    BY <2>3 DEF MapAddFind, MapAddList
  <2>4. CASE WaitChild(c) \/ ProcStop(c) \/ FreeProc(c)
    BY <2>4 DEF WaitChild, ProcStop, FreeProc
  <2>5. CASE MapRemoveFind(c) \/ MapRemoveList(c)
    BY <2>5 DEF MapRemoveFind, MapRemoveList
  <2> QED  BY <1>4, <2>1, <2>2, <2>3, <2>4, <2>5 DEF ConnStep
<1> QED  BY <1>1, <1>2, <1>3, <1>4, NextCases

(* guacd_route_connection frees a record only when its thread no longer    *)
(* owns it.                                                                *)
LEMMA RecordStep ==
    TypeOK /\ RecordLive /\ TargetChosen /\ Next => RecordLive' /\ TargetChosen'
<1> SUFFICES ASSUME TypeOK, RecordLive, TargetChosen, Next PROVE RecordLive' /\ TargetChosen'
  OBVIOUS
<1> USE TypeParts DEF RecordLive, Owns, TargetChosen, TypeThreads, TypeMap
<1>1. CASE AsideStep
  BY <1>1, AsideLeaves DEF AsideVars
<1>2. CASE InChildStep
  BY <1>2, InChildLeaves DEF ParentUnchanged
<1>3. ASSUME NEW c \in Conns, Accept(c) PROVE RecordLive' /\ TargetChosen'
  BY <1>3 DEF Accept, Goto
<1>4. ASSUME NEW c \in Conns, ConnStep(c) PROVE RecordLive' /\ TargetChosen'
  <2> USE DEF Goto
  <2>1. CASE Select(c)
    BY <2>1 DEF Select
  <2>2. CASE Retrieve(c)
    BY <2>2 DEF Retrieve
  <2>3. CASE CreateProc(c)
    BY <2>3 DEF CreateProc
  <2>4. CASE AddUser(c)
    BY <2>4 DEF AddUser
  <2>5. CASE MapAddFind(c) \/ MapAddList(c) \/ WaitChild(c)
    BY <2>5 DEF MapAddFind, MapAddList, WaitChild
  <2>6. CASE MapRemoveFind(c) \/ MapRemoveList(c) \/ ProcStop(c)
    BY <2>6 DEF MapRemoveFind, MapRemoveList, ProcStop
  <2>7. CASE FreeProc(c)
    BY <2>7 DEF FreeProc
  <2> QED  BY <1>4, <2>1, <2>2, <2>3, <2>4, <2>5, <2>6, <2>7 DEF ConnStep
<1> QED  BY <1>1, <1>2, <1>3, <1>4, NextCases

-----------------------------------------------------------------------------
(* The first descriptor in the socket of a process.                        *)

(* Appending to a sequence that is not empty leaves its head.              *)
LEMMA AppendFirst ==
    ASSUME NEW q \in Seq(Conns), NEW c \in Conns
    PROVE  /\ Append(q, c) # <<>>
           /\ q = <<>> => Head(Append(q, c)) = c
           /\ q # <<>> => Head(Append(q, c)) = Head(q)
OBVIOUS

(* A child receives from the front, and what it has received or lost makes *)
(* no room for another first.                                              *)
LEMMA ChildKeepsFirst ==
    TypeOK /\ TargetChosen /\ CreatorFirst /\ OwnerIsCreator /\ InChildStep
        => CreatorFirst' /\ OwnerIsCreator'
<1> SUFFICES ASSUME TypeOK, TargetChosen, CreatorFirst, OwnerIsCreator, InChildStep
             PROVE  CreatorFirst' /\ OwnerIsCreator'
  OBVIOUS
<1> USE TypeParts
<1>1. UNCHANGED <<pc, tgt>>
  BY InChildLeaves DEF ParentUnchanged
<1>2. ASSUME \A p \in Conns : HasSent(p) => HasSent(p)',
             \A p \in Conns : queue[p] = <<>> => queue'[p] = <<>>,
             \A p \in Conns : owner'[p] = None /\ queue'[p] # <<>> =>
                                  owner[p] = None /\ queue'[p] = queue[p],
             \A p \in Conns : owner'[p] \in {None, p}
      PROVE  CreatorFirst' /\ OwnerIsCreator'
  <2>1. \A c \in Conns : pc[c] = "send" /\ tgt[c] # c => tgt[c] \in Conns
    BY DEF TargetChosen
  <2> QED  BY <1>1, <1>2, <2>1 DEF CreatorFirst, OwnerIsCreator
<1>3. ASSUME UNCHANGED <<queue, owner>>,
             \A p \in Conns : sock[p] = "closed" => sock'[p] = "closed"
      PROVE  CreatorFirst' /\ OwnerIsCreator'
  BY <1>2, <1>3 DEF HasSent, OwnerIsCreator
<1>4. ASSUME NEW p \in Conns, RecvFd(p) PROVE CreatorFirst' /\ OwnerIsCreator'
  <2>1. queue[p] # <<>> /\ Head(queue[p]) \in Conns
    BY <1>4 DEF RecvFd, TypeChild
  <2>2. owner' = [owner EXCEPT ![p] = p]
    <3>1. owner[p] = None => Head(queue[p]) = p
      BY <2>1 DEF CreatorFirst
    <3>2. owner[p] # None => owner[p] = p
      BY DEF OwnerIsCreator
    <3> QED  BY <1>4, <3>1, <3>2 DEF RecvFd
  <2>3. \A r \in Conns : r # p => queue'[r] = queue[r] /\ owner'[r] = owner[r] /\ sock'[r] = sock[r]
    BY <1>4, <2>2 DEF RecvFd, TypeChild
  <2>4. owner'[p] = p /\ p # None
    BY <2>2 DEF TypeChild
  <2> QED  BY <1>2, <2>1, <2>3, <2>4 DEF HasSent, OwnerIsCreator
<1>5. ASSUME NEW p \in Conns, Dies(p), UNCHANGED owner PROVE CreatorFirst' /\ OwnerIsCreator'
  <2>1. queue'[p] = <<>> /\ sock'[p] = "closed"
    BY <1>5 DEF Dies, TypeChild
  <2>2. \A r \in Conns : r # p => queue'[r] = queue[r] /\ sock'[r] = sock[r]
    BY <1>5 DEF Dies, TypeChild
  <2> QED  BY <1>2, <1>5, <2>1, <2>2 DEF HasSent, OwnerIsCreator
<1>6. ASSUME NEW c \in Conns, ChildStep(c) PROVE CreatorFirst' /\ OwnerIsCreator'
  <2>1. CASE SetPgid(c) \/ LoadPlugin(c) \/ RecvEnd(c) \/ TimedWaitEnds(c) \/ StartFree(c)
    BY <1>3, <2>1 DEF SetPgid, LoadPlugin, RecvEnd, TimedWaitEnds, StartFree
  <2>2. CASE Reap(c) \/ Exit(c)
    BY <1>3, <1>5, <2>2 DEF Reap, Exit
  <2> QED  BY <1>4, <1>6, <2>1, <2>2 DEF ChildStep
<1>7. ASSUME NEW c \in Conns, Signalled(c) PROVE CreatorFirst' /\ OwnerIsCreator'
  BY <1>3, <1>7 DEF Signalled, ChildProcStop, TypeChild
<1>8. ASSUME NEW c \in Conns, ClientFreed(c) \/ UserJoins(c) \/ UserLeaves(c)
      PROVE CreatorFirst' /\ OwnerIsCreator'
  BY <1>3, <1>8 DEF ClientFreed, UserJoins, UserLeaves, childVars
<1>9. ASSUME NEW c \in Conns, UserThreadEnds(c) PROVE CreatorFirst' /\ OwnerIsCreator'
  BY <1>3, <1>9 DEF UserThreadEnds, ChildProcStop, Alive, TypeChild, TypeThreads
<1> QED  BY <1>6, <1>7, <1>8, <1>9 DEF InChildStep

(* guacd_add_user: the creator sends into an empty socket, whoever joins   *)
(* into one the creator has used.                                          *)
LEMMA AddUserKeepsFirst ==
    ASSUME IInv, NEW c \in Conns, AddUser(c) PROVE CreatorFirst' /\ OwnerIsCreator'
<1> USE TypeParts
<1> DEFINE p == tgt[c]
<1>1. pc[c] = "send" /\ p \in Conns
  BY DEF IInv, AddUser, TargetChosen
<1>2. owner' = owner /\ sock' = sock /\ tgt' = tgt
  BY DEF AddUser
<1>3. \A r \in Conns : r # c => pc'[r] = pc[r]
  BY DEF AddUser, Goto, IInv, TypeThreads
<1>4. queue[p] \in Seq(Conns)
  BY <1>1 DEF IInv, TypeChild
<1>5. pc'[c] \in {"add1", "stop", "done"} /\ (pc'[c] = "add1" => p = c)
  BY <1>1 DEF AddUser, Goto, IInv, TypeThreads
<1>6. \/ queue' = queue /\ pc'[c] # "add1"
      \/ queue' = [queue EXCEPT ![p] = Append(@, c)] /\ sock[p] = "open"
  <2>1. p = c => proc[p] = "valid"
    BY <1>1 DEF IInv, RecordLive, Owns
  <2> QED  BY <1>1, <2>1 DEF AddUser, SendFd, Goto, IInv, TypeThreads
<1>7. queue' # queue =>
          /\ queue'[p] = Append(queue[p], c) /\ queue'[p] # <<>>
          /\ \A r \in Conns : r # p => queue'[r] = queue[r]
  BY <1>1, <1>4, <1>6, AppendFirst DEF IInv, TypeChild
<1>8. \A r \in Conns : HasSent(r) => HasSent(r)'
  BY <1>2, <1>7 DEF HasSent
<1>9. p # c => /\ pc[p] \in {"wait", "rm1", "rm2", "stop", "stopwait", "done"}
              /\ HasSent(p)
  BY <1>1 DEF IInv, CreatorFirst
<1>10. \A r \in Conns :
          pc'[r] \in {"idle", "select", "find", "create", "send"} => queue'[r] = <<>>
  <2>1. queue' # queue => pc'[p] \notin {"idle", "select", "find", "create", "send"}
    BY <1>1, <1>3, <1>5, <1>9
  <2> QED  BY <1>3, <1>5, <1>7, <2>1 DEF IInv, CreatorFirst
<1>11. \A r \in Conns : pc'[r] \in {"add1", "add2", "wait", "rm1", "rm2"} => HasSent(r)'
  <2>1. pc'[c] = "add1" => queue'[c] # <<>>
    BY <1>1, <1>4, <1>5, <1>6, AppendFirst DEF IInv, TypeChild
  <2>2. pc'[c] = "add1" => HasSent(c)'
    BY <2>1 DEF HasSent
  <2> QED  BY <1>3, <1>5, <1>8, <2>2 DEF IInv, CreatorFirst
<1>12. ASSUME NEW r \in Conns, pc'[r] = "send", tgt[r] # r
       PROVE  /\ pc'[tgt[r]] \in {"wait", "rm1", "rm2", "stop", "stopwait", "done"}
              /\ \A q \in Conns : q = tgt[r] => HasSent(q)'
  <2>1. r # c
    BY <1>5, <1>12
  <2>2. pc[r] = "send" /\ tgt[r] \in Conns
    BY <1>3, <1>12, <2>1 DEF IInv, TargetChosen
  <2>3. pc[tgt[r]] \in {"wait", "rm1", "rm2", "stop", "stopwait", "done"} /\ HasSent(tgt[r])
    BY <1>12, <2>2 DEF IInv, CreatorFirst
  <2>4. tgt[r] # c
    BY <1>1, <2>3
  <2> QED  BY <1>3, <1>8, <2>2, <2>3, <2>4
<1>13. \A r \in Conns : owner'[r] = None /\ queue'[r] # <<>> => Head(queue'[r]) = r
  <2>1. ASSUME queue' # queue, owner[p] = None PROVE Head(queue'[p]) = p
    <3>1. CASE p = c
      BY <1>1, <1>4, <1>7, <2>1, <3>1, AppendFirst DEF IInv, CreatorFirst
    <3>2. CASE p # c
      <4>1. queue[p] # <<>>
        BY <1>6, <1>9, <2>1, <3>2 DEF HasSent
      <4>2. Head(queue[p]) = p
        BY <1>1, <2>1, <4>1 DEF IInv, CreatorFirst
      <4> QED  BY <1>4, <1>7, <2>1, <4>1, <4>2, AppendFirst
    <3> QED  BY <3>1, <3>2
  <2> QED  BY <1>1, <1>2, <1>7, <2>1 DEF IInv, CreatorFirst
<1>14. \A r \in Conns : pc'[r] = "send" /\ tgt'[r] # r =>
          /\ pc'[tgt'[r]] \in {"wait", "rm1", "rm2", "stop", "stopwait", "done"}
          /\ owner'[tgt'[r]] # None \/ queue'[tgt'[r]] # <<>> \/ sock'[tgt'[r]] = "closed"
  <2>1. \A r \in Conns : pc'[r] = "send" => tgt[r] \in Conns
    BY <1>3, <1>5 DEF IInv, TargetChosen
  <2> QED  BY <1>2, <1>12, <2>1 DEF HasSent
<1>15. CreatorFirst'
  BY <1>10, <1>11, <1>13, <1>14 DEF CreatorFirst, HasSent
<1> QED  BY <1>2, <1>15 DEF IInv, OwnerIsCreator

(* The other steps of a thread: it gets to a joiner's send only by way of  *)
(* the map, and makes the socket before anybody can know of it.            *)
LEMMA ThreadKeepsFirst ==
    ASSUME IInv, NEW c \in Conns, Accept(c) \/ ConnStep(c)
    PROVE  CreatorFirst' /\ OwnerIsCreator'
<1> USE TypeParts DEF Goto, childVars
<1>1. CASE Accept(c)
  BY <1>1 DEF Accept, IInv, CreatorFirst, OwnerIsCreator, HasSent, TargetChosen, TypeThreads
<1>2. CASE Select(c)
  BY <1>2 DEF Select, IInv, CreatorFirst, OwnerIsCreator, HasSent, TargetChosen, TypeThreads
<1>3. CASE Retrieve(c)
  <2>1. tgt[c] \in bucket => pc[tgt[c]] \in {"wait", "rm1", "rm2"} /\ HasSent(tgt[c])
    BY <1>3 DEF IInv, Retrieve, TargetChosen, MapFollowsThread, CreatorFirst
  <2> QED  BY <1>3, <2>1
           DEF Retrieve, IInv, CreatorFirst, OwnerIsCreator, HasSent, TargetChosen, TypeThreads
<1>4. CASE CreateProc(c)
  <2>1. UNCHANGED <<queue, owner>> /\ pc[c] = "create" /\ pc'[c] \in {"send", "done"}
    BY <1>4 DEF CreateProc, IInv, TypeThreads
  <2>2. \A r \in Conns : r # c => pc'[r] = pc[r] /\ tgt'[r] = tgt[r] /\ sock'[r] = sock[r]
    BY <1>4 DEF CreateProc, IInv, TypeThreads, TypeChild
  <2>3. pc'[c] = "send" => tgt'[c] = c
    BY <1>4 DEF CreateProc, IInv, TypeThreads
  <2>4. \A r \in Conns : pc[r] = "send" /\ tgt[r] # r => tgt[r] \in Conns /\ tgt[r] # c
    BY <2>1 DEF IInv, CreatorFirst, TargetChosen
  <2> QED  BY <2>1, <2>2, <2>3, <2>4 DEF IInv, CreatorFirst, OwnerIsCreator, HasSent
<1>5. CASE MapAddFind(c) \/ MapAddList(c) \/ WaitChild(c)
  BY <1>5 DEF MapAddFind, MapAddList, WaitChild, IInv, CreatorFirst, OwnerIsCreator, HasSent,
              TargetChosen, TypeThreads
<1>6. CASE MapRemoveFind(c) \/ MapRemoveList(c)
  BY <1>6 DEF MapRemoveFind, MapRemoveList, IInv, CreatorFirst, OwnerIsCreator, HasSent,
              TargetChosen, TypeThreads
<1>7. CASE ProcStop(c) \/ FreeProc(c)
  BY <1>7 DEF ProcStop, FreeProc, IInv, CreatorFirst, OwnerIsCreator, HasSent, TargetChosen,
              TypeThreads
<1> QED  BY <1>1, <1>2, <1>3, <1>4, <1>5, <1>6, <1>7, AddUserKeepsFirst DEF ConnStep

-----------------------------------------------------------------------------
(* guacd starts with an empty map and no process.                          *)
LEMMA Initially == Init => IInv
<1> SUFFICES ASSUME Init PROVE IInv
  OBVIOUS
<1>1. TypeDaemon /\ TypeThreads /\ TypeMap /\ TypeTerm /\ TypeIo
  BY DEF Init, TypeDaemon, TypeThreads, TypeMap, TypeTerm, TypeIo, ConnPc
<1>2. TypeChild
  BY DEF Init, TypeChild, ChildPc, UserPc
<1>3. MapFollowsThread /\ RecordLive /\ TargetChosen /\ CreatorFirst /\ OwnerIsCreator
  BY DEF Init, MapFollowsThread, RecordLive, Owns, TargetChosen, CreatorFirst, OwnerIsCreator
<1> QED  BY <1>1, <1>2, <1>3, TypeParts DEF IInv

(* No step breaks the invariant.                                           *)
LEMMA Inductive == IInv /\ [Next]_vars => IInv'
<1> SUFFICES ASSUME IInv, [Next]_vars PROVE IInv'
  OBVIOUS
<1>1. TypeOK'
  BY TypeStep DEF IInv
<1>2. CASE Next
  <2>1. MapFollowsThread' /\ RecordLive' /\ TargetChosen'
    BY <1>2, MapStep, RecordStep DEF IInv
  <2>2. AsideStep => CreatorFirst' /\ OwnerIsCreator'
    BY AsideLeaves DEF AsideVars, IInv, CreatorFirst, OwnerIsCreator, HasSent
  <2>3. CreatorFirst' /\ OwnerIsCreator'
    BY <1>2, <2>2, NextCases, ChildKeepsFirst, ThreadKeepsFirst DEF IInv
  <2> QED  BY <1>1, <2>1, <2>3 DEF IInv
<1>3. CASE UNCHANGED vars
  BY <1>1, <1>3 DEF IInv, MapFollowsThread, RecordLive, Owns, TargetChosen, CreatorFirst, HasSent,
                    OwnerIsCreator, vars, mapVars, childVars
<1> QED  BY <1>2, <1>3

(* The invariant holds in every state of guacd.                            *)
LEMMA Invariance == Spec => []IInv
BY Initially, Inductive, PTL DEF Spec

(* The types of Guacd, for any connections.                                *)
THEOREM TypeCorrect == Spec => []TypeOK
<1>1. IInv => TypeOK
  BY DEF IInv
<1> QED  BY <1>1, Invariance, PTL

(* guacd_proc_map_retrieve and guacd_proc_map_foreach never give out a     *)
(* record that guacd_route_connection has freed, for any number of         *)
(* connections that create and join processes.                             *)
THEOREM MapNeverDangles == Spec => []MapSound
<1>1. IInv => MapSound
  BY DEF IInv, MapSound, MapFollowsThread, RecordLive, Owns, TypeOK
<1> QED  BY <1>1, Invariance, PTL

(* guacd_exec_proc makes the first user whose descriptor arrives the owner *)
(* of the connection: that is always the user who created it, however many *)
(* join at the same time.                                                  *)
THEOREM CreatorOwns == Spec => []OwnerIsCreator
<1>1. IInv => OwnerIsCreator
  BY DEF IInv
<1> QED  BY <1>1, Invariance, PTL
=============================================================================
