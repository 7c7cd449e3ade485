------------------------------- MODULE Guacd -------------------------------
(***************************************************************************)
(* guacd: the daemon that accepts connections, gives each new remote       *)
(* desktop connection a child process, and passes the sockets of its users *)
(* to that process (guacd/daemon.c, connection.c, proc.c, proc-map.c,      *)
(* move-fd.c).                                                             *)
(*                                                                         *)
(* A connection c is one accepted socket with its thread.  A process is    *)
(* named by the connection whose thread forked it, so Conns also names the *)
(* processes, their records in the parent and their connection ids.  Each  *)
(* id has a bucket of its own: with 131072 buckets a shared one only makes *)
(* a thread wait longer.                                                   *)
(***************************************************************************)
EXTENDS Naturals, Sequences, FiniteSets

CONSTANTS Conns,      \* accepted connections
          Creators,   \* those that may select a protocol
          Joiners,    \* those that may select an id
          Addresses,  \* number of addresses getaddrinfo yields
          None

ASSUME GuacdConsts == /\ None \notin Conns
                      /\ "main" \notin Conns
                      /\ Creators \subseteq Conns /\ Joiners \subseteq Conns
                      /\ Addresses \in Nat \ {0}

VARIABLES
    daemon,     \* where main() stands
    stopFlag,   \* stop_everything
    pc,         \* connection thread
    tgt,        \* guacd_route_connection's proc
    bucketLock, \* holder of the lock of an id's bucket
    listLock,   \* holder of the lock of map->processes
    bucket,     \* ids present in their buckets
    processes,  \* ids present in map->processes
    visited,    \* those guacd_proc_map_foreach has called back
    killing,    \* the one it is waiting for
    proc,       \* the parent's guacd_proc: absent, valid or freed
    child,      \* where the child process stands
    queue,      \* file descriptors waiting in its datagram socket
    sock,       \* the child's end of that socket
    term,       \* SIGTERM pending for the child
    client,     \* guac_client.state in the child
    owner,      \* the connection that was made the owner
    freeing,    \* guacd_client_free_thread
    user,       \* user thread of a connection, in the child
    io,         \* the I/O threads of a connection, in the parent
    peer        \* the far end of the accepted socket

daemonVars == <<daemon, stopFlag, visited, killing>>
mapVars == <<bucketLock, bucket, processes>>
childVars == <<child, queue, sock, term, client, owner, freeing>>
ioVars == <<io, peer>>
vars == <<daemonVars, listLock, pc, tgt, mapVars, proc, childVars, user, ioVars>>

ConnPc == {"idle", "select", "find", "create", "send", "add1", "add2", "wait",
           "rm1", "rm2", "stop", "stopwait", "done"}
ChildPc == {"none", "setpgid", "load", "recv", "free", "timedwait", "reap",
            "exit", "dead"}
UserPc == {"none", "queued", "handshake", "connected", "removed", "end", "lost"}

(* Everything that is set up before main() runs.                           *)
Init ==
    /\ daemon = "load" /\ stopFlag = FALSE /\ visited = {} /\ killing = None
    /\ pc = [c \in Conns |-> "idle"] /\ tgt = [c \in Conns |-> None]
    /\ bucketLock = [c \in Conns |-> None] /\ listLock = None
    /\ bucket = {} /\ processes = {}
    /\ proc = [c \in Conns |-> "none"]
    /\ child = [c \in Conns |-> "none"]
    /\ queue = [c \in Conns |-> <<>>]
    /\ sock = [c \in Conns |-> "closed"]
    /\ term = [c \in Conns |-> FALSE]
    /\ client = [c \in Conns |-> "none"]
    /\ owner = [c \in Conns |-> None]
    /\ freeing = [c \in Conns |-> "none"]
    /\ user = [c \in Conns |-> "none"]
    /\ io = [c \in Conns |-> "none"]
    /\ peer = [c \in Conns |-> "none"]

Goto(c, from, to) == pc[c] = from /\ pc' = [pc EXCEPT ![c] = to]
ChildGoto(p, from, to) == child[p] = from /\ child' = [child EXCEPT ![p] = to]
MainGoto(from, to) == daemon = from /\ daemon' = to

-----------------------------------------------------------------------------
(* main(): startup.  Each part may fail, which ends the daemon.            *)

Fixed == <<listLock, pc, tgt, mapVars, proc, childVars, user, ioVars>>

LoadConfig ==
    /\ \/ MainGoto("load", "bind")
       \/ MainGoto("load", "exited")    \* no configuration, or only -v
    /\ UNCHANGED <<stopFlag, visited, killing, Fixed>>

(* The first address that can be bound; 0 if there is none.                *)
FirstBound(bindable) ==
    IF \E i \in 1..Addresses : bindable[i]
    THEN CHOOSE i \in 1..Addresses :
            bindable[i] /\ \A j \in 1..(i - 1) : ~bindable[j]
    ELSE 0

BindAddress ==
    /\ \E bindable \in [1..Addresses -> BOOLEAN] :
          MainGoto("bind", IF FirstBound(bindable) = 0 THEN "exited" ELSE "tls")
    /\ UNCHANGED <<stopFlag, visited, killing, Fixed>>

SetUpTls ==
    /\ \/ MainGoto("tls", "daemonize")
       \/ MainGoto("tls", "exited")     \* the key or the certificate is unusable
    /\ UNCHANGED <<stopFlag, visited, killing, Fixed>>

(* The processes that daemonize() leaves behind only exit.                 *)
Daemonize ==
    /\ \/ MainGoto("daemonize", "listen")
       \/ MainGoto("daemonize", "exited")  \* fork, chdir or redirection failed
    /\ UNCHANGED <<stopFlag, visited, killing, Fixed>>

Listen ==
    /\ \/ MainGoto("listen", "loop")
       \/ MainGoto("listen", "exited")  \* no PID file, or listen() failed
    /\ UNCHANGED <<stopFlag, visited, killing, Fixed>>

-----------------------------------------------------------------------------
(* main(): the accept loop and the shutdown.                               *)

(* SIGINT or SIGTERM; until the handlers are installed it kills guacd.  A  *)
(* pending accept() is interrupted, the flag alone does not end it.        *)
StopSignal ==
    /\ daemon \in {"loop", "enter", "accept"} /\ ~stopFlag
    /\ stopFlag' = TRUE
    /\ daemon' = IF daemon = "accept" THEN "loop" ELSE daemon
    /\ UNCHANGED <<visited, killing, Fixed>>

LoopTest ==
    /\ daemon = "loop"
    /\ daemon' = IF stopFlag THEN "lock" ELSE "enter"
    /\ UNCHANGED <<stopFlag, visited, killing, Fixed>>

EnterAccept ==
    /\ MainGoto("enter", "accept")
    /\ UNCHANGED <<stopFlag, visited, killing, Fixed>>

Accept(c) ==
    /\ MainGoto("accept", "loop")
    /\ Goto(c, "idle", "select")
    /\ peer' = [peer EXCEPT ![c] = "open"]
    /\ UNCHANGED <<stopFlag, visited, killing, listLock, tgt, mapVars, proc, childVars,
                   user, io>>

(* guacd_proc_map_foreach holds the lock of the list for all callbacks.    *)
LockProcesses ==
    /\ MainGoto("lock", "foreach")
    /\ listLock = None /\ listLock' = "main"
    /\ UNCHANGED <<stopFlag, visited, killing, pc, tgt, mapVars, proc, childVars, user, ioVars>>

(* Only a process that has its group is found by waitpid(-pid).            *)
ProcKill(p) ==
    term' = [term EXCEPT ![p] = child[p] # "dead"]

ProcKillEnds(p) == child[p] \in {"setpgid", "dead"}

StopProcess(p) ==
    /\ MainGoto("foreach", "waitgroup")
    /\ p \in processes \ visited
    /\ visited' = visited \cup {p} /\ killing' = p
    /\ ProcKill(p)
    /\ UNCHANGED <<stopFlag, listLock, pc, tgt, mapVars, proc, child, queue, sock,
                   client, owner, freeing, user, ioVars>>

ProcessStopped ==
    /\ MainGoto("waitgroup", "foreach")
    /\ ProcKillEnds(killing) /\ killing' = None
    /\ UNCHANGED <<stopFlag, visited, Fixed>>

(* main() returns: the threads and their sockets go with it, the children *)
(* do not.                                                                 *)
MainReturns ==
    /\ MainGoto("foreach", "exited")
    /\ processes \subseteq visited
    /\ listLock' = None
    /\ peer' = [c \in Conns |-> IF peer[c] = "sent" \/ peer[c] = "open" THEN "closed" ELSE peer[c]]
    /\ UNCHANGED <<stopFlag, visited, killing, pc, tgt, mapVars, proc, childVars, user,
                   io>>

-----------------------------------------------------------------------------
(* A connection thread.  Its steps, and those of the I/O threads, end with *)
(* the daemon.                                                             *)

Up == daemon # "exited"

(* The thread gives up: guac_socket_free closes the accepted socket.       *)
Reject(c) == peer' = [peer EXCEPT ![c] = "closed"]

(* guac_parser_expect and the test of argc: no "select" in time, or with   *)
(* the wrong arguments, or a protocol, or the id of a connection.          *)
Select(c) ==
    /\ Up
    /\ \/ /\ Goto(c, "select", "done") /\ Reject(c) /\ UNCHANGED tgt
       \/ /\ c \in Creators
          /\ Goto(c, "select", "create") /\ UNCHANGED <<tgt, peer>>
       \/ \E p \in Conns \ {c} :
             /\ c \in Joiners
             /\ Goto(c, "select", "find")
             /\ tgt' = [tgt EXCEPT ![c] = p] /\ UNCHANGED peer
    /\ UNCHANGED <<daemonVars, listLock, mapVars, proc, childVars, user, io>>

(* guacd_proc_map_retrieve.                                                *)
Retrieve(c) ==
    /\ Up /\ pc[c] = "find"
    /\ bucketLock[tgt[c]] = None
    /\ \/ tgt[c] \in bucket /\ Goto(c, "find", "send") /\ UNCHANGED peer
       \/ tgt[c] \notin bucket /\ Goto(c, "find", "done") /\ Reject(c)
    /\ UNCHANGED <<daemonVars, listLock, tgt, mapVars, proc, childVars, user, io>>

(* guacd_create_proc: socket pair, guac_client_alloc, fork.                *)
CreateProc(c) ==
    /\ Up
    /\ \/ /\ Goto(c, "create", "done") /\ Reject(c)
          /\ UNCHANGED <<tgt, proc, child, sock, client>>
       \/ /\ Goto(c, "create", "send") /\ UNCHANGED peer
          /\ tgt' = [tgt EXCEPT ![c] = c]
          /\ proc' = [proc EXCEPT ![c] = "valid"]
          /\ child' = [child EXCEPT ![c] = "setpgid"]
          /\ sock' = [sock EXCEPT ![c] = "open"]
          /\ client' = [client EXCEPT ![c] = "running"]
    /\ UNCHANGED <<daemonVars, listLock, mapVars, queue, term, owner, freeing,
                   user, io>>

(* guacd_send_fd.  If the record was freed in the meantime, whatever the   *)
(* descriptor in it has become takes the message, or nothing does.         *)
SendFd(c, p) ==
    \/ /\ proc[p] = "valid" /\ sock[p] = "open"
       /\ queue' = [queue EXCEPT ![p] = Append(@, c)]
       /\ user' = [user EXCEPT ![c] = "queued"]
    \/ /\ proc[p] = "freed"
       /\ user' = [user EXCEPT ![c] = "lost"] /\ UNCHANGED queue

(* guacd_add_user, which starts the I/O threads of the connection.         *)
AddUser(c) ==
    /\ Up
    /\ pc[c] = "send"
    /\ LET p == tgt[c] IN
       \/ /\ Goto(c, "send", IF p = c THEN "add1" ELSE "done")
          /\ SendFd(c, p)
          /\ io' = [io EXCEPT ![c] = "run"]
          /\ UNCHANGED peer
       \/ /\ Goto(c, "send", IF p = c THEN "stop" ELSE "done")
          /\ Reject(c)
          /\ UNCHANGED <<queue, user, io>>
    /\ UNCHANGED <<daemonVars, listLock, tgt, mapVars, proc, child, sock, term, client,
                   owner, freeing>>

(* guacd_proc_map_add: find under the lock of the bucket, ...              *)
MapAddFind(c) ==
    /\ Up
    /\ bucketLock[c] = None
    /\ \/ /\ c \notin bucket /\ Goto(c, "add1", "add2")
          /\ bucketLock' = [bucketLock EXCEPT ![c] = c]
       \/ /\ c \in bucket /\ Goto(c, "add1", "wait") /\ UNCHANGED bucketLock
    /\ UNCHANGED <<daemonVars, listLock, tgt, bucket, processes, proc, childVars, user, ioVars>>

(* ... add to the list under the lock of the list as well, and to the     *)
(* bucket, which stays locked until then.                                  *)
MapAddList(c) ==
    /\ Up
    /\ Goto(c, "add2", "wait")
    /\ listLock = None
    /\ processes' = processes \cup {c}
    /\ bucket' = bucket \cup {c}
    /\ bucketLock' = [bucketLock EXCEPT ![c] = None]
    /\ UNCHANGED <<daemonVars, listLock, tgt, proc, childVars, user, ioVars>>

(* Mutant: the entry stays in the map.                                     *)
MutWaitChild(c) ==
    /\ Up
    /\ child[c] = "dead"
    /\ Goto(c, "wait", "stop")
    /\ UNCHANGED <<daemonVars, listLock, tgt, mapVars, proc, childVars, user, ioVars>>

(* waitpid returns once the child is gone (SIGCHLD is ignored).            *)
WaitChild(c) ==
    /\ Up
    /\ child[c] = "dead"
    /\ Goto(c, "wait", "rm1")
    /\ UNCHANGED <<daemonVars, listLock, tgt, mapVars, proc, childVars, user, ioVars>>

(* guacd_proc_map_remove, with the locks in the order of guacd_proc_map_add. *)
MapRemoveFind(c) ==
    /\ Up
    /\ bucketLock[c] = None
    /\ \/ /\ c \in bucket /\ Goto(c, "rm1", "rm2")
          /\ bucketLock' = [bucketLock EXCEPT ![c] = c]
       \/ /\ c \notin bucket /\ Goto(c, "rm1", "stop") /\ UNCHANGED bucketLock
    /\ UNCHANGED <<daemonVars, listLock, tgt, bucket, processes, proc, childVars, user, ioVars>>

MapRemoveList(c) ==
    /\ Up
    /\ Goto(c, "rm2", "stop")
    /\ listLock = None
    /\ processes' = processes \ {c}
    /\ bucket' = bucket \ {c}
    /\ bucketLock' = [bucketLock EXCEPT ![c] = None]
    /\ UNCHANGED <<daemonVars, listLock, tgt, proc, childVars, user, ioVars>>

(* guacd_proc_stop in the parent: SIGTERM, then wait for the group.        *)
ProcStop(c) ==
    /\ Up
    /\ Goto(c, "stop", "stopwait")
    /\ ProcKill(c)
    /\ UNCHANGED <<daemonVars, listLock, tgt, mapVars, proc, child, queue, sock, client,
                   owner, freeing, user, ioVars>>

(* Then guac_client_free, close and guac_mem_free.                         *)
FreeProc(c) ==
    /\ Up
    /\ ProcKillEnds(c)
    /\ Goto(c, "stopwait", "done")
    /\ proc' = [proc EXCEPT ![c] = "freed"]
    /\ UNCHANGED <<daemonVars, listLock, tgt, mapVars, childVars, user, ioVars>>

-----------------------------------------------------------------------------
(* The child process: guacd_exec_proc.                                     *)

ParentUnchanged == UNCHANGED <<daemonVars, listLock, pc, tgt, mapVars, proc, ioVars>>

SetPgid(p) ==
    /\ ChildGoto(p, "setpgid", "load") \/ ChildGoto(p, "setpgid", "exit")
    /\ ParentUnchanged
    /\ UNCHANGED <<queue, sock, term, client, owner, freeing, user>>

(* guac_client_load_plugin; the handlers for signals come after it.        *)
LoadPlugin(p) ==
    /\ ChildGoto(p, "load", "recv") \/ ChildGoto(p, "load", "free")
    /\ ParentUnchanged
    /\ UNCHANGED <<queue, sock, term, client, owner, freeing, user>>

(* Mutant: every user is made the owner.                                   *)
MutRecvFd(p) ==
    /\ child[p] = "recv" /\ sock[p] = "open" /\ queue[p] # <<>>
    /\ queue' = [queue EXCEPT ![p] = Tail(@)]
    /\ user' = [user EXCEPT ![Head(queue[p])] = "handshake"]
    /\ owner' = [owner EXCEPT ![p] = Head(queue[p])]
    /\ ParentUnchanged
    /\ UNCHANGED <<child, sock, term, client, freeing>>

(* guacd_recv_fd and guacd_proc_add_user; the first user is the owner.     *)
RecvFd(p) ==
    /\ child[p] = "recv" /\ sock[p] = "open" /\ queue[p] # <<>>
    /\ queue' = [queue EXCEPT ![p] = Tail(@)]
    /\ user' = [user EXCEPT ![Head(queue[p])] = "handshake"]
    /\ owner' = [owner EXCEPT ![p] = IF @ = None THEN Head(queue[p]) ELSE @]
    /\ ParentUnchanged
    /\ UNCHANGED <<child, sock, term, client, freeing>>

(* guacd_recv_fd fails once the socket was shut down.                      *)
RecvEnd(p) ==
    /\ sock[p] # "open"
    /\ ChildGoto(p, "recv", "free")
    /\ ParentUnchanged
    /\ UNCHANGED <<queue, sock, term, client, owner, freeing, user>>

(* Mutant: the socket is not shut down, the receive loop goes on.          *)
MutChildProcStop(p) ==
    /\ client' = [client EXCEPT ![p] = "stopping"]
    /\ UNCHANGED sock

(* guacd_proc_stop in the child.                                           *)
ChildProcStop(p) ==
    /\ client' = [client EXCEPT ![p] = "stopping"]
    /\ sock' = [sock EXCEPT ![p] = "closed"]

(* SIGTERM.  Until the child has handlers of its own it runs the daemon's, *)
(* which sets a flag nobody in this process reads.                         *)
Signalled(p) ==
    /\ term[p] /\ child[p] # "dead"
    /\ term' = [term EXCEPT ![p] = FALSE]
    /\ IF child[p] \in {"setpgid", "load"}
       THEN UNCHANGED <<client, sock>>
       ELSE ChildProcStop(p)
    /\ ParentUnchanged
    /\ UNCHANGED <<child, queue, owner, freeing, user>>

(* guac_client_stop, then guacd_timed_client_free: the thread is started   *)
(* with the mutex held (or cannot be started) ...                          *)
StartFree(p) ==
    /\ \/ ChildGoto(p, "free", "timedwait") /\ freeing' = [freeing EXCEPT ![p] = "run"]
       \/ ChildGoto(p, "free", "reap") /\ UNCHANGED freeing
    /\ client' = [client EXCEPT ![p] = "stopping"]
    /\ ParentUnchanged
    /\ UNCHANGED <<queue, sock, term, owner, user>>

(* ... guacd_client_free_thread: guac_client_free, completed = 1 ...       *)
ClientFreed(p) ==
    /\ freeing[p] = "run" /\ child[p] # "dead"
    /\ freeing' = [freeing EXCEPT ![p] = "completed"]
    /\ ParentUnchanged
    /\ UNCHANGED <<child, queue, sock, term, client, owner, user>>

(* ... and the wait ends, on the broadcast, at the deadline or for nothing *)
(* (there is no loop around pthread_cond_timedwait).                       *)
TimedWaitEnds(p) ==
    /\ ChildGoto(p, "timedwait", "reap")
    /\ ParentUnchanged
    /\ UNCHANGED <<queue, sock, term, client, owner, freeing, user>>

(* The end of a process: its threads go with it, its descriptors close.    *)
Dies(p) ==
    /\ child' = [child EXCEPT ![p] = "dead"]
    /\ sock' = [sock EXCEPT ![p] = "closed"]
    /\ queue' = [queue EXCEPT ![p] = <<>>]
    /\ user' = [c \in Conns |->
                  IF tgt[c] = p /\ user[c] \in {"queued", "handshake", "connected", "removed"}
                  THEN "end" ELSE user[c]]

(* Without the completed free, or if waitpid finds children of the plugin  *)
(* that still run, the whole process group is killed; otherwise the        *)
(* process goes on to exit().                                              *)
Reap(p) ==
    /\ child[p] = "reap"
    /\ \E childrenRemain \in BOOLEAN :
          IF freeing[p] # "completed" \/ childrenRemain
          THEN Dies(p)
          ELSE child' = [child EXCEPT ![p] = "exit"] /\ UNCHANGED <<queue, sock, user>>
    /\ ParentUnchanged
    /\ UNCHANGED <<term, client, owner, freeing>>

Exit(p) ==
    /\ child[p] = "exit"
    /\ Dies(p)
    /\ ParentUnchanged
    /\ UNCHANGED <<term, client, owner, freeing>>

-----------------------------------------------------------------------------
(* guacd_user_thread, with guac_user_handle_connection in outline.         *)

Alive(c) == tgt[c] # None /\ child[tgt[c]] # "dead"

ConnectedUsers(p) == Cardinality({c \in Conns : tgt[c] = p /\ user[c] = "connected"})

UserJoins(c) ==
    /\ Alive(c) /\ user[c] = "handshake"
    /\ \/ user' = [user EXCEPT ![c] = "connected"]
       \/ user' = [user EXCEPT ![c] = "removed"]   \* the handshake failed
    /\ ParentUnchanged /\ UNCHANGED childVars

UserLeaves(c) ==
    /\ Alive(c) /\ user[c] = "connected"
    /\ user' = [user EXCEPT ![c] = "removed"]
    /\ ParentUnchanged /\ UNCHANGED childVars

UserThreadEnds(c) ==
    /\ Alive(c) /\ user[c] = "removed"
    /\ user' = [user EXCEPT ![c] = "end"]
    /\ IF ConnectedUsers(tgt[c]) = 0
       THEN ChildProcStop(tgt[c]) ELSE UNCHANGED <<client, sock>>
    /\ ParentUnchanged
    /\ UNCHANGED <<child, queue, term, owner, freeing>>

-----------------------------------------------------------------------------
(* guacd_connection_io_thread and guacd_connection_write_thread.           *)

IoUnchanged == UNCHANGED <<daemonVars, listLock, pc, tgt, mapVars, proc, childVars, user>>

PeerCloses(c) ==
    /\ peer[c] \in {"open", "sent"}
    /\ peer' = [peer EXCEPT ![c] = "closed"]
    /\ IoUnchanged /\ UNCHANGED <<io>>

(* The child's end of the pair is closed.                                  *)
FarEndClosed(c) == user[c] \in {"end", "lost"}

(* The peer sends something that can no longer be passed on.  Before that  *)
(* the write thread takes what it sends, which changes nothing here.       *)
PeerSends(c) ==
    /\ peer[c] = "open" /\ io[c] \in {"run", "join"}
    /\ FarEndClosed(c)
    /\ peer' = [peer EXCEPT ![c] = "sent"]
    /\ IoUnchanged /\ UNCHANGED io

(* Mutant: the end of the child does not end the transfer.                 *)
MutIoThreadEnds(c) ==
    /\ Up /\ io[c] = "run"
    /\ peer[c] = "closed"
    /\ io' = [io EXCEPT ![c] = "join"]
    /\ IoUnchanged /\ UNCHANGED peer

(* The I/O thread: read() returns nothing more, or the user's socket takes *)
(* nothing more.                                                           *)
IoThreadEnds(c) ==
    /\ Up /\ io[c] = "run"
    /\ FarEndClosed(c) \/ peer[c] = "closed"
    /\ io' = [io EXCEPT ![c] = "join"]
    /\ IoUnchanged /\ UNCHANGED peer

(* The write thread sits in guac_socket_read, which has no timeout.  It     *)
(* ends when the peer has closed, or when the peer has sent what cannot be *)
(* written any more.                                                       *)
WriterEnds(c) == peer[c] \in {"closed", "sent"}

(* The I/O thread joins it, and closes the socket and the descriptor.      *)
WriteThreadEnds(c) ==
    /\ Up /\ io[c] = "join"
    /\ WriterEnds(c)
    /\ io' = [io EXCEPT ![c] = "end"]
    /\ peer' = [peer EXCEPT ![c] = "closed"]
    /\ IoUnchanged

IoStep(c) == PeerCloses(c) \/ PeerSends(c) \/ IoThreadEnds(c) \/ WriteThreadEnds(c)

-----------------------------------------------------------------------------
ConnStep(c) ==
    \/ Select(c) \/ Retrieve(c) \/ CreateProc(c) \/ AddUser(c)
    \/ MapAddFind(c) \/ MapAddList(c) \/ WaitChild(c)
    \/ MapRemoveFind(c) \/ MapRemoveList(c) \/ ProcStop(c) \/ FreeProc(c)

ChildStep(p) ==
    \/ SetPgid(p) \/ LoadPlugin(p) \/ RecvFd(p) \/ RecvEnd(p)
    \/ StartFree(p) \/ TimedWaitEnds(p) \/ Reap(p) \/ Exit(p)

MainStep ==
    \/ LoadConfig \/ BindAddress \/ SetUpTls \/ Daemonize \/ Listen
    \/ LoopTest \/ EnterAccept \/ LockProcesses \/ ProcessStopped \/ MainReturns
    \/ \E p \in Conns : StopProcess(p)

Next ==
    \/ MainStep \/ StopSignal
    \/ \E c \in Conns :
          \/ Accept(c) \/ ConnStep(c) \/ ChildStep(c) \/ Signalled(c)
          \/ ClientFreed(c) \/ UserJoins(c) \/ UserLeaves(c) \/ UserThreadEnds(c)
          \/ IoStep(c)

Spec == Init /\ [][Next]_vars

(* Every thread runs.  A user is let go when the client stops or its peer  *)
(* is silent for GUACD_USEC_TIMEOUT, and a handshake ends the same way.    *)
(* The I/O thread is not kept in its write by a peer that does not read.   *)
(* Nothing makes a peer send or close, a user leave, guacd stop or the     *)
(* plugin's free end.                                                      *)
FairSpec ==
    /\ Spec /\ WF_vars(MainStep)
    /\ \A p \in Creators : WF_vars(ChildStep(p)) /\ WF_vars(Signalled(p))
    /\ \A c \in Conns :
          /\ WF_vars(ConnStep(c))
          /\ WF_vars(\/ UserJoins(c) \/ UserThreadEnds(c)
                     \/ UserLeaves(c) /\ (peer[c] = "closed" \/ client[tgt[c]] = "stopping"))
          /\ WF_vars(IoThreadEnds(c) \/ WriteThreadEnds(c))

-----------------------------------------------------------------------------
TypeOK ==
    /\ daemon \in {"load", "bind", "tls", "daemonize", "listen", "loop", "enter", "accept",
                  "lock", "foreach", "waitgroup", "exited"}
    /\ stopFlag \in BOOLEAN /\ visited \subseteq Conns /\ killing \in Conns \cup {None}
    /\ pc \in [Conns -> ConnPc] /\ tgt \in [Conns -> Conns \cup {None}]
    /\ bucketLock \in [Conns -> Conns \cup {None}]
    /\ listLock \in {"main", None}
    /\ bucket \subseteq Conns /\ processes \subseteq Conns
    /\ proc \in [Conns -> {"none", "valid", "freed"}]
    /\ child \in [Conns -> ChildPc]
    /\ queue \in [Conns -> Seq(Conns)]
    /\ sock \in [Conns -> {"open", "closed"}]
    /\ term \in [Conns -> BOOLEAN]
    /\ client \in [Conns -> {"none", "running", "stopping"}]
    /\ owner \in [Conns -> Conns \cup {None}]
    /\ freeing \in [Conns -> {"none", "run", "completed"}]
    /\ user \in [Conns -> UserPc]
    /\ io \in [Conns -> {"none", "run", "join", "end"}]
    /\ peer \in [Conns -> {"none", "open", "sent", "closed"}]

(* What the map gives out, by id or to the callback of the shutdown, is a  *)
(* record that guacd_route_connection has not freed, whatever the order in *)
(* which threads add and remove processes.                                 *)
MapSound == \A p \in bucket \cup processes : proc[p] = "valid"

(* The owner of a process is the user whose connection created it: no user *)
(* who joins by id gets its descriptor into the socket first, although the *)
(* child makes whoever comes first the owner.                              *)
OwnerIsCreator == \A p \in Conns : owner[p] \in {None, p}

(* A process that had users and has none left.                             *)
Abandoned(p) ==
    /\ owner[p] # None /\ queue[p] = <<>>
    /\ \A c \in Conns : tgt[c] = p => user[c] \in {"none", "end", "lost"}

(* A process all of whose users have left ends, and its entry leaves the   *)
(* map unless guacd itself is being stopped.                               *)
AbandonedIsRemoved ==
    \A p \in Conns :
        Abandoned(p) ~> child[p] = "dead" /\ (stopFlag \/ p \notin bucket \cup processes)

(* A user's socket and its descriptor are closed by the I/O thread, which   *)
(* waits for the write thread without a limit, once the peer has closed;   *)
(* or once the process is done with the user, or never got to see it, and  *)
(* the peer has sent something that nobody takes.                          *)
UserIsDisconnected ==
    \A c \in Conns : io[c] # "none" /\ WriterEnds(c) ~> io[c] = "end" \/ ~Up

(* The same without waiting for the peer.  The code does not do it: a      *)
(* silent peer stays connected to a process that is gone, with the two     *)
(* threads and both descriptors.                                           *)
SilentIsDisconnected ==
    \A c \in Conns : FarEndClosed(c) ~> io[c] = "end" \/ ~Up

(* guacd/proc.h on guacd_proc_stop: "This will eventually cause the child  *)
(* process to exit."                                                       *)
StopEndsProcess == \A p \in Conns : term[p] ~> child[p] = "dead"
=============================================================================
