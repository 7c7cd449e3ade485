----------------------------- MODULE GuacClient -----------------------------
(***************************************************************************)
(* The users of a connection inside its process: libguac/client.c,         *)
(* user-handshake.c, user.c and socket-broadcast.c.  A user's thread adds  *)
(* it to the list of pending users; a periodic timer gives the pending     *)
(* users the state of the display and moves them to the list of users; the *)
(* plugin's thread broadcasts to the users; guac_client_free empties both  *)
(* lists.  The lists are the pointers the code keeps, under the two        *)
(* reentrant locks __pending_users_lock and __users_lock.                  *)
(*                                                                         *)
(* A Guacamole instruction is written in two pieces, head and tail, with   *)
(* the lock of the user's socket held in between.                          *)
(***************************************************************************)
EXTENDS ReentrantLock, Integers, FiniteSets

CONSTANTS Users, Owner, Timers, NULL

ASSUME ClientConsts ==
    /\ Owner \in Users /\ IsFiniteSet(Users)
    /\ Users \cap Timers = {} /\ NULL \notin Users \cup Timers
    /\ {"cast", "free"} \cap (Users \cup Timers \cup {NULL}) = {}

VARIABLES
    upc,        \* guac_user_handle_connection of a user
    next, prev, \* guac_user.__next and __prev
    users, pending, \* heads of the lists
    connected,  \* connected_users
    owner,      \* __owner
    active,     \* guac_user.active
    state,      \* guac_client.state; "freed" once guac_client_free is done
    timer,      \* __pending_users_timer_state
    tpc,        \* invocations of the timer
    synced,     \* users the join pending handler has brought up to date
    pendingLock, usersLock,
    socketLock, \* holder of the instruction lock of a user's socket
    writing,    \* who is in the middle of an instruction on that socket
    bpc,        \* the plugin's broadcast
    fpc         \* guac_client_free

listVars == <<next, prev, users, pending, connected>>
lockVars == <<pendingLock, usersLock>>
socketVars == <<socketLock, writing>>
timerVars == <<timer, tpc, synced>>
vars == <<upc, listVars, owner, active, state, timerVars, lockVars, socketVars, bpc, fpc>>

Threads == Users \cup Timers \cup {"cast", "free"}
UserPc == {"start", "join", "add", "owner", "run", "own", "remove", "unlink", "leave", "end"}
TimerPc == {"idle", "begin", "handler", "splice", "release", "rearm"}

(* guac_client_alloc, guac_user_alloc *)
Init ==
    /\ upc = [u \in Users |-> "start"]
    /\ next = [u \in Users |-> NULL] /\ prev = [u \in Users |-> NULL]
    /\ users = NULL /\ pending = NULL /\ connected = 0 /\ owner = NULL
    /\ active = [u \in Users |-> TRUE] /\ state = "running"
    /\ timer = "unregistered" /\ tpc = [t \in Timers |-> "idle"] /\ synced = {}
    /\ pendingLock = NewLock(Threads) /\ usersLock = NewLock(Threads)
    /\ socketLock = [u \in Users |-> NULL] /\ writing = [u \in Users |-> NULL]
    /\ bpc = "idle" /\ fpc = "idle"

Goto(u, from, to) == upc[u] = from /\ upc' = [upc EXCEPT ![u] = to]
TimerGoto(t, from, to) == tpc[t] = from /\ tpc' = [tpc EXCEPT ![t] = to]

(* The users of a list, as a walk along __next finds them: the least set  *)
(* that has the head and, with a user, the one its link leads to.          *)
HeadAndLinks(links, head, S) ==
    head \in S \cup {NULL} /\ \A u \in S : links[u] \in S \cup {NULL}
ReachBy(links, head) ==
    {u \in Users : \A S \in SUBSET Users : HeadAndLinks(links, head, S) => u \in S}
Reach(head) == ReachBy(next, head)

-----------------------------------------------------------------------------
(* The pieces of an instruction on a user's socket.                        *)

WriteHead(receivers, t) == writing' = [u \in Users |-> IF u \in receivers THEN t ELSE writing[u]]
WriteTail(receivers) == WriteHead(receivers, NULL)

(* A user's own thread sends an instruction: an acknowledgement, an error. *)
OwnBegin(u) ==
    /\ state # "freed" /\ Goto(u, "run", "own")
    /\ socketLock[u] = NULL /\ socketLock' = [socketLock EXCEPT ![u] = u]
    /\ WriteHead({u}, u)
    /\ UNCHANGED <<listVars, owner, active, state, timerVars, lockVars, bpc, fpc>>

OwnEnd(u) ==
    /\ state # "freed" /\ Goto(u, "own", "run")
    /\ socketLock' = [socketLock EXCEPT ![u] = NULL]
    /\ WriteTail({u})
    /\ UNCHANGED <<listVars, owner, active, state, timerVars, lockVars, bpc, fpc>>

-----------------------------------------------------------------------------
(* guac_user_handle_connection, from the end of the handshake.             *)

(* guac_client_start_pending_users_timer, once per client.                 *)
StartTimer(u) ==
    /\ state # "freed"
    /\ \/ timer = "unregistered" /\ timer' = "registered" /\ Goto(u, "start", "join")
       \/ timer = "unregistered" /\ UNCHANGED timer /\ Goto(u, "start", "end")
       \/ timer # "unregistered" /\ UNCHANGED timer /\ Goto(u, "start", "join")
    /\ UNCHANGED <<listVars, owner, active, state, tpc, synced, lockVars, socketVars, bpc, fpc>>

(* The plugin's join_handler may refuse the user.                          *)
JoinHandler(u) ==
    /\ state # "freed"
    /\ Goto(u, "join", "add") \/ Goto(u, "join", "end")
    /\ UNCHANGED <<listVars, owner, active, state, timerVars, lockVars, socketVars, bpc, fpc>>

(* guac_client_add_pending_user *)
AddPending(u) ==
    /\ state # "freed" /\ Goto(u, "add", "owner")
    /\ CanWrite(pendingLock, u)
    /\ prev' = [v \in Users |-> IF v = u THEN NULL ELSE IF v = pending THEN u ELSE prev[v]]
    /\ next' = [next EXCEPT ![u] = pending]
    /\ pending' = u
    /\ connected' = connected + 1
    /\ UNCHANGED <<users, owner, active, state, timerVars, lockVars, socketVars, bpc, fpc>>

(* The message to the owner, if there is one: one instruction, written     *)
(* under the read lock of the users and the lock of the owner's socket.    *)
NotifyOwner(u) ==
    /\ CanRead(usersLock, u)
    /\ owner # NULL => socketLock[owner] = NULL

(* __owner is set without a lock; any other user is announced to it.       *)
SetOwner(u) ==
    /\ state # "freed" /\ Goto(u, "owner", "run")
    /\ IF u = Owner
       THEN owner' = u
       ELSE UNCHANGED owner /\ NotifyOwner(u)
    /\ UNCHANGED <<listVars, active, state, timerVars, lockVars, socketVars, bpc, fpc>>

(* guac_user_stop, on whatever grounds; guac_client_stop.                  *)
StopUser(u) ==
    /\ state # "freed" /\ active[u] /\ upc[u] = "run"
    /\ active' = [active EXCEPT ![u] = FALSE]
    /\ UNCHANGED <<upc, listVars, owner, state, timerVars, lockVars, socketVars, bpc, fpc>>

StopClient ==
    /\ state = "running" /\ state' = "stopping"
    /\ UNCHANGED <<upc, listVars, owner, active, timerVars, lockVars, socketVars, bpc, fpc>>

(* The input thread of the user ends and guac_user_start joins it.         *)
InputEnds(u) ==
    /\ state # "freed" /\ Goto(u, "run", "remove")
    /\ ~active[u] \/ state = "stopping"
    /\ UNCHANGED <<listVars, owner, active, state, timerVars, lockVars, socketVars, bpc, fpc>>

(* guac_client_remove_user takes both locks, pending users first, ...      *)
RemoveBegin(u) ==
    /\ state # "freed" /\ Goto(u, "remove", "unlink")
    /\ CanWrite(pendingLock, u)
    /\ pendingLock' = AcquireWrite(pendingLock, u)
    /\ UNCHANGED <<listVars, owner, active, state, timerVars, usersLock, socketVars, bpc, fpc>>

(* Mutant: the head of the pending list is forgotten.                      *)
MutUnlink(u) ==
    /\ next' = IF prev[u] = NULL THEN next ELSE [next EXCEPT ![prev[u]] = next[u]]
    /\ prev' = IF next[u] = NULL THEN prev ELSE [prev EXCEPT ![next[u]] = prev[u]]
    /\ users' = IF prev[u] = NULL THEN next[u] ELSE users
    /\ UNCHANGED pending
    /\ connected' = connected - 1

(* ... unlinks the user from whichever list it is on, ...                  *)
Unlink(u) ==
    /\ next' = IF prev[u] = NULL THEN next ELSE [next EXCEPT ![prev[u]] = next[u]]
    /\ prev' = IF next[u] = NULL THEN prev ELSE [prev EXCEPT ![next[u]] = prev[u]]
    /\ users' = IF prev[u] = NULL /\ users = u THEN next[u] ELSE users
    /\ pending' = IF prev[u] = NULL /\ users # u /\ pending = u THEN next[u] ELSE pending
    /\ connected' = connected - 1

RemoveUnlink(u) ==
    /\ state # "freed" /\ Goto(u, "unlink", "leave")
    /\ CanWrite(usersLock, u)
    /\ Unlink(u)
    /\ owner' = IF u = Owner THEN NULL ELSE owner
    /\ pendingLock' = Release(pendingLock, u)
    /\ UNCHANGED <<active, state, timerVars, usersLock, socketVars, bpc, fpc>>

(* ... and tells the owner.                                                *)
RemoveLeave(u) ==
    /\ state # "freed" /\ Goto(u, "leave", "end")
    /\ u # Owner => NotifyOwner(u)
    /\ UNCHANGED <<listVars, owner, active, state, timerVars, lockVars, socketVars, bpc, fpc>>

-----------------------------------------------------------------------------
(* guac_client_promote_pending_users, which the timer starts in a thread   *)
(* of its own every 250 ms.                                                *)

(* Mutant: the state of the timer is not tested.                           *)
MutTimerFires(t) ==
    /\ state # "freed" /\ timer # "unregistered"
    /\ TimerGoto(t, "idle", "begin")
    /\ timer' = "triggered"
    /\ UNCHANGED <<upc, listVars, owner, active, state, synced, lockVars, socketVars, bpc, fpc>>

TimerFires(t) ==
    /\ state # "freed" /\ timer # "unregistered"
    /\ TimerGoto(t, "idle", IF timer = "triggered" THEN "idle" ELSE "begin")
    /\ timer' = "triggered"
    /\ UNCHANGED <<upc, listVars, owner, active, state, synced, lockVars, socketVars, bpc, fpc>>

PromoteBegin(t) ==
    /\ state # "freed"
    /\ TimerGoto(t, "begin", IF pending = NULL THEN "release" ELSE "handler")
    /\ CanWrite(pendingLock, t)
    /\ pendingLock' = AcquireWrite(pendingLock, t)
    /\ UNCHANGED <<upc, listVars, owner, active, state, timer, synced, usersLock, socketVars, bpc, fpc>>

(* Mutant: a failed join_pending_handler does not keep users pending.      *)
MutPromoteHandler(t) ==
    /\ state # "freed"
    /\ TimerGoto(t, "handler", "splice") /\ (synced' = synced \cup Reach(pending) \/ UNCHANGED synced)
    /\ UNCHANGED <<upc, listVars, owner, active, state, timer, lockVars, socketVars, bpc, fpc>>

(* The plugin's join_pending_handler writes to the pending users.          *)
PromoteHandler(t) ==
    /\ state # "freed"
    /\ \/ TimerGoto(t, "handler", "splice") /\ synced' = synced \cup Reach(pending)
       \/ TimerGoto(t, "handler", "release") /\ UNCHANGED synced
    /\ UNCHANGED <<upc, listVars, owner, active, state, timer, lockVars, socketVars, bpc, fpc>>

PromoteSplice(t) ==
    /\ state # "freed" /\ TimerGoto(t, "splice", "release")
    /\ CanWrite(usersLock, t)
    /\ LET last == CHOOSE u \in Reach(pending) : next[u] = NULL IN
       /\ prev' = IF users = NULL THEN prev ELSE [prev EXCEPT ![users] = last]
       /\ next' = [next EXCEPT ![last] = users]
       /\ users' = pending
       /\ pending' = NULL
    /\ UNCHANGED <<upc, connected, owner, active, state, timer, synced, lockVars, socketVars, bpc, fpc>>

PromoteRelease(t) ==
    /\ state # "freed" /\ TimerGoto(t, "release", "rearm")
    /\ pendingLock' = Release(pendingLock, t)
    /\ UNCHANGED <<upc, listVars, owner, active, state, timer, synced, usersLock, socketVars, bpc, fpc>>

PromoteRearm(t) ==
    /\ state # "freed" /\ TimerGoto(t, "rearm", "idle")
    /\ timer' = "registered"
    /\ UNCHANGED <<upc, listVars, owner, active, state, synced, lockVars, socketVars, bpc, fpc>>

-----------------------------------------------------------------------------
(* An instruction on client->socket: every handler of the broadcast socket *)
(* visits the users anew, under the read lock of the list.                 *)

BroadcastStep(from, to) ==
    /\ state # "freed" /\ bpc = from /\ bpc' = to
    /\ CanRead(usersLock, "cast")
    /\ UNCHANGED <<upc, listVars, owner, state, timerVars, lockVars, fpc>>

(* __guac_socket_broadcast_lock_handler waits for each socket.             *)
BroadcastLock ==
    /\ BroadcastStep("idle", "head")
    /\ \A u \in Reach(users) : socketLock[u] = NULL
    /\ socketLock' = [u \in Users |-> IF u \in Reach(users) THEN "cast" ELSE socketLock[u]]
    /\ UNCHANGED <<active, writing>>

(* __guac_socket_broadcast_write_handler; a user that cannot be written to *)
(* is stopped.                                                             *)
BroadcastHead ==
    /\ BroadcastStep("head", "tail")
    /\ WriteHead(Reach(users), "cast")
    /\ \E failed \in SUBSET Reach(users) :
          active' = [u \in Users |-> active[u] /\ u \notin failed]
    /\ UNCHANGED socketLock

BroadcastTail ==
    /\ BroadcastStep("tail", "unlock")
    /\ WriteTail(Reach(users))
    /\ UNCHANGED <<active, socketLock>>

(* __guac_socket_broadcast_unlock_handler releases the lock of every user  *)
(* it finds, whoever holds it.                                             *)
BroadcastUnlock ==
    /\ BroadcastStep("unlock", "idle")
    /\ socketLock' = [u \in Users |-> IF u \in Reach(users) THEN NULL ELSE socketLock[u]]
    /\ UNCHANGED <<active, writing>>

-----------------------------------------------------------------------------
(* guac_client_free, after guac_client_stop.  What user threads and the    *)
(* timer do to a freed client is not modelled: the process exits then.     *)

FreeBegin ==
    /\ state = "stopping" /\ fpc = "idle" /\ fpc' = "locked"
    /\ CanWrite(pendingLock, "free")
    /\ pendingLock' = AcquireWrite(pendingLock, "free")
    /\ UNCHANGED <<upc, listVars, owner, active, state, timerVars, usersLock, socketVars, bpc>>

FreeLockUsers ==
    /\ fpc = "locked" /\ fpc' = "removing"
    /\ CanWrite(usersLock, "free")
    /\ usersLock' = AcquireWrite(usersLock, "free")
    /\ UNCHANGED <<upc, listVars, owner, active, state, timerVars, pendingLock, socketVars, bpc>>

(* guac_client_remove_user of the first of the pending users, then of the  *)
(* others, with the locks already held.                                    *)
FreeRemove ==
    /\ fpc = "removing" /\ (pending # NULL \/ users # NULL)
    /\ LET u == IF pending # NULL THEN pending ELSE users IN
       /\ Unlink(u)
       /\ owner' = IF u = Owner THEN NULL ELSE owner
       /\ u # Owner /\ owner # NULL => socketLock[owner] = NULL
    /\ UNCHANGED <<upc, active, state, timerVars, lockVars, socketVars, bpc, fpc>>

FreeDone ==
    /\ fpc = "removing" /\ pending = NULL /\ users = NULL /\ fpc' = "done"
    /\ state' = "freed"
    /\ usersLock' = Release(usersLock, "free")
    /\ pendingLock' = Release(pendingLock, "free")
    /\ UNCHANGED <<upc, listVars, owner, active, timerVars, socketVars, bpc>>

-----------------------------------------------------------------------------
UserStep(u) ==
    \/ StartTimer(u) \/ JoinHandler(u) \/ AddPending(u) \/ SetOwner(u) \/ InputEnds(u)
    \/ OwnEnd(u) \/ RemoveBegin(u) \/ RemoveUnlink(u) \/ RemoveLeave(u)

PromoteStep(t) ==
    \/ PromoteBegin(t) \/ PromoteHandler(t) \/ PromoteSplice(t) \/ PromoteRelease(t)
    \/ PromoteRearm(t)

BroadcastGoesOn == BroadcastHead \/ BroadcastTail \/ BroadcastUnlock

FreeStep == FreeBegin \/ FreeLockUsers \/ FreeRemove \/ FreeDone

Next ==
    \/ \E u \in Users : UserStep(u) \/ OwnBegin(u) \/ StopUser(u)
    \/ \E t \in Timers : TimerFires(t) \/ PromoteStep(t)
    \/ StopClient \/ BroadcastLock \/ BroadcastGoesOn \/ FreeStep

Spec == Init /\ [][Next]_vars

-----------------------------------------------------------------------------
TypeOK ==
    /\ upc \in [Users -> UserPc] /\ tpc \in [Timers -> TimerPc]
    /\ next \in [Users -> Users \cup {NULL}] /\ prev \in [Users -> Users \cup {NULL}]
    /\ {users, pending, owner} \subseteq Users \cup {NULL}
    /\ connected \in Int
    /\ active \in [Users -> BOOLEAN] /\ state \in {"running", "stopping", "freed"}
    /\ timer \in {"unregistered", "registered", "triggered"}
    /\ synced \subseteq Users 
    /\ pendingLock \in [Threads -> [flag : Flags, count : Nat]]
    /\ usersLock \in [Threads -> [flag : Flags, count : Nat]]
    /\ socketLock \in [Users -> Threads \cup {NULL}]
    /\ writing \in [Users -> Threads \cup {NULL}]
    /\ bpc \in {"idle", "head", "tail", "unlock"}
    /\ fpc \in {"idle", "locked", "removing", "done"}

(* Users whose thread has added them and not yet removed them.             *)
Present == {u \in Users : upc[u] \in {"owner", "run", "own", "remove", "unlink"}}

(* Each pointer of a user on a list leads to its neighbour and back.       *)
WellLinked(head) ==
    /\ head # NULL => prev[head] = NULL
    /\ \A u \in Reach(head) : next[u] # NULL => prev[next[u]] = u

(* client.c: the lock is held "to ensure that all users are always on      *)
(* exactly one of these lists".  However users join, leave and are         *)
(* promoted, every user that is present is on one list and not on both,    *)
(* nobody else is, the links are sound and connected_users counts them.    *)
OnOneList ==
    fpc \in {"idle", "locked"} =>
        /\ WellLinked(users) /\ WellLinked(pending)
        /\ Reach(users) \cap Reach(pending) = {}
        /\ Reach(users) \cup Reach(pending) = Present
        /\ connected = Cardinality(Present)

(* Nobody gets a broadcast of what changes on the display before the join  *)
(* pending handler has sent it what is there.                              *)
PromotedSynced == Reach(users) \subseteq synced

(* One promotion at a time, although the timer does not wait for the last. *)
OnePromotion ==
    \A s, t \in Timers : tpc[s] # "idle" /\ tpc[t] # "idle" => s = t

(* socket-broadcast.c: the locks are acquired "to ensure that parallel     *)
(* writes are only interleaved at instruction boundaries": whoever is in   *)
(* the middle of an instruction to a user is the last that wrote to it.    *)
WholeInstructions ==
    /\ bpc = "tail" => \A u \in Reach(users) : writing[u] = "cast"
    /\ \A u \in Users : upc[u] = "own" => writing[u] = u
=============================================================================
